---------------------------- MODULE ExprBuilder -----------------------------
(***************************************************************************)
(* The visitors of IRBuilder.cpp that produce values: declarations with    *)
(* their initializers, assignments, expressions, conditions and calls.     *)
(* They speak to each other through the file-level variables tmp_val,      *)
(* require_lvalue, var_type and init_val.                                  *)
(*                                                                         *)
(* A unit is a sequence of global declarations and one function whose body *)
(* is straight-line code; IRBuilder.tla has the control flow, and where an *)
(* alloca goes.  Nodes are those ExprMeaning interprets; the recursion is  *)
(* an agenda of tasks.                                                     *)
(* Instructions are appended to code and stand for the value they compute  *)
(* by their place in it.                                                   *)
(***************************************************************************)
EXTENDS Arithmetic, SequencesExt

CONSTANTS Units,   \* the units considered
          NULL     \* the null pointer

ASSUME UnitAssumption == \A u \in Units : {"globals", "ret", "params", "body"} \subseteq DOMAIN u

VARIABLES
  unit, agenda,
  scope,           \* Scope::name2var: name -> value, one function per level
  globals,         \* the module's GlobalVariables
  code,            \* the instructions of the function
  tmp_val, require_lvalue, var_type, init_val, local2global,
  ret_addr,
  fault            \* what stopped the compiler, if anything did

moduleVars == <<scope, globals, local2global>>
stateVars == <<tmp_val, require_lvalue, var_type, init_val>>
vars == <<unit, agenda, moduleVars, code, stateVars, ret_addr, fault>>

(* Types. *)
VOID_T == <<"void">>  INT1_T == <<"i1">>  INT32_T == <<"i32">>  FLOAT_T == <<"float">>
PointerTo(t) == <<"ptr", t>>
ArrayOf(t, n) == <<"array", t, n>>
is_integer_type(t) == t \in {INT1_T, INT32_T}
Pointee(val) == val.type[2]
TypeOf(name) == CASE name = "int" -> INT32_T [] name = "float" -> FLOAT_T [] name = "void" -> VOID_T
ParameterType(name) == IF name = "array" THEN PointerTo(INT32_T) ELSE TypeOf(name)

(* Values. *)
Const(t, n) == [v |-> "const", type |-> t, val |-> n]
CONST_INT(n) == Const(INT32_T, n)
CONST_FLOAT(n) == Const(FLOAT_T, n)
Zero(t) == Const(t, 0)
IsConst(val) == val # NULL /\ val.v = "const"
IsConstInt(val) == IsConst(val) /\ val.type = INT32_T
IsConstFloat(val) == IsConst(val) /\ val.type = FLOAT_T

(* A constant of one type as a constant of the other. *)
FoldTo(t, val) ==
  IF t = INT32_T /\ IsConstFloat(val) THEN CONST_INT(ToInt(val.val))
  ELSE IF t = FLOAT_T /\ IsConstInt(val) THEN CONST_FLOAT(ToFloat(val.val))
  ELSE val

(***************************************************************************)
(* Instructions.  New(k, t) is the k-th instruction a step appends.        *)
(***************************************************************************)
Instr(op, args, type) == [op |-> op, args |-> args, type |-> type]
New(k, type) == [v |-> "instr", at |-> Len(code) + k, type |-> type]

(* BinaryInst::create_add and the others; CmpInst, FCmpInst. *)
IntType(op, v2) == IF op = "+" THEN v2.type ELSE INT32_T
Binary(op, both_int, l, r) ==
  IF both_int THEN Instr(<<"int", op>>, <<l, r>>, IntType(op, r))
  ELSE Instr(<<"float", op>>, <<l, r>>, FLOAT_T)
Compare(op, both_int, l, r) == Instr(<<IF both_int THEN "icmp" ELSE "fcmp", op>>, <<l, r>>, INT1_T)
Load(ptr) == Instr(<<"load">>, <<ptr>>, Pointee(ptr))
StoreTo(val, ptr) == Instr(<<"store">>, <<val, ptr>>, VOID_T)
Alloca(t) == Instr(<<"alloca">>, <<>>, PointerTo(t))

(* GetElementPtrInst: an array takes a leading zero index. *)
Gep(ptr, idxs) ==
  Instr(<<"gep">>, <<ptr>> \o idxs,
        PointerTo(IF Pointee(ptr)[1] = "array" THEN Pointee(ptr)[2] ELSE Pointee(ptr)))

(* The instruction, if any, that makes val fit type t. *)
Casts(val, t) ==
  IF is_integer_type(t) /\ val.type = FLOAT_T THEN <<Instr(<<"fptosi">>, <<val>>, INT32_T)>>
  ELSE IF t = FLOAT_T /\ is_integer_type(val.type) THEN <<Instr(<<"sitofp">>, <<val>>, FLOAT_T)>>
  ELSE <<>>
Cast(val, t) == IF Casts(val, t) = <<>> THEN val ELSE New(1, Last(Casts(val, t)).type)

(* Faulty: only the left operand is converted.                             *)
match_type_LeftOnly(l, r) ==
  LET same == l.type = r.type IN
  [lhs |-> IF same THEN l ELSE Cast(l, FLOAT_T), rhs |-> r,
   casts |-> IF same THEN <<>> ELSE Casts(l, FLOAT_T),
   both_int |-> same /\ is_integer_type(l.type)]

(* match_type: two operands of different types meet as floats.             *)
match_type(l, r) ==
  LET same == l.type = r.type
      left == is_integer_type(l.type)
  IN [lhs |-> IF ~ same /\ left THEN Cast(l, FLOAT_T) ELSE l,
      rhs |-> IF ~ same /\ ~ left THEN Cast(r, FLOAT_T) ELSE r,
      casts |-> IF same THEN <<>> ELSE IF left THEN Casts(l, FLOAT_T) ELSE Casts(r, FLOAT_T),
      both_int |-> same /\ left]

(***************************************************************************)
(* Tasks and scopes                                                        *)
(***************************************************************************)
Visit(n) == [task |-> "visit", node |-> n]
Visits(nodes) == [j \in 1 .. Len(nodes) |-> Visit(nodes[j])]
Doing(t) == agenda # <<>> /\ Last(agenda).task = t
Visiting(kind) == Doing("visit") /\ Last(agenda).node.k = kind
Frame == Last(agenda)
Node == Last(agenda).node
After(t) == [task |-> t, node |-> Node]
Calls(tasks) == agenda' = Front(agenda) \o Reverse(tasks)
Return == agenda' = Front(agenda)

Crash(what) == fault' = what /\ agenda' = <<>>

in_global == Len(scope) = 1
Levels(key) == {d \in DOMAIN scope : key \in DOMAIN scope[d]}
find(key) ==
  IF Levels(key) = {} THEN NULL
  ELSE scope[CHOOSE d \in Levels(key) : \A e \in Levels(key) : e <= d][key]
Insert(level, key, val) ==
  [m \in DOMAIN level \cup {key} |-> IF m \in DOMAIN level THEN level[m] ELSE val]
push(key, val) == scope' = [scope EXCEPT ![Len(scope)] = Insert(@, key, val)]

Global(key, id, t, const, init) ==
  [v |-> "global", key |-> key, id |-> id, type |-> PointerTo(t), const |-> const, init |-> init]

-----------------------------------------------------------------------------
(* The builder is constructed with one scope, the global one.              *)
Init ==
  /\ unit \in Units
  /\ agenda = <<Visit([k |-> "func"])>> \o Reverse(Visits(unit.globals))
  /\ scope = <<[key \in {} |-> NULL]>> /\ globals = <<>> /\ code = <<>>
  /\ tmp_val = NULL /\ require_lvalue = FALSE /\ var_type = VOID_T /\ init_val = <<>>
  /\ local2global = {}
  /\ ret_addr = NULL /\ fault = "none"

(***************************************************************************)
(* Function                                                                *)
(***************************************************************************)
(* The slot of the return value, then each parameter into a slot.          *)
VisitFuncDef ==
  LET slot == IF unit.ret = "void" THEN <<>> ELSE <<Alloca(TypeOf(unit.ret))>>
      types == [j \in DOMAIN unit.params |->
                  IF unit.params[j].array THEN PointerTo(TypeOf(unit.params[j].type))
                  ELSE TypeOf(unit.params[j].type)]
      place(j) == New(Len(slot) + 2 * j - 1, PointerTo(types[j]))
      arg(j) == [v |-> "arg", type |-> types[j], val |-> unit.params[j].arg]
      js == [j \in DOMAIN types |-> j]
  IN /\ Visiting("func")
     /\ code' = code \o slot \o
          FlattenSeq([j \in DOMAIN types |-> <<Alloca(types[j]), StoreTo(arg(j), place(j))>>])
     /\ ret_addr' = IF slot = <<>> THEN ret_addr ELSE New(1, slot[1].type)
     /\ scope' = Append(scope, FoldLeft(LAMBDA m, j : Insert(m, <<unit.params[j].name>>, place(j)),
                                        [key \in {} |-> NULL], js))
     /\ Calls(Visits(unit.body) \o <<After("end")>>)
     /\ UNCHANGED <<unit, globals, local2global, stateVars, fault>>

(* A function that does not end in a return returns zero.                  *)
EndFuncDef ==
  LET void == unit.ret = "void"
      t == TypeOf(unit.ret)
      open == code = <<>> \/ Last(code).op # <<"br">>
      fall == IF ~ open THEN <<>> ELSE IF void THEN <<Instr(<<"br">>, <<>>, VOID_T)>>
              ELSE <<StoreTo(Zero(t), ret_addr), Instr(<<"br">>, <<>>, VOID_T)>>
      ret == IF void THEN <<Instr(<<"ret">>, <<>>, VOID_T)>>
             ELSE <<Load(ret_addr), Instr(<<"ret">>, <<New(Len(fall) + 1, t)>>, VOID_T)>>
  IN /\ Doing("end")
     /\ code' = code \o fall \o ret
     /\ scope' = Front(scope)
     /\ Return
     /\ UNCHANGED <<unit, globals, local2global, stateVars, ret_addr, fault>>

(***************************************************************************)
(* Declarations                                                            *)
(***************************************************************************)
Inits(n) == Visits([j \in DOMAIN n.init |-> [k |-> "init", expr |-> n.init[j]]])

(* A local variable that is not constant gets its slot before the          *)
(* initializer is visited, all others are made after it.                   *)
VisitVarDef ==
  /\ Visiting("decl")
  /\ var_type' = TypeOf(Node.type)
  /\ LET slot == IF Node.const \/ in_global \/ Node.length # <<>> THEN <<>> ELSE <<Alloca(var_type')>>
         var == IF slot = <<>> THEN NULL ELSE New(1, slot[1].type)
     IN /\ code' = code \o slot
        /\ Calls(IF Node.length # <<>> THEN <<Visit(Node.length[1]), After("length")>>
                 ELSE Inits(Node) \o <<[task |-> "scalar", node |-> Node, var |-> var]>>)
  /\ UNCHANGED <<unit, moduleVars, tmp_val, require_lvalue, init_val, ret_addr, fault>>

VisitInitVal ==
  /\ Visiting("init")
  /\ Calls(<<Visit(Node.expr), [task |-> "element"]>>)
  /\ UNCHANGED <<unit, moduleVars, code, stateVars, ret_addr, fault>>

(* Faulty: what is recorded need not be a constant.                        *)
EndInitVal_AnyValue ==
  /\ Doing("element")
  /\ tmp_val' = FoldTo(var_type, tmp_val)
  /\ init_val' = Append(init_val, tmp_val')
  /\ Return
  /\ UNCHANGED <<unit, moduleVars, code, require_lvalue, var_type, ret_addr, fault>>

(* What is no constant becomes null in init_val.                           *)
EndInitVal ==
  /\ Doing("element")
  /\ tmp_val' = FoldTo(var_type, tmp_val)
  /\ init_val' = Append(init_val, IF IsConst(tmp_val') THEN tmp_val' ELSE NULL)
  /\ Return
  /\ UNCHANGED <<unit, moduleVars, code, require_lvalue, var_type, ret_addr, fault>>

(* A constant scalar is its value, and needs no storage.                   *)
DefineConst ==
  /\ Doing("scalar") /\ Node.const
  /\ tmp_val' = FoldTo(var_type, tmp_val)
  /\ IF IsConst(tmp_val')
       THEN push(<<Node.name>>, tmp_val') /\ Return /\ UNCHANGED fault
       ELSE Crash("no constant") /\ UNCHANGED scope
  /\ UNCHANGED <<unit, globals, local2global, code, require_lvalue, var_type, init_val, ret_addr>>

DefineGlobal ==
  /\ Doing("scalar") /\ ~ Node.const /\ in_global
  /\ tmp_val' = IF Node.init = <<>> THEN tmp_val ELSE FoldTo(var_type, tmp_val)
  /\ LET g == Global(<<Node.name>>, Node.id, var_type, FALSE,
                     IF Node.init = <<>> THEN <<Zero(var_type)>> ELSE <<tmp_val'>>)
     IN globals' = Append(globals, g) /\ push(<<Node.name>>, g)
  /\ Return
  /\ UNCHANGED <<unit, local2global, code, require_lvalue, var_type, init_val, ret_addr, fault>>

DefineLocal ==
  LET t == Pointee(Frame.var)
      cast == Cast(tmp_val, t)
  IN /\ Doing("scalar") /\ ~ Node.const /\ ~ in_global
     /\ IF Node.init = <<>> THEN UNCHANGED <<code, tmp_val>>
        ELSE /\ code' = code \o Casts(tmp_val, t) \o <<StoreTo(cast, Frame.var)>>
             /\ tmp_val' = cast
     /\ push(<<Node.name>>, Frame.var)
     /\ Return
     /\ UNCHANGED <<unit, globals, local2global, require_lvalue, var_type, init_val, ret_addr, fault>>

(* Arrays, whose length is a constant expression of its own.  Again only a *)
(* local one that is not constant has its slot already.                    *)
EndLength ==
  /\ Doing("length")
  /\ IF ~ IsConstInt(tmp_val) THEN Crash("no constant") /\ UNCHANGED <<code, init_val>>
     ELSE LET slot == IF Node.const \/ in_global THEN <<>> ELSE <<Alloca(ArrayOf(var_type, tmp_val.val))>>
              var == IF slot = <<>> THEN NULL ELSE New(1, slot[1].type)
          IN /\ code' = code \o slot
             /\ init_val' = IF Node.inited THEN <<>> ELSE init_val
             /\ Calls(Inits(Node) \o
                      <<[task |-> "array", node |-> Node, var |-> var, length |-> tmp_val.val]>>)
             /\ UNCHANGED fault
  /\ UNCHANGED <<unit, moduleVars, tmp_val, require_lvalue, var_type, ret_addr>>

(* init_val filled up with zeros. *)
Padded == init_val \o [j \in 1 .. Frame.length - Len(init_val) |-> Zero(var_type)]

DefineGlobalArray ==
  /\ Doing("array") /\ in_global
  /\ init_val' = IF Node.inited THEN Padded ELSE init_val
  /\ LET g == Global(<<Node.name>>, Node.id, ArrayOf(var_type, Frame.length), Node.const,
                     IF Node.inited THEN Padded ELSE [j \in 1 .. Frame.length |-> Zero(var_type)])
     IN globals' = Append(globals, g) /\ push(<<Node.name>>, g)
  /\ Return
  /\ UNCHANGED <<unit, local2global, code, tmp_val, require_lvalue, var_type, ret_addr, fault>>

(* One address and one store per element, from the k-th new instruction on.*)
StoreElements(k, var) ==
  FlattenSeq([j \in DOMAIN Padded |->
    <<Gep(var, <<CONST_INT(0), CONST_INT(j - 1)>>),
      StoreTo(Padded[j], New(k + 2 * j - 2, PointerTo(var_type)))>>])

DefineLocalArray ==
  /\ Doing("array") /\ ~ in_global /\ ~ Node.const
  /\ IF Node.inited /\ NULL \in ToSet(init_val) THEN Crash("null operand") /\ UNCHANGED <<scope, code>>
     ELSE /\ code' = code \o IF Node.inited THEN StoreElements(1, Frame.var) ELSE <<>>
          /\ push(<<Node.name>>, Frame.var)
          /\ Return /\ UNCHANGED fault
  /\ UNCHANGED <<unit, globals, local2global, stateVars, ret_addr>>

(* A constant array is an array in the function and a global constant,     *)
(* named after function and array, with a number when a scope in sight has *)
(* the name already.                                                       *)
DefineLocalConstArray ==
  LET t == ArrayOf(var_type, Frame.length)
      var == New(1, PointerTo(t))
      suffix == CHOOSE n \in 0 .. Len(scope) :
                  find(<<Node.name, n>>) = NULL /\ \A m \in 0 .. n - 1 : find(<<Node.name, m>>) # NULL
      g == Global(<<Node.name, suffix>>, Node.id, t, TRUE, Padded)
  IN /\ Doing("array") /\ ~ in_global /\ Node.const
     /\ IF NULL \in ToSet(init_val)
          THEN Crash("null operand") /\ UNCHANGED <<scope, globals, local2global, code, init_val>>
          ELSE /\ code' = code \o <<Alloca(t)>> \o StoreElements(2, var)
               /\ init_val' = Padded
               /\ globals' = Append(globals, g)
               /\ scope' = [scope EXCEPT ![Len(scope)] = Insert(Insert(@, <<Node.name>>, var), g.key, g)]
               /\ local2global' = local2global \cup {<<var, g>>}
               /\ Return /\ UNCHANGED fault
     /\ UNCHANGED <<unit, tmp_val, require_lvalue, var_type, ret_addr>>

(***************************************************************************)
(* Statements                                                              *)
(***************************************************************************)
VisitBlock ==
  /\ Visiting("block")
  /\ scope' = Append(scope, [key \in {} |-> NULL])
  /\ Calls(Visits(Node.body) \o <<[task |-> "exit"]>>)
  /\ UNCHANGED <<unit, globals, local2global, code, stateVars, ret_addr, fault>>

ExitScope ==
  /\ Doing("exit")
  /\ scope' = Front(scope)
  /\ Return
  /\ UNCHANGED <<unit, globals, local2global, code, stateVars, ret_addr, fault>>

(* The value comes first; the flag says that the target is to be left as   *)
(* an address.                                                             *)
VisitAssignStmt ==
  /\ Visiting("assign")
  /\ Calls(<<Visit(Node.value), After("target")>>)
  /\ UNCHANGED <<unit, moduleVars, code, stateVars, ret_addr, fault>>

AssignTarget ==
  /\ Doing("target")
  /\ require_lvalue' = TRUE
  /\ Calls(<<Visit(Node.target), [task |-> "assign", result |-> tmp_val]>>)
  /\ UNCHANGED <<unit, moduleVars, code, tmp_val, var_type, init_val, ret_addr, fault>>

EndAssignStmt ==
  LET t == Pointee(tmp_val)
      result == Cast(Frame.result, t)
  IN /\ Doing("assign")
     /\ code' = code \o Casts(Frame.result, t) \o <<StoreTo(result, tmp_val)>>
     /\ tmp_val' = result
     /\ Return
     /\ UNCHANGED <<unit, moduleVars, require_lvalue, var_type, init_val, ret_addr, fault>>

Br == Instr(<<"br">>, <<>>, VOID_T)
(* The statements that follow are skipped, the scopes around are left.     *)
Leave == agenda' = SelectSeq(agenda, LAMBDA t : t.task \in {"exit", "end"})

VisitReturnStmt ==
  /\ Visiting("ret")
  /\ IF Node.value = <<>> THEN code' = Append(code, Br) /\ Leave
     ELSE Calls(<<Visit(Node.value[1]), [task |-> "return"]>>) /\ UNCHANGED code
  /\ UNCHANGED <<unit, moduleVars, stateVars, ret_addr, fault>>

EndReturnStmt ==
  LET t == Pointee(ret_addr)
      cast == Cast(tmp_val, t)
  IN /\ Doing("return")
     /\ code' = code \o Casts(tmp_val, t) \o <<StoreTo(cast, ret_addr), Br>>
     /\ tmp_val' = cast
     /\ Leave
     /\ UNCHANGED <<unit, moduleVars, require_lvalue, var_type, init_val, ret_addr, fault>>

VisitExprStmt ==
  /\ Visiting("expr")
  /\ Calls(<<Visit(Node.exp)>>)
  /\ UNCHANGED <<unit, moduleVars, code, stateVars, ret_addr, fault>>

(* The condition of an if or a while; the branches are in IRBuilder.tla.   *)
VisitCond ==
  /\ Visiting("if")
  /\ Calls(<<Visit(Node.cond), [task |-> "test"]>>)
  /\ UNCHANGED <<unit, moduleVars, code, stateVars, ret_addr, fault>>

EndCond ==
  /\ Doing("test")
  /\ code' = code \o <<Compare("!=", is_integer_type(tmp_val.type), tmp_val, Zero(tmp_val.type)),
                       Instr(<<"condbr">>, <<New(1, INT1_T)>>, VOID_T)>>
  /\ Return
  /\ UNCHANGED <<unit, moduleVars, stateVars, ret_addr, fault>>

(***************************************************************************)
(* Expressions                                                             *)
(***************************************************************************)
VisitLiteral ==
  /\ Visiting("lit")
  /\ tmp_val' = Const(TypeOf(Node.type), Node.val)
  /\ Return
  /\ UNCHANGED <<unit, moduleVars, code, require_lvalue, var_type, init_val, ret_addr, fault>>

(* A variable: its address (of an array, that of its first element) when   *)
(* require_lvalue asks for it, otherwise its value.                        *)
VisitLVal ==
  LET var == find(<<Node.name>>)
      made == IF ~ require_lvalue THEN IF IsConst(var) THEN <<>> ELSE <<Load(var)>>
              ELSE CASE Pointee(var)[1] = "array" -> <<Gep(var, <<CONST_INT(0), CONST_INT(0)>>)>>
                     [] Pointee(var)[1] = "ptr" -> <<Load(var)>>
                     [] OTHER -> <<>>
  IN /\ Visiting("lval") /\ Node.index = <<>>
     /\ code' = code \o made
     /\ tmp_val' = IF made = <<>> THEN var ELSE New(1, made[1].type)
     /\ require_lvalue' = FALSE
     /\ Return
     /\ UNCHANGED <<unit, moduleVars, var_type, init_val, ret_addr, fault>>

(* An element: variable and flag are read before the index is visited.     *)
VisitElement ==
  /\ Visiting("lval") /\ Node.index # <<>>
  /\ require_lvalue' = FALSE
  /\ Calls(<<Visit(Node.index[1]),
             [task |-> "index", var |-> find(<<Node.name>>), should_return_lvalue |-> require_lvalue]>>)
  /\ UNCHANGED <<unit, moduleVars, code, tmp_val, var_type, init_val, ret_addr, fault>>

(* The constant array behind var, if it is one.                            *)
ConstArrays(var) == {g \in {var} \cup {m[2] : m \in {l \in local2global : l[1] = var}} :
                       g.v = "global" /\ g.const}

(* A constant element of a constant array is its initializer's value.      *)
FoldElement ==
  /\ Doing("index") /\ IsConstInt(tmp_val) /\ ConstArrays(Frame.var) # {}
  /\ \E g \in ConstArrays(Frame.var) :
       IF tmp_val.val + 1 \in DOMAIN g.init
         THEN tmp_val' = g.init[tmp_val.val + 1] /\ Return /\ UNCHANGED fault
         ELSE Crash("out of range") /\ UNCHANGED tmp_val
  /\ UNCHANGED <<unit, moduleVars, code, require_lvalue, var_type, init_val, ret_addr>>

EndElement ==
  LET var == Frame.var
      ptr == IF Pointee(var)[1] = "ptr"
               THEN <<Load(var), Gep(New(1, Pointee(var)), <<tmp_val>>)>>
               ELSE <<Gep(var, <<CONST_INT(0), tmp_val>>)>>
      addr == New(Len(ptr), Last(ptr).type)
  IN /\ Doing("index") /\ ~ (IsConstInt(tmp_val) /\ ConstArrays(var) # {})
     /\ IF Frame.should_return_lvalue
          THEN code' = code \o ptr /\ tmp_val' = addr /\ require_lvalue' = FALSE
          ELSE /\ code' = code \o ptr \o <<Load(addr)>>
               /\ tmp_val' = New(Len(ptr) + 1, Pointee(addr))
               /\ UNCHANGED require_lvalue
     /\ Return
     /\ UNCHANGED <<unit, moduleVars, var_type, init_val, ret_addr, fault>>

VisitUnary ==
  /\ Visiting("unary")
  /\ Calls(<<Visit(Node.rhs), [task |-> "unary", op |-> Node.op]>>)
  /\ UNCHANGED <<unit, moduleVars, code, stateVars, ret_addr, fault>>

(* UnaryExpr: a minus is folded or subtracts from zero.                    *)
EndUnaryExpr ==
  LET int == is_integer_type(tmp_val.type)
      zero == IF int THEN CONST_INT(0) ELSE CONST_FLOAT(0)
      sub == Binary("-", int, zero, tmp_val)
  IN /\ Doing("unary") /\ Frame.op \in {"+", "-"}
     /\ CASE Frame.op = "+" -> UNCHANGED <<code, tmp_val>>
          [] Frame.op = "-" /\ IsConst(tmp_val) ->
               /\ tmp_val' = [tmp_val EXCEPT !.val = IF int THEN Wrap(-@) ELSE -@]
               /\ UNCHANGED code
          [] OTHER -> code' = Append(code, sub) /\ tmp_val' = New(1, sub.type)
     /\ Return
     /\ UNCHANGED <<unit, moduleVars, require_lvalue, var_type, init_val, ret_addr, fault>>

(* UnaryCondExpr: compared with zero, and widened again.                   *)
EndUnaryCondExpr ==
  /\ Doing("unary") /\ Frame.op = "!"
  /\ code' = code \o <<Compare("==", is_integer_type(tmp_val.type), tmp_val, Zero(tmp_val.type)),
                       Instr(<<"zext">>, <<New(1, INT1_T)>>, INT32_T)>>
  /\ tmp_val' = New(2, INT32_T)
  /\ Return
  /\ UNCHANGED <<unit, moduleVars, require_lvalue, var_type, init_val, ret_addr, fault>>

VisitBinary ==
  /\ \/ Visiting("bin")
     \/ Visiting("rel")
  /\ Calls(<<Visit(Node.lhs), After("rhs")>>)
  /\ UNCHANGED <<unit, moduleVars, code, stateVars, ret_addr, fault>>

VisitRhs ==
  /\ Doing("rhs")
  /\ Calls(<<Visit(Node.rhs), [task |-> Node.k, op |-> Node.op, lhs |-> tmp_val]>>)
  /\ UNCHANGED <<unit, moduleVars, code, stateVars, ret_addr, fault>>

(* BinaryCondExpr, a comparison. *)
EndBinaryCondExpr ==
  LET m == match_type(Frame.lhs, tmp_val)
      at == Len(m.casts)
  IN /\ Doing("rel")
     /\ code' = code \o m.casts \o <<Compare(Frame.op, m.both_int, m.lhs, m.rhs),
                                     Instr(<<"zext">>, <<New(at + 1, INT1_T)>>, INT32_T)>>
     /\ tmp_val' = New(at + 2, INT32_T)
     /\ Return
     /\ UNCHANGED <<unit, moduleVars, require_lvalue, var_type, init_val, ret_addr, fault>>

BothConst == IsConst(Frame.lhs) /\ IsConst(tmp_val)

(* Faulty: the left operand alone decides how the compiler computes.       *)
FoldBinaryExpr_LeftDecides ==
  LET both_int == IsConstInt(Frame.lhs)
      a == Frame.lhs.val
      b == IF both_int THEN tmp_val.val ELSE FoldTo(FLOAT_T, tmp_val).val
  IN /\ Doing("bin") /\ BothConst
     /\ IF ~ both_int /\ Frame.op = "%" THEN Crash("invalid operands") /\ UNCHANGED tmp_val
        ELSE IF both_int /\ Traps(Frame.op, a, b) THEN Crash("signal") /\ UNCHANGED tmp_val
        ELSE /\ tmp_val' = IF both_int THEN CONST_INT(IntOp(Frame.op, a, b))
                           ELSE CONST_FLOAT(FloatOp(Frame.op, a, b))
             /\ Return /\ UNCHANGED fault
     /\ UNCHANGED <<unit, moduleVars, code, require_lvalue, var_type, init_val, ret_addr>>

(* BinaryExpr of two constants, which the compiler computes.               *)
FoldBinaryExpr ==
  LET both_int == IsConstInt(Frame.lhs) /\ IsConstInt(tmp_val)
      a == IF both_int THEN Frame.lhs.val ELSE FoldTo(FLOAT_T, Frame.lhs).val
      b == IF both_int THEN tmp_val.val ELSE FoldTo(FLOAT_T, tmp_val).val
  IN /\ Doing("bin") /\ BothConst
     /\ IF ~ both_int /\ Frame.op = "%" THEN Crash("invalid operands") /\ UNCHANGED tmp_val
        ELSE IF both_int /\ Traps(Frame.op, a, b) THEN Crash("signal") /\ UNCHANGED tmp_val
        ELSE /\ tmp_val' = IF both_int THEN CONST_INT(IntOp(Frame.op, a, b))
                           ELSE CONST_FLOAT(FloatOp(Frame.op, a, b))
             /\ Return /\ UNCHANGED fault
     /\ UNCHANGED <<unit, moduleVars, code, require_lvalue, var_type, init_val, ret_addr>>

EndBinaryExpr ==
  LET m == match_type(Frame.lhs, tmp_val)
      binary == Binary(Frame.op, m.both_int, m.lhs, m.rhs)
  IN /\ Doing("bin") /\ ~ BothConst
     /\ IF ~ m.both_int /\ Frame.op = "%"
          THEN Crash("invalid operands") /\ code' = code \o m.casts /\ UNCHANGED tmp_val
          ELSE /\ code' = code \o m.casts \o <<binary>>
               /\ tmp_val' = New(Len(m.casts) + 1, binary.type)
               /\ Return /\ UNCHANGED fault
     /\ UNCHANGED <<unit, moduleVars, require_lvalue, var_type, init_val, ret_addr>>

(* FuncCallStmt: an array argument is asked for its address.               *)
VisitFuncCall ==
  /\ Visiting("call")
  /\ Calls(<<[task |-> "call", node |-> Node, params |-> <<>>]>>)
  /\ UNCHANGED <<unit, moduleVars, code, stateVars, ret_addr, fault>>

VisitArgument ==
  LET i == Len(Frame.params) + 1
      param_type == ParameterType(Parameters(Node.name)[i])
  IN /\ Doing("call") /\ i <= Len(Node.params)
     /\ require_lvalue' = (param_type[1] = "ptr")
     /\ Calls(<<Visit(Node.params[i]),
                [task |-> "argument", param_type |-> param_type], Frame>>)
     /\ UNCHANGED <<unit, moduleVars, code, tmp_val, var_type, init_val, ret_addr, fault>>

(* A constant argument is converted by the compiler, another by the code.  *)
EndArgument ==
  LET t == Frame.param_type
      folded == FoldTo(t, tmp_val)
      call == agenda[Len(agenda) - 1]
  IN /\ Doing("argument")
     /\ require_lvalue' = FALSE
     /\ code' = code \o Casts(folded, t)
     /\ tmp_val' = Cast(folded, t)
     /\ agenda' = Append(Front(Front(agenda)), [call EXCEPT !.params = Append(@, tmp_val')])
     /\ UNCHANGED <<unit, moduleVars, var_type, init_val, ret_addr, fault>>

EndFuncCall ==
  LET t == TypeOf(Returns(Node.name))
  IN /\ Doing("call") /\ Len(Frame.params) = Len(Node.params)
     /\ code' = Append(code, Instr(<<"call", Node.name>>, Frame.params, t))
     /\ tmp_val' = New(1, t)
     /\ Return
     /\ UNCHANGED <<unit, moduleVars, require_lvalue, var_type, init_val, ret_addr, fault>>

-----------------------------------------------------------------------------
Finished == agenda = <<>> /\ UNCHANGED vars

Next ==
  \/ VisitFuncDef \/ EndFuncDef
  \/ VisitVarDef \/ VisitInitVal \/ EndInitVal \/ DefineConst \/ DefineGlobal \/ DefineLocal
  \/ EndLength \/ DefineGlobalArray \/ DefineLocalArray \/ DefineLocalConstArray
  \/ VisitBlock \/ ExitScope \/ VisitAssignStmt \/ AssignTarget \/ EndAssignStmt
  \/ VisitReturnStmt \/ EndReturnStmt \/ VisitExprStmt \/ VisitCond \/ EndCond
  \/ VisitLiteral \/ VisitLVal \/ VisitElement \/ FoldElement \/ EndElement
  \/ VisitUnary \/ EndUnaryExpr \/ EndUnaryCondExpr
  \/ VisitBinary \/ VisitRhs \/ EndBinaryCondExpr \/ FoldBinaryExpr \/ EndBinaryExpr
  \/ VisitFuncCall \/ VisitArgument \/ EndArgument \/ EndFuncCall
  \/ Finished

Spec == Init /\ [][Next]_vars
=============================================================================
