---------------------------- MODULE ExprMeaning -----------------------------
(***************************************************************************)
(* What the declarations, expressions and assignments of a SysYF function  *)
(* mean.  The tree is walked in post order, a node coming after its        *)
(* operands from left to right, and each node acts on a stack of values:   *)
(* it takes those of its operands and leaves its own.  An int and a float  *)
(* meet as floats; a value is converted to the type of what it is stored   *)
(* in, passed to or returned as.  An array is passed by reference.  A      *)
(* function that divides by zero, leaves an array, or converts a float     *)
(* that is no int, has no meaning.                                         *)
(***************************************************************************)
EXTENDS Arithmetic, SequencesExt

RECURSIVE PostOrder(_)

PostOrders(nodes) == FlattenSeq([j \in DOMAIN nodes |-> PostOrder(nodes[j])])

PostOrder(n) ==
  CASE n.k = "lit" -> <<n>>
    [] n.k = "lval" -> PostOrders(n.index) \o <<n>>
    [] n.k = "unary" -> PostOrder(n.rhs) \o <<n>>
    [] n.k \in {"bin", "rel"} -> PostOrder(n.lhs) \o PostOrder(n.rhs) \o <<n>>
    [] n.k = "call" ->
         FlattenSeq([j \in DOMAIN n.params |->
           IF Parameters(n.name)[j] = "array" THEN <<[k |-> "ref", name |-> n.params[j].name]>>
           ELSE PostOrder(n.params[j])]) \o <<n>>
    [] n.k = "decl" -> PostOrders(n.length \o n.init) \o <<n>>
    [] n.k = "assign" -> PostOrder(n.value) \o PostOrders(n.target.index) \o <<n>>
    [] n.k = "expr" -> PostOrder(n.exp) \o <<n>>
    [] n.k = "if" -> PostOrder(n.cond) \o <<n>>
    [] n.k = "ret" -> PostOrders(n.value) \o <<n>>
    [] n.k = "block" -> <<[k |-> "enter"]>> \o PostOrders(n.body) \o <<[k |-> "exit"]>>

(***************************************************************************)
(* A state st has an environment per scope, env, from names to an object,  *)
(* its type ("int", "float") and shape ("scalar", "array", "ref"); mem,    *)
(* from objects to their elements; the stack of values with their types;   *)
(* seen, the calls and tests so far; and ok: is there a meaning so far?    *)
(***************************************************************************)
Value(n, type) == [val |-> n, type |-> type]
Operand(st, j) == st.stack[Len(st.stack) - j]
Operands(st, k) == SubSeq(st.stack, Len(st.stack) - k + 1, Len(st.stack))
Take(st, k) == [st EXCEPT !.stack = SubSeq(@, 1, Len(@) - k)]
Replace(st, k, v) == [st EXCEPT !.stack = Append(SubSeq(@, 1, Len(@) - k), v)]

As(v, type) ==
  IF v.type = type THEN v.val ELSE IF type = "float" THEN ToFloat(v.val) ELSE ToInt(v.val)
CanBe(v, type) == v.type = "float" /\ type = "int" => IsInt(Truncated(v.val))
All(vals, type) == [j \in DOMAIN vals |-> As(vals[j], type)]
AllCanBe(vals, type) == \A j \in DOMAIN vals : CanBe(vals[j], type)

Lookup(st, name) == Last(st.env)[name]
Object(st, name) ==
  IF Lookup(st, name).shape = "ref" THEN st.mem[Lookup(st, name).id][1][1] ELSE Lookup(st, name).id
Bind(st, name, var, elements) ==
  [st EXCEPT !.env = Front(@) \o <<[m \in DOMAIN Last(@) \cup {name} |->
                                      IF m = name THEN var ELSE Last(@)[m]]>>,
             !.mem = [o \in DOMAIN @ \cup {var.id} |-> IF o = var.id THEN elements ELSE @[o]]]

Fetch(st, k, name, object, j) ==
  IF j \in DOMAIN st.mem[object] THEN Replace(st, k, Value(st.mem[object][j], Lookup(st, name).type))
  ELSE [st EXCEPT !.ok = FALSE]
Write(st, name, object, j, v) ==
  IF j \in DOMAIN st.mem[object] /\ CanBe(v, Lookup(st, name).type)
    THEN [st EXCEPT !.mem[object][j] = As(v, Lookup(st, name).type)]
    ELSE [st EXCEPT !.ok = FALSE]

(* Operators. *)
Negated(v) == Value(IF v.type = "int" THEN Wrap(-v.val) ELSE -v.val, v.type)
Unary1(op, v) ==
  CASE op = "+" -> v [] op = "-" -> Negated(v) [] op = "!" -> Value(Bit(v.val = 0), "int")
Meet(l, r) == IF l.type = "int" /\ r.type = "int" THEN "int" ELSE "float"
Undefined(op, type, a, b) == IF type = "int" THEN Traps(op, a, b) ELSE op = "%" \/ (op = "/" /\ b = 0)
Compute(st, op, type, a, b) ==
  IF Undefined(op, type, a, b) THEN [st EXCEPT !.ok = FALSE]
  ELSE Replace(st, 2, Value(IF type = "int" THEN IntOp(op, a, b) ELSE FloatOp(op, a, b), type))

(* A call. *)
Arguments(vals, types) ==
  [j \in DOMAIN vals |-> IF types[j] = "array" THEN vals[j].val ELSE As(vals[j], types[j])]
Suitable(vals, types) ==
  \A j \in DOMAIN vals : types[j] # "array" => CanBe(vals[j], types[j])
AfterCall(st, name, called) ==
  [st EXCEPT !.mem = called.mem, !.seen = Append(@, <<name, called.seen>>),
             !.stack = Append(@, Value(called.ret, Returns(name)))]

(* A declaration: an initializer that is too short is filled up with 0. *)
Declare(st, n, length, inits) ==
  IF ~ AllCanBe(inits, n.type) THEN [st EXCEPT !.ok = FALSE]
  ELSE Bind(st, n.name,
            [id |-> n.id, type |-> n.type, shape |-> IF n.length = <<>> THEN "scalar" ELSE "array"],
            All(inits, n.type) \o [j \in 1 .. length - Len(inits) |-> 0])

(* What a node does when its operands have been evaluated. *)
Effect(ret, st, n) ==
  CASE n.k = "lit" -> Replace(st, 0, Value(n.val, n.type))
    [] n.k = "ref" -> Replace(st, 0, Value(<<Object(st, n.name), 0>>, "ref"))
    [] n.k = "lval" /\ n.index = <<>> -> Fetch(st, 0, n.name, Lookup(st, n.name).id, 1)
    [] n.k = "lval" /\ n.index # <<>> -> Fetch(st, 1, n.name, Object(st, n.name), Operand(st, 0).val + 1)
    [] n.k = "unary" -> Replace(st, 1, Unary1(n.op, Operand(st, 0)))
    [] n.k = "rel" ->
         LET type == Meet(Operand(st, 1), Operand(st, 0))
         IN Replace(st, 2, Value(Bit(Holds(n.op, As(Operand(st, 1), type), As(Operand(st, 0), type))), "int"))
    [] n.k = "bin" ->
         LET type == Meet(Operand(st, 1), Operand(st, 0))
         IN Compute(st, n.op, type, As(Operand(st, 1), type), As(Operand(st, 0), type))
    [] n.k = "call" ->
         LET vals == Operands(st, Len(n.params))
         IN IF Suitable(vals, Parameters(n.name))
              THEN AfterCall(Take(st, Len(n.params)), n.name,
                             Called(n.name, Arguments(vals, Parameters(n.name)), st.mem))
              ELSE [st EXCEPT !.ok = FALSE]
    [] n.k = "decl" /\ n.length = <<>> ->
         Declare(Take(st, Len(n.init)), n, 1, Operands(st, Len(n.init)))
    [] n.k = "decl" /\ n.length # <<>> ->
         Declare(Take(st, Len(n.init) + 1), n, Operand(st, Len(n.init)).val, Operands(st, Len(n.init)))
    [] n.k = "assign" /\ n.target.index = <<>> ->
         Write(Take(st, 1), n.target.name, Lookup(st, n.target.name).id, 1, Operand(st, 0))
    [] n.k = "assign" /\ n.target.index # <<>> ->
         Write(Take(st, 2), n.target.name, Object(st, n.target.name), Operand(st, 0).val + 1, Operand(st, 1))
    [] n.k = "expr" -> Take(st, 1)
    [] n.k = "if" ->
         [Take(st, 1) EXCEPT !.seen = Append(@, <<"test", Bit(Operand(st, 0).val # 0)>>)]
    [] n.k = "ret" /\ n.value = <<>> -> [st EXCEPT !.returned = TRUE]
    [] n.k = "ret" /\ n.value # <<>> ->
         [st EXCEPT !.returned = TRUE, !.ret = As(Operand(st, 0), ret), !.ok = CanBe(Operand(st, 0), ret)]
    [] n.k = "enter" -> [st EXCEPT !.env = Append(@, Last(@))]
    [] n.k = "exit" -> [st EXCEPT !.env = Front(@)]

Run(ret, st, nodes) ==
  FoldLeft(LAMBDA acc, n : IF acc.ok /\ ~ acc.returned THEN Effect(ret, acc, n) ELSE acc, st, nodes)

Start == [env |-> <<[n \in {} |-> 0]>>, mem |-> [o \in {} |-> <<>>], stack |-> <<>>, seen |-> <<>>,
          ok |-> TRUE, ret |-> 0, returned |-> FALSE]
Enter(params, st) ==
  FoldLeft(LAMBDA acc, p :
             Bind(acc, p.name, [id |-> p.id, type |-> p.type, shape |-> IF p.array THEN "ref" ELSE "scalar"],
                  <<p.arg>>),
           st, params)

(* The meaning of a unit: whether it has one, the objects after its        *)
(* function has run, what it returned, and what was called and tested.     *)
Meaning(unit) ==
  Run(unit.ret, Enter(unit.params, Run("void", Start, PostOrders(unit.globals))), PostOrders(unit.body))
=============================================================================
