# Verification of CodeOpt

CodeOpt is a compiler from SysYF (a C subset with `int`, `float`, arrays and
functions) to an LLVM-like IR, in sequential C++17. This directory models the
parts of it where one step's correctness depends on state that other steps left
behind, from the text to the text: the scanner with its buffer, the parser with
its stack, the semantic checker, the construction of basic blocks and of the values
in them, the def-use chains, the two dominator analyses, the SSA construction, the
naming of the values and the printing of the tree and of the IR. Paths below are
relative to the directory that holds the repository (`src/` is the repository, so the
compiler's own sources are in `src/src/` and `src/include/`).

Contents: [the system](#the-system), [the models](#the-models),
[runs](#what-the-runs-check), [proofs](#what-is-proved),
[limits](#what-is-only-checked-and-what-is-not-modelled), [plan](#plan).

## The system

`main` (`src/src/main.cpp`) parses a file, optionally prints or checks the tree
(`-emit-ast`, `-check`), builds the IR with `IRBuilder`, names the values, runs
the passes in a fixed order through `PassMgr` (`DominateTree`, `Mem2Reg`, and with
`-O2` the stubs `LiveVar`, `ComSubExprEli`, `Check`), and prints the module. One
thread, no persistence: what is hard here is not concurrency but long chains of
small mutations of shared, cyclic, weakly referenced data, by several passes that
each rely on an invariant another one established and none of them asserts.

| component | state it keeps | operations | relies on | correct when |
|---|---|---|---|---|
| scanner (`SysYFFlexLexer`), `location` | buffer, place of the match, last accepting state, `loc` | `yylex` per token, refill | | the tokens are the longest matches of the rules with their values and places, however the buffer cuts the text |
| parser (`SysYFParser`) | stack of states, values and locations; lookahead; `root` | `parse` | tokens with locations | accepts what the grammar derives, with the tree it stands for; names the first bad token and tokens that fit |
| `SyntaxTreePrinter` | | one visit per node | a complete tree | what it writes parses to the tree again |
| `SyntaxTreeChecker` | `variables` (stack of scopes), `functions`, `Expr_int` | one visit per node | the tree | accepts exactly the programs whose names the builder can resolve, and resolves them alike |
| `IRBuilder` with `Scope`, `IRStmtBuilder` | insert block, `cur_basic_block_list`, `While_Stack`, `IF_While_Or_Cond_Stack`, `name2var`, flags `pre_enter_scope`, `require_lvalue`, `tmp_val` | one visit per node | a well-scoped tree; `break` only in loops | the blocks do what the source says; every block is terminated once, reachable, and its edge lists agree with its branch; the stacks are empty at the end |
| IR core: `Value`, `User` | `use_list_`, `operands_` (weak) | `set_operand`, `add_operand`, `replace_all_use_with`, `remove_use_of_ops`, `delete_instr` | passes delete only what is unused | chains are complete and exact for every value in use; no expired pointer is followed |
| IR core: `BasicBlock`, `Function`, branches | instruction list, `pre_bbs_`, `succ_bbs_`, `idom_`, `dom_frontier_` | create, branch, erase, `get_terminator` | | edge lists mirror the terminators |
| `DominateTree` | `reverse_post_order`, `bb2int`, `doms`; writes `idom_` and `dom_frontier_` of the blocks | `execute` per function | every block is reachable, nothing jumps to the entry | `idom_` is the immediate dominator, `dom_frontier_` the dominance frontier |
| `RDominateTree` | the same on reversed edges, and `exit_block` | `execute` | every block reaches the one `ret` | the same, reversed |
| `Mem2Reg` | `define_var`; file-level `value_status`, `visited` | `execute` per function | frontiers, complete use lists, locals assigned before they are read | no load or store of a scalar local is left, and the program computes the same |
| `PassMgr`, `main` | list of passes | `execute` | passes leave a function the next one can take | the text printed names what the passes left |
| naming and printing (`set_instr_name`, `print`) | `name_`, `seq_cnt_` | before and between passes, in Mem2Reg and LiveVar, before printing | | each value has one name that stands for it alone |
| `LiveVar`, `ComSubExprEli`, `Check` | stubs | | | |
| types, constants, log, runtime library | | | | |

How they interact: `IRBuilder` calls the IR core for each instruction; its edge
lists are `DominateTree`'s input; `DominateTree` leaves its results in the blocks,
where `Mem2Reg` reads them; `Mem2Reg` rewrites operands through the use lists
`User::set_operand` maintained since the builder. `DominateTree` keys a map with
blocks and treats a missing key as number 0, so it is only right when the builder
left no unreachable block; `Mem2Reg` renames what its walk reaches and then
deletes every scalar alloca, which relies on the same fact; `RDominateTree` needs
that every block reaches the one `ret`. Hence the property `WellFormedGraph` of the
builder is the assumption `Rooted` of the passes. The parser pulls tokens from the
scanner one at a time and never puts one back, so the two are modelled apart, with
the sequence of tokens between them.

The hard behaviours, one by one with their lines, are the `hazards` of
`PROJECT.json`.

## The models

| module | models | state, and what it stands for |
|---|---|---|
| `Dominators` | nothing of the code: reachability, dominance, immediate dominators and frontiers of a rooted graph by their textbook definitions | |
| `DominanceSpec` | what the analysis promises: each block has a set of candidate dominators that only shrinks and never loses a true one, and the result is published when every set is exact | `candidates`, `reported` |
| `DominateTree` | `DominateTree.cpp`, loop by loop | `order`, `bb2int`, `doms`, `changed` as in the code; `stack` holds the activations of `get_post_order`; `pending`, `new_idom`, `finger1`, `finger2` the locals of the meet and of `intersect`; `idom`, `dom_frontier` what is in the blocks |
| `DominatorTheory` | nothing of the code: the lemmas on trees of dominators that the two passes' proofs share | |
| `DominateTree_proofs` | | theorems about `DominateTree`: that it is safe, and that it is right |
| `Mem2Reg_proofs` | | theorems about `Mem2Reg`, alone and in `Compile`: that the pass is safe, that it preserves meaning, and that the printed text reads back |
| `DefUse_proofs`, `RDominateTree_proofs` | | theorems about `DefUse` and `RDominateTree` |
| `SequenceFacts` | nothing of the code: lemmas on sequences | |
| `IRBuilder_proofs` | | theorems about `IRBuilder`: what each operation on the function keeps; what each visit keeps |
| `CompiledRun_proofs` | | theorems about `CompiledRun`: that the blocks do what the source does |
| `DefUse` | `Value.cpp`, `User.cpp`, `BasicBlock::delete_instr`, and the death of an instruction | `operands`, `use_list` (as a set of user and index), `status` of each instruction |
| `RDominateTree` | `RDominateTree.cpp`, loop by loop, one function after another | as in `DominateTree`, with `rdoms` and `exit_block`; `edges`, `runner`, `unfilled`, `current` are the loops over the blocks; `rdom`, `rdom_frontier` what is in the blocks |
| `Mem2Reg` | `Mem2Reg.cpp`, function by function of the code; then both programs run together | `live`, `operand`, `phis`, `phi_args` are the IR; the rest carries the code's names |
| `Compile` | what `main` does with a function from the IR on, composed over `Mem2Reg`: `set_instr_name` each time it is called, `LiveVar`, the printing of function, block, instruction, phi and branch | `stage` is the place in `main`; `name`, `seq_cnt_` as in the code; `dump`, `text` the two outputs, as records of labels, operations and operands |
| `IRBuilder` | the statement and condition visitors of `IRBuilder.cpp`, with `Scope`, branch creation and `Function::remove` | `ir` is the function; `agenda` is the call stack of visits, a task being a visit to come or what a visit does after the child it waits for |
| `ExprBuilder` | the visitors of `IRBuilder.cpp` that make values: declarations and initializers, assignments, elements, operators, comparisons, calls, returned values, parameters | `code` is the function's instructions, an instruction's place in it is the value it computes; `scope` is `name2var`; `tmp_val`, `require_lvalue`, `var_type`, `init_val`, `local2global`, `ret_addr` as in the code |
| `ExprMachine` | LLVM: the types an instruction requires, and what it does | |
| `ExprMeaning` | nothing of the code: declarations and expressions evaluated in post order on a stack of values | |
| `Arithmetic` | `int` of a given width and `float` in quarters, as C++ folds them and LLVM computes them, and the functions a unit calls | |
| `SyntaxTreeChecker` | `SyntaxTreeChecker.cpp`, visit by visit | `agenda` is the call stack of visits; `variables`, `functions`, `Expr_int` as in the code; `verdict` the exit code; `resolved` the declaration each use found |
| `ScopeRules` | nothing of the code: the scope and type rules, declaratively over the tree | |
| `CompiledRun` | the compiled function executed next to its source | `K` what the source has left to do; `cpu` the position in the blocks |
| `ScannerTables`, `Locations`, `SysYFScanner` | the automaton and buffer of `SysYFScanner.cpp`, the actions of its rules, `location.hh` | `ch_buf`, `n_chars`, `buffer_status`, `yytext_ptr`, `c_buf_p`, `hold_char`, `last_accepting` as in the code; `act` is the rule to act on; `input`, `taken` the file |
| `LexRules` | nothing of the tables: the rules of `SysYFScanner.ll` as sets of strings and the longest match | |
| `ParserTables`, `ParserActions`, `SysYFParser` | the tables, the semantic action of every rule, and `parse` of `SysYFParser.cpp` with its stack, lookahead and error | `yystack_`, `yyla`, `yyresult` as in the code; `room` is how far the stack may grow before its values are moved; `tokens`, `scanned` the text |
| `SyntaxTree`, `SyntaxTreePrinter` | `SyntaxTree.h`; the tokens each visit of the printer writes | |
| `Grammar` | nothing of the code: a predictive parser of the language, from its constructs and precedences | |
| `MC...` | instances for TLC | |

Each action is one stretch of a handler between two calls or loop tests. What the
actions leave out is data: a name is a model value or a short string; in
`IRBuilder` an expression is one event, in `ExprBuilder` the function has no
branches, in `SyntaxTreeChecker` a type is `int` or not, as in the code. Definitions
named `Action_Something` next to an action are plausible mistakes in it; no
specification uses them. They show what each property would catch (`mutants` in `PROJECT.json`).

Decisions worth knowing:

- *Orders.* The code iterates over sets of pointers in the address order of the
  day. `Mem2Reg` lets TLC choose: the local to place phis for, the order of the
  worklist's first entries, the successor to visit next. `DominateTree`
  likewise takes the lists of predecessors and successors in any order.
- *Programs.* `Mem2Reg` assumes that a local is assigned before it is read
  (`DefinitelyAssigned`); reading another one has no meaning in SysYF, and the
  code dereferences `end()` for some of them. `WellFormed` says that an operand is computed
  earlier in the same block: the builder makes the value of an expression and its use in one
  block, and goes through memory between blocks. The statements and
  conditions of `IRBuilder`'s programs are the sets `Stmts`, `LoopStmts` (those in a loop)
  and `Conds`, closed under taking parts (`FunctionAssumption`), so `break` and
  `continue` stand in loops: grammar and checker accept them elsewhere too, where
  `While_Stack.back()` is undefined. Both are stated where they are used.
- *Faults.* An iterator or pointer the code would dereference although it is not
  valid sets `fault` or `null_deref`, and a property says that it does not happen.
- *Units with a meaning.* `ComputesSource` speaks of the units to which
  `ExprMeaning` gives a meaning: no division by zero, no index outside its array,
  no `%` of a float, no float converted that is no int. The others are built too
  (the compiler stops on some of them), and have to be well typed. Operands are
  evaluated from left to right and the value of an assignment before its target,
  which is the order the code uses; an int wraps around.
- *DefUse's clients.* The actions are what the passes do: a value is replaced once,
  by another one, and an instruction is deleted when no operand names it.

## What the runs check

| run | instance | what holds |
|---|---|---|
| `dominators` | graphs on an entry and three more blocks, one for each way of naming these: all with one returning block, and those with none and at most two that branch; all list orders, the pass run twice | `PostOrderNumbers`, `DomsAscend`, `IntersectStaysOnBlocks`: no lookup of a block or pointer that is not numbered, and `intersect` climbs. `ImplementsDominanceSpec`: at no point does the estimate lose a real dominator, and the result is the immediate dominators. `FrontierExact`: the frontiers are exact, also after a second run, which `main` does not make, though they are never cleared. `Termination` |
| `rdominators` | two functions in a row, of one to five blocks | `PostdominatorsExact`, `ReverseFrontierExact`: the sets are those of the graph turned around, whatever the function before left in the members; no walk meets a null (`TypeOK`), and each ends (`RTermination`) |
| `defuse` | three instructions, one constant, up to two operands each | chains complete and exact (`UsesExact`) for every value still usable; a replaced value is never used again (`ReplacedIsUnused`) although its list is stale; no expired pointer is met (`NoNullDeref`) |
| `compile` | if/else, while, while with break, with two locals, a global and eight bodies for each of two blocks; nested loops, where one phi makes another necessary; blocks listed in the builder's order; with and without passes, with and without `LiveVar` | no invalid dereference (`NeverFaults`); no operand that was deleted and no access to a removed alloca (`OperandsInPlace`); `ProgramsAgree`: along every path and for every input the new program computes what the old one did; `TextReadsBack`: read by its names alone, the printed text is the function, each phi with one entry per predecessor, and the labels of the dump are its labels; `Prints` |
| `irbuilder` | 530 functions: every condition of up to three atoms, and loops and conditionals around each other with jumps, declarations and dead code | the structure (`WellFormedGraph`: one terminator per block, edges as it says, every block reached from the entry and reaching the return; `DeclarationsInPlace`) and the meaning: `SameEvents`, and `KeepsUp`, that the lowering ends and the blocks never spin without reaching the next event of the source |
| `expr_values` | 1417 units: every operator on every pair of 13 operands (literals, constants, elements of constant and variable arrays, variables, calls, of both types), every kind of expression in every place one can stand in, arrays constant and not, local and global | `WellTyped`: an int and a float never meet unconverted. `ComputesSource`: for the 1269 units that have a meaning the code leaves the same globals, makes the same calls and tests, returns the same value |
| `expr_names` | nested and sibling blocks with constant arrays | expected to fail, see below |
| `checker` | some 3900 translation units: expressions in every position, scopes around each construct, parameters, shadowing, one or two errors | `VerdictRight`: accepted, or rejected with the right error for the first fault in the text; `ResolvesInnermost`: each use finds the innermost visible declaration |
| `checker_return` | a few units | expected to fail, see below |
| `parser` | every text of ten shapes: what may stand in expressions, initializers, statements, conditions, parameters, calls and at the top, in any order, programs or not; the printed tree of each accepted one | `ParsesGrammar`: accepted texts are programs and `root` is their tree with its locations, the others are refused at the first token no program can have there. `ExpectedTokensFit`: the tokens a message offers can indeed come next. `ReprintParsesAgain`: the printed tree parses to itself if, and only if, it holds none of the constructs named there |
| `parser_reprint` | the same texts | expected to fail, see below |
| `scanner` | every text of up to four pieces out of sets for numbers, comments, brackets, words and operators, NULs among them; buffers of one and of six characters, refilled four at a time or less | `ScansText`: the tokens are the longest matches with their values, or the scan exits where there is none; `BufferHoldsText`: no character is lost or read twice by a refill; `LocationsTrue`: tokens are located where they are, but for what is named there; `ScanAdvances`: each step leaves less to do |

*Bounds and why they are enough.* Four blocks hold every interplay of two joins
and a back edge; all graphs of that size with one returning block, at most two
successors per block and no edge into the entry are covered up to the names of the
blocks, which are those a branch can form (the pass keys by block and never compares
names). For `rdominators` graphs that need another sweep or a longer climb have five
blocks and are listed by hand. In `DefUse` three
instructions are a user, a value and its replacement; two operands make a value
occur twice in one user. In `Compile` an argument gets its name before the blocks get
theirs and Mem2Reg puts in up to four phis, more values than there are low numbers it frees; two locals are
enough for a value to move between them (`Swap`, `Chain`), and two varying blocks for a
value to travel around a loop. In `IRBuilder` each statement kind occurs in each position of each
other kind, two levels deep, alone and with something after it; three atoms give
every nesting of `&&` and `||` the grammar derives up to associativity. In
`ExprBuilder` an int has five bits (`Width`), enough for the literals, their sums
to overflow, the smallest int to be negated and floats between ints to be
truncated on both sides of zero; the visitors do not look deeper than two levels,
so operands of two levels and one instance of deeper ones suffice. The units of
`checker` leave out what the run that fails is about, names that are undeclared
in an array index, and a float under `!` as an operand of `%`, which the grammar does
not derive. `MaxRuns`
(two) bounds the executions of the pass, `MaxFunctions` (two) the functions of
`RDominateTree`, `MaxOperands` the growth of a phi. In `parser` a shape is a context and
up to six tokens, enough for an operator between two of other precedences, an `else`
after two `if`s and an error behind pending reductions; `StackRoom` is small enough for
the stack to move its values. In `scanner`, `BufSizes` and `ReadSize` stand for 16384 and
8192 characters: they are so small that a refill, a move and a growth of the buffer
fall at every place of every kind of token; `WordSize` and the range of
doubles are small enough for four characters to overflow either, and to meet the ends of
the range exactly. In `parser` the floats are a few decimals on both sides of what six
digits hold, of a million and of infinity. Everything else is finite by itself. Deadlock is
checked in `scanner` and the two runs of `ExprBuilder`, which say when they are done;
elsewhere compilation and the compiled function end.

*Fairness.* `FairSpec` (`FairCompileSpec` in `Compile`) has `WF_vars(Next)` and nothing stronger. The compiler is
one thread that does nothing else: as long as a step is possible it takes one.
`KeepsUp` assumes the same of the machine that runs the result. `ScanAdvances`, a
measure that every step makes smaller, needs no fairness.

*The findings.* Each is a run that is expected to fail, with the line it refutes in
`PROJECT.json`.

- `expr_names`: the number that makes the global of a local constant array unique
  is searched for in the scopes in sight (`IRBuilder.cpp:312`), so two sibling
  blocks that declare `const int v[2]` both define `@__const.main.v`.
- `checker_return`: `SyntaxTreeChecker.cpp:57` visits the expression of a `return`
  without asking whether there is one, and dereferences null on `return;`.
- `parser_reprint`: `-emit-ast` is to restore the code from the tree (`src/part0.md:51`),
  but the printer leaves six digits of a float (`SyntaxTreePrinter.cpp:153`: 3.1415926
  comes back as 3.14159, 123456.5 as the int 123456), writes one without a fraction
  below a million as an int, an infinity as the name `inf` and a wrapped constant as a
  negative one, and puts comparisons and logical operators in parentheses, which a
  condition of SysYF cannot have. `ReprintParsesAgain` shows that each of these
  constructs has this effect and that no other has.

Other things seen while modelling, without a run of their own:

- `src/doc/SysYFIR.md:638` says that `replace_all_use_with` maintains the use-def and
  def-use chains. `Value.cpp:28-37` calls `set_operand` for each use; that adds a use to
  the new value and leaves the old value's list as it was. `ReplacedIsUnused` shows that
  the passes are not hurt, since they delete or never look again at what they replaced.
- The checker knows the functions of the unit only, so a call of a runtime function is
  one of an unknown function (`SyntaxTreeChecker.cpp:78`), though every test that prints
  has one (`src/test/Test/Easy/20_hanoi.sy:4`). `VerdictRight` takes the code's side.
- `SyntaxTreeChecker.cpp:45` does not visit the index of an array element; an
  undeclared name in it is accepted. `checker` has no unit with one.
- The scanner does not count the newlines between `[` and `]`, counts one for a carriage
  return that ends a comment (and another for the newline after it), and keeps the
  start of a comment over several lines as the start of the next token.
  `LocationsTrue` says that nothing else is lost.
- After a syntax error `root` is null, and `main` dereferences it.
- A local array with an initializer that is not constant stores a null value
  (`IRBuilder.cpp:417`), and `return` with a value in a void function reads a slot of
  another function.

Each of the hazards without a property says in its note why it has none.

## What is proved

Each theorem holds for every value of the constants its module's assumptions allow,
and rests on one inductive invariant of that module, which TLC checked on the
instance of the run (for `Mem2Reg` on some of its functions) before it was proved.

**`DominateTree`** (for every finite set of blocks, every set of graphs in `CFGs` that
meets `GraphAssumption`, that is, each block is reachable from the entry and nothing
jumps back to it, every number of runs, and every order of the lists).

`DominateTree_proofs` proves what keeps the pass from looking up what is not there.
`PostOrderNumbers` says that
`order` lists distinct blocks and `bb2int` is its inverse; `DomsAscend` says that
`doms` of a block has a higher number than the block, save for the root. Neither
is inductive alone, so `IInv` adds to them: while the walk runs, `DfsInv` says that the activations are a
path from the entry and that each numbered block has a predecessor numbered above
it or still on the stack; when it returns, each block but the entry has a
predecessor with a higher number (`Ordered`). A sweep goes from high numbers to
low, so `SweepInv` can say that every block it has passed has a dominator: the
meet of the next one then finds a processed predecessor above it. `MeetInv` says
that the result so far is numbered at least as high as each predecessor met, and
`ClimbInv` that both fingers of `intersect` stand on processed blocks and only
climb; the root is where they stop at the latest. With these facts as
conjuncts each of the pass's actions preserves `IInv`, and `TypeOK`,
`PostOrderNumbers`, `DomsAscend` and `IntersectStaysOnBlocks` follow from it.

Its second half proves that the result is right: `FrontiersExact`,
`ImmediateDominators`, and `Refinement`, the refinement of `DominanceSpec`. The
argument is that of `DominatorTheory`, which speaks of no state, only of a graph
`G`, a numbering, and an assignment `up` of dominators on its way to the fixpoint:

1. The *chain* of a block is what `up` leads to from it. Chains ascend, are linearly
   ordered and end in the root (`Ancestors...`).
2. Nothing goes too high: each strict dominator of a block dominates what is recorded
   for it (`NoneSkipped`), so all dominators of a block are on its chain
   (`DominatorsOnChain`), and a finger that climbs has not left them behind
   (`ClimbNotTooHigh`).
3. A visit only shortens chains (`VisitShortens`), though `up` of the blocks below it
   is out of date until the sweep gets there. The invariant this takes,
   `SweepInvariant`, is the heart of the matter: no chain is shorter than the next
   visit would make it (`NoneTooShort`), and that stays so because the
   chain of a block agrees with that of its predecessor above, in whole where the
   sweep has passed and ahead of the sweep elsewhere (`AgreesAhead`). It needs
   the reverse post order.
4. When a sweep changes nothing the tree is `Stable`: each block's dominator is on
   the chain of all its predecessors. A stable tree that has lost no dominator has
   no other block on its chains than dominators (`ChainsAreDominators`).
5. Along an edge into a join, the blocks of the chain of the predecessor below
   the dominator of the join are those which have the join in their frontier
   (`FrontierByWalks`), and blocks with one predecessor are in no frontier.

`ExactInv` ties the pass to this: `TreeInv`, `StableInv`, `VisitInv` (no finger went too
high, and each predecessor met has the result so far on its chain), `FrontierSound` and
`WalkInv` (which edges the walks of `get_bb_dom_front` are done with, and how far the
current one is). `FrontierSound` is a conjunct because the sets are not cleared
between executions: what an earlier one left is right, so adding to it is harmless
(`main` runs the pass once; the second execution goes beyond it).
The refinement maps `candidates` to the chains of `doms`; a block without a dominator yet
maps to all blocks. `InitDoms` and `StoreIdom` are `Refine` steps, `PublishIdoms` is
`Report`, `RunAgain` is `Restart`, and all others stutter.

**`RDominateTree`** (for every finite set of blocks, all functions with one returning
block that every block reaches, any number of functions in a row).
`RDominateTree_proofs` proves `PostdominatorsExact` and `ReverseFrontierExact` with the
same theory, on the graph turned around with the returning block as root. What is new is
that the fields of the pass outlive a function: `OrderInv` and `NumbersInv` say what
the walk and the sweeps know when numbers and `rdoms` of the function before may still be
there, and `FillInv` says what the sets of `get_bb_rdoms` hold in the middle of a climb.
`TypeOK` comes from the same invariant: no finger and no runner is ever null.

**`DefUse`** (for any numbers of instructions, constants and operands). `DefUse_proofs` proves
`UsesExact`, `ReplacedIsUnused` and `NoNullDeref`. `UsesExact` is not inductive: it takes
`OperandsInv`, that what an instruction in place points at may be used, since
`replace_all_use_with` empties nothing and the list of the value it replaced stays as
it was; and `NewInv`, that an instruction nobody made has no users. That
`delete_instr` meets no expired pointer then follows from the exact lists. The lists are
sets in the model, so nothing is said of an entry that is there twice.

**`IRBuilder`** (for any set of functions made of the statements and conditions of
`FunctionAssumption`, of any size and depth). `IRBuilder_proofs` proves `TypeOK`,
`DeclarationsInPlace` and `WellFormedGraph`, the last of which is what the theorems above
assume of a graph (`GraphAssumption` of `DominateTree`, and one return that every block
reaches for `RDominateTree`).

None of them is inductive: they hold at the end because of what each visit in progress
still means to do. The first part of the module speaks of a function `m`, the insert block `ins` and a
set `H` of blocks that are created and not yet entered. `UnderWay(m, ins, H)` says

- `Placed`: blocks of `H`, and erased ones, are empty, and any other block but `ins` has its terminator;
- `Edges`: the edge lists are those of the terminators, each edge once, and none goes to the
  entry or to an erased block;
- `Reach`: every block outside `H` is reached from the entry;
- `Leads`: every block leads to one that is still to be filled, `ins` or one of `H`;
- `Instructions`, `NoReturn`: terminators are last, allocas in the entry, and the one `ret` is not there yet.

Each operation of the code keeps it in its own way: a jump into `H` (`Jump`, `Fork`) ends
`ins`; entering a block that something jumps to takes it out of `H` (`EnterHeld`); erasing a
block nothing jumps to drops it (`EraseHeld`); the alloca slipped in before the
branch of the entry changes no edge (`AllocatedUnderWay`).

The second part says which blocks those are. `Leaves(agenda, f)` reads the call stack
from the bottom up: each task `Fits` on what the tasks below it left, and `Over` adds
its share. `held` are the blocks it will still enter, and of these `spare` those
nothing will jump to, which it erases, and `fed` those something already jumps to, so that they are
reached when entered. `lead` and `from` say that the condition of a
loop leads to its exit, the reason that every block reaches the return even if the body ends
in `continue`. `At` says that stacks, flags and lists are what the
tasks left, in particular that `cur_basic_block_list` holds just the insert block where a
declaration may be visited. There is a lemma `...Keeps` for each action. When the last
task is done `H` is empty and the insert block returns (`Complete`); `Reached` and
`Returning`, which count steps, have then reached all blocks, since a set that grows with
every step until it is closed has closed after as many steps as there are blocks
(`Saturates`).

**`CompiledRun`** (for any set of functions of `FunctionAssumption` and `SourceAssumption`, of
any size and depth, any names, and whatever values the conditions take). `CompiledRun_proofs`
proves `SameEvents`: the compiled function and its source agree on what happens next, always.
`SourceAssumption` says what the grammar gives (a declaration is an item of a block; the left
side of `&&` has no `||`, so that it lies in `Chains`) and what the checker tests (no block
declares a name twice; `Scope::push` would ignore the second).

A state in the middle of the lowering is related to a run that has not begun. What the proof
carries is a set `R` of entries `<<k, b, i, w>>`: from position `i` of block `b` on, the blocks
do what the continuation `k` of the source does, given the values of conditions in `w`. `Sim`
says that each entry is answered: the source unfolds `k` to the `k` of another entry at the
same place (`Unfolds`), or the instruction at `i` shows the event of `k` and all that can follow
is in `R` (`Runs`), or `i` is the end of a block not finished yet. The last is allowed for what
is left open only, and that is known from the visits in progress:

1. *What a visit leaves.* `Left` gives for each task of the agenda what the source has left to do
   after it, `K`, in the environment `env`; where the branches of a condition
   (`yes`, `no`), a `break` and a `continue` lead (`brk`, `cont`); the blocks created but not
   entered with what they are to do (`at`), and the entries those who jump later will need (`need`).
   `KStack` reads the call stack with it from the bottom up, next to `Leaves` of `IRBuilder_proofs`.
2. *Where the builder is.* `Here` is what is left to do at the insert block: `K`, or after a
   condition both branches, under the value `tmp_val` has in each. `KGoing` says that the open
   blocks and the insert block are all `R` leaves unanswered (`Filled`).
3. *Targets.* `CondPart` says that the targets at the back of `Or_Cond_Stack` do `yes` and `no`.
   `&&` pushes nothing for its left side, whose true target is not that of the stack but
   the block of the right side: an `||` there would branch past the right side. `chain`
   marks the conditions in such a place, and they are in `Chains`. `LoopPart` says that the back of `While_Stack`
   does `cont` and `brk`, and that those are what `break` and `continue` cut `K` down to.
4. *Names.* `EnvIs` says that `env` is what the scopes say, so that an act and the alloca of
   its declaration agree, through the flag `pre_enter_scope`, dead code and the
   scopes that a branch without braces opens.
5. *Steps.* Code appended to the insert block moves what was open there on (`Step...`
   lemmas); an alloca slipped in before the branch of the entry moves entries of that block by one;
   a block erased has no entry that anyone needs. `...Same` is the lemma of each action.

When the agenda is empty nothing is open (`KEnded`): `R` is a simulation. `RunInv` then says of the run that
the blocks stand at an entry of `R` whose continuation unfolds to `K` (`Together`, `Reaches`),
and that the values it depends on are those the run saw. The two take
turns, and each step of either keeps it; where both show an event it is the same one.

**`Mem2Reg`** (for every function that meets `ProgramAssumption`, that is, the entry
reaches each block and nothing jumps to it, operands are computed earlier in their
block and no local is read before it is assigned; any numbers of blocks, locals and
data; any order of the locals, the worklist and the successors). `Mem2Reg_proofs` proves
`TypeOK`, `NeverFaults`, `OperandsInPlace` and `ProgramsAgree` of the pass by itself
(`PassCorrect`, of `Spec`) and in the compiler (`CompileTypes`, `CompileNeverFaults`, `CompileOperandsInPlace`, `CompileProgramsAgree`, of
`CompileSpec`).

`ProgramsAgree` is about a run, and each step of the pass leaves a function that no run
can tell anything about until the last load is gone. So the argument first says
which value *should* stand for a local `v` where, as an operator of the function, the phis and
the operands alone: `ValueAt(.., v, b, k)` is what the last store of `b` before `k` wrote, else
`EntryVal`, which is the phi of `b`, else what is left by the block that is the nearest of those
that dominate `b` and define `v`. Then:

1. *Joins.* When the phis of `v` are closed under the frontiers of what defines it
   (`Complete`), a block without a phi is entered with the same value along each of its edges
   (`EdgeValue`). `DominatorTheory` has this for any graph and any set of definitions
   (`Joined`); definite assignment, stated with a closed set of blocks, gives that
   there is a value wherever a load is reached.
2. *Placing.* `PhiInv` is the worklist: each definition has all its frontier in `phis`, or it is
   still in `queue` of the local at hand. When `genPhi` is done that is `Complete`. A local
   that is never loaded (`LoadedLocals` leaves it out) has no phi, and nothing to rename.
3. *Forwarding.* `ForwardInv` gives the maps of `insideBlockForwarding` by position: `defined_list`
   is the last store so far, `forward_list` has the loads behind a store, each mapped to something that
   is kept. `Kept` is what stays; `UsesInv(.., b, n)` says that each operand of `b` is what the
   instruction it named stands for, `Rep`, and that it is in place and computed before.
4. *Renaming.* `FramesInv` and `VisitedInv` are the depth-first walk: the calls are a path from the entry,
   each successor of a block seen is seen or still to come, and a block that dominates another is passed
   before the other is called. `StackInv` is the heart: for each local there are heights
   `h[1..]`, where each call found its stack, such that the element at each height is
   `ValueAt` the end of the caller, and `Current` is the value at the position of the innermost call.
   `define_var` pops exactly what a call pushed, so that a caller finds its stack as it was.
   What `RenameLoad` puts in is then `ValueAt`; that it is not null is `NeverFaults`.
5. *Phi operands.* `PhiArgsInv`: a phi has one operand for each predecessor that was passed and ends with a
   value, that value, and none for the others. A load that is renamed
   later changes operands and `ValueAt` alike.
6. *Running.* `RunInv` relates memory to the new function: `MemOk`, that memory at `v` is
   what the new program has for `ValueAt` here, and `ValuesOk`, that what the block has
   computed is the same in both. A branch takes the operand of each phi for the edge it follows
   (step 5), and where there is no phi the value is the one there was (step 1).

Each action has its lemma `...Keeps`. `Compile` adds only that nothing is printed
between the parts of the pass (`StageInv`), and that a phi in the finished function has an
operand to take its type from (`PhisHaveOperands`): some definition has the phi's block in its
frontier, hence a predecessor ends with a value.

**`Compile`** (for the same functions, when the kinds of values are told apart, the locals
are finitely many and one block returns, as the builder makes them: `ArgumentAssumption`).
The last part of `Mem2Reg_proofs` proves `TextReadsBack`, with and without passes
(`CompileTextReadsBack`). The argument:

1. *Order.* `Turn` puts what `set_instr_name` visits in a line: no value comes twice in
   `InstrList` (`InstrListFacts`; a phi is in the list once, by `PhiInv`) and no two have one turn
   (`TurnDistinct`).
2. *Names.* `NameInv`: each name is none, `entry`, `ret`, or a prefix with a number below
   `seq_cnt_`, and no two values share one. A naming gives the unnamed values the numbers that follow,
   each a different one (`UnnamedFacts`), and leaves no listed value without a name; what a
   pass takes out keeps its name, so no other value can get it later. `DumpInv` says that
   names once dumped stay.
3. *The moment of printing.* `PrintedInv`: the text is that of the function as it is, all of it
   named, and no pass is half-way through. For a function no pass has touched that needs
   `StartInv`: nothing was forwarded yet.
4. *Reading.* The places of the text that define a name are those of the listed values, one
   each (`PlaceDefines`, `DefinesPlace`), so a name resolves to its value (`NameResolves`). What an operand
   names is listed because Mem2Reg leaves it `InPlace` (steps 3 to 5 above): an
   operand that was deleted would print its old name, and resolve to nothing.
5. *Phis.* `PhiArgsOnce`: a block hands its values to a phi once. So the pairs of a phi are of different
   predecessors, what is missing is as many as the count says, and `undef` fills exactly that
   (`PhiRead`).

Chains, reachability and dominance are defined through closed sets, so that no step
needs an induction over data.

## What is only checked, and what is not modelled

Liveness (`Termination`, `RTermination`, `Prints`, `KeepsUp`) is model-checked only:
liveness under fairness and
`ENABLED` are out of the reach of TLAPS, and so is induction over data, hence
what the recursive definitions of `Grammar`, `LexRules`, `ScopeRules` and `ExprMeaning`
compute for texts and trees of any size: `ParsesGrammar`, `ScansText`, `VerdictRight` and
`ComputesSource` stay with TLC. Out of time rather than reach are
`BufferHoldsText` and the type invariants of the scanner, the parser, the checker and
`ExprBuilder`; those of the scanner and the parser are facts about the generated tables.

Not modelled: types, constants and the module (tables of interned values), logging, the
runtime library, the option parsing of `main` (text, tables, I/O); the bodies the stub
passes do not have; of the scanner and parser the debug output, the destructors of
values and the functions of flex that no rule calls; of the builder, several functions
in one module (`name2func`, the declarations of the library). In `Compile` one function is compiled from
empty stacks. Arrays and their address computations are
locals the pass does not promote, that is, `Globals`; arithmetic, calls and
conversions are instructions that make or take a value, and a text has no types
and no layout. `RDominateTree` is given functions in which each block reaches the
return, since `WellFormedGraph` holds of what the builder makes; of others its walks
would not end. The parser's texts are sequences of tokens and its locations places in
them; lines and columns are the scanner's. Infinities and NaN are left out of `Arithmetic`.

## Plan

In this order; the first four blocks are done.

1. `Dominators`, `DominanceSpec`, `DominateTree` with proofs; `DefUse`; `Mem2Reg`;
   `IRBuilder` and `CompiledRun`.
2. `SyntaxTreeChecker` with `ScopeRules`; `ExprBuilder` with `ExprMeaning` and
   `ExprMachine`.
3. `SysYFScanner` with `LexRules`; `SysYFParser` with `Grammar`; the tree and its printer.
4. `RDominateTree`; `Compile`: naming and printing composed with Mem2Reg.
5. Proofs. Done: the invariants of `DominateTree` and its refinement of `DominanceSpec`,
   `RDominateTree`, `DefUse`, `IRBuilder`, `CompiledRun`, `Mem2Reg`, and that what `Compile` prints
   reads back. To come: `BufferHoldsText` and the type invariant of `SysYFScanner`.
6. `CheckedBuild`: the checker composed with the builder. A program the checker
   accepts resolves each name to the same declaration in both, and the builder
   drops no declaration.
