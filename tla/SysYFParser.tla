----------------------------- MODULE SysYFParser -----------------------------
(***************************************************************************)
(* SysYFParser::parse, one action per turn of its loop: read a token when  *)
(* the state needs one, shift it, reduce by a rule, hand the tree to the   *)
(* driver, or report a syntax error and give up.  No rule of the grammar   *)
(* mentions the error token, so recovery pops the whole stack and the      *)
(* parse ends at its first error.                                          *)
(*                                                                         *)
(* The text is chosen while it is read: "tokens" is what is known of it,   *)
(* MoreText(tokens) what may follow that.  A token is [tok], or [tok, name] *)
(* or [tok, val] when it carries an identifier or a number.  Token i lies  *)
(* between positions 2i - 1 and 2i.                                        *)
(***************************************************************************)
EXTENDS ParserActions, SequencesExt

CONSTANTS Texts,        \* The beginnings of a text.
          MoreText(_),  \* The pieces that may follow a text; nothing follows END.
          StackRoom     \* The symbols the stack first has room for: 200.

ASSUME ParserAssumption ==
  /\ StackRoom \in Nat \ {0}
  /\ \A s \in States : ~ShiftsError(s)

VARIABLES tokens,    \* The text as far as it is known.
          scanned,   \* How many of its tokens have been read.
          yystack_,  \* Symbols [state, value, loc], the top last.
          room,      \* The symbols yystack_ can hold before it is moved.
          yyla,      \* The lookahead: a symbol [kind, value, loc], or NoSymbol.
          report,    \* The message about the error, or NoReport.
          root,      \* driver.root
          yyresult   \* "parsing", then "accepted" or "aborted".

vars == <<tokens, scanned, yystack_, room, yyla, report, root, yyresult>>

-----------------------------------------------------------------------------
(* Symbols.  A variant is moved as the type its symbol's kind calls for,   *)
(* and asserts that it holds that type.                                    *)

S_YYEMPTY == -2
NoSymbol == [kind |-> S_YYEMPTY, value |-> NoValue, loc |-> NoLoc]
NoReport == [at |-> NoLoc, unexpected |-> S_YYEMPTY, expecting |-> {}]

KindInState(s) == yystos_[s + 1]

Moved(k, v) == IF HoldsType(v, ValueType(k)) THEN v ELSE Emplaced("assertion failed", <<>>)

(* The value token t comes with. *)
Carried(t) ==
  CASE t.tok = "IDENTIFIER" -> Emplaced("string", t.name)
    [] t.tok = "INTCONST"   -> Emplaced("int", t.val)
    [] t.tok = "FLOATCONST" -> Emplaced("float", t.float)
    [] OTHER                -> NoValue

(* make_TOKEN for token i of the text. *)
Symbol(i, t) ==
  [kind |-> yytranslate_(token_kind[t.tok]), value |-> Carried(t), loc |-> [begin |-> 2 * i - 1, end |-> 2 * i]]

Lookahead(sym) == [sym EXCEPT !.value = Moved(sym.kind, @)]
StackSymbol(s, sym) == [state |-> s, value |-> Moved(sym.kind, sym.value), loc |-> sym.loc]
Relocated(sym) == [sym EXCEPT !.value = Moved(KindInState(sym.state), @)]
Destructible(sym) == HoldsType(sym.value, ValueType(KindInState(sym.state)))

(* as<T>(), T being the type of a value of that kind *)
Held(sym) == sym.value[ValueType(KindInState(sym.state))]

Top == yystack_[Len(yystack_)]
yypop_(n) == SubSeq(yystack_, 1, Len(yystack_) - n)

(* yypush_ onto stack: a full stack moves its symbols into twice the room. *)
yypush_(stack, sym) ==
  LET full == Len(stack) = room IN
  /\ room' = IF full THEN 2 * room ELSE room
  /\ yystack_' = Append(IF full THEN [i \in DOMAIN stack |-> Relocated(stack[i])] ELSE stack,
                        [sym EXCEPT !.value = Moved(KindInState(sym.state), @)])

(* Faulty: an empty right-hand side is located at the symbol before it. *)
DefaultLocation_SpansPrevious(n) ==
  LET size == Len(yystack_) IN
  IF n > 0 THEN [begin |-> yystack_[size - n + 1].loc.begin, end |-> yystack_[size].loc.end]
  ELSE yystack_[size].loc

(* YYLLOC_DEFAULT: from the first symbol of the right-hand side to the     *)
(* last, or nothing after the symbol before it.                            *)
DefaultLocation(n) ==
  LET size == Len(yystack_) IN
  IF n > 0 THEN [begin |-> yystack_[size - n + 1].loc.begin, end |-> yystack_[size].loc.end]
  ELSE [begin |-> yystack_[size].loc.end, end |-> yystack_[size].loc.end]

-----------------------------------------------------------------------------
NeedsLookahead == ~yy_pact_value_is_default_(Top.state)

(* What the parser does next, when it need not read first. *)
Decision ==
  IF NeedsLookahead THEN ActionOn(Top.state, yyla.kind) ELSE DefaultAction(Top.state)

Decides(what) ==
  /\ yyresult = "parsing"
  /\ NeedsLookahead => yyla.kind # S_YYEMPTY
  /\ Decision.do = what

Init ==
  /\ tokens \in Texts
  /\ scanned = 0
  /\ yystack_ = <<[state |-> 0, value |-> NoValue, loc |-> NoLoc]>>
  /\ room = StackRoom
  /\ yyla = NoSymbol
  /\ report = NoReport
  /\ root = nullptr
  /\ yyresult = "parsing"

Lex ==
  /\ yyresult = "parsing"
  /\ NeedsLookahead /\ yyla.kind = S_YYEMPTY
  /\ \E piece \in IF scanned < Len(tokens) THEN {<<>>} ELSE MoreText(tokens) :
       /\ tokens' = tokens \o piece
       /\ yyla' = Lookahead(Symbol(scanned + 1, tokens'[scanned + 1]))
  /\ scanned' = scanned + 1
  /\ UNCHANGED <<yystack_, room, report, root, yyresult>>

Shift ==
  /\ Decides("shift")
  /\ yypush_(yystack_, StackSymbol(Decision.to, yyla))
  /\ yyla' = NoSymbol
  /\ UNCHANGED <<tokens, scanned, report, root, yyresult>>

Reduction(rule, uncovered) ==
  LET yylen == yyr2_[rule + 1]
      held == [i \in 1..yylen |-> Held(yystack_[Len(yystack_) - yylen + i])]
      sym == yyr1_[rule + 1]
  IN yypush_(yypop_(yylen),
             [state |-> yy_lr_goto_state_(uncovered.state, sym),
              value |-> Emplaced(ValueType(sym), RuleValue(rule, held, DefaultLocation(yylen))),
              loc |-> DefaultLocation(yylen)])

(* Faulty: the goto is looked up in the state on top, before the pop. *)
Reduce_GotoFromTop ==
  /\ Decides("reduce")
  /\ Decision.by # 2
  /\ Reduction(Decision.by, Top)
  /\ UNCHANGED <<tokens, scanned, yyla, report, root, yyresult>>

Reduce ==
  /\ Decides("reduce")
  /\ Decision.by # 2
  /\ Reduction(Decision.by, yystack_[Len(yystack_) - yyr2_[Decision.by + 1]])
  /\ UNCHANGED <<tokens, scanned, yyla, report, root, yyresult>>

(* Begin: CompUnit END.  Its action returns from parse, so the final state *)
(* is never entered.                                                       *)
Begin ==
  /\ Decides("reduce")
  /\ Decision.by = 2
  /\ root' = [Held(yystack_[Len(yystack_) - 1]) EXCEPT !.loc = DefaultLocation(2)]
  /\ yyresult' = "accepted"
  /\ UNCHANGED <<tokens, scanned, yystack_, room, yyla, report>>

(* The message lists what was expected when that is at most four kinds. *)
MaxExpected == 4

Report(expected) ==
  [at |-> yyla.loc, unexpected |-> yyla.kind,
   expecting |-> IF Cardinality(expected) <= MaxExpected THEN expected ELSE {}]

(* Faulty: the message is made when the stack has been emptied. *)
SyntaxError_ReportsLate ==
  /\ Decides("error")
  /\ report' = Report(expected_tokens(yystack_[1].state))
  /\ yystack_' = <<yystack_[1]>>
  /\ yyla' = NoSymbol
  /\ yyresult' = "aborted"
  /\ UNCHANGED <<tokens, scanned, room, root>>

SyntaxError ==
  /\ Decides("error")
  /\ report' = Report(expected_tokens(Top.state))
  /\ yystack_' = <<yystack_[1]>>
  /\ yyla' = NoSymbol
  /\ yyresult' = "aborted"
  /\ UNCHANGED <<tokens, scanned, room, root>>

Next == Lex \/ Shift \/ Reduce \/ Begin \/ SyntaxError

Spec == Init /\ [][Next]_vars

(***************************************************************************)
(* The stack spells a path of the automaton, and every symbol on it, and   *)
(* the lookahead, holds a value of the type its kind calls for: what the   *)
(* variants assert whenever a symbol is moved, read or destroyed.  The     *)
(* stack stays within its room.                                            *)
(***************************************************************************)
TypeOK ==
  /\ yyresult \in {"parsing", "accepted", "aborted"}
  /\ scanned \in 0..Len(tokens)
  /\ Len(yystack_) \in 1..room
  /\ \A i \in DOMAIN yystack_ : yystack_[i].state \in States \ {yyfinal_} /\ Destructible(yystack_[i])
  /\ \A i \in DOMAIN yystack_ : i > 1 =>
       LET below == yystack_[i - 1].state
           here == yystack_[i].state
           k == KindInState(here)
       IN IF k < YYNTOKENS THEN ActionOn(below, k) = [do |-> "shift", to |-> here]
                           ELSE yy_lr_goto_state_(below, k) = here
  /\ yyla.kind # S_YYEMPTY => yyla.kind \in 0..(YYNTOKENS - 1) /\ HoldsType(yyla.value, ValueType(yyla.kind))
=============================================================================
