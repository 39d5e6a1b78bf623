---------------------------- MODULE MCSysYFScanner ----------------------------
(***************************************************************************)
(* Every short text over the pieces that interest one kind of rule, read   *)
(* through buffers so small that they are filled, grown and moved within a *)
(* word, and what the scanner makes of it against the rules.               *)
(***************************************************************************)
EXTENDS SysYFScanner, LexRules

(* 0 7 8 x a e . + - *)
Numeric == {<<48>>, <<55>>, <<56>>, <<120>>, <<97>>, <<101>>, <<46>>, <<43>>, <<45>>}
(* / * a, line feed, carriage return, NUL, and the openings and closings *)
Commented == {<<47>>, <<42>>, <<97>>, <<LF>>, <<13>>, <<47, 42>>, <<42, 47>>, <<47, 47>>, <<EOB>>}
(* [ ] a blank, a line feed, a pair of brackets, comments *)
Bracketed == {<<91>>, <<93>>, <<32>>, <<LF>>, <<91, LF, 93>>, <<47, 42>>, <<42, 47>>, <<47, 47>>}
(* the words, a digit, an underscore, and characters no token starts with *)
Lettered == {Words[r] : r \in 1 .. 10} \cup {<<97>>, <<49>>, <<95>>, <<32>>}
Operator == {Words[r] : r \in 11 .. 33} \cup {<<38>>, <<124>>, <<64>>, <<EOB>>}

Texts(pieces, n) == {FlattenSeq(s) : s \in SeqOf(pieces, n)}

MCInputs ==
  UNION {Texts(Numeric, 4), Texts(Commented, 4), Texts(Bracketed, 4), Texts(Lettered, 2), Texts(Operator, 2)}

MCBufSizes == {1, 6}

(* A double holds .078 to 78e7: the constants as written and as decimals. *)
Least == <<46, 48, 55, 56>>
Most == <<55, 56, 101, 55>>
MCSmallestDouble == [digits |-> <<55, 56>>, magnitude |-> -2]
MCLargestDouble == [digits |-> <<55, 56>>, magnitude |-> 8]

(* The scanner is not called again after the end. *)
Done == status # "scanning" /\ UNCHANGED vars
MCSpec == Init /\ [][Next \/ Done]_vars

-----------------------------------------------------------------------------
(* The matches of the text that are acted on, and those with a token. *)
EndsScan(m) == m.rule = 44 \/ (m.rule = 43 /\ IsBeyond(m.string, Least, Most))
Acting(ms) ==
  SubSeq(ms, 1, IF \E i \in DOMAIN ms : EndsScan(ms[i]) THEN SelectInSeq(ms, EndsScan) - 1 ELSE Len(ms))
Tokened(ms) == SelectSeq(ms, LAMBDA m : m.rule \notin 35 .. 38)

SymbolOf(m) ==
  CASE m.rule \in DOMAIN RuleToken -> [tok |-> RuleToken[m.rule], value |-> <<>>]
    [] m.rule = 39 -> [tok |-> "INTCONST", value |-> <<ValueIn(WordSize, 10, m.string)>>]
    [] m.rule = 40 -> [tok |-> "INTCONST", value |-> <<ValueIn(WordSize, 16, Rest(m.string, 3))>>]
    [] m.rule = 41 -> [tok |-> "INTCONST", value |-> <<ValueIn(WordSize, 8, m.string)>>]
    [] m.rule = 42 -> [tok |-> "IDENTIFIER", value |-> m.string]
    [] m.rule = 43 -> [tok |-> "FLOATCONST", value |-> m.string]

(***************************************************************************)
(* However the text is cut up by the buffer, what is returned are the      *)
(* longest matches of the rules, one after the other, each constant with   *)
(* its value in a machine word; the scan exits at the first character no   *)
(* token starts with and at a float no double holds, and only there.       *)
(***************************************************************************)
ScansText ==
  status # "scanning" =>
    LET ms == Matches(input)
        meant == Tokened(Acting(ms))
        symbols == [i \in DOMAIN meant |-> SymbolOf(meant[i])]
        returned == [i \in DOMAIN tokens |-> [tok |-> tokens[i].tok, value |-> tokens[i].value]]
    IN /\ status = "exited" <=> \E i \in DOMAIN ms : EndsScan(ms[i])
       /\ returned = IF status = "exited" THEN symbols ELSE Append(symbols, [tok |-> "END", value |-> <<>>])

(***************************************************************************)
(* No character is lost or read twice when the buffer is moved, grown and  *)
(* filled: from the match on it holds what follows in the file up to where *)
(* that has been read, then the two characters that stop every match.      *)
(***************************************************************************)
BufferHoldsText ==
  /\ Len(Restored) = n_chars + 2 /\ n_chars <= buf_size
  /\ SubSeq(Restored, n_chars + 1, n_chars + 2) = <<EOB, EOB>>
  /\ IsSuffix(SubSeq(Restored, yytext_ptr + 1, n_chars), SubSeq(input, 1, taken))

(* Where the first n characters of the text end. *)
PointAfter(n) ==
  LET feeds == {i \in 1 .. n : input[i] = LF} IN
  [line |-> Cardinality(feeds) + 1, column |-> n + 1 - (IF feeds = {} THEN 0 ELSE Max(feeds))]

HoldsFeed(m) == \E i \in DOMAIN m.string : m.string[i] = LF
StartsLine(m) == m.rule \in {36, 38} /\ m.string[Len(m.string)] = LF
(* Lines are miscounted in brackets, at the carriage return that ends a    *)
(* comment, and after a NUL in a comment; and columns on the line where    *)
(* one of these or a comment over several lines ends.                      *)
LosesLine(m) ==
  \/ m.rule = 34 /\ HoldsFeed(m)
  \/ m.rule = 38 /\ ~StartsLine(m)
  \/ m.rule = 37 /\ \E i \in DOMAIN m.string : m.string[i] = EOB
LosesColumn(m) == LosesLine(m) \/ (m.rule = 37 /\ HoldsFeed(m))

(* point is the end of the match j of ms, as far as lines and columns have *)
(* not been lost on the way there.                                         *)
Tells(point, ms, j) ==
  LET true == PointAfter(IF j = 0 THEN 0 ELSE ms[j].at + Len(ms[j].string) - 1) IN
  /\ (\A k \in 1 .. j : ~LosesLine(ms[k])) => point.line = true.line
  /\ (\A k \in 1 .. j : LosesColumn(ms[k]) => \E l \in k + 1 .. j : StartsLine(ms[l])) => point.column = true.column

(***************************************************************************)
(* A token is located where it is: from the end of what was matched before *)
(* it, comments over several lines left out, to its own end.  The lines    *)
(* are right unless LosesLine came before, the columns unless LosesColumn  *)
(* did since the last line began.                                          *)
(***************************************************************************)
LocationsTrue ==
  status # "scanning" =>
    LET ms == Acting(Matches(input))
        Stepped(i) == Max({0} \cup {k \in 1 .. i - 1 : ms[k].rule # 37})
        TokenOf(i) == Cardinality({k \in 1 .. i : ms[k].rule \notin 35 .. 38})
    IN \A i \in DOMAIN ms : ms[i].rule \notin 35 .. 38 =>
         /\ Tells(tokens[TokenOf(i)].loc.begin, ms, Stepped(i))
         /\ Tells(tokens[TokenOf(i)].loc.end, ms, i)

(* What is left to do: the characters not yet matched, and those not read; *)
(* then what the match waits for, and how far behind it is.                *)
Left ==
  LET first == taken - n_chars IN
  <<Len(input) - (first + (IF act = NoRule THEN c_buf_p ELSE yytext_ptr)),
    Len(input) - taken,
    CASE act = NoRule -> 3 [] act = EndOfBufferRule -> 2 [] act = 0 -> 1 [] OTHER -> 0,
    Len(input) - (first + c_buf_p) + 1>>

(***************************************************************************)
(* The scan ends: every step leaves less to do, so neither filling the     *)
(* buffer nor backing up nor a rule with nothing to match goes on for      *)
(* ever; and it stops nowhere else (the check for deadlock).               *)
(***************************************************************************)
ScanAdvances ==
  [][status' = "scanning" =>
       \E i \in DOMAIN Left : Left'[i] \in 0 .. Left[i] - 1 /\ \A j \in 1 .. i - 1 : Left'[j] = Left[j]]_vars
=============================================================================
