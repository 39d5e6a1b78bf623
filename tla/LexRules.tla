------------------------------ MODULE LexRules ------------------------------
(***************************************************************************)
(* The rules of SysYFScanner.ll as sets of strings, and the reading of a   *)
(* whole text they call for: at each place the longest string some rule    *)
(* has, by the first of the rules that have it.  Nothing here knows of     *)
(* tables, of a buffer or of reading a file in pieces.                     *)
(***************************************************************************)
EXTENDS Integers, Sequences, FiniteSetsExt

Digit == 48 .. 57
HexDigit == Digit \cup 65 .. 70 \cup 97 .. 102
Letter == 65 .. 90 \cup 97 .. 122 \cup {95}
Blank == {32, 9, 13}
NewLine == 10

(* float int return void const break continue while if else               *)
(* < <= > >= == != ! && || + - * / % = ; , ( ) [ ] { }                     *)
Words ==
  <<<<102, 108, 111, 97, 116>>, <<105, 110, 116>>, <<114, 101, 116, 117, 114, 110>>,
    <<118, 111, 105, 100>>, <<99, 111, 110, 115, 116>>, <<98, 114, 101, 97, 107>>,
    <<99, 111, 110, 116, 105, 110, 117, 101>>, <<119, 104, 105, 108, 101>>, <<105, 102>>,
    <<101, 108, 115, 101>>, <<60>>, <<60, 61>>, <<62>>, <<62, 61>>, <<61, 61>>, <<33, 61>>, <<33>>,
    <<38, 38>>, <<124, 124>>, <<43>>, <<45>>, <<42>>, <<47>>, <<37>>, <<61>>, <<59>>, <<44>>,
    <<40>>, <<41>>, <<91>>, <<93>>, <<123>>, <<125>>>>

Over(s, chars) == \A i \in DOMAIN s : s[i] \in chars
Rest(s, i) == SubSeq(s, i, Len(s))
StartsWith(s, prefix) == Len(s) >= Len(prefix) /\ SubSeq(s, 1, Len(prefix)) = prefix

(* The first star and slash after the opening close a comment. *)
IsMultilineComment(s) ==
  /\ Len(s) >= 4 /\ StartsWith(s, <<47, 42>>) /\ Rest(s, Len(s) - 1) = <<42, 47>>
  /\ \A i \in 3 .. Len(s) - 2 : ~(s[i] = 42 /\ s[i + 1] = 47)

IsSingleLineComment(s) ==
  /\ Len(s) >= 3 /\ StartsWith(s, <<47, 47>>) /\ s[Len(s)] \in {NewLine, 13}
  /\ \A i \in 3 .. Len(s) - 1 : s[i] \notin {NewLine, 13}

(* A pair of square brackets with white space and comments between them. *)
IsLRBracket(s) ==
  /\ Len(s) >= 2 /\ s[1] = 91 /\ s[Len(s)] = 93
  /\ LET Gap[i \in 2 .. Len(s)] ==
           \/ i = 2
           \/ s[i - 1] \in Blank \cup {NewLine} /\ Gap[i - 1]
           \/ \E j \in 2 .. i - 1 : LET piece == SubSeq(s, j, i - 1) IN
                (IsMultilineComment(piece) \/ IsSingleLineComment(piece)) /\ Gap[j]
     IN Gap[Len(s)]

IsDigits(s) == s # <<>> /\ Over(s, Digit)
IsExponent(s) ==
  /\ s # <<>> /\ s[1] \in {69, 101}
  /\ \/ IsDigits(Rest(s, 2))
     \/ Len(s) >= 3 /\ s[2] \in {43, 45} /\ IsDigits(Rest(s, 3))
IsFraction(s) ==
  Len(s) >= 2 /\ \E i \in DOMAIN s : s[i] = 46 /\ Over(SubSeq(s, 1, i - 1), Digit) /\ Over(Rest(s, i + 1), Digit)
IsFloat(s) ==
  \/ IsFraction(s)
  \/ \E i \in 1 .. Len(s) - 1 : LET m == SubSeq(s, 1, i) IN
       (IsFraction(m) \/ IsDigits(m)) /\ IsExponent(Rest(s, i + 1))

(* Whether s is a string of rule r, the rules numbered as they are listed. *)
HasString(r, s) ==
  CASE r \in DOMAIN Words -> s = Words[r]
    [] r = 34 -> IsLRBracket(s)
    [] r = 35 -> Over(s, Blank)
    [] r = 36 -> Over(s, {NewLine})
    [] r = 37 -> IsMultilineComment(s)
    [] r = 38 -> IsSingleLineComment(s)
    [] r = 39 -> s[1] \in 49 .. 57 /\ Over(s, Digit)
    [] r = 40 -> Len(s) >= 3 /\ s[1] = 48 /\ s[2] \in {88, 120} /\ Over(Rest(s, 3), HexDigit)
    [] r = 41 -> s[1] = 48 /\ Over(s, 48 .. 55)
    [] r = 42 -> s[1] \in Letter /\ Over(s, Letter \cup Digit)
    [] r = 43 -> IsFloat(s)
    [] r = 44 -> Len(s) = 1 /\ s[1] # NewLine

RulesOf(s) == {r \in 1 .. 44 : HasString(r, s)}

(* The match at place i of text: its rule and its string. *)
LongestMatch(text, i) ==
  LET ends == {j \in i .. Len(text) : RulesOf(SubSeq(text, i, j)) # {}}
      string == SubSeq(text, i, Max(ends))
  IN [rule |-> Min(RulesOf(string)), string |-> string, at |-> i]

(* The matches of a text in their order. *)
Matches(text) ==
  LET From[i \in 1 .. Len(text) + 1] ==
        IF i > Len(text) THEN <<>>
        ELSE LET m == LongestMatch(text, i) IN <<m>> \o From[i + Len(m.string)]
  IN From[1]

Number(base, digits) ==
  LET worth(c) == IF c \in Digit THEN c - 48 ELSE IF c < 71 THEN c - 55 ELSE c - 87 IN
  MapThenSumSet(LAMBDA i : worth(digits[i]) * base ^ (Len(digits) - i), DOMAIN digits)

(* What a constant is worth in words of that size: the sum of its digits'  *)
(* worths, and negative when its top bit is set.                           *)
ValueIn(words, base, digits) ==
  LET total == Number(base, digits) % words IN
  IF 2 * total >= words THEN total - words ELSE total

(* How many of each power of ten a float constant is worth. *)
Powers == -99 .. 99
Worth(s) ==
  LET mark == Min({i \in DOMAIN s : s[i] \in {69, 101}} \cup {Len(s) + 1})
      point == Min({i \in DOMAIN s : s[i] = 46} \cup {mark})
      signed == mark < Len(s) /\ s[mark + 1] \in {43, 45}
      scale == Number(10, Rest(s, IF signed THEN mark + 2 ELSE mark + 1))
      shift == IF signed /\ s[mark + 1] = 45 THEN -scale ELSE scale
      place(k) == IF k < shift THEN point + shift - k ELSE point + shift - k - 1
  IN [k \in Powers |-> IF place(k) \in 1 .. mark - 1 THEN s[place(k)] - 48 ELSE 0]

More(a, b) == \E k \in Powers : a[k] > b[k] /\ \A j \in k + 1 .. 99 : a[j] = b[j]

(* Whether a float constant is neither zero nor from least to most. *)
IsBeyond(s, least, most) ==
  /\ \E k \in Powers : Worth(s)[k] # 0
  /\ More(Worth(s), Worth(most)) \/ More(Worth(least), Worth(s))
=============================================================================
