---------------------------- MODULE SysYFScanner ----------------------------
(***************************************************************************)
(* The scanner flex generated for SysYF: SysYFFlexLexer::yylex with the     *)
(* buffer it reads the file through.  Match runs the automaton from the     *)
(* current place until it jams and looks up the rule to act on; then one   *)
(* action per kind of rule acts on it, the ends of the buffer among them.  *)
(*                                                                         *)
(* A character is its code.  A pointer into yy_ch_buf is an index from     *)
(* zero, so the character at p is ch_buf[p + 1]; ch_buf has the characters *)
(* read, yy_n_chars of them, and the two end-of-buffer characters.         *)
(***************************************************************************)
EXTENDS ScannerTables, Locations, SequencesExt

CONSTANTS Inputs,          \* The texts of files.
          BufSizes,        \* The sizes yy_ch_buf may be created with: {16384}.
          ReadSize,        \* YY_READ_BUF_SIZE: 8192.
          WordSize,        \* The number of values of unsigned: 2^32.
          LargestDouble,   \* The largest decimal std::stod reads, about 1.8e308.
          SmallestDouble   \* The smallest but 0, about 2.2e-308.

ASSUME ScannerAssumption ==
  /\ Inputs \subseteq Seq(0 .. 255)
  /\ BufSizes \subseteq Nat \ {0} /\ ReadSize \in Nat \ {0}
  /\ WordSize \in Nat \ {0} /\ WordSize % 2 = 0
  /\ {LargestDouble, SmallestDouble} \subseteq [digits : Seq(48 .. 57), magnitude : Int]

VARIABLES input,                   \* The text of the file.
          taken,                   \* How much of it LexerInput has delivered.
          ch_buf, buf_size,        \* yy_ch_buf and yy_buf_size
          n_chars, buffer_status,  \* yy_n_chars and yy_buffer_status
          yytext_ptr, c_buf_p,     \* Where the match starts, and ends.
          hold_char,               \* The character yytext's closing NUL stands for.
          last_accepting,          \* yy_last_accepting_state and _cpos: [state, cp]
          act,                     \* The rule to act on, or NoRule before a match.
          loc,
          tokens,                  \* The symbols returned: [tok, value, loc].
          status                   \* "scanning", then "ended" or "exited".

buffer == <<ch_buf, buf_size, n_chars, buffer_status>>
match == <<yytext_ptr, c_buf_p, hold_char, last_accepting>>
vars == <<input, taken, buffer, match, act, loc, tokens, status>>

NoRule == -1
LF == 10
EOB == 0

yy_start == 1
Jam == 112
EndOfBufferRule == 46

(* The characters of the match, and the C string they are read as. *)
yytext == SubSeq(ch_buf, yytext_ptr + 1, c_buf_p)
yyleng == c_buf_p - yytext_ptr
CString(s) == SubSeq(s, 1, SelectInSeq(s \o <<EOB>>, LAMBDA c : c = EOB) - 1)

-----------------------------------------------------------------------------
(* The automaton.  m is its run so far: [state, cp, last].                 *)

NextState[s \in 0 .. 120, c \in 0 .. 49] ==
  IF yy_chk[yy_base[s + 1] + c + 1] = s THEN yy_nxt[yy_base[s + 1] + c + 1]
  ELSE LET d == yy_def[s + 1] IN NextState[d, IF d > Jam THEN yy_meta[c + 1] ELSE c]

(* One character of class c: the last state that accepted is kept. *)
Advanced(m, c) ==
  [state |-> NextState[m.state, c],
   cp    |-> m.cp + 1,
   last  |-> IF yy_accept[m.state + 1] # 0 THEN [state |-> m.state, cp |-> m.cp] ELSE m.last]

(* yy_match: on until it jams, then back to the last state that accepted. *)
Matched(buf, m) ==
  LET run == FoldLeft(LAMBDA r, ch : IF r.state = Jam THEN r ELSE Advanced(r, yy_ec[ch + 1]),
                      m, SubSeq(buf, m.cp + 1, Len(buf)))
  IN [run EXCEPT !.state = run.last.state, !.cp = run.last.cp]

(* Faulty: a NUL is looked up as the end of the buffer. *)
PreviousState_EndsAtNul(buf, from, to) ==
  FoldLeft(LAMBDA r, ch : Advanced(r, yy_ec[ch + 1]),
           [state |-> yy_start, cp |-> from, last |-> last_accepting], SubSeq(buf, from + 1, to))

(* yy_get_previous_state: the run over the characters from "from" to "to", *)
(* where a NUL is a character and not the end of the buffer.               *)
PreviousState(buf, from, to) ==
  FoldLeft(LAMBDA r, ch : Advanced(r, IF ch = EOB THEN 1 ELSE yy_ec[ch + 1]),
           [state |-> yy_start, cp |-> from, last |-> last_accepting], SubSeq(buf, from + 1, to))

(* The buffer with the character the NUL after yytext stands for. *)
Restored == [ch_buf EXCEPT ![c_buf_p + 1] = hold_char]

(* yy_find_action and YY_DO_BEFORE_ACTION, the match being from "from" to m.cp *)
FindAction(buf, from, m) ==
  /\ act' = yy_accept[m.state + 1]
  /\ yytext_ptr' = from
  /\ c_buf_p' = m.cp
  /\ hold_char' = buf[m.cp + 1]
  /\ ch_buf' = [buf EXCEPT ![m.cp + 1] = EOB]
  /\ last_accepting' = m.last

Begun(cp) == [state |-> yy_start, cp |-> cp, last |-> last_accepting]

-----------------------------------------------------------------------------
(* yylex: the next match. *)
Match ==
  /\ status = "scanning" /\ act = NoRule
  /\ FindAction(Restored, c_buf_p, Matched(Restored, Begun(c_buf_p)))
  /\ UNCHANGED <<input, taken, buf_size, n_chars, buffer_status, loc, tokens, status>>

(* case 0: the state at the end of the text accepts nothing. *)
BackUp ==
  /\ status = "scanning" /\ act = 0
  /\ FindAction(Restored, yytext_ptr, [Begun(last_accepting.cp) EXCEPT !.state = last_accepting.state])
  /\ UNCHANGED <<input, taken, buf_size, n_chars, buffer_status, loc, tokens, status>>

(* A rule's action is over; its YY_USER_ACTION has taken in the columns. *)
Acted ==
  /\ act' = NoRule
  /\ UNCHANGED <<input, taken, buffer, match>>

Columned == columns(loc, yyleng)

(* RET_NOTYPE_TOKEN and RET_TYPE_TOKEN: the next location starts here. *)
Return(tok, value) ==
  /\ tokens' = Append(tokens, [tok |-> tok, value |-> value, loc |-> Columned])
  /\ loc' = step(Columned)
  /\ Acted
  /\ UNCHANGED status

(* A rule that returns nothing leaves the location at "at". *)
Skip(at) ==
  /\ loc' = at
  /\ Acted
  /\ UNCHANGED <<tokens, status>>

(* exit(1), or an exception nobody catches *)
Exit ==
  /\ status' = "exited"
  /\ loc' = Columned
  /\ Acted
  /\ UNCHANGED tokens

Rule(r) == status = "scanning" /\ act = r

-----------------------------------------------------------------------------
(* The rules.                                                              *)

(* Keywords, operators and brackets, LRBRACKET with all that is inside it. *)
Spelled ==
  /\ status = "scanning" /\ act \in DOMAIN RuleToken
  /\ Return(RuleToken[act], <<>>)

(* Faulty: the next token begins with the blanks before it. *)
Blanks_NotStepped == Rule(35) /\ Skip(Columned)

Blanks == Rule(35) /\ Skip(step(Columned))

Newlines == Rule(36) /\ Skip(step(lines(Columned, yyleng)))

(* The location is not stepped. *)
MultilineComment ==
  /\ Rule(37)
  /\ Skip(lines(Columned, Len(SelectSeq(CString(yytext), LAMBDA c : c = LF))))

SingleLineComment == Rule(38) /\ Skip(step(lines(Columned, 1)))

(* Digits, an unsigned word and the int of the same bits *)
ch2int(c) == IF c < 58 THEN c - 48 ELSE IF c < 71 THEN c - 55 ELSE c - 87
(* Faulty: letters are digits like any other. *)
Sum_OfCodes(base, digits) == FoldLeft(LAMBDA sum, c : (sum * base + c - 48) % WordSize, 0, digits)
Sum(base, digits) == FoldLeft(LAMBDA sum, c : (sum * base + ch2int(c)) % WordSize, 0, digits)
AsInt(sum) == IF sum < WordSize \div 2 THEN sum ELSE sum - WordSize

(* The digits a constant is read from: those after "0x", or after the "0". *)
IntConst ==
  /\ status = "scanning"
  /\ \E r \in {[rule |-> 39, base |-> 10, from |-> 1], [rule |-> 40, base |-> 16, from |-> 3],
               [rule |-> 41, base |-> 8, from |-> 2]} :
       /\ act = r.rule
       /\ Return("INTCONST", <<AsInt(Sum(r.base, SubSeq(yytext, r.from, yyleng)))>>)

Identifier == Rule(42) /\ Return("IDENTIFIER", yytext)

(* std::stod throws on what is too large for a double, and on what is so   *)
(* small that a double does not have all its digits, but for zero.  A      *)
(* decimal is its digits from the first that is not 0, and the power of    *)
(* ten which that one counts.                                              *)
LOCAL Value(digits) == FoldLeft(LAMBDA sum, c : sum * 10 + c - 48, 0, digits)
LOCAL IsExponentMark(c) == c \in {69, 101}
AsDecimal(s) ==
  LET e == SelectInSeq(s \o <<101>>, IsExponentMark)
      m == SubSeq(s, 1, e - 1)
      point == SelectInSeq(m \o <<46>>, LAMBDA c : c = 46)
      first == SelectInSeq(m, LAMBDA c : c \in 49 .. 57)
      power == Value(SelectSeq(SubSeq(s, e + 1, Len(s)), LAMBDA c : c \in 48 .. 57))
  IN [digits    |-> IF first = 0 THEN <<>> ELSE SelectSeq(SubSeq(m, first, Len(m)), LAMBDA c : c # 46),
      magnitude |-> (IF first < point THEN point - first - 1 ELSE point - first)
                    + (IF e < Len(s) /\ s[e + 1] = 45 THEN -power ELSE power)]
LOCAL DigitAt(x, i) == IF i \in DOMAIN x.digits THEN x.digits[i] ELSE 48
Smaller(x, y) ==
  \/ x.magnitude < y.magnitude
  \/ /\ x.magnitude = y.magnitude
     /\ \E i \in DOMAIN y.digits :
          DigitAt(x, i) < y.digits[i] /\ \A j \in 1 .. i - 1 : DigitAt(x, j) = y.digits[j]
OutOfRange(s) ==
  LET x == AsDecimal(s) IN x.digits # <<>> /\ (Smaller(LargestDouble, x) \/ Smaller(x, SmallestDouble))

FloatConst ==
  /\ Rule(43)
  /\ IF OutOfRange(yytext) THEN Exit ELSE Return("FLOATCONST", yytext)

(* A character no token starts with: "Error in scanner!" *)
Stray == Rule(44) /\ Exit

-----------------------------------------------------------------------------
(* YY_END_OF_BUFFER.  The match ended on an end-of-buffer character: one   *)
(* the file holds, a NUL, if it lies within what was read.                 *)

EndOfBuffer == Rule(EndOfBufferRule)

Nul ==
  /\ EndOfBuffer /\ c_buf_p <= n_chars
  /\ LET m == Advanced(PreviousState(Restored, yytext_ptr, c_buf_p - 1), 1) IN
     IF m.state # Jam THEN FindAction(Restored, yytext_ptr, Matched(Restored, m))
     ELSE FindAction(Restored, yytext_ptr, [m EXCEPT !.state = m.last.state, !.cp = m.last.cp])
  /\ UNCHANGED <<input, taken, buf_size, n_chars, buffer_status, loc, tokens, status>>

(* Faulty: the end-of-buffer character is moved too. *)
Moved_WithEnd == SubSeq(Restored, yytext_ptr + 1, c_buf_p)

(* yy_get_next_buffer: what was matched moves to the front, and as much is *)
(* read behind it as there is room for, in a larger buffer if there is     *)
(* none.  After an end of the file was seen it reads nothing.              *)
Moved == SubSeq(Restored, yytext_ptr + 1, c_buf_p - 1)
Ended == buffer_status = "EOF_PENDING"
Grown[size \in Nat] == IF size - Len(Moved) - 1 <= 0 THEN Grown[2 * size] ELSE size
LexerInput(max_size) == SubSeq(input, taken + 1, taken + Min({max_size, Len(input) - taken}))
(* Faulty: as much is read as at all can be. *)
Read_PastBuffer == IF Ended THEN <<>> ELSE LexerInput(ReadSize)

Read == IF Ended THEN <<>> ELSE LexerInput(Min({Grown[buf_size] - Len(Moved) - 1, ReadSize}))
Filled == Moved \o Read \o <<EOB, EOB>>

yy_get_next_buffer(to) ==
  /\ EndOfBuffer /\ c_buf_p > n_chars
  /\ taken' = taken + Len(Read)
  /\ buf_size' = IF Ended THEN buf_size ELSE Grown[buf_size]
  /\ n_chars' = Len(Moved) + Len(Read)
  /\ buffer_status' = to

(* EOB_ACT_CONTINUE_SCAN: the match goes on from where it was. *)
ContinueScan ==
  /\ yy_get_next_buffer("NORMAL")
  /\ Read # <<>>
  /\ FindAction(Filled, 0, Matched(Filled, PreviousState(Filled, 0, Len(Moved))))
  /\ UNCHANGED <<input, loc, tokens, status>>

(* EOB_ACT_LAST_MATCH *)
LastMatch ==
  /\ yy_get_next_buffer("EOF_PENDING")
  /\ Read = <<>> /\ Moved # <<>>
  /\ FindAction(Filled, 0, PreviousState(Filled, 0, Len(Moved)))
  /\ UNCHANGED <<input, loc, tokens, status>>

(* EOB_ACT_END_OF_FILE: the buffer is flushed, and END returned. *)
EndOfFile ==
  /\ yy_get_next_buffer("NEW")
  /\ Read = <<>> /\ Moved = <<>>
  /\ ch_buf' = Filled /\ yytext_ptr' = 0 /\ c_buf_p' = 0 /\ hold_char' = EOB
  /\ tokens' = Append(tokens, [tok |-> "END", value |-> <<>>, loc |-> loc])
  /\ loc' = step(loc)
  /\ act' = NoRule /\ status' = "ended"
  /\ UNCHANGED <<input, last_accepting>>

-----------------------------------------------------------------------------
(* switch_streams creates the buffer, empty but for the ends. *)
Init ==
  /\ input \in Inputs /\ taken = 0
  /\ ch_buf = <<EOB, EOB>> /\ buf_size \in BufSizes
  /\ n_chars = 0 /\ buffer_status = "NEW"
  /\ yytext_ptr = 0 /\ c_buf_p = 0 /\ hold_char = EOB
  /\ last_accepting = [state |-> 0, cp |-> 0]
  /\ act = NoRule /\ loc = FirstLocation /\ tokens = <<>> /\ status = "scanning"

Next ==
  \/ Match \/ BackUp
  \/ Spelled \/ Blanks \/ Newlines \/ MultilineComment \/ SingleLineComment
  \/ IntConst \/ Identifier \/ FloatConst \/ Stray
  \/ Nul \/ ContinueScan \/ LastMatch \/ EndOfFile

Spec == Init /\ [][Next]_vars

-----------------------------------------------------------------------------
TypeOK ==
  /\ input \in Seq(0 .. 255) /\ taken \in 0 .. Len(input)
  /\ ch_buf \in Seq(0 .. 255) /\ buf_size \in Nat \ {0}
  /\ n_chars \in 0 .. buf_size /\ buffer_status \in {"NEW", "NORMAL", "EOF_PENDING"}
  /\ yytext_ptr \in 0 .. n_chars /\ c_buf_p \in yytext_ptr .. n_chars + 1
  /\ hold_char \in 0 .. 255
  /\ last_accepting \in [state : 0 .. Jam, cp : Nat]
  /\ act \in {NoRule} \cup 0 .. EndOfBufferRule
  /\ loc \in [begin : [line : Nat, column : Nat], end : [line : Nat, column : Nat]]
  /\ status \in {"scanning", "ended", "exited"}
=============================================================================
