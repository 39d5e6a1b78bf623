---- MODULE ScannerTables ----
(***************************************************************************)
(* The tables of the scanner flex generated for SysYF.  Row i of a table is *)
(* its element i+1 here: the source counts from 0.  A transition of state s *)
(* on class c is at yy_base[s] + c of yy_nxt when yy_chk has s there, and   *)
(* otherwise that of the state yy_def[s], whose templates (from 113 on) see *)
(* the class through yy_meta.                                               *)
(***************************************************************************)
EXTENDS Integers, Sequences

(* The rule each state accepts: 0 none, 46 the end of the buffer. *)
yy_accept ==
  <<0, 0, 0, 46, 44, 35, 36, 17, 24, 44, 28, 29, 22, 20, 27, 21, 44, 23, 41, 39, 26, 11, 25, 13, 42, 30, 31,
    42, 42, 42, 42, 42, 42, 42, 42, 32, 44, 33, 35, 36, 16, 18, 43, 0, 0, 43, 41, 0, 0, 0, 39, 12, 15, 14,
    42, 0, 0, 34, 42, 42, 42, 42, 9, 42, 42, 42, 42, 19, 0, 0, 0, 0, 0, 38, 0, 43, 40, 0, 0, 42, 42, 42, 42,
    2, 42, 42, 42, 0, 43, 37, 0, 0, 0, 0, 42, 42, 42, 10, 42, 42, 4, 42, 6, 5, 42, 1, 42, 8, 42, 3, 42, 7,
    0>>

(* The class of each character. *)
yy_ec ==
  <<0, 1, 1, 1, 1, 1, 1, 1, 1, 2, 3, 1, 1, 4, 1, 1, 1, 1, 1, 1, 1, 1, 1, 1, 1, 1, 1, 1, 1, 1, 1, 1, 2, 5, 1,
    1, 1, 6, 7, 1, 8, 9, 10, 11, 12, 13, 14, 15, 16, 17, 17, 17, 17, 17, 17, 17, 18, 18, 1, 19, 20, 21, 22,
    1, 1, 23, 23, 23, 23, 24, 23, 25, 25, 25, 25, 25, 25, 25, 25, 25, 25, 25, 25, 25, 25, 25, 25, 25, 26, 25,
    25, 27, 1, 28, 1, 25, 1, 29, 30, 31, 32, 33, 34, 25, 35, 36, 25, 37, 38, 25, 39, 40, 25, 25, 41, 42, 43,
    44, 45, 46, 26, 25, 25, 47, 48, 49, 1, 1, 1, 1, 1, 1, 1, 1, 1, 1, 1, 1, 1, 1, 1, 1, 1, 1, 1, 1, 1, 1, 1,
    1, 1, 1, 1, 1, 1, 1, 1, 1, 1, 1, 1, 1, 1, 1, 1, 1, 1, 1, 1, 1, 1, 1, 1, 1, 1, 1, 1, 1, 1, 1, 1, 1, 1, 1,
    1, 1, 1, 1, 1, 1, 1, 1, 1, 1, 1, 1, 1, 1, 1, 1, 1, 1, 1, 1, 1, 1, 1, 1, 1, 1, 1, 1, 1, 1, 1, 1, 1, 1, 1,
    1, 1, 1, 1, 1, 1, 1, 1, 1, 1, 1, 1, 1, 1, 1, 1, 1, 1, 1, 1, 1, 1, 1, 1, 1, 1, 1, 1, 1, 1, 1, 1, 1, 1, 1,
    1, 1>>

(* The class of a class, for the templates. *)
yy_meta ==
  <<0, 1, 1, 1, 1, 1, 1, 1, 1, 1, 1, 1, 1, 1, 1, 1, 2, 2, 2, 1, 1, 1, 1, 2, 2, 3, 3, 1, 1, 2, 2, 2, 2, 2, 2,
    3, 3, 3, 3, 3, 3, 3, 3, 3, 3, 3, 3, 1, 1, 1>>

(* Where a state's transitions start. *)
yy_base ==
  <<0, 0, 0, 222, 223, 48, 218, 199, 223, 212, 223, 223, 223, 223, 223, 223, 37, 41, 43, 48, 223, 197, 196,
    195, 0, 71, 223, 174, 174, 175, 174, 24, 178, 170, 174, 223, 160, 223, 66, 204, 223, 223, 61, 72, 80, 72,
    84, 95, 105, 0, 113, 223, 223, 223, 0, 130, 82, 223, 173, 166, 162, 163, 0, 159, 158, 164, 163, 223, 125,
    100, 110, 125, 100, 223, 131, 134, 0, 129, 103, 169, 111, 164, 167, 0, 151, 162, 155, 139, 143, 223, 152,
    153, 154, 162, 155, 148, 154, 0, 83, 83, 0, 81, 0, 0, 56, 0, 54, 0, 47, 0, 47, 0, 223, 168, 171, 174, 69,
    177, 180, 183, 186>>

(* The state whose transitions a state falls back on. *)
yy_def ==
  <<0, 112, 1, 112, 112, 112, 112, 112, 112, 112, 112, 112, 112, 112, 112, 112, 112, 112, 112, 112, 112, 112,
    112, 112, 113, 112, 112, 113, 113, 113, 113, 113, 113, 113, 113, 112, 112, 112, 112, 112, 112, 112, 112,
    114, 115, 112, 112, 112, 112, 116, 112, 112, 112, 112, 113, 112, 112, 112, 113, 113, 113, 113, 113, 113,
    113, 113, 113, 112, 112, 114, 117, 114, 115, 112, 112, 112, 116, 118, 119, 113, 113, 113, 113, 113, 113,
    113, 113, 112, 112, 112, 118, 120, 118, 119, 113, 113, 113, 113, 113, 113, 113, 113, 113, 113, 113, 113,
    113, 113, 113, 113, 113, 113, 0, 112, 112, 112, 112, 112, 112, 112, 112>>

(* The next states. *)
yy_nxt ==
  <<0, 4, 5, 6, 5, 7, 8, 9, 10, 11, 12, 13, 14, 15, 16, 17, 18, 19, 19, 20, 21, 22, 23, 24, 24, 24, 24, 25,
    26, 24, 27, 28, 24, 29, 30, 24, 31, 24, 24, 24, 24, 32, 24, 24, 24, 33, 34, 35, 36, 37, 38, 43, 38, 42,
    42, 42, 44, 45, 62, 46, 46, 47, 45, 63, 50, 50, 50, 48, 38, 49, 38, 76, 48, 55, 55, 55, 48, 42, 42, 42,
    111, 48, 70, 73, 73, 68, 56, 71, 42, 42, 42, 110, 77, 109, 68, 108, 68, 78, 45, 57, 46, 46, 47, 73, 73,
    68, 55, 55, 48, 45, 70, 47, 47, 47, 107, 71, 74, 48, 74, 48, 70, 75, 75, 75, 106, 89, 105, 45, 48, 50,
    50, 50, 55, 55, 55, 70, 87, 48, 87, 91, 71, 88, 88, 88, 92, 56, 48, 75, 75, 75, 75, 75, 75, 95, 96, 88,
    88, 88, 57, 88, 88, 88, 91, 91, 91, 55, 55, 92, 55, 92, 54, 54, 69, 69, 69, 72, 72, 72, 71, 71, 71, 90,
    90, 90, 93, 93, 93, 92, 92, 92, 104, 103, 102, 101, 100, 99, 98, 97, 94, 86, 85, 84, 83, 82, 81, 80, 79,
    39, 67, 66, 65, 64, 61, 60, 59, 58, 53, 52, 51, 41, 40, 39, 112, 3, 112, 112, 112, 112, 112, 112, 112,
    112, 112, 112, 112, 112, 112, 112, 112, 112, 112, 112, 112, 112, 112, 112, 112, 112, 112, 112, 112, 112,
    112, 112, 112, 112, 112, 112, 112, 112, 112, 112, 112, 112, 112, 112, 112, 112, 112, 112, 112, 112, 112>>

(* The state each entry of yy_nxt belongs to. *)
yy_chk ==
  <<0, 1, 1, 1, 1, 1, 1, 1, 1, 1, 1, 1, 1, 1, 1, 1, 1, 1, 1, 1, 1, 1, 1, 1, 1, 1, 1, 1, 1, 1, 1, 1, 1, 1, 1,
    1, 1, 1, 1, 1, 1, 1, 1, 1, 1, 1, 1, 1, 1, 1, 5, 17, 5, 16, 16, 16, 17, 18, 31, 18, 18, 18, 19, 31, 19,
    19, 19, 18, 38, 18, 38, 116, 19, 25, 25, 25, 18, 42, 42, 42, 110, 19, 43, 44, 44, 42, 25, 43, 45, 45, 45,
    108, 56, 106, 42, 104, 45, 56, 46, 25, 46, 46, 46, 72, 72, 45, 78, 78, 46, 47, 69, 47, 47, 47, 101, 69,
    48, 46, 48, 47, 70, 48, 48, 48, 99, 70, 98, 50, 47, 50, 50, 50, 55, 55, 55, 71, 68, 50, 68, 77, 71, 68,
    68, 68, 77, 55, 50, 74, 74, 74, 75, 75, 75, 80, 80, 87, 87, 87, 55, 88, 88, 88, 90, 91, 92, 93, 93, 90,
    91, 92, 113, 113, 114, 114, 114, 115, 115, 115, 117, 117, 117, 118, 118, 118, 119, 119, 119, 120, 120,
    120, 96, 95, 94, 86, 85, 84, 82, 81, 79, 66, 65, 64, 63, 61, 60, 59, 58, 39, 36, 34, 33, 32, 30, 29, 28,
    27, 23, 22, 21, 9, 7, 6, 3, 112, 112, 112, 112, 112, 112, 112, 112, 112, 112, 112, 112, 112, 112, 112,
    112, 112, 112, 112, 112, 112, 112, 112, 112, 112, 112, 112, 112, 112, 112, 112, 112, 112, 112, 112, 112,
    112, 112, 112, 112, 112, 112, 112, 112, 112, 112, 112, 112, 112, 112>>

(* The token the rules without a value return. *)
RuleToken ==
  <<"FLOAT", "INT", "RETURN", "VOID", "CONST", "BREAK", "CONTINUE", "WHILE", "IF", "ELSE", "LT",
    "LTE", "GT", "GTE", "EQ", "NEQ", "NOT", "LOGICAND", "LOGICOR", "PLUS", "MINUS", "MULTIPLY",
    "DIVIDE", "MODULO", "ASSIGN", "SEMICOLON", "COMMA", "LPARENTHESE", "RPARENTHESE", "LBRACKET",
    "RBRACKET", "LBRACE", "RBRACE", "LRBRACKET">>
====
