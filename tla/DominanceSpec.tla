--------------------------- MODULE DominanceSpec ----------------------------
(***************************************************************************)
(* What a dominator analysis promises, without saying how it is computed.  *)
(*                                                                         *)
(* It keeps, for each block, a set of candidate dominators.  The set only  *)
(* shrinks, it never loses a true dominator, and the analysis reports only *)
(* when the candidates of every block are exactly its dominators.          *)
(***************************************************************************)
EXTENDS Dominators

CONSTANT CFGs            \* the control-flow graphs considered

VARIABLES cfg,           \* the graph under analysis
          candidates,    \* candidates[b]: blocks not yet ruled out as dominators of b
          reported       \* the result has been published

vars == <<cfg, candidates, reported>>

AllCandidates == [b \in Blocks |-> Blocks]

Init ==
  /\ cfg \in CFGs
  /\ candidates = AllCandidates
  /\ reported = FALSE

Refine ==
  /\ ~ reported
  /\ candidates' \in [Blocks -> SUBSET Blocks]
  /\ \A b \in Blocks : /\ DominatorsOf(cfg, b) \subseteq candidates'[b]
                       /\ candidates'[b] \subseteq candidates[b]
  /\ UNCHANGED <<cfg, reported>>

Report ==
  /\ \A b \in Blocks : candidates[b] = DominatorsOf(cfg, b)
  /\ reported' = TRUE
  /\ UNCHANGED <<cfg, candidates>>

(* The analysis is run again on the same function. *)
Restart ==
  /\ reported
  /\ candidates' = AllCandidates
  /\ reported' = FALSE
  /\ UNCHANGED cfg

Next == Refine \/ Report \/ Restart

Spec == Init /\ [][Next]_vars
=============================================================================
