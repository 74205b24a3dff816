----------------------------- MODULE MCSafetyLayer -----------------------------
(***************************************************************************)
(* Instances of SafetyLayer and SafetyHistory for TLC.                     *)
(***************************************************************************)
EXTENDS SafetyHistory, TLC

\* The two command topics behave alike.
KindSymmetry == Permutations(Kinds)

===============================================================================
