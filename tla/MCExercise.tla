------------------------------ MODULE MCExercise -----------------------------
(***************************************************************************)
(* Finite instances of Exercise for TLC.                                   *)
(***************************************************************************)
EXTENDS Exercise, TLC

CONSTANTS g1, g2

OneGrant  == <<g1>>
TwoGrants == <<g2, g1>>

OneUse   == [g \in {g1} |-> 1]
OneOrAny == g1 :> 1 @@ g2 :> Unlimited

Symmetry == Permutations(Action)
==============================================================================
