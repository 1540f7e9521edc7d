--------------------------- MODULE MCGrantRequests ---------------------------
(***************************************************************************)
(* Finite instances of GrantRequests for TLC.  No definition tells two     *)
(* calls, two requests or two operators apart.                             *)
(***************************************************************************)
EXTENDS GrantRequests, TLC

Symmetry == Permutations(Call) \cup Permutations(Request)
              \cup Permutations(Operator)
==============================================================================
