----------------------------- MODULE MCAnchorJob -----------------------------
(***************************************************************************)
(* Finite instances of AnchorJob and of GrantSigning.  They share no       *)
(* state: an instance runs one of them, chosen at the start.  Runs of the  *)
(* job are interchangeable, and so are signers, and all that is checked    *)
(* here is safety.                                                         *)
(***************************************************************************)
EXTENDS AnchorJob, GrantSigning, TLC

VARIABLE part

MCInit ==
    /\ part \in {"anchor", "signing"} /\ Init /\ SigningInit
    /\ part = "anchor" => grant = NoGrant

MCNext ==
    \/ part = "anchor" /\ Next /\ UNCHANGED <<part, signingVars>>
    \/ part = "signing" /\ SigningNext /\ UNCHANGED <<part, vars>>

MCSpec == MCInit /\ [][MCNext]_<<part, vars, signingVars>>

Symmetry == Permutations(Run) \cup Permutations(Signer) 
==============================================================================
