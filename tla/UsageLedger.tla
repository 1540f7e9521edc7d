----------------------------- MODULE UsageLedger -----------------------------
(***************************************************************************)
(* What the usage limits of grants promise (docs/security_boundaries.md,   *)
(* GL-024): every attempt at a protected action has at most one outcome,   *)
(* an attempt that succeeds uses up one use of one grant in the same step, *)
(* and a grant is never used beyond its limit.                             *)
(***************************************************************************)
EXTENDS Naturals

CONSTANTS Action,    \* attempts at protected actions
          Grant,
          MaxUses,   \* MaxUses[g]: a number, or Unlimited
          Unlimited

VARIABLES uses,     \* uses[g]: uses of g so far
          outcome   \* outcome[a]: {}, {"refused"}, or {g} for the grant used

Exhausted(g, n) == MaxUses[g] # Unlimited /\ n >= MaxUses[g]

Init ==
    /\ uses = [g \in Grant |-> 0]
    /\ outcome = [a \in Action |-> {}]

Use(a, g) ==
    /\ outcome[a] = {}
    /\ ~Exhausted(g, uses[g])
    /\ uses' = [uses EXCEPT ![g] = @ + 1]
    /\ outcome' = [outcome EXCEPT ![a] = {g}]

RefuseAttempt(a) ==
    /\ outcome[a] = {}
    /\ outcome' = [outcome EXCEPT ![a] = {"refused"}]
    /\ UNCHANGED uses

Next == \E a \in Action : RefuseAttempt(a) \/ \E g \in Grant : Use(a, g)

Spec == Init /\ [][Next]_<<uses, outcome>>
==============================================================================
