--------------------------- MODULE ApprovalRules ---------------------------
(***************************************************************************)
(* Which approval an action needs: evaluate_approval_requirements, a pure  *)
(* function of what the caller sends.  Values are the classes it tells     *)
(* apart; "nan" is the float that no threshold compares with, so that it   *)
(* asks for no more approvals than an amount that is absent.               *)
(***************************************************************************)
EXTENDS Naturals, FiniteSets

CONSTANTS Role, GrantAdmin, Owner

ASSUME RoleAssumption == GrantAdmin \in Role /\ Owner \in Role /\ GrantAdmin # Owner

Risk       == {"none", "low", "medium", "high", "unknown"}
Amount     == {"none", "small", "large", "huge", "malformed", "nan"}
Compliance == {"none", "other", "critical", "blocked"}
Evidence   == {"missing", "incomplete", "complete", "invalid"}
Permission == {"absent", "denied", "allowed"}
Flags      == SUBSET {"requires_approval", "requires_four_eyes"}

Signals == [action : BOOLEAN, risk : Risk, amount : Amount, compliance : Compliance,
            evidence : Evidence, permission : Permission, flags : Flags]

IsBlocked(s) ==
    \/ ~s.action
    \/ s.permission = "denied"
    \/ s.compliance = "blocked"
    \/ s.evidence = "invalid"

NeedsFourEyes(s) ==
    \/ s.risk = "high"
    \/ s.amount = "huge"
    \/ s.compliance = "critical"
    \/ "requires_four_eyes" \in s.flags

NeedsOneApproval(s) ==
    \/ s.risk \in {"medium", "unknown"}
    \/ s.amount \in {"large", "malformed"}
    \/ s.evidence \in {"missing", "incomplete"}
    \/ s.permission = "absent"
    \/ "requires_approval" \in s.flags

Decision(s) ==
    CASE IsBlocked(s)                          -> "blocked"
      [] ~IsBlocked(s) /\ NeedsFourEyes(s)     -> "four_eyes_required"
      [] ~IsBlocked(s) /\ ~NeedsFourEyes(s) /\ NeedsOneApproval(s) -> "approval_required"
      [] OTHER                                 -> "no_approval_required"

RequiredRoles(decision) ==
    CASE decision = "four_eyes_required" -> {GrantAdmin, Owner}
      [] decision = "approval_required"  -> {GrantAdmin}
      [] OTHER                           -> {}

RequiredApprovals(decision) == Cardinality(RequiredRoles(decision))
==============================================================================
