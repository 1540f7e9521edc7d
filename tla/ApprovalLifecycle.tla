------------------------- MODULE ApprovalLifecycle -------------------------
(***************************************************************************)
(* The life of an approval request.  Nothing is stored: every call takes   *)
(* the request as the caller holds it and returns the next one, so that    *)
(* the approvers are those the caller wrote into it.  A transition that is *)
(* refused returns the request as it was with a blocker: a stutter here.   *)
(***************************************************************************)
EXTENDS ApprovalRules

CONSTANTS Person,
          Considered   \* the signals a caller may send

ASSUME ConsideredAssumption == Considered \subseteq Signals

VARIABLES signal,     \* what the caller last evaluated
          approval,   \* the request the caller holds
          origin      \* the decision it was built from (history)

approvalVars == <<signal, approval, origin>>

NoSignal == [action |-> FALSE, risk |-> "none", amount |-> "none", compliance |-> "none",
             evidence |-> "missing", permission |-> "absent", flags |-> {}]

Status   == {"none", "not_required", "pending", "approved", "rejected", "expired",
             "cancelled", "blocked"}
Outcome  == {"none", "no_approval_required", "approval_required", "four_eyes_required",
             "blocked", "approved", "rejected", "expired", "cancelled"}
Approver == [person : Person, role : Role]

ApprovalRequest == [status : Status, decision : Outcome, required : 0..2, roles : SUBSET Role,
             approvers : SUBSET Approver, approvedBy : SUBSET Role]

NoApproval == [status |-> "none", decision |-> "none", required |-> 0, roles |-> {},
               approvers |-> {}, approvedBy |-> {}]

ApprovalTypeOK ==
    /\ signal \in Signals
    /\ approval \in ApprovalRequest
    /\ origin \in Outcome

ApprovalInit ==
    /\ signal = NoSignal
    /\ approval = NoApproval
    /\ origin = "none"

\* POST /approvals/evaluate; bound: once before a request is built.
Evaluate ==
    /\ approval.status = "none" /\ signal = NoSignal
    /\ signal' \in Considered
    /\ UNCHANGED <<approval, origin>>

StatusOf(decision) ==
    CASE decision = "no_approval_required" -> "not_required"
      [] decision = "blocked"              -> "blocked"
      [] OTHER                             -> "pending"

\* POST /approvals/lifecycle/build, with the requirement that was evaluated or, when
\* it is missing, malformed or unknown, a blocked request.
Build ==
    /\ approval.status = "none"
    /\ \E decision \in {Decision(signal), "blocked"} :
         /\ approval' = [NoApproval EXCEPT !.status = StatusOf(decision),
                                           !.decision = decision,
                                           !.required = RequiredApprovals(decision),
                                           !.roles = RequiredRoles(decision)]
         /\ origin' = decision
    /\ signal' = NoSignal

\* The caller writes an approver into the request it holds.
AddApprover(a) ==
    /\ approval.status \in {"pending", "rejected", "expired", "cancelled", "blocked"}
    /\ approval' = [approval EXCEPT !.approvers = @ \cup {a}]
    /\ UNCHANGED <<signal, origin>>

------------------------------------------------------------------------------
(* POST /approvals/lifecycle/transition                                     *)

Move(status, decision) ==
    /\ approval' = [approval EXCEPT !.status = status, !.decision = decision]
    /\ UNCHANGED <<signal, origin>>

Create ==
    /\ approval.status \in {"not_required", "pending"}
    /\ Move("pending", approval.decision)

\* Approvals are counted by role.
ApprovedRoles == {r \in approval.roles : \E a \in approval.approvers : a.role = r}

Enough(roles) == Cardinality(roles) >= approval.required /\ approval.required > 0

Approve ==
    /\ approval.status = "pending"
    /\ Enough(ApprovedRoles)
    /\ approval' = [approval EXCEPT !.status = "approved", !.decision = "approved",
                                    !.approvedBy = ApprovedRoles]
    /\ UNCHANGED <<signal, origin>>

\* Not enough: the request stays pending and names the roles that did approve.
ApproveShort ==
    /\ approval.status = "pending"
    /\ ~Enough(ApprovedRoles)
    /\ approval' = [approval EXCEPT !.approvedBy = ApprovedRoles]
    /\ UNCHANGED <<signal, origin>>

Reject == approval.status = "pending" /\ Move("rejected", "rejected")
Expire == approval.status = "pending" /\ Move("expired", "expired")
Cancel == approval.status = "pending" /\ Move("cancelled", "cancelled")
Block  == approval.status = "pending" /\ Move("blocked", "blocked")

\* Mutant: a reopened request asks for at least one approval, of any role.
ReopenAsking(allowBlockedReopen) ==
    /\ approval.status \in {"rejected", "expired", "cancelled", "blocked"}
    /\ approval.status = "blocked" => allowBlockedReopen
    /\ approval' = [approval EXCEPT !.status = "pending", !.required = 1, !.roles = Role]
    /\ UNCHANGED <<signal, origin>>

\* A blocked request is reopened only with allowBlockedReopen.
Reopen(allowBlockedReopen) ==
    /\ approval.status \in {"rejected", "expired", "cancelled", "blocked"}
    /\ approval.status = "blocked" => allowBlockedReopen
    /\ Move("pending", approval.decision)

ApprovalNext ==
    \/ Evaluate \/ Build
    \/ \E a \in Approver : AddApprover(a)
    \/ Create \/ Approve \/ ApproveShort \/ Reject \/ Expire \/ Cancel \/ Block
    \/ \E flag \in BOOLEAN : Reopen(flag)

ApprovalSpec == ApprovalInit /\ [][ApprovalNext]_approvalVars

------------------------------------------------------------------------------
(* Properties                                                               *)

\* Through any rejections, expiries, blocks and reopenings, a request is approved only
\* if it was built from a decision that asks for approvals and every role of that
\* decision approved: one that was blocked or needs none cannot become approved
\* (build_approval_request_lifecycle, transition_approval_request).
ApprovedByAllRoles ==
    approval.status = "approved" =>
        /\ origin \in {"approval_required", "four_eyes_required"}
        /\ approval.approvedBy = RequiredRoles(origin)
        /\ \A r \in approval.approvedBy : \E a \in approval.approvers : a.role = r

\* An approved request stays as it was approved, and what it asks for never changes
\* once it is built (_VALID_TRANSITIONS).
ApprovalIsFinal ==
    [][ /\ approval.status = "approved" => approval' = approval
        /\ approval.status # "none" => /\ approval'.required = approval.required
                                       /\ approval'.roles = approval.roles ]_approvalVars

\* The comment at approval_lifecycle.py:423: a reopened request keeps its original
\* decision.  The decision was overwritten when it was rejected.
ReopenedKeepsDecision ==
    approval.status = "pending" => approval.decision = origin
==============================================================================
