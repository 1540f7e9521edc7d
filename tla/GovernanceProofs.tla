-------------------------- MODULE GovernanceProofs ---------------------------
(***************************************************************************)
(* Theorems about the documents of an approval and the judgements made of  *)
(* them, ApprovalRules and ApprovalLifecycle, EvidenceReview,              *)
(* ComplianceSummary and PolicyPack, for every set of people, roles,       *)
(* signals, readers and packs, and about MCGovernance, which runs them     *)
(* beside the components of AccessProofs.                                  *)
(***************************************************************************)
EXTENDS MCGovernance, AccessProofs, FiniteSetTheorems

------------------------------------------------------------------------------
(* Approval rules and lifecycle                                             *)

\* A decision asks for at most two roles, and for as many approvals.
LEMMA RolesOfDecisions ==
    ASSUME NEW decision
    PROVE  /\ RequiredRoles(decision) \subseteq Role
           /\ IsFiniteSet(RequiredRoles(decision))
           /\ RequiredApprovals(decision) = Cardinality(RequiredRoles(decision))
           /\ RequiredApprovals(decision) \in 0..2
           /\ RequiredApprovals(decision) > 0 =>
                 decision \in {"approval_required", "four_eyes_required"}
<1>1. IsFiniteSet({}) /\ Cardinality({}) = 0
  BY FS_EmptySet
<1>2. IsFiniteSet({GrantAdmin}) /\ Cardinality({GrantAdmin}) = 1
  BY FS_Singleton
<1>3. IsFiniteSet({GrantAdmin, Owner}) /\ Cardinality({GrantAdmin, Owner}) = 2
  <2>1. {GrantAdmin, Owner} = {GrantAdmin} \cup {Owner} /\ Owner \notin {GrantAdmin}
    BY RoleAssumption
  <2> QED
    BY <1>2, <2>1, FS_AddElement
<1> QED
  BY <1>1, <1>2, <1>3, RoleAssumption DEF RequiredRoles, RequiredApprovals

\* Decisions are outcomes.
LEMMA DecisionsAreOutcomes ==
    ASSUME NEW s
    PROVE  Decision(s) \in {"blocked", "four_eyes_required", "approval_required",
                            "no_approval_required"}
BY DEF Decision

------------------------------------------------------------------------------
\* What the caller holds is what the decision it was built from asks for.
AsksWhatWasDecided ==
    /\ approval.status = "none" => approval = NoApproval
    /\ approval.roles = RequiredRoles(origin)
    /\ approval.required = RequiredApprovals(origin)

ApprovalInv == ApprovalTypeOK /\ AsksWhatWasDecided /\ ApprovedByAllRoles

\* Types, and the invariant that no sequence of transitions takes an approval past a
\* role of its decision: enough approvals are all of them, because roles are counted
\* and there are as many as approvals are asked for.
THEOREM ApprovalInvariant == ApprovalSpec => []ApprovalInv
<1>1. ApprovalInit => ApprovalInv
  <2> SUFFICES ASSUME ApprovalInit PROVE ApprovalInv
    OBVIOUS
  <2>1. RequiredRoles("none") = {} /\ RequiredApprovals("none") = 0
    BY FS_EmptySet DEF RequiredRoles, RequiredApprovals
  <2> QED
    BY <2>1 DEF ApprovalInit, ApprovalInv, ApprovalTypeOK, NoSignal, Signals, Risk, Amount,
                Compliance, Evidence, Permission, Flags, NoApproval, ApprovalRequest, Status,
                Outcome, AsksWhatWasDecided, ApprovedByAllRoles
<1>2. ApprovalInv /\ [ApprovalNext]_approvalVars => ApprovalInv'
  <2> SUFFICES ASSUME ApprovalInv, [ApprovalNext]_approvalVars PROVE ApprovalInv'
    OBVIOUS
  <2> USE DEF ApprovalInv, ApprovalTypeOK, AsksWhatWasDecided, ApprovedByAllRoles
  <2>1. CASE Evaluate
    BY <2>1, ConsideredAssumption DEF Evaluate
  <2>2. CASE Build
    <3>1. PICK decision \in {Decision(signal), "blocked"} :
             /\ approval' = [NoApproval EXCEPT !.status = StatusOf(decision),
                                               !.decision = decision,
                                               !.required = RequiredApprovals(decision),
                                               !.roles = RequiredRoles(decision)]
             /\ origin' = decision
      BY <2>2 DEF Build
    <3>2. decision \in Outcome /\ StatusOf(decision) \in {"not_required", "blocked", "pending"}
      BY DecisionsAreOutcomes DEF Outcome, StatusOf
    <3>3. approval' \in ApprovalRequest
      BY <3>1, <3>2, RolesOfDecisions DEF ApprovalRequest, NoApproval, Status
    <3>4. signal' \in Signals
      BY <2>2 DEF Build, NoSignal, Signals, Risk, Amount, Compliance, Evidence, Permission,
                  Flags
    <3> QED
      BY <3>1, <3>2, <3>3, <3>4 DEF NoApproval
  <2>3. ASSUME NEW a \in Approver, AddApprover(a) PROVE ApprovalInv'
    BY <2>3 DEF AddApprover, ApprovalRequest
  <2>4. CASE Create
    BY <2>4 DEF Create, Move, ApprovalRequest, Status
  <2>5. CASE Approve
    <3>1. /\ approval' = [approval EXCEPT !.status = "approved", !.decision = "approved",
                                          !.approvedBy = ApprovedRoles]
          /\ UNCHANGED <<signal, origin>> /\ Enough(ApprovedRoles)
      BY <2>5 DEF Approve
    <3>2. ApprovedRoles \subseteq RequiredRoles(origin)
      BY DEF ApprovedRoles
    <3>3. ApprovedRoles = RequiredRoles(origin)
      <4> DEFINE asked == RequiredRoles(origin)
      <4>1. IsFiniteSet(asked) /\ approval.required = Cardinality(asked)
        BY RolesOfDecisions
      <4>2. Cardinality(asked) \in Nat
        BY <4>1, FS_CardinalityType
      <4>3. /\ Cardinality(ApprovedRoles) \in Nat
            /\ Cardinality(ApprovedRoles) = Cardinality(asked) => ApprovedRoles = asked
            /\ Cardinality(ApprovedRoles) <= Cardinality(asked)
        <5> HIDE DEF asked
        <5>1. ApprovedRoles \subseteq asked
          BY <3>2 DEF asked
        <5>2. IsFiniteSet(ApprovedRoles) /\ Cardinality(ApprovedRoles) \in Nat
          BY <4>1, <5>1, FS_Subset, FS_CardinalityType
        <5> QED
          BY <4>1, <5>1, <5>2, FS_Subset
      <4>4. Cardinality(ApprovedRoles) >= Cardinality(asked)
        BY <3>1, <4>1 DEF Enough
      <4> HIDE DEF asked
      <4>5. ApprovedRoles = asked
        BY <4>2, <4>3, <4>4
      <4> QED
        BY <4>5 DEF asked
    <3>4. origin \in {"approval_required", "four_eyes_required"}
      BY <3>1, RolesOfDecisions DEF Enough
    <3>5. \A r \in ApprovedRoles : \E a \in approval.approvers : a.role = r
      BY DEF ApprovedRoles
    <3>6. approval' \in ApprovalRequest
      BY <3>1, <3>2, RolesOfDecisions DEF ApprovalRequest, Status, Outcome
    <3> QED
      BY <3>1, <3>3, <3>4, <3>5, <3>6 DEF ApprovalRequest
  <2>6. CASE ApproveShort
    BY <2>6, RolesOfDecisions DEF ApproveShort, ApprovalRequest, ApprovedRoles
  <2>7. CASE Reject \/ Expire \/ Cancel \/ Block
    BY <2>7 DEF Reject, Expire, Cancel, Block, Move, ApprovalRequest, Status, Outcome
  <2>8. ASSUME NEW flag \in BOOLEAN, Reopen(flag) PROVE ApprovalInv'
    BY <2>8 DEF Reopen, Move, ApprovalRequest, Status
  <2>9. CASE UNCHANGED approvalVars
    BY <2>9 DEF approvalVars
  <2> QED
    BY <2>1, <2>2, <2>3, <2>4, <2>5, <2>6, <2>7, <2>8, <2>9 DEF ApprovalNext
<1> QED
  BY <1>1, <1>2, PTL DEF ApprovalSpec

------------------------------------------------------------------------------
\* The variables have their types.
THEOREM ApprovalTypeCorrect == ApprovalSpec => []ApprovalTypeOK
<1>1. ApprovalInv => ApprovalTypeOK
  BY DEF ApprovalInv
<1> QED
  BY <1>1, ApprovalInvariant, PTL

\* A request that is approved was built from a decision that asks for approvals, and
\* every role of that decision approved (transition_approval_request).
THEOREM ApprovalNeedsAllRoles == ApprovalSpec => []ApprovedByAllRoles
<1>1. ApprovalInv => ApprovedByAllRoles
  BY DEF ApprovalInv
<1> QED
  BY <1>1, ApprovalInvariant, PTL

\* An approved request never changes, and no transition changes what a request asks
\* for (_VALID_TRANSITIONS).
THEOREM ApprovalsAreFinal == ApprovalSpec => ApprovalIsFinal
<1> DEFINE Final == /\ approval.status = "approved" => approval' = approval
                    /\ approval.status # "none" => /\ approval'.required = approval.required
                                                   /\ approval'.roles = approval.roles
<1>1. ApprovalTypeOK /\ [ApprovalNext]_approvalVars => Final
  <2> SUFFICES ASSUME ApprovalTypeOK, ApprovalNext PROVE Final
    BY DEF approvalVars
  <2> USE DEF ApprovalTypeOK, ApprovalRequest
  <2>1. CASE Evaluate \/ Build
    BY <2>1 DEF Evaluate, Build
  <2>2. ASSUME NEW a \in Approver, AddApprover(a) PROVE Final
    BY <2>2 DEF AddApprover
  <2>3. CASE \/ Create \/ Approve \/ ApproveShort \/ Reject \/ Expire \/ Cancel \/ Block
             \/ \E flag \in BOOLEAN : Reopen(flag)
    BY <2>3 DEF Create, Approve, ApproveShort, Reject, Expire, Cancel, Block, Reopen, Move
  <2> QED
    BY <2>1, <2>2, <2>3 DEF ApprovalNext
<1> QED
  BY <1>1, ApprovalTypeCorrect, PTL DEF ApprovalSpec, ApprovalIsFinal

------------------------------------------------------------------------------
(* Evidence                                                                 *)

\* A verdict that is valid was computed from what it names, and no call has a verdict on a
\* row that is not there.
VerdictsHold ==
    /\ \A v \in Verifier :
          /\ verdict[v] # NoVerdict => archive.state # "absent"
          /\ verdict[v].status = "valid" => verdict[v].sound
    /\ archive.state = "absent" => archive.status = "none"

EvidenceInv == EvidenceTypeOK /\ VerdictsHold /\ ValidIsExplained

\* The facts, the archive and the verdicts go on changing, and a valid status keeps its
\* explanation.
THEOREM EvidenceInvariant == EvidenceSpec => []EvidenceInv
<1>1. EvidenceInit => EvidenceInv
  <2> SUFFICES ASSUME EvidenceInit PROVE EvidenceInv
    OBVIOUS
  <2>1. fact \in Fact
    BY DEF EvidenceInit, Fact, NoFact, Result, Flaw
  <2>2. NoArchive \in Archive /\ NoVerdict \in Computed
    BY DEF NoArchive, Archive, NoVerdict, Computed, Verdict, Content
  <2>3. EvidenceTypeOK
    BY <2>1, <2>2 DEF EvidenceInit, EvidenceTypeOK
  <2>4. VerdictsHold /\ ValidIsExplained
    BY DEF EvidenceInit, VerdictsHold, ValidIsExplained, NoArchive, NoVerdict
  <2>5. QED
    BY <2>3, <2>4 DEF EvidenceInv
<1>2. EvidenceInv /\ [EvidenceNext]_evidenceVars => EvidenceInv'
  <2> SUFFICES ASSUME EvidenceInv, [EvidenceNext]_evidenceVars
               PROVE  EvidenceInv'
    OBVIOUS
  <2>0. fact \in Fact /\ archive \in Archive
    BY DEF EvidenceInv, EvidenceTypeOK
  <2>1. ASSUME UNCHANGED <<archive, verdict>>, fact' \in Fact,
               draft' \in {"none", "complete", "incomplete"}
        PROVE  EvidenceInv'
    BY <2>1 DEF EvidenceInv, EvidenceTypeOK, VerdictsHold, ValidIsExplained
  <2>2. CASE Execute \/ RecordProvenance
    <3>1. fact' \in Fact /\ UNCHANGED <<draft, archive, verdict>>
      BY <2>0, <2>2 DEF Execute, RecordProvenance, Fact, Result
    <3>2. QED
      BY <2>1, <3>1 DEF EvidenceInv, EvidenceTypeOK
  <2>3. ASSUME NEW flaw \in SpoiledBy, Spoil(flaw)
        PROVE  EvidenceInv'
    <3>1. fact' \in Fact /\ UNCHANGED <<draft, archive, verdict>>
      <4>1. flaw \in Flaw
        BY SpoiledByAssumption
      <4>2. QED
        BY <2>0, <2>3, <4>1 DEF Spoil, Fact
    <3>2. QED
      BY <2>1, <3>1 DEF EvidenceInv, EvidenceTypeOK
  <2>4. ASSUME NEW status \in {"denied", "revoked"}, SettleRequest(status)
        PROVE  EvidenceInv'
    <3>1. fact' \in Fact /\ UNCHANGED <<draft, archive, verdict>>
      BY <2>0, <2>4 DEF SettleRequest, Fact, Flaw
    <3>2. QED
      BY <2>1, <3>1 DEF EvidenceInv, EvidenceTypeOK
  <2>5. CASE BuildBundle
    BY <2>0, <2>1, <2>5 DEF BuildBundle
  <2>6. ASSUME NEW a \in Archive, archive' = a, UNCHANGED <<fact, verdict>>,
               draft' \in {draft, "none"}, a.state # "absent",
               a.status = archive.status, a.sound = archive.sound
        PROVE  EvidenceInv'
    <3>1. EvidenceTypeOK'
      BY <2>6 DEF EvidenceInv, EvidenceTypeOK
    <3>2. VerdictsHold' /\ ValidIsExplained'
      BY <2>6 DEF EvidenceInv, VerdictsHold, ValidIsExplained, NoVerdict
    <3>3. QED
      BY <3>1, <3>2 DEF EvidenceInv
  <2>7. CASE StoreBundle
    <3> DEFINE a == [archive EXCEPT !.state = "stored", !.sections = draft = "complete"]
    <3>1. /\ a \in Archive /\ a.state = "stored" /\ a.status = archive.status
          /\ a.sound = archive.sound
      BY <2>0 DEF Archive
    <3>2. QED
      BY <2>6, <2>7, <3>1 DEF StoreBundle
  <2>8. CASE IndexBundle
    <3> DEFINE a == [archive EXCEPT !.state = "indexed"]
    <3>1. /\ a \in Archive /\ a.state = "indexed" /\ a.status = archive.status
          /\ a.sound = archive.sound
      BY <2>0 DEF Archive
    <3>2. QED
      BY <2>6, <2>8, <3>1 DEF IndexBundle
  <2>9. ASSUME NEW content \in Content \ {"intact"}, NEW sections \in BOOLEAN,
               Alter(content, sections)
        PROVE  EvidenceInv'
    <3> DEFINE a == [archive EXCEPT !.content = content, !.sections = sections]
    <3>1. /\ a \in Archive /\ a.state = archive.state /\ a.status = archive.status
          /\ a.sound = archive.sound
      BY <2>0 DEF Archive
    <3>2. QED
      BY <2>6, <2>9, <3>1 DEF Alter
  <2>10. ASSUME NEW v \in Verifier, ReadForVerdict(v)
         PROVE  EvidenceInv'
    <3> DEFINE d == [status |-> VerdictOf(archive), sound |-> Sound(archive)]
    <3>1. d \in Computed /\ (d.status = "valid" => d.sound)
      BY <2>0 DEF VerdictOf, Archive, Content, Verdict, Computed, Sound
    <3> HIDE DEF d
    <3>2. /\ verdict' = [verdict EXCEPT ![v] = d] /\ archive.state # "absent"
          /\ UNCHANGED <<fact, draft, archive>>
      BY <2>10 DEF ReadForVerdict, d
    <3>3. QED
      BY <3>1, <3>2 DEF EvidenceInv, EvidenceTypeOK, VerdictsHold, ValidIsExplained
  <2>11. ASSUME NEW v \in Verifier, RecordVerdict(v)
         PROVE  EvidenceInv'
    <3> DEFINE a == [archive EXCEPT !.status = verdict[v].status, !.sound = verdict[v].sound]
    <3>1. verdict[v] \in Computed /\ verdict[v] # NoVerdict
      BY <2>11 DEF RecordVerdict, EvidenceInv, EvidenceTypeOK
    <3>2. /\ a \in Archive /\ a.state = archive.state
          /\ a.status = verdict[v].status /\ a.sound = verdict[v].sound
      BY <2>0, <3>1 DEF Archive, Computed
    <3> HIDE DEF a
    <3>3. /\ archive' = a /\ verdict' = [verdict EXCEPT ![v] = NoVerdict]
          /\ UNCHANGED <<fact, draft>>
      BY <2>11 DEF RecordVerdict, a
    <3>4. NoVerdict \in Computed /\ NoVerdict.status = "none"
      BY DEF NoVerdict, Computed, Verdict, Content
    <3>5. archive.state # "absent"
      BY <3>1 DEF EvidenceInv, VerdictsHold
    <3>6. EvidenceTypeOK'
      BY <3>2, <3>3, <3>4 DEF EvidenceInv, EvidenceTypeOK
    <3>7. VerdictsHold' /\ ValidIsExplained'
      BY <3>2, <3>3, <3>4, <3>5 DEF EvidenceInv, EvidenceTypeOK, VerdictsHold, ValidIsExplained
    <3>8. QED
      BY <3>6, <3>7 DEF EvidenceInv
  <2>12. CASE EvidenceCrash
    BY <2>12 DEF EvidenceCrash, EvidenceInv, EvidenceTypeOK, VerdictsHold, ValidIsExplained,
                 NoVerdict, Computed, Verdict, Content
  <2>13. CASE UNCHANGED evidenceVars
    BY <2>13 DEF evidenceVars, EvidenceInv, EvidenceTypeOK, VerdictsHold, ValidIsExplained
  <2>14. QED
    BY <2>2, <2>3, <2>4, <2>5, <2>7, <2>8, <2>9, <2>10, <2>11, <2>12, <2>13 DEF EvidenceNext
<1>3. QED
  BY <1>1, <1>2, PTL DEF EvidenceSpec

\* A bundle that is marked valid was whole and agreed with the hash in it when the verdict
\* recorded last was read, in every interleaving of alterations and verifications
\* (verify_execution).
THEOREM ValidityIsExplained == EvidenceSpec => []ValidIsExplained
BY EvidenceInvariant, PTL DEF EvidenceInv

\* A report is clear only of facts and of an archive that have nothing to find.
LEMMA ClearHasNoGaps ==
    ASSUME NEW f \in Fact, NEW a \in Archive, GapReport(f, a).overall = "clear"
    PROVE  Gaps(f, a) = {} /\ CriticalFindings(f) = {}
<1>1. Gaps(f, a) = {} /\ Completeness(f, a) = "complete"
  <2> DEFINE sev == {SeverityOf(g) : g \in Gaps(f, a)}
             st == Completeness(f, a)
  <2>1. GapReport(f, a).overall =
           CASE st = "critical" \/ "critical" \in sev -> "blocked"
             [] st # "critical" /\ Gaps(f, a) = {} /\ st = "complete" -> "clear"
             [] OTHER -> "gaps_detected"
    BY DEF GapReport
  <2> HIDE DEF sev, st
  <2>2. Gaps(f, a) = {} /\ st = "complete"
    BY <2>1
  <2>3. QED
    BY <2>2 DEF st
<1>2. CriticalFindings(f) = {}
  <2> DEFINE high == Penalty(f, a) > 50
             low  == Penalty(f, a) <= 10
  <2>1. Completeness(f, a) =
           CASE high \/ a.status = "invalid" \/ CriticalFindings(f) # {} -> "critical"
             [] low /\ CriticalFindings(f) = {} /\ Gaps(f, a) = {}       -> "complete"
             [] OTHER -> "incomplete"
    BY DEF Completeness
  <2> HIDE DEF high, low
  <2>2. QED
    BY <1>1, <2>1
<1>3. QED
  BY <1>1, <1>2

\* A gap report says clear only of an execution whose bundle was whole and agreed with the
\* hash in it when it was verified, and whose grant, request and trace have nothing to find
\* now (_compute_overall_status_and_severity).
THEOREM ClearIsClean == EvidenceSpec => []ClearMeansClean
<1>1. EvidenceInv => ClearMeansClean
  <2> SUFFICES ASSUME EvidenceInv, GapReport(fact, archive).overall = "clear"
               PROVE  /\ Present(archive) /\ archive.sound
                      /\ fact.traced /\ fact.result # "denied"
                      /\ fact.linked => fact.flaws = {} /\ fact.request \in {"none", "approved"}
    BY DEF ClearMeansClean
  <2>1. fact \in Fact /\ archive \in Archive
    BY DEF EvidenceInv, EvidenceTypeOK
  <2>2. Gaps(fact, archive) = {} /\ CriticalFindings(fact) = {}
    BY <2>1, ClearHasNoGaps
  <2>3. Present(archive) /\ archive.status = "valid" /\ fact.traced
    <3>1. /\ ~Present(archive) => "missing_evidence" \in Gaps(fact, archive)
          /\ Present(archive) /\ archive.status # "valid" =>
                "unverified_evidence" \in Gaps(fact, archive)
          /\ ~fact.traced => "missing_provenance_events" \in Gaps(fact, archive)
      BY DEF Gaps
    <3>2. QED
      BY <2>2, <3>1
  <2>4. fact.result # "denied"
    <3>1. fact.result = "denied" => <<"execution", "denied">> \in CriticalFindings(fact)
      BY DEF CriticalFindings
    <3>2. QED
      BY <2>2, <3>1
  <2>5. ASSUME fact.linked
        PROVE  fact.flaws = {} /\ fact.request \in {"none", "approved"}
    <3>1. \A flaw \in fact.flaws : <<"grant", flaw>> \in CriticalFindings(fact)
      BY <2>5 DEF CriticalFindings
    <3>2. fact.request \notin {"none", "approved"} =>
             <<"request", fact.request>> \in CriticalFindings(fact)
      BY <2>5 DEF CriticalFindings
    <3>3. QED
      BY <2>2, <3>1, <3>2
  <2>6. QED
    BY <2>3, <2>4, <2>5 DEF EvidenceInv, ValidIsExplained
<1>2. QED
  BY <1>1, EvidenceInvariant, PTL

------------------------------------------------------------------------------
(* The compliance summary                                                   *)

\* Each document blocks for its causes, but a decision that is denied, and but an export,
\* which blocks the readiness whatever it says.
CausesHold ==
    /\ dossier.policy.causes # {} => dossier.policy.status = "blocked"
    /\ dossier.provenance.causes # {} => dossier.provenance.status \in {"blocked", "denied"}
    /\ dossier.export.causes # {} => dossier.export.status # "none"

SummaryInv == SummaryTypeOK /\ CausesHold /\ NoCauseIsLost

\* What the inputs block for is a known cause, found by one of the checks.
LEMMA CausesAre ==
    ASSUME NEW i
    PROVE  /\ CausesOf(i) \subseteq Cause
           /\ CausesOf(i) # {} => \/ GapBlocks(i) \/ PermissionDenied(i)
                                  \/ RequirementBlocks(i) \/ LifecycleBlocks(i)
           /\ RequirementBlocks(i) \/ LifecycleBlocks(i) => ApprovalDimension(i) = "blocked"
BY DEF CausesOf, Cause, ApprovalDimension, RequirementBlocks, LifecycleBlocks

\* One dimension that is blocked blocks the readiness.
LEMMA OverallBlocks ==
    ASSUME NEW i
    PROVE  /\ Overall(Dimensions(i, dossier)) \in {"not_assessed", "needs_review", "ready",
                                                   "blocked"}
           /\ \/ GapBlocks(i) \/ PermissionDenied(i)
              \/ RequirementBlocks(i) \/ LifecycleBlocks(i)
              \/ dossier.policy.status = "blocked" \/ dossier.provenance.status = "blocked"
              \/ dossier.export.status # "none"
              => Overall(Dimensions(i, dossier)) = "blocked"
<1> DEFINE D == Dimensions(i, dossier)
           values == {D[n] : n \in DOMAIN D}
<1>1. Overall(D) \in {"not_assessed", "needs_review", "ready", "blocked"}
      /\ ("blocked" \in values => Overall(D) = "blocked")
  <2> HIDE DEF D
  <2> QED BY DEF Overall
<1>2. /\ D.compliance \in values /\ D.permission \in values /\ D.approval \in values
      /\ D.provenance \in values /\ D.auditor \in values /\ D.policy \in values
  <2>1. DOMAIN D = {"evidence", "compliance", "permission", "approval", "provenance",
                    "auditor", "policy"}
    BY DEF Dimensions
  <2> HIDE DEF D
  <2>2. QED
    BY <2>1
<1>3. GapBlocks(i) => D.compliance = "blocked"
  <2>1. NoGap.overall = "none"
    BY DEF NoGap
  <2>2. QED
    BY <2>1 DEF GapBlocks, Dimensions
<1>4. PermissionDenied(i) => D.permission = "blocked"
  BY DEF PermissionDenied, Dimensions
<1>5. RequirementBlocks(i) \/ LifecycleBlocks(i) => D.approval = "blocked"
  BY CausesAre DEF Dimensions
<1>6. /\ dossier.policy.status = "blocked" => D.policy = "blocked"
      /\ dossier.provenance.status = "blocked" => D.provenance = "blocked"
      /\ dossier.export.status # "none" => D.auditor = "blocked"
  BY DEF Dimensions
<1> HIDE DEF values
<1>7. \/ GapBlocks(i) \/ PermissionDenied(i) \/ RequirementBlocks(i) \/ LifecycleBlocks(i)
      \/ dossier.policy.status = "blocked" \/ dossier.provenance.status = "blocked"
      \/ dossier.export.status # "none"
      => Overall(D) = "blocked"
  <2> HIDE DEF D
  <2> QED BY <1>1, <1>2, <1>3, <1>4, <1>5, <1>6
<1>8. QED
  BY <1>1, <1>7

\* Documents block for the causes they list, whatever is collected anew between them.
THEOREM SummaryInvariant == SummarySpec => []SummaryInv
<1>1. SummaryInit => SummaryInv
  <2> SUFFICES ASSUME SummaryInit PROVE SummaryInv
    OBVIOUS
  <2>1. NoInputs \in Inputs
    BY DEF NoInputs, Inputs
  <2>2. NoDoc.causes = {} /\ NoDoc.status = "none" /\ NoProvenance.causes = {}
    BY DEF NoDoc, NoProvenance
  <2>3. SummaryTypeOK
    BY <2>1 DEF SummaryInit, SummaryTypeOK, NoDoc, NoProvenance
  <2>4. CausesHold /\ NoCauseIsLost
    BY <2>2 DEF SummaryInit, CausesHold, NoCauseIsLost
  <2>5. QED
    BY <2>3, <2>4 DEF SummaryInv
<1>2. SummaryInv /\ [SummaryNext]_dossier => SummaryInv'
  <2> SUFFICES ASSUME SummaryInv, [SummaryNext]_dossier
               PROVE  SummaryInv'
    OBVIOUS
  <2> DEFINE policy == dossier.policy
             provenance == dossier.provenance
             export == dossier.export
  <2>0. /\ provenance.causes \subseteq Cause /\ export.causes \subseteq Cause
        /\ policy.causes \subseteq Cause
    BY DEF SummaryInv, SummaryTypeOK
  <2>1. CASE Receive
    <3>1. PICK i \in Inputs : dossier' = [dossier EXCEPT !.inputs = i]
      BY <2>1, CollectedAssumption DEF Receive
    <3>2. SummaryTypeOK'
      BY <3>1 DEF SummaryInv, SummaryTypeOK
    <3>3. /\ dossier'.policy = policy /\ dossier'.provenance = provenance
          /\ dossier'.export = export /\ dossier'.readiness = dossier.readiness
      BY <3>1 DEF SummaryInv, SummaryTypeOK
    <3>4. QED
      BY <3>2, <3>3 DEF SummaryInv, CausesHold, NoCauseIsLost
  <2>2. CASE EvaluatePolicy
    <3>1. PICK kept \in Kept, rules \in RuleOutcome, given \in {export, NoDoc} :
             LET i == Part(dossier.inputs, kept) IN
             dossier' = [dossier EXCEPT !.policy =
                [status |-> PolicyStatus(i, rules, provenance, given),
                 causes |-> CausesOf(i) \cup (IF rules = "broken" THEN {"rules"} ELSE {})
                            \cup CausesIfBlocked(provenance) \cup CausesIfBlocked(given)]]
      BY <2>2 DEF EvaluatePolicy
    <3> DEFINE i == Part(dossier.inputs, kept)
               status == PolicyStatus(i, rules, provenance, given)
               causes == CausesOf(i) \cup (IF rules = "broken" THEN {"rules"} ELSE {})
                            \cup CausesIfBlocked(provenance) \cup CausesIfBlocked(given)
    <3>2. dossier' = [dossier EXCEPT !.policy = [status |-> status, causes |-> causes]]
      BY <3>1
    <3> HIDE DEF i
    <3>3. status \in {"passed", "needs_review", "blocked"}
      BY DEF PolicyStatus
    <3>4. causes \subseteq Cause
      <4>1. CausesOf(i) \subseteq Cause /\ given.causes \subseteq Cause
        BY <2>0, CausesAre DEF NoDoc
      <4>2. QED
        BY <2>0, <4>1 DEF CausesIfBlocked, Cause
    <3>5. causes # {} => status = "blocked"
      <4>1. GapBlocks(i) => GapIsSevere(i)
        BY DEF GapBlocks, GapIsSevere, Severe
      <4>2. CausesIfBlocked(provenance) # {} => provenance.status = "blocked"
        BY DEF CausesIfBlocked
      <4>3. CausesIfBlocked(given) # {} => given.status = "blocked"
        BY DEF CausesIfBlocked
      <4>4. QED
        BY <4>1, <4>2, <4>3, CausesAre DEF PolicyStatus
    <3> HIDE DEF status, causes
    <3>6. SummaryTypeOK'
      BY <3>2, <3>3, <3>4 DEF SummaryInv, SummaryTypeOK
    <3>7. /\ dossier'.policy.status = status /\ dossier'.policy.causes = causes
          /\ dossier'.provenance = provenance
          /\ dossier'.export = export /\ dossier'.readiness = dossier.readiness
      BY <3>2 DEF SummaryInv, SummaryTypeOK
    <3>8. QED
      BY <3>5, <3>6, <3>7 DEF SummaryInv, CausesHold, NoCauseIsLost
  <2>3. CASE BuildProvenance
    <3>1. PICK kept \in Kept, decision \in {"incomplete", "approved", "denied", "blocked"},
               audited \in BOOLEAN :
             LET i == Part(dossier.inputs, kept) IN
             dossier' = [dossier EXCEPT !.provenance =
                [status    |-> ProvenanceStatus(i, decision, audited),
                 dimension |-> IF \/ GapBlocks(i) \/ PermissionDenied(i) \/ audited
                                  \/ ApprovalDimension(i) = "blocked"
                               THEN "blocked" ELSE "clear",
                 causes    |-> CausesOf(i)]]
      BY <2>3 DEF BuildProvenance
    <3> DEFINE i == Part(dossier.inputs, kept)
               status == ProvenanceStatus(i, decision, audited)
               dimension == IF \/ GapBlocks(i) \/ PermissionDenied(i) \/ audited
                               \/ ApprovalDimension(i) = "blocked"
                            THEN "blocked" ELSE "clear"
               causes == CausesOf(i)
    <3>2. dossier' = [dossier EXCEPT !.provenance =
                         [status |-> status, dimension |-> dimension, causes |-> causes]]
      BY <3>1
    <3> HIDE DEF i
    <3>3. /\ status \in {"incomplete", "approved", "denied", "blocked"}
          /\ dimension \in {"clear", "blocked"}
      BY DEF ProvenanceStatus
    <3>4. causes \subseteq Cause
      BY CausesAre
    <3>5. causes # {} => status \in {"blocked", "denied"}
      BY CausesAre DEF ProvenanceStatus, ProvenanceBlockers
    <3> HIDE DEF status, dimension, causes
    <3>6. SummaryTypeOK'
      BY <3>2, <3>3, <3>4 DEF SummaryInv, SummaryTypeOK
    <3>7. /\ dossier'.provenance.status = status /\ dossier'.provenance.causes = causes
          /\ dossier'.policy = policy
          /\ dossier'.export = export /\ dossier'.readiness = dossier.readiness
      BY <3>2 DEF SummaryInv, SummaryTypeOK
    <3>8. QED
      BY <3>5, <3>6, <3>7 DEF SummaryInv, CausesHold, NoCauseIsLost
  <2>4. CASE BuildExport
    <3>1. PICK kept \in Kept, given \in {provenance, NoProvenance} :
             LET i == Part(dossier.inputs, kept) IN
             dossier' = [dossier EXCEPT !.export =
                [status |-> ExportStatus(i, given),
                 causes |-> CausesOf(i) \cup given.causes]]
      BY <2>4 DEF BuildExport
    <3> DEFINE i == Part(dossier.inputs, kept)
               status == ExportStatus(i, given)
               causes == CausesOf(i) \cup given.causes
    <3>2. dossier' = [dossier EXCEPT !.export = [status |-> status, causes |-> causes]]
      BY <3>1
    <3> HIDE DEF i
    <3>3. status \in {"incomplete", "needs_review", "blocked"}
      BY DEF ExportStatus
    <3>4. causes \subseteq Cause
      <4>1. CausesOf(i) \subseteq Cause /\ given.causes \subseteq Cause
        <5>1. NoProvenance.causes = {}
          BY DEF NoProvenance
        <5>2. QED
          BY <2>0, <5>1, CausesAre
      <4>2. QED
        BY <4>1
    <3> HIDE DEF status, causes
    <3>6. SummaryTypeOK'
      BY <3>2, <3>3, <3>4 DEF SummaryInv, SummaryTypeOK
    <3>7. /\ dossier'.export.status = status /\ dossier'.provenance = provenance
          /\ dossier'.policy = policy /\ dossier'.readiness = dossier.readiness
      BY <3>2 DEF SummaryInv, SummaryTypeOK
    <3>8. QED
      BY <3>3, <3>6, <3>7 DEF SummaryInv, CausesHold, NoCauseIsLost
  <2>5. CASE BuildReadiness
    <3>1. PICK kept \in Kept :
             LET i == Part(dossier.inputs, kept) IN
             dossier' = [dossier EXCEPT !.readiness =
                [status |-> Overall(Dimensions(i, dossier)),
                 causes |-> CausesOf(i) \cup dossier.policy.causes \cup dossier.export.causes
                            \cup (IF dossier.provenance.status = "denied" THEN {}
                                  ELSE dossier.provenance.causes)]]
      BY <2>5 DEF BuildReadiness
    <3> DEFINE i == Part(dossier.inputs, kept)
               status == Overall(Dimensions(i, dossier))
               causes == CausesOf(i) \cup policy.causes \cup export.causes
                            \cup (IF provenance.status = "denied" THEN {} ELSE provenance.causes)
    <3>2. dossier' = [dossier EXCEPT !.readiness = [status |-> status, causes |-> causes]]
      BY <3>1
    <3> HIDE DEF i
    <3>3. status \in {"not_assessed", "needs_review", "ready", "blocked"}
      BY OverallBlocks
    <3>4. causes \subseteq Cause
      BY <2>0, CausesAre
    <3>5. causes # {} => status = "blocked"
      BY CausesAre, OverallBlocks DEF SummaryInv, CausesHold
    <3> HIDE DEF status, causes
    <3>6. SummaryTypeOK'
      BY <3>2, <3>3, <3>4 DEF SummaryInv, SummaryTypeOK
    <3>7. /\ dossier'.export = export /\ dossier'.provenance = provenance
          /\ dossier'.policy = policy /\ dossier'.readiness.status = status
          /\ dossier'.readiness.causes = causes
      BY <3>2 DEF SummaryInv, SummaryTypeOK
    <3>8. QED
      BY <3>5, <3>6, <3>7 DEF SummaryInv, CausesHold, NoCauseIsLost
  <2>6. CASE UNCHANGED dossier
    BY <2>6 DEF SummaryInv, SummaryTypeOK, CausesHold, NoCauseIsLost
  <2>7. QED
    BY <2>1, <2>2, <2>3, <2>4, <2>5, <2>6 DEF SummaryNext
<1>3. QED
  BY <1>1, <1>2, PTL DEF SummarySpec

\* A cause to block that any document found is found again in every document that is made
\* of it, up to the readiness, whatever the order of the calls.
THEOREM CausesReachTheEnd == SummarySpec => []NoCauseIsLost
BY SummaryInvariant, PTL DEF SummaryInv

------------------------------------------------------------------------------
(* Policy packs                                                             *)

\* The last answer is the one of an instant that has passed.
AnswerHolds == judged # "none" => \E t \in 0..clock : judged = Judgement(pack, subject, t)

PackInv == PackTypeOK /\ AnswerHolds

\* The last answer is one that the pack gave for this subject at a time that has passed.
THEOREM PackInvariant == PackSpec => []PackInv
<1>1. PackInit => PackInv
  BY InstantAssumption, ConsideringAssumption
     DEF PackInit, PackInv, PackTypeOK, AnswerHolds, Nobody, Subjects, Amounts, Instant
<1>2. PackInv /\ [PackNext]_packVars => PackInv'
  <2> SUFFICES ASSUME PackInv, [PackNext]_packVars
               PROVE  PackInv'
    OBVIOUS
  <2>0. clock \in 0..LastInstant /\ LastInstant \in Nat
    BY InstantAssumption DEF PackInv, PackTypeOK, Instant
  <2>1. CASE Amend
    <3>1. subject' \in Subjects
      BY <2>1 DEF Amend, PackInv, PackTypeOK, Subjects
    <3>2. QED
      BY <2>1, <3>1 DEF Amend, PackInv, PackTypeOK, AnswerHolds
  <2>2. CASE Judge
    <3>1. Judgement(pack, subject, clock) \in {"passed", "needs_review", "blocked"}
      BY DEF Judgement
    <3>2. clock \in 0..clock
      BY <2>0
    <3>3. QED
      BY <2>2, <3>1, <3>2 DEF Judge, PackInv, PackTypeOK, AnswerHolds
  <2>3. CASE TimePasses
    <3>1. 0..clock \subseteq 0..(clock + 1) /\ clock + 1 \in 0..LastInstant
      BY <2>0, <2>3 DEF TimePasses
    <3>2. QED
      BY <2>3, <3>1 DEF TimePasses, PackInv, PackTypeOK, AnswerHolds, Instant
  <2>4. CASE UNCHANGED packVars
    BY <2>4 DEF packVars, PackInv, PackTypeOK, AnswerHolds
  <2>5. QED
    BY <2>1, <2>2, <2>3, <2>4 DEF PackNext
<1>3. QED
  BY <1>1, <1>2, PTL DEF PackSpec

\* Time can only add to what is missed.
LEMMA JudgementIsMonotonic ==
    ASSUME NEW p \in Packs, NEW s, NEW t \in Nat, NEW u \in Nat, t <= u
    PROVE  Rank(Judgement(p, s, t)) <= Rank(Judgement(p, s, u))
<1>1. Missed(p, t) => Missed(p, u)
  <2>1. p.due.at \in Nat
    BY InstantAssumption DEF Packs, Instant
  <2>2. QED
    BY <2>1 DEF Missed
<1>2. /\ Blocks(p, s, t) => Blocks(p, s, u)
      /\ Warns(p, s, t) => Warns(p, s, u)
  BY <1>1 DEF Blocks, Warns
<1>3. QED
  BY <1>2 DEF Judgement, Rank

\* As long as the subject stays the same, a pack that is asked again later never answers
\* better (evaluate_policy_pack, deadlines against now).
THEOREM WaitingNeverHelps == PackSpec => NeverBetterByWaiting
<1>1. PackInv /\ [PackNext]_packVars =>
         [subject' = subject => Rank(judged') >= Rank(judged)]_packVars
  <2> SUFFICES ASSUME PackInv, [PackNext]_packVars, subject' = subject, judged' # judged
               PROVE  Rank(judged') >= Rank(judged)
    BY DEF Rank, packVars, PackInv, PackTypeOK
  <2>1. Judge
    BY DEF PackNext, packVars, Amend, TimePasses
  <2>2. judged' = Judgement(pack, subject, clock)
    BY <2>1 DEF Judge
  <2>3. CASE judged = "none"
    BY <2>2, <2>3 DEF Rank, Judgement
  <2>4. CASE judged # "none"
    <3>1. PICK t \in 0..clock : judged = Judgement(pack, subject, t)
      BY <2>4 DEF PackInv, AnswerHolds
    <3>2. clock \in Nat /\ t \in Nat /\ t <= clock /\ pack \in Packs
      BY InstantAssumption DEF PackInv, PackTypeOK, Instant
    <3>3. QED
      BY <2>2, <3>1, <3>2, JudgementIsMonotonic DEF Rank, Judgement
  <2>5. QED
    BY <2>3, <2>4
<1>2. QED
  BY <1>1, PackInvariant, PTL DEF PackSpec, NeverBetterByWaiting
------------------------------------------------------------------------------
(* The parts side by side                                                   *)

\* Whichever part MCGovernance runs, every component does only what its own specification
\* allows: what is proved of a component holds of the instance.
LEMMA PartsKeepTheirSpecs ==
    Spec => /\ ApprovalSpec /\ EvidenceSpec /\ PackSpec /\ SummarySpec
            /\ KeySpec /\ SessionSpec /\ SpaceSpec /\ EngineSpec
<1>1. Init => /\ ApprovalInit /\ EvidenceInit /\ PackInit /\ SummaryInit
              /\ KeyInit /\ SessionInit /\ SpaceInit /\ EngineInit
  BY DEF Init
<1>2. [Next]_vars => /\ [ApprovalNext]_approvalVars /\ [EvidenceNext]_evidenceVars
                     /\ [PackNext]_packVars /\ [SummaryNext]_dossier
  BY DEF Next, vars, Documents, Access, documents
<1>3. [Next]_vars => /\ [KeyNext]_keyVars /\ [SessionNext]_sessionVars
                     /\ [SpaceNext]_spaceVars /\ [EngineNext]_engineVars
  BY DEF Next, vars, Documents, Access, access
<1>4. QED
  BY <1>1, <1>2, <1>3, PTL
     DEF Spec, ApprovalSpec, EvidenceSpec, PackSpec, SummarySpec, KeySpec, SessionSpec,
         SpaceSpec, EngineSpec

\* The variables of all eight parts have their types in every reachable state.
THEOREM GovernanceTypeCorrect == Spec => []TypeOK
<1>1. Spec => [](ApprovalTypeOK /\ EvidenceInv /\ PackInv /\ SummaryInv)
  BY PartsKeepTheirSpecs, ApprovalTypeCorrect, EvidenceInvariant, PackInvariant,
     SummaryInvariant, PTL
<1>2. Spec => [](KeyTypeOK /\ SessionInv /\ SpaceTypeOK /\ EngineTypeOK)
  BY PartsKeepTheirSpecs, KeyTypeCorrect, SessionInvariant, SpaceTypeCorrect,
     EngineTypeCorrect, PTL
<1>3. ASSUME ApprovalTypeOK, EvidenceInv, PackInv, SummaryInv,
             KeyTypeOK, SessionInv, SpaceTypeOK, EngineTypeOK
      PROVE  TypeOK
  BY <1>3 DEF TypeOK, EvidenceInv, PackInv, SummaryInv, SessionInv
<1>4. QED
  BY <1>1, <1>2, <1>3, PTL
==============================================================================
