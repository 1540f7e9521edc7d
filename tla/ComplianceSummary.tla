------------------------- MODULE ComplianceSummary -------------------------
(***************************************************************************)
(* The dossier of a workflow: documents that one endpoint returns are sent *)
(* to the next by the caller, who may leave any of them out: evaluation of *)
(* the policy pack, provenance of the decision, auditor export, readiness. *)
(* Each builder is a pure function of the documents it is sent; a document *)
(* has here the fields that a later builder reads.                         *)
(*                                                                         *)
(* causes (history): what is wrong in the documents that one was built of. *)
(***************************************************************************)
EXTENDS Naturals, FiniteSets

CONSTANTS Gap,         \* gap reports there may be
          Requirement, \* decisions of approval requirements there may be
          Lifecycle,   \* statuses of approval requests there may be
          Collected    \* what a caller may hold at the start: a subset of Inputs

VARIABLE dossier

NoDoc        == [status |-> "none", causes |-> {}]
NoProvenance == [status |-> "none", dimension |-> "none", causes |-> {}]
NoGap        == [overall |-> "none", severity |-> "none", blocking |-> {}]

Cause == {"compliance", "permission", "requirement", "lifecycle", "rules"}

\* What the caller holds before it builds anything.
Inputs == [completeness : {"none", "complete", "incomplete", "critical"},
           gap : Gap \cup {NoGap},
           permission : {"none", "allowed", "denied"},
           requirement : Requirement \cup {"none"},
           lifecycle : Lifecycle \cup {"none"}]

ASSUME CollectedAssumption == Collected \subseteq Inputs

SummaryTypeOK ==
    dossier \in
        [inputs : Inputs,
         policy : [status : {"none", "passed", "needs_review", "blocked"}, causes : SUBSET Cause],
         provenance : [status : {"none", "incomplete", "approved", "denied", "blocked"},
                       dimension : {"none", "clear", "blocked"}, causes : SUBSET Cause],
         export : [status : {"none", "incomplete", "needs_review", "ready", "blocked"},
                   causes : SUBSET Cause],
         readiness : [status : {"none", "not_assessed", "needs_review", "ready", "blocked"},
                      causes : SUBSET Cause]]

NoInputs == [completeness |-> "none", gap |-> NoGap, permission |-> "none",
             requirement |-> "none", lifecycle |-> "none"]

SummaryInit ==
    /\ dossier = [inputs |-> NoInputs, policy |-> NoDoc,
                  provenance |-> NoProvenance,
                  export |-> NoDoc, readiness |-> NoDoc]

------------------------------------------------------------------------------
(* What the builders read in the inputs                                     *)

Severe(gap) == gap.overall = "blocked" \/ gap.severity \in {"critical", "high"}
                                       \/ gap.blocking # {}

GapBlocks(i)         == i.gap.overall = "blocked"
GapIsSevere(i)       == Severe(i.gap)
PermissionDenied(i)  == i.permission = "denied"
RequirementBlocks(i) == i.requirement = "blocked"
LifecycleBlocks(i)   == i.lifecycle = "blocked"

CausesOf(i) ==
    (IF GapBlocks(i) THEN {"compliance"} ELSE {})
    \cup (IF PermissionDenied(i) THEN {"permission"} ELSE {})
    \cup (IF RequirementBlocks(i) THEN {"requirement"} ELSE {})
    \cup (IF LifecycleBlocks(i) THEN {"lifecycle"} ELSE {})

\* The requirement says approvalRequired where these builders look for required, and
\* rejected, expired and cancelled are none of the statuses they know.
ApprovalDimension(i) ==
    CASE RequirementBlocks(i) \/ LifecycleBlocks(i) -> "blocked"
      [] ~(RequirementBlocks(i) \/ LifecycleBlocks(i)) /\ i.lifecycle = "pending" -> "pending"
      [] i.lifecycle = "approved" /\ i.requirement # "blocked" -> "ready"
      [] OTHER -> IF i.requirement = "none" THEN "not_assessed" ELSE "ready"

\* A caller leaves out what it likes.
Part(i, kept) == [f \in DOMAIN i |-> IF f \in kept THEN i[f] ELSE NoInputs[f]]
Kept == {DOMAIN NoInputs, {"gap", "permission"}, {"requirement", "lifecycle"}, {}}

------------------------------------------------------------------------------
(* The builders                                                             *)

Receive ==
    /\ dossier.inputs = NoInputs
    /\ dossier' \in {[dossier EXCEPT !.inputs = i] : i \in Collected}

\* evaluate_policy_requirements: rules names what PolicyPack finds wrong with the
\* subject (blockers), or only questions (warnings); a missing pack blocks.
RuleOutcome == {"met", "questioned", "broken"}

PolicyStatus(i, rules, provenance, export) ==
    CASE \/ rules = "broken" \/ GapIsSevere(i) \/ PermissionDenied(i)
         \/ RequirementBlocks(i) \/ LifecycleBlocks(i)
         \/ provenance.status = "blocked" \/ export.status = "blocked"
            -> "blocked"
      [] OTHER -> IF rules = "questioned" \/ i.completeness # "none"
                  THEN "needs_review" ELSE "passed"

CausesIfBlocked(doc) == IF doc.status = "blocked" THEN doc.causes ELSE {}

EvaluatePolicy ==
    /\ dossier.inputs # NoInputs /\ dossier.policy.status = "none"
    /\ dossier.readiness.status = "none"
    /\ \E kept \in Kept, rules \in RuleOutcome, export \in {dossier.export, NoDoc} :
         LET i == Part(dossier.inputs, kept) IN
         dossier' = [dossier EXCEPT !.policy =
            [status |-> PolicyStatus(i, rules, dossier.provenance, export),
             causes |-> CausesOf(i) \cup (IF rules = "broken" THEN {"rules"} ELSE {})
                        \cup CausesIfBlocked(dossier.provenance) \cup CausesIfBlocked(export)]]

\* build_decision_provenance_v2: approvals that are pending block the decision too, a
\* policy evaluation has none of the keys it reads, and a decision that is denied
\* stays so in spite of its blockers.
ProvenanceBlockers(i, audited) ==
    \/ GapBlocks(i) \/ PermissionDenied(i) \/ audited
    \/ ApprovalDimension(i) \in {"blocked", "pending"}

\* Mutant: a decision the caller has not made yet is left as it is.
ProvenanceStatusWhenDecided(i, decision, audited) ==
    IF ProvenanceBlockers(i, audited) /\ decision \notin {"denied", "incomplete"}
    THEN "blocked" ELSE decision

ProvenanceStatus(i, decision, audited) ==
    IF ProvenanceBlockers(i, audited) /\ decision # "denied" THEN "blocked" ELSE decision

BuildProvenance ==
    /\ dossier.inputs # NoInputs /\ dossier.provenance.status = "none"
    /\ dossier.readiness.status = "none"
    /\ \E kept \in Kept, decision \in {"incomplete", "approved", "denied", "blocked"},
          audited \in BOOLEAN :
         LET i == Part(dossier.inputs, kept) IN
         dossier' = [dossier EXCEPT !.provenance =
            [status    |-> ProvenanceStatus(i, decision, audited),
             dimension |-> IF \/ GapBlocks(i) \/ PermissionDenied(i) \/ audited
                              \/ ApprovalDimension(i) = "blocked"
                           THEN "blocked" ELSE "clear",
             causes    |-> CausesOf(i)]]

\* build_institutional_auditor_export: neither the gap report nor the policy evaluation
\* has the keys it reads, and the completeness report never has "complete".
ExportStatus(i, provenance) ==
    CASE \/ provenance.status = "blocked" \/ provenance.dimension = "blocked"
         \/ PermissionDenied(i) \/ RequirementBlocks(i) \/ LifecycleBlocks(i) -> "blocked"
      [] OTHER -> IF i = NoInputs /\ provenance.status = "none"
                  THEN "incomplete" ELSE "needs_review"

BuildExport ==
    /\ dossier.inputs # NoInputs /\ dossier.export.status = "none"
    /\ dossier.readiness.status = "none"
    /\ \E kept \in Kept, provenance \in {dossier.provenance, NoProvenance} :
         LET i == Part(dossier.inputs, kept) IN
         dossier' = [dossier EXCEPT !.export =
            [status |-> ExportStatus(i, provenance),
             causes |-> CausesOf(i) \cup provenance.causes]]

\* build_compliance_readiness_summary, by dimension.
Dimensions(i, d) ==
    [evidence   |-> CASE i.completeness = "complete" -> "ready"
                      [] i.completeness = "critical" -> "blocked"
                      [] i.completeness = "incomplete" -> "needs_review"
                      [] OTHER -> "not_assessed",
     compliance |-> CASE i.gap = NoGap -> "not_assessed"
                      [] i.gap.overall = "clear"   -> "ready"
                      [] i.gap.overall = "blocked" -> "blocked"
                      [] OTHER -> "needs_review",
     permission |-> CASE i.permission = "allowed" -> "ready"
                      [] i.permission = "denied"  -> "blocked"
                      [] OTHER -> "not_assessed",
     approval   |-> IF ApprovalDimension(i) = "pending" THEN "needs_review"
                    ELSE ApprovalDimension(i),
     provenance |-> CASE d.provenance.status = "none"    -> "not_assessed"
                      [] d.provenance.status = "blocked" -> "blocked"
                      [] OTHER -> "needs_review",
     auditor    |-> IF d.export.status = "none" THEN "not_assessed" ELSE "blocked",
     policy     |-> CASE d.policy.status = "none"    -> "not_assessed"
                      [] d.policy.status = "blocked" -> "blocked"
                      [] OTHER -> "needs_review"]

Overall(dimensions) ==
    LET values == {dimensions[n] : n \in DOMAIN dimensions}
    IN CASE "blocked" \in values -> "blocked"
         [] "blocked" \notin values /\ "needs_review" \in values -> "needs_review"
         [] values = {"not_assessed"} -> "not_assessed"
         [] values = {"ready"} -> "ready"
         [] OTHER -> "needs_review"

BuildReadiness ==
    /\ dossier.inputs # NoInputs /\ dossier.readiness.status = "none"
    /\ \E kept \in Kept :
         LET i == Part(dossier.inputs, kept) IN
         dossier' = [dossier EXCEPT !.readiness =
            [status |-> Overall(Dimensions(i, dossier)),
             causes |-> CausesOf(i) \cup dossier.policy.causes \cup dossier.export.causes
                        \cup (IF dossier.provenance.status = "denied" THEN {}
                              ELSE dossier.provenance.causes)]]

SummaryNext == Receive \/ EvaluatePolicy \/ BuildProvenance \/ BuildExport \/ BuildReadiness

SummarySpec == SummaryInit /\ [][SummaryNext]_dossier

------------------------------------------------------------------------------
(* Properties                                                               *)

\* What blocks at the start of the chain blocks at its end: a compliance gap, a denied
\* permission, a blocked approval or a broken rule reaches the readiness through
\* whichever documents the caller passed on, each with key names of its own; through
\* the provenance of a decision that is denied it does not have to.
NoCauseIsLost ==
    dossier.readiness.causes # {} => dossier.readiness.status = "blocked"

\* The guide shows the chain end in "ready" (docs/integration_guide.md:301): a workflow
\* that nothing blocks does not end blocked.
BlockedHasCause ==
    dossier.readiness.status = "blocked" => \/ dossier.readiness.causes # {}
                                            \/ dossier.inputs.completeness = "critical"
                                            \/ dossier.provenance.status = "blocked"
==============================================================================
