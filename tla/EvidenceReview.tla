--------------------------- MODULE EvidenceReview ---------------------------
(***************************************************************************)
(* One execution of a grant, the archive of its evidence, and the reports  *)
(* made of both: provenance summary, auditor report, completeness and the  *)
(* report of compliance gaps.  The facts go on changing while the evidence *)
(* is built, stored, altered in the database and verified.                 *)
(*                                                                         *)
(* archive_execution and record_provenance_event have no caller under src  *)
(* but the tests: they are actions here as the tests call them.            *)
(***************************************************************************)
EXTENDS Naturals, FiniteSets

CONSTANTS Verifier,      \* calls of GET /evidence/executions/{id}/verify
          SpoiledBy      \* the flaws that a grant may get: a subset of Flaw

VARIABLES fact,      \* the rows of the execution, its grant and its request
          draft,     \* a bundle that is built and not stored yet
          archive,   \* the row of evidence_archives and its hash index
          verdict    \* verdict[v]: what call v has computed and not recorded yet

evidenceVars == <<fact, draft, archive, verdict>>

Result == {"none", "succeeded", "denied", "failed"}
Flaw   == {"revoked", "expired", "exhausted", "unsigned"}

ASSUME SpoiledByAssumption == SpoiledBy \subseteq Flaw

\* linked: the execution names the grant, and the request if there is one.
\* traced: there are provenance events.
Fact == [result : Result, linked : BOOLEAN, flaws : SUBSET Flaw,
         request : {"none", "approved", "denied", "revoked"}, traced : BOOLEAN]

\* altered: the hash in the bundle is not the one of the bundle any more.  resealed: the
\* bundle was altered and its hash with it.  unversioned: its version is another one.
Content == {"intact", "altered", "resealed", "unversioned"}
Verdict == {"none", "valid", "invalid", "unsupported_version"}

\* sections: the request and approval sections are as grantRequestId demands.
\* sound: what the last recorded verdict was computed from agreed with its own hash and had
\* its sections (history).
Archive == [state : {"absent", "stored", "indexed"}, sections : BOOLEAN,
            content : Content, status : Verdict, sound : BOOLEAN]
Computed == [status : Verdict, sound : BOOLEAN]

NoFact    == [result |-> "none", linked |-> FALSE, flaws |-> {}, request |-> "none",
              traced |-> FALSE]
NoArchive == [state |-> "absent", sections |-> FALSE, content |-> "intact",
              status |-> "none", sound |-> FALSE]
NoVerdict == [status |-> "none", sound |-> FALSE]

EvidenceTypeOK ==
    /\ fact \in Fact
    /\ draft \in {"none", "complete", "incomplete"}
    /\ archive \in Archive
    /\ verdict \in [Verifier -> Computed]

EvidenceInit ==
    /\ fact \in {[NoFact EXCEPT !.request = r] : r \in {"none", "approved"}}
    /\ draft = "none"
    /\ archive = NoArchive
    /\ verdict = [v \in Verifier |-> NoVerdict]

------------------------------------------------------------------------------
(* The facts                                                                *)

\* handle_demo_action: a success has its grant; a denial has one unless none matched,
\* and a failure has one if it came after the match.
Execute ==
    /\ fact.result = "none"
    /\ \E result \in {"succeeded", "denied", "failed"}, linked \in BOOLEAN :
         /\ result = "succeeded" => linked /\ fact.flaws = {}
         /\ fact' = [fact EXCEPT !.result = result, !.linked = linked]
    /\ UNCHANGED <<draft, archive, verdict>>

\* The grant expires, is used up, is revoked or loses its signature.
Spoil(flaw) ==
    /\ fact' = [fact EXCEPT !.flaws = @ \cup {flaw}]
    /\ UNCHANGED <<draft, archive, verdict>>

\* revoke_request revokes the grant with the request; a request is denied next to a
\* live grant when two decisions raced.
SettleRequest(status) ==
    /\ fact.request = "approved"
    /\ fact' = [fact EXCEPT !.request = status,
                            !.flaws = IF status = "revoked" THEN @ \cup {"revoked"} ELSE @]
    /\ UNCHANGED <<draft, archive, verdict>>

RecordProvenance ==
    /\ fact' = [fact EXCEPT !.traced = TRUE]
    /\ UNCHANGED <<draft, archive, verdict>>

------------------------------------------------------------------------------
(* The archive                                                              *)

\* A bundle with a grantRequestId needs an approval section, and a request has one
\* when it is approved or denied.
HasSections(f) == (f.linked /\ f.request # "none") => f.request \in {"approved", "denied"}

BuildBundle ==
    /\ fact.result # "none"
    /\ draft' = IF HasSections(fact) THEN "complete" ELSE "incomplete"
    /\ UNCHANGED <<fact, archive, verdict>>

\* store_bundle: the row is inserted unless there is one ...
StoreBundle ==
    /\ draft # "none" /\ archive.state = "absent"
    /\ archive' = [archive EXCEPT !.state = "stored", !.sections = draft = "complete"]
    /\ UNCHANGED <<fact, draft, verdict>>

\* ... and its hash index by a statement of its own, in another transaction.
IndexBundle ==
    /\ draft # "none" /\ archive.state = "stored"
    /\ archive' = [archive EXCEPT !.state = "indexed"]
    /\ draft' = "none"
    /\ UNCHANGED <<fact, verdict>>

\* The bundle changes in the database, its hash with it or not, or its version does; a
\* section may be lost or put in.
Alter(content, sections) ==
    /\ archive.state # "absent"
    /\ archive' = [archive EXCEPT !.content = content, !.sections = sections]
    /\ UNCHANGED <<fact, draft, verdict>>

\* Mutant: the structure is looked at and the hash is not recomputed.
VerdictWithoutHash(a) ==
    CASE a.content = "unversioned"               -> "unsupported_version"
      [] a.content # "unversioned" /\ a.sections -> "valid"
      [] OTHER -> "invalid"

\* Version, then hash, then structure.  The hash is compared with the one in the bundle,
\* not with the one that the row and its index keep.
VerdictOf(a) ==
    CASE a.content = "unversioned"                                -> "unsupported_version"
      [] a.content = "altered"                                    -> "invalid"
      [] a.content \in {"intact", "resealed"} /\ ~a.sections      -> "invalid"
      [] a.content \in {"intact", "resealed"} /\ a.sections       -> "valid"

Sound(a) == a.sections /\ a.content \in {"intact", "resealed"}

\* verify_execution loads the row and computes ...
ReadForVerdict(v) ==
    /\ archive.state # "absent" /\ verdict[v] = NoVerdict
    /\ verdict' = [verdict EXCEPT ![v] = [status |-> VerdictOf(archive),
                                          sound |-> Sound(archive)]]
    /\ UNCHANGED <<fact, draft, archive>>

\* ... and writes the status in another transaction.
RecordVerdict(v) ==
    /\ verdict[v] # NoVerdict
    /\ archive' = [archive EXCEPT !.status = verdict[v].status, !.sound = verdict[v].sound]
    /\ verdict' = [verdict EXCEPT ![v] = NoVerdict]
    /\ UNCHANGED <<fact, draft>>

\* The process ends.
EvidenceCrash ==
    /\ draft' = "none"
    /\ verdict' = [v \in Verifier |-> NoVerdict]
    /\ UNCHANGED <<fact, archive>>

EvidenceNext ==
    \/ Execute \/ RecordProvenance
    \/ \E flaw \in SpoiledBy : Spoil(flaw)
    \/ \E status \in {"denied", "revoked"} : SettleRequest(status)
    \/ BuildBundle \/ StoreBundle \/ IndexBundle
    \/ \E content \in Content \ {"intact"}, sections \in BOOLEAN : Alter(content, sections)
    \/ \E v \in Verifier : ReadForVerdict(v) \/ RecordVerdict(v)
    \/ EvidenceCrash

EvidenceSpec == EvidenceInit /\ [][EvidenceNext]_evidenceVars

------------------------------------------------------------------------------
(* The reports                                                              *)

Present(a)  == a.state # "absent"

\* Findings of the auditor report that _CRITICAL_FINDING_PREFIXES names.
CriticalFindings(f) ==
    (IF f.result = "denied" THEN {<<"execution", "denied">>} ELSE {})
    \cup (IF f.linked THEN {<<"grant", flaw>> : flaw \in f.flaws}
                           \cup {<<"request", r>> : r \in {f.request} \ {"none", "approved"}}
                      ELSE {})

\* Findings of any kind: the conclusion is "clean" when there is none.
Findings(f, a) ==
    CriticalFindings(f)
    \cup (IF f.result = "failed" THEN {<<"execution", "failed">>} ELSE {})
    \cup (IF ~Present(a) THEN {<<"evidence", "missing">>} ELSE {})
    \cup (IF Present(a) /\ a.status # "valid" THEN {<<"evidence", "unverified">>} ELSE {})

Gaps(f, a) ==
    (IF ~Present(a) THEN {"missing_evidence"} ELSE {})
    \cup (IF Present(a) /\ a.status = "invalid" THEN {"invalid_evidence"} ELSE {})
    \cup (IF Present(a) /\ a.status # "valid" THEN {"unverified_evidence"} ELSE {})
    \cup (IF ~f.traced THEN {"missing_provenance_events"} ELSE {})

Penalty(f, a) ==
    (IF ~Present(a) THEN 20 ELSE 0)
    + (CASE a.status = "invalid" -> 25 [] a.status = "valid" -> 0
         [] OTHER -> IF Present(a) THEN 15 ELSE 0)
    + (IF ~f.traced THEN 10 ELSE 0)
    + 15 * Cardinality(CriticalFindings(f))

\* Mutant: a completeness that is critical for its findings alone is overlooked.
CompletenessByScore(f, a) ==
    CASE Penalty(f, a) > 50 \/ a.status = "invalid" -> "critical"
      [] Gaps(f, a) = {} -> "complete"
      [] OTHER -> "incomplete"

Completeness(f, a) ==
    CASE Penalty(f, a) > 50 \/ a.status = "invalid" \/ CriticalFindings(f) # {} -> "critical"
      [] Penalty(f, a) <= 10 /\ CriticalFindings(f) = {} /\ Gaps(f, a) = {}     -> "complete"
      [] OTHER -> "incomplete"

SeverityOf(gap) ==
    CASE gap = "invalid_evidence"          -> "critical"
      [] gap = "missing_evidence"          -> "high"
      [] gap = "unverified_evidence"       -> "medium"
      [] gap = "missing_provenance_events" -> "low"

Worst(severities) ==
    CASE "critical" \in severities -> "critical"
      [] "high" \in severities /\ "critical" \notin severities -> "high"
      [] "medium" \in severities /\ severities \cap {"critical", "high"} = {} -> "medium"
      [] OTHER -> "low"

\* What GET /compliance/gaps answers: overallStatus, severity, blockingGaps.
GapReport(f, a) ==
    LET gaps       == Gaps(f, a)
        severities == {SeverityOf(g) : g \in gaps}
        status     == Completeness(f, a)
    IN [overall  |-> CASE status = "critical" \/ "critical" \in severities -> "blocked"
                       [] status # "critical" /\ gaps = {} /\ status = "complete" -> "clear"
                       [] OTHER -> "gaps_detected",
        severity |-> CASE status = "critical" -> "critical"
                       [] status # "critical" /\ gaps = {} /\ status = "complete" -> "none"
                       [] OTHER -> Worst(severities),
        blocking |-> {g \in gaps : SeverityOf(g) \in {"critical", "high"}}]

------------------------------------------------------------------------------
(* Properties                                                               *)

\* A gap report that is clear is clear of everything the facts hold against the
\* execution but its failure: the evidence was whole and agreed with its own hash when
\* it was found valid, the execution was not denied, neither its grant nor its request
\* fell later (_compute_findings, build_evidence_completeness_for_execution,
\* _compute_overall_status_and_severity).
ClearMeansClean ==
    GapReport(fact, archive).overall = "clear" =>
        /\ Present(archive) /\ archive.sound
        /\ fact.traced /\ fact.result # "denied"
        /\ fact.linked => fact.flaws = {} /\ fact.request \in {"none", "approved"}

\* The status is valid on a bundle that disagrees with its own hash, or that lacks a
\* section, only when the verdict that was recorded last comes from a read that preceded
\* that alteration.  A bundle altered together with the hash in it is valid all the same
\* (verify_execution, update_verification_status).
ValidIsExplained == archive.status = "valid" => archive.sound

\* The gap report calls invalid evidence "potential tampering or corruption"
\* (compliance_gap_report.py:34): a bundle that nobody altered is not invalid.
HonestEvidenceIsValid ==
    archive.content = "intact" => archive.status # "invalid"

\* The catalogue of gaps holds a failed execution to be a gap of severity high
\* (compliance_gap_report.py:66).
FailureIsAGap ==
    fact.result = "failed" => GapReport(fact, archive).overall # "clear"

\* "The bundle hash is recomputed offline and compared to the stored evidence hash to
\* detect tampering" (docs/demo_scenario.md:62): what was altered is not found valid.
\* The stored hash that verify_execution compares with is the one in the bundle.
TamperingIsDetected ==
    [][\A v \in Verifier : ReadForVerdict(v) /\ archive.content \in {"altered", "resealed"}
          => verdict'[v].status # "valid"]_evidenceVars
==============================================================================
