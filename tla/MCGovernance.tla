---------------------------- MODULE MCGovernance ----------------------------
(***************************************************************************)
(* Finite instances of the approval workflow, the evidence of an execution,*)
(* policy packs and the compliance summary, which exchange documents by    *)
(* way of the caller, and of who may act: API keys, credentials over time, *)
(* workspaces and the grants of the policy engine.  No two share a         *)
(* variable: an instance runs one of them, chosen at the start, and leaves *)
(* the others where they begin.                                            *)
(***************************************************************************)
EXTENDS ApprovalLifecycle, EvidenceReview, PolicyPack, ComplianceSummary,
        ApiKeys, Sessions, WorkspaceAccess, PolicyEngine, TLC

CONSTANTS s1, absent, c1, c2, u1, u2, t1, w1, w2, w3

VARIABLE part

\* A pack without rules, and packs that list an item as evidence or as an exclusion.
PlainPack ==
    [evidence |-> [i \in Item |-> "unlisted"], exclusion |-> [i \in Item |-> "unlisted"],
     due |-> [kind |-> "none", required |-> FALSE, at |-> 0],
     limit |-> "none", currency |-> "any"]

SomePacks ==
    {p \in Packs : /\ p.due.at = 0 /\ p.due.kind \in {"none", "naive"} => ~p.due.required
                   /\ p.due.kind = "naive" => p.limit = "none"
                   /\ \A i \in Item : "unlisted" \in {p.evidence[i], p.exclusion[i]}
                   /\ p.currency \in {"any", "EUR"}
                   /\ p.limit = "none" => p.currency = "any"}

\* The open deployments that matter have keys for JWT and no provider.
Deployments == {m \in Deployment : m.open => m.jwt /\ ~m.oidc}
Plainly     == [oidc |-> FALSE, jwt |-> FALSE, open |-> FALSE]

\* Bound: next to a provider the rows change only where there are JWT, and its keys only
\* where there are none.
OneSide ==
    /\ mode.oidc /\ mode.jwt => UNCHANGED provider.up /\ Published' = Published
    /\ mode.oidc /\ ~mode.jwt => UNCHANGED row

documents == <<approvalVars, evidenceVars, packVars, dossier>>
access    == <<keyVars, sessionVars, spaceVars, engineVars>>

vars == <<part, documents, access>>

Init ==
    /\ part \in {"approval", "evidence", "pack", "summary",
                "keys", "sessions", "spaces", "policy"}
    /\ ApprovalInit /\ EvidenceInit /\ PackInit /\ SummaryInit /\ KeyInit /\ SpaceInit
    /\ part # "evidence" => fact = NoFact
    /\ part # "pack" => pack = PlainPack
    /\ SessionInit
    /\ IF part = "sessions" THEN mode \in Deployments ELSE mode = Plainly
    /\ EngineInit
    /\ part # "policy" => table = <<>>

Documents ==
    \/ part = "approval" /\ ApprovalNext /\ UNCHANGED <<evidenceVars, packVars, dossier>>
    \/ part = "evidence" /\ EvidenceNext /\ UNCHANGED <<approvalVars, packVars, dossier>>
    \/ part = "pack" /\ PackNext /\ UNCHANGED <<approvalVars, evidenceVars, dossier>>
    \/ part = "summary" /\ SummaryNext /\ UNCHANGED <<approvalVars, evidenceVars, packVars>>

Access ==
    \/ part = "keys" /\ KeyNext /\ UNCHANGED <<sessionVars, spaceVars, engineVars>>
    \/ part = "sessions" /\ SessionNext /\ OneSide /\ UNCHANGED <<keyVars, spaceVars, engineVars>>
    \/ part = "spaces" /\ SpaceNext /\ UNCHANGED <<keyVars, sessionVars, engineVars>>
    \/ part = "policy" /\ EngineNext /\ UNCHANGED <<keyVars, sessionVars, spaceVars>>

Next ==
    \/ Documents /\ UNCHANGED <<part, access>>
    \/ Access /\ UNCHANGED <<part, documents>>

Spec == Init /\ [][Next]_vars

\* No call differs from another.
Symmetry == Permutations(Call)

\* Every part keeps its types, as all of the parts together (proved, GovernanceTypeCorrect).
TypeOK ==
    /\ ApprovalTypeOK /\ EvidenceTypeOK /\ PackTypeOK /\ SummaryTypeOK
    /\ KeyTypeOK /\ SessionTypeOK /\ SpaceTypeOK /\ EngineTypeOK

AllRoles == {GrantAdmin, Owner, "auditor"}

\* One representative of every class that the decision tells apart.
ConsideredSignals ==
    {NoSignal} \cup
    {s \in Signals : /\ s.action
                     /\ s.risk \in {"low", "medium", "high"}
                     /\ s.amount \in {"none", "large", "huge", "nan"}
                     /\ s.compliance \in {"none", "blocked"}
                     /\ s.evidence \in {"complete", "incomplete"} /\ s.flags = {}}

\* Gap reports as EvidenceReview makes them.
Gaps3 ==
    {[overall |-> "clear", severity |-> "none", blocking |-> {}],
     [overall |-> "gaps_detected", severity |-> "high", blocking |-> {"missing_evidence"}],
     [overall |-> "blocked", severity |-> "critical", blocking |-> {}]}

\* Approval documents as ApprovalRules and ApprovalLifecycle make them.
Collected5 ==
    {i \in Inputs :
        /\ i.completeness \in {"none", "complete", "critical"}
        /\ i.completeness = "complete" <=> i.gap.overall = "clear"
        /\ <<i.requirement, i.lifecycle>> \in
              {<<"none", "none">>, <<"four_eyes_required", "pending">>,
               <<"four_eyes_required", "approved">>, <<"four_eyes_required", "rejected">>,
               <<"four_eyes_required", "blocked">>, <<"blocked", "blocked">>}}

\* An admin of the tenant and an operator who may make keys up to read_write.
Roles       == u1 :> "grant_admin" @@ u2 :> "auditor"
UserTenants == u1 :> "acme" @@ u2 :> "acme"
Homes       == t1 :> "acme"
Entitlement == u1 :> {t1} @@ u2 :> {t1}

\* w1 is the demo workspace; w2 and w3 are of the other tenant.
Tenants == w1 :> "demo" @@ w2 :> "acme" @@ w3 :> "acme"
Slugs   == w1 :> "default" @@ w2 :> "main" @@ w3 :> "second"

\* Grants of s1 that differ from a plain one in one respect: what they are about, their
\* time, their uses and their limits.
At(t)    == [at |-> t, kind |-> "aware"]
Naive(t) == [at |-> t, kind |-> "naive"]
Typed(fee, balance) == [form |-> "typed", fee |-> fee, balance |-> balance]

Plain == [subject |-> s1, role |-> "deployer", action |-> "read", resource |-> "db",
          from |-> At(0), until |-> At(1), revoked |-> FALSE, uses |-> 0,
          maxUses |-> NoLimit, limits |-> [Typed(absent, absent) EXCEPT !.form = "none"]]

Grants ==
    {Plain, [Plain EXCEPT !.action = "*"],
     [Plain EXCEPT !.from = At(1), !.until = At(2)],
     [Plain EXCEPT !.from = Naive(0), !.until = Naive(2)],
     [Plain EXCEPT !.maxUses = 1],
     [Plain EXCEPT !.limits = Typed(1, 1)]}

Untils == {At(2), Naive(2)}

Asks(action, fee, balance) ==
    [subject |-> s1, role |-> "deployer", action |-> action, resource |-> "db",
     fee |-> fee, balance |-> balance]

Questions ==
    {Asks("read", absent, absent), Asks("read", 1, 1), Asks("read", 1, absent),
     Asks("read", 2, 1), Asks("read", 1, 2), Asks("*", absent, absent)}

\* Rows of another build: a type of limit that this one does not know, limits that are no
\* object, and timestamps that are none.
Tables ==
    {<<>>} \cup
    {<<r>> : r \in {[Plain EXCEPT !.limits.form = "unknown"],
                    [Plain EXCEPT !.limits.form = "garbage"],
                    [Plain EXCEPT !.until.kind = "malformed"],
                    [Plain EXCEPT !.limits = Typed(Malformed, 1)]}}
=============================================================================
