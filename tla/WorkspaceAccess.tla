--------------------------- MODULE WorkspaceAccess ---------------------------
(***************************************************************************)
(* Which workspace a request acts in, and what it may do there: the        *)
(* resolution of a caller and a header against workspaces and memberships, *)
(* and the check of a resource.  Both are functions of the rows; rows are  *)
(* made by the bootstrap script and changed by hand only.                  *)
(***************************************************************************)
EXTENDS FiniteSets

CONSTANTS Principal,        \* operators, which are the subjects of tokens
          Space,         \* ids of workspaces
          Tenant,
          DemoTenant,    \* _DEMO_TENANT_ID
          DemoSpace,     \* _DEMO_WORKSPACE_ID, which is a row or not
          SpaceTenant,   \* SpaceTenant[s]: the tenant of workspace s
          SlugOf,        \* SlugOf[s]: its slug
          NoSpace,       \* no header, no workspace
          GivenRole,     \* roles that members are given: a subset of MemberRole
          NoPrincipal       \* the caller has no subject, as with the static token

ASSUME DemoAssumption  == DemoTenant \in Tenant /\ DemoSpace \in Space
ASSUME SpaceAssumption == SpaceTenant \in [Space -> Tenant] /\ NoSpace \notin Space \cup Tenant
ASSUME PrincipalAssumption == NoPrincipal \notin Principal

CrossRole  == {"owner", "grant_admin_global"}
CallerRole       == CrossRole \cup {"grant_admin", "auditor"}
MemberRole == {"workspace_owner", "workspace_admin", "workspace_member", "workspace_readonly"}
NoRole     == "none"

VARIABLES space,   \* space[s]: status of a row of workspaces
          member   \* member[s][p]: a row of workspace_members

spaceVars == <<space, member>>

NoMember   == [role |-> NoRole, status |-> "none"]
Membership == [role : MemberRole, status : {"active", "inactive"}] \cup {NoMember}

SpaceTypeOK ==
    /\ space \in [Space -> {"none", "active", "inactive"}]
    /\ member \in [Space -> [Principal -> Membership]]

SpaceInit ==
    /\ space = [s \in Space |-> "none"]
    /\ member = [s \in Space |-> [p \in Principal |-> NoMember]]

------------------------------------------------------------------------------
(* Rows                                                                     *)

\* The owner exists, is active and of the tenant; the index on tenant and slug lets one
\* of two that run at once commit.  A second run changes nothing or is refused.
BootstrapWorkspace(s, p) ==
    /\ space[s] = "none"
    /\ \A t \in Space : space[t] # "none" =>
           <<SpaceTenant[t], SlugOf[t]>> # <<SpaceTenant[s], SlugOf[s]>>
    /\ space' = [space EXCEPT ![s] = "active"]
    /\ member' = [member EXCEPT ![s][p] = [role |-> "workspace_owner", status |-> "active"]]

\* By hand: no code changes these rows, and no constraint ties a member to a workspace.
SetStatus(s, status) ==
    /\ space[s] # "none"
    /\ space' = [space EXCEPT ![s] = status]
    /\ UNCHANGED member

SetMember(s, p, m) ==
    /\ member' = [member EXCEPT ![s][p] = m]
    /\ UNCHANGED space

------------------------------------------------------------------------------
(* resolve_workspace_context                                                *)

\* What the authentication says.
Callers == [person : Principal \cup {NoPrincipal}, tenant : Tenant, role : CallerRole]

Refused == [space |-> NoSpace, tenant |-> DemoTenant, role |-> NoRole, cross |-> FALSE,
            mode |-> "refused"]

Context(s, t, role, cross, mode) ==
    [space |-> s, tenant |-> t, role |-> role, cross |-> cross, mode |-> mode]

LegacyContext == Context(DemoSpace, DemoTenant, NoRole, FALSE, "legacy_demo")

IsCross(c) == c.role \in CrossRole

\* _get_workspace_row, and its status.
Reachable(c, s) == space[s] = "active" /\ SpaceTenant[s] = c.tenant

\* _get_membership_row
ActiveMember(s, p) == member[s][p].status = "active"

\* Mutant: the status of the workspace is not part of the join.
MembershipsOfAny(c) ==
    {s \in Space : /\ ActiveMember(s, c.person) /\ space[s] # "none"
                   /\ SpaceTenant[s] = c.tenant}

\* _list_operator_workspaces
Memberships(c) == {s \in Space : ActiveMember(s, c.person) /\ Reachable(c, s)}

ResolveNamed(c, s) ==
    IF ~Reachable(c, s) THEN Refused
    ELSE IF IsCross(c) THEN Context(s, c.tenant, NoRole, TRUE, "cross_workspace_role")
    ELSE IF ActiveMember(s, c.person)
    THEN Context(s, c.tenant, member[s][c.person].role, FALSE, "membership_verified")
    ELSE Refused

\* With several memberships, or with none outside the demo tenant, the caller has to
\* name a workspace.
ResolveUnnamed(c) ==
    LET mine == Memberships(c) IN
    IF IsCross(c)
    THEN IF c.tenant = DemoTenant
         THEN Context(DemoSpace, c.tenant, NoRole, TRUE, "cross_workspace_role_demo_fallback")
         ELSE Refused
    ELSE IF \E s \in mine : mine = {s}
    THEN LET s == CHOOSE x \in mine : TRUE IN
         Context(s, c.tenant, member[s][c.person].role, FALSE, "single_membership")
    ELSE IF mine = {} /\ c.tenant = DemoTenant
    THEN Context(DemoSpace, DemoTenant, NoRole, FALSE, "demo_tenant_fallback")
    ELSE Refused

Resolve(c, named) ==
    IF c.person = NoPrincipal THEN LegacyContext
    ELSE IF named = NoSpace THEN ResolveUnnamed(c) ELSE ResolveNamed(c, named)

Answered(ctx) == ctx.mode # "refused"

------------------------------------------------------------------------------
(* check_workspace_resource_access                                          *)

\* A resource of workspace s and tenant t; rows from before the migration have neither.
MayAccess(ctx, s, t, mutation) ==
    /\ t \in {NoSpace, ctx.tenant}
    /\ s \in {NoSpace, ctx.space} \/ ctx.cross
    /\ mutation => ctx.role # "workspace_readonly"

------------------------------------------------------------------------------
SpaceNext ==
    \/ \E s \in Space, p \in Principal : BootstrapWorkspace(s, p)
    \/ \E s \in Space, status \in {"active", "inactive"} : SetStatus(s, status)
    \/ \E s \in Space, p \in Principal, m \in Membership :
          m.role \in GivenRole \cup {NoRole} /\ SetMember(s, p, m)

SpaceSpec == SpaceInit /\ [][SpaceNext]_spaceVars

------------------------------------------------------------------------------
(* Properties                                                               *)

\* What a caller gets without a header, by a query of its own, is what it gets when it
\* names the workspace, role included; but for the fallback of the demo tenant
\* (resolve_workspace_context, _list_operator_workspaces).
AutoIsWhatHeaderGives ==
    \A c \in Callers :
        LET auto  == Resolve(c, NoSpace)
            named == Resolve(c, auto.space) IN
        auto.mode = "single_membership" =>
            /\ Answered(named)
            /\ named.space = auto.space /\ named.tenant = auto.tenant
            /\ named.role = auto.role /\ named.cross = auto.cross

\* Whoever may write a resource of a workspace is in its tenant and has a role across
\* workspaces or a membership that may write, whatever the header; the demo
\* workspace is open to the static token, and in its tenant to whoever has no membership.
WritersAreEntitled ==
    \A c \in Callers, named \in Space \cup {NoSpace}, s \in Space :
        LET ctx == Resolve(c, named) IN
        (Answered(ctx) /\ MayAccess(ctx, s, SpaceTenant[s], TRUE)) =>
            \/ c.person = NoPrincipal /\ s = DemoSpace
            \/ /\ SpaceTenant[s] = c.tenant
               /\ \/ IsCross(c)
                  \/ /\ space[s] = "active" /\ ActiveMember(s, c.person)
                     /\ member[s][c.person].role # "workspace_readonly"
                  \/ s = DemoSpace /\ c.tenant = DemoTenant /\ Memberships(c) = {}
==============================================================================
