---------------------------- MODULE AccessProofs -----------------------------
(***************************************************************************)
(* Theorems about ApiKeys, WorkspaceAccess, PolicyEngine and Sessions, for *)
(* every number of keys, calls, users, workspaces, members, grants and     *)
(* workers and every time to live: no chain of keys gains authority, no    *)
(* revoked key begins a request that makes one, whoever writes in a        *)
(* workspace is entitled to, the policy engine answers as the grants say   *)
(* that it is given, and no credential outlives its withdrawal by more     *)
(* than a time to live.                                                    *)
(***************************************************************************)
EXTENDS ApiKeys, WorkspaceAccess, PolicyEngine, Sessions, TLAPS

------------------------------------------------------------------------------
(* API keys                                                                 *)

\* Rows that were never made are empty, and a key that made another is a row.
RowsHold ==
    \A k \in Key : /\ key[k].state = "none" => key[k] = NoKey
                   /\ key[k].maker # NoOne => key[key[k].maker].state # "none"

\* A call that has found a key has found a row, and no call began with a revoked one.
CallsHold ==
    \A c \in Call : /\ call[c].pc # "idle" => /\ call[c].key \in Key
                                              /\ key[call[c].key].state # "none"
                    /\ ~call[c].late

KeyRows == RowsHold /\ KeyNeverOutranksCreator /\ NoKeyAfterRevocation

KeyInv == KeyTypeOK /\ KeyRows /\ CallsHold

\* Of every row only the state may change, and no row is made or taken back.
OnlyStates ==
    \A k \in Key :
        \E st \in {"none", "live", "expired", "revoked"} :
            /\ key'[k] = [key[k] EXCEPT !.state = st]
            /\ st = "none" <=> key[k].state = "none"

\* A step that changes states only keeps the authority of every row: the columns that
\* the invariant compares are written once.
LEMMA StatesKeepRows ==
    ASSUME KeyInv, OnlyStates
    PROVE  KeyRows' /\ \A k \in Key : key[k].state # "none" => key'[k].state # "none"
<1>1. \A k \in Key : key[k] \in Row
  BY DEF KeyInv, KeyTypeOK
<1>2. \A k \in Key : /\ key'[k].scope = key[k].scope /\ key'[k].home = key[k].home
                     /\ key'[k].user = key[k].user /\ key'[k].subject = key[k].subject
                     /\ key'[k].maker = key[k].maker /\ key'[k].late = key[k].late
                     /\ key'[k].state = "none" <=> key[k].state = "none"
                     /\ key'[k].state = "none" => key'[k] = key[k]
  <2> SUFFICES ASSUME NEW k \in Key, NEW st \in {"none", "live", "expired", "revoked"},
                      key'[k] = [key[k] EXCEPT !.state = st], st = "none" <=> key[k].state = "none"
               PROVE  /\ key'[k].scope = key[k].scope /\ key'[k].home = key[k].home
                      /\ key'[k].user = key[k].user /\ key'[k].subject = key[k].subject
                      /\ key'[k].maker = key[k].maker /\ key'[k].late = key[k].late
                      /\ key'[k].state = st
                      /\ st = "none" => key'[k] = key[k]
    BY ZenonT(60) DEF OnlyStates
  <2>1. key[k] \in Row
    BY <1>1
  <2> QED
    BY <2>1 DEF Row
<1>3. \A k \in Key : key[k].maker # NoOne => key[k].maker \in Key
  BY <1>1 DEF Row
<1>4. RowsHold'
  BY <1>2, <1>3 DEF RowsHold, KeyInv, KeyRows
<1>5. KeyNeverOutranksCreator'
  BY <1>2, <1>3 DEF KeyNeverOutranksCreator, KeyInv, KeyRows
<1>6. NoKeyAfterRevocation'
  BY <1>2 DEF NoKeyAfterRevocation, KeyInv, KeyRows
<1> QED
  BY <1>2, <1>4, <1>5, <1>6 DEF KeyRows

\* A new row keeps the invariant of the rows if it is below the key that makes it, or
\* if no key does and an admin stands behind an admin scope.
LEMMA NewRowKeepsRows ==
    ASSUME KeyInv, NEW k \in Key, Fresh(k), NEW new \in Row, new.state = "live", ~new.late,
           key' = [key EXCEPT ![k] = new],
           new.maker # NoOne =>
              LET by == key[new.maker] IN
              /\ by.state # "none"
              /\ Writes(by.scope) /\ ScopeRank(new.scope) <= ScopeRank(by.scope)
              /\ <<new.home, new.user, new.subject>> = <<by.home, by.user, by.subject>>,
           new.scope = "admin" => new.maker = NoOne /\ RoleOf[new.user] \in AdminRole
    PROVE  KeyRows' /\ \A j \in Key : key[j].state # "none" => key'[j] = key[j]
<1>1. key[k].state = "none"
  BY DEF Fresh, Key
<1>2. key \in [Key -> Row]
  BY DEF KeyInv, KeyTypeOK
<1>3. \A j \in Key : key[j].maker # NoOne => key[j].maker \in Key /\ key[j].maker # k
  BY <1>1, <1>2 DEF KeyInv, KeyRows, RowsHold, Row
<1>4. key'[k] = new /\ \A j \in Key \ {k} : key'[j] = key[j]
  BY <1>2
<1>5. new.maker # NoOne => new.maker \in Key \ {k}
  BY <1>1 DEF Row
<1>6. RowsHold'
  BY <1>3, <1>4, <1>5 DEF RowsHold, KeyInv, KeyRows
<1>7. KeyNeverOutranksCreator'
  BY <1>3, <1>4, <1>5 DEF KeyNeverOutranksCreator, KeyInv, KeyRows
<1>8. NoKeyAfterRevocation'
  BY <1>4 DEF NoKeyAfterRevocation, KeyInv, KeyRows
<1> QED
  BY <1>1, <1>4, <1>6, <1>7, <1>8 DEF KeyRows

\* The invariant of the keys: no chain of keys that made keys rises above its first,
\* and no key was made in a request that began with a revoked one.
THEOREM KeyInvariant == KeySpec => []KeyInv
<1>1. KeyInit => KeyInv
  BY NoOneAssumption DEF KeyInit, KeyInv, KeyTypeOK, KeyRows, RowsHold, CallsHold, NoKey, Idle,
     Row, Scope, KeyNeverOutranksCreator, NoKeyAfterRevocation
<1>2. KeyInv /\ [KeyNext]_keyVars => KeyInv'
  <2> SUFFICES ASSUME KeyInv, [KeyNext]_keyVars PROVE KeyInv'
    OBVIOUS
  <2> USE DEF KeyTypeOK
  <2>1. ASSUME NEW c \in Call, NEW k \in Key, BeginMint(c, k) PROVE KeyInv'
    <3>1. key' = key /\ events' = events
      BY <2>1 DEF BeginMint, Begin
    <3>2. KeyRows'
      BY <3>1 DEF KeyInv, KeyRows, RowsHold, KeyNeverOutranksCreator, NoKeyAfterRevocation
    <3>3. KeyTypeOK' /\ CallsHold'
      BY <2>1, <3>1 DEF BeginMint, Begin, Usable, KeyInv, CallsHold
    <3> QED
      BY <3>2, <3>3 DEF KeyInv
  <2>2. ASSUME NEW c \in Call, Refuse(c) PROVE KeyInv'
    <3>1. key' = key /\ events' = events
      BY <2>2 DEF Refuse
    <3>2. KeyRows'
      BY <3>1 DEF KeyInv, KeyRows, RowsHold, KeyNeverOutranksCreator, NoKeyAfterRevocation
    <3>3. KeyTypeOK' /\ CallsHold'
      BY <2>2, <3>1 DEF Refuse, Idle, KeyInv, CallsHold
    <3> QED
      BY <3>2, <3>3 DEF KeyInv
  <2>3. ASSUME NEW c \in Call, NEW u \in User, NEW k \in Key, BeginRevoke(c, u, k)
        PROVE  KeyInv'
    <3>1. key' = key /\ events' = events
      BY <2>3 DEF BeginRevoke
    <3>2. KeyRows'
      BY <3>1 DEF KeyInv, KeyRows, RowsHold, KeyNeverOutranksCreator, NoKeyAfterRevocation
    <3>3. KeyTypeOK' /\ CallsHold'
      BY <2>3, <3>1 DEF BeginRevoke, Idle, KeyInv, CallsHold
    <3> QED
      BY <3>2, <3>3 DEF KeyInv
  <2>4. ASSUME NEW u \in User, NEW k \in Key, NEW w \in Workspace, NEW s \in GivenScope,
               NEW x \in GivenSubject, MintByUser(u, k, w, s, x)
        PROVE  KeyInv'
    <3> DEFINE new == Minted(s, w, u, x, NoOne, FALSE)
    <3>1. new \in Row /\ new.state = "live" /\ ~new.late /\ new.maker = NoOne
          /\ new.scope = s /\ new.user = u
      BY GivenAssumption DEF Minted, Row
    <3>2. /\ key' = [key EXCEPT ![k] = new] /\ call' = call /\ Fresh(k)
          /\ s = "admin" => RoleOf[u] \in AdminRole
      BY <2>4 DEF MintByUser
    <3>3. KeyRows' /\ \A j \in Key : key[j].state # "none" => key'[j] = key[j]
      <4> HIDE DEF new
      <4> QED
        BY <3>1, <3>2, NewRowKeepsRows
    <3>4. KeyTypeOK'
      <4> HIDE DEF new
      <4>1. key' \in [Key -> Row]
        BY <3>1, <3>2 DEF KeyInv
      <4>2. \A e \in events' : e.kind \in {"created", "revoked"} /\ e.key \in Key
        BY <2>4 DEF MintByUser, Event, KeyInv
      <4> QED
        BY <3>2, <4>1, <4>2 DEF KeyInv
    <3>5. CallsHold'
      BY <3>2, <3>3 DEF KeyInv, CallsHold
    <3> QED
      BY <3>3, <3>4, <3>5 DEF KeyInv
  <2>5. ASSUME NEW c \in Call, NEW k \in Key, NEW s \in GivenScope, MintByKey(c, k, s)
        PROVE  KeyInv'
    <3> DEFINE by == call[c].key
               new == Minted(s, key[by].home, key[by].user, key[by].subject, by, call[c].late)
    <3>1. by \in Key /\ key[by].state # "none" /\ ~call[c].late /\ key[by] \in Row
      BY <2>5 DEF MintByKey, MayMint, KeyInv, CallsHold
    <3>2. new \in Row /\ new.state = "live" /\ ~new.late /\ new.maker = by
          /\ new.scope = s /\ new.home = key[by].home
          /\ new.user = key[by].user /\ new.subject = key[by].subject
      BY <3>1, GivenAssumption DEF KeyInv, Minted, Row
    <3>3. /\ key' = [key EXCEPT ![k] = new] /\ call' = [call EXCEPT ![c] = Idle] /\ Fresh(k)
          /\ Writes(key[by].scope) /\ ScopeRank(s) <= ScopeRank(key[by].scope) /\ s # "admin"
      BY <2>5 DEF MintByKey, MayMint, Mint
    <3>4. KeyRows' /\ \A j \in Key : key[j].state # "none" => key'[j] = key[j]
      <4> HIDE DEF new
      <4> QED
        BY <3>1, <3>2, <3>3, NewRowKeepsRows
    <3>5. KeyTypeOK'
      BY <2>5, <3>2, <3>3, SMTT(30) DEF MintByKey, Mint, Event, KeyInv, Idle
    <3>6. CallsHold'
      BY <3>3, <3>4 DEF KeyInv, CallsHold, Idle
    <3> QED
      BY <3>4, <3>5, <3>6 DEF KeyInv
  <2>6. ASSUME NEW c \in Call, Revoke(c) PROVE KeyInv'
    <3>1. call[c].key \in Key /\ key[call[c].key].state # "none"
      BY <2>6 DEF Revoke, KeyInv, CallsHold
    <3>2. KeyTypeOK'
      BY <2>6, <3>1, SMTT(30) DEF Revoke, Event, KeyInv, Idle, Row
    <3>3. OnlyStates
      BY <2>6, <3>1 DEF Revoke, OnlyStates, KeyInv, Row
    <3>4. KeyRows' /\ \A k \in Key : key[k].state # "none" => key'[k].state # "none"
      BY <3>3, StatesKeepRows
    <3>5. CallsHold'
      BY <2>6, <3>4 DEF Revoke, KeyInv, CallsHold, Idle
    <3> QED
      BY <3>2, <3>4, <3>5 DEF KeyInv
  <2>7. ASSUME NEW by \in User, NEW u \in User, Erase(by, u) PROVE KeyInv'
    <3>1. \A k \in Key : key[k].user = u => key[k].state # "none"
      BY NoOneAssumption DEF KeyInv, KeyRows, RowsHold, NoKey
    <3>2. KeyTypeOK'
      BY <2>7 DEF Erase, KeyInv, Row
    <3>3. OnlyStates
      BY <2>7, <3>1 DEF Erase, OnlyStates, KeyInv, Row
    <3>4. KeyRows' /\ \A k \in Key : key[k].state # "none" => key'[k].state # "none"
      BY <3>3, StatesKeepRows
    <3>5. CallsHold'
      BY <2>7, <3>4 DEF Erase, KeyInv, CallsHold
    <3> QED
      BY <3>2, <3>4, <3>5 DEF KeyInv
  <2>8. ASSUME NEW k \in Key, KeyExpires(k) PROVE KeyInv'
    <3>1. KeyTypeOK'
      BY <2>8 DEF KeyExpires, KeyInv, Row
    <3>2. OnlyStates
      BY <2>8 DEF KeyExpires, OnlyStates, KeyInv, Row
    <3>3. KeyRows' /\ \A j \in Key : key[j].state # "none" => key'[j].state # "none"
      BY <3>2, StatesKeepRows
    <3>4. CallsHold'
      BY <2>8, <3>3 DEF KeyExpires, KeyInv, CallsHold
    <3> QED
      BY <3>1, <3>3, <3>4 DEF KeyInv
  <2>9. CASE UNCHANGED keyVars
    BY <2>9 DEF keyVars, KeyInv, KeyRows, RowsHold, CallsHold, KeyNeverOutranksCreator,
                NoKeyAfterRevocation
  <2> QED
    BY <2>1, <2>2, <2>3, <2>4, <2>5, <2>6, <2>7, <2>8, <2>9 DEF KeyNext
<1> QED
  BY <1>1, <1>2, PTL DEF KeySpec

\* The variables of the keys have their types.
THEOREM KeyTypeCorrect == KeySpec => []KeyTypeOK
<1>1. KeyInv => KeyTypeOK
  BY DEF KeyInv
<1> QED
  BY <1>1, KeyInvariant, PTL

\* A chain of keys never gains authority, an admin key is minted by an admin, and no key
\* is made in a request that began when its key was revoked (create_api_key,
\* resolve_api_key_auth).
THEOREM KeysEarned == KeySpec => []KeysAreEarned
<1>1. KeyInv => KeysAreEarned
  BY DEF KeyInv, KeyRows, KeysAreEarned
<1> QED
  BY <1>1, KeyInvariant, PTL

------------------------------------------------------------------------------
(* Workspaces                                                               *)

\* The rows of workspaces and memberships have their types, whatever is set by hand.
THEOREM SpaceTypeCorrect == SpaceSpec => []SpaceTypeOK
<1>1. SpaceInit => SpaceTypeOK
  BY DEF SpaceInit, SpaceTypeOK, Membership
<1>2. SpaceTypeOK /\ [SpaceNext]_spaceVars => SpaceTypeOK'
  <2> SUFFICES ASSUME SpaceTypeOK, [SpaceNext]_spaceVars PROVE SpaceTypeOK'
    OBVIOUS
  <2>1. ASSUME NEW s \in Space, NEW p \in Principal, BootstrapWorkspace(s, p)
        PROVE  SpaceTypeOK'
    <3>1. [role |-> "workspace_owner", status |-> "active"] \in Membership
      BY DEF Membership, MemberRole
    <3>2. QED
      BY <2>1, <3>1 DEF BootstrapWorkspace, SpaceTypeOK
  <2>2. ASSUME NEW s \in Space, NEW status \in {"active", "inactive"}, SetStatus(s, status)
        PROVE  SpaceTypeOK'
    BY <2>2 DEF SetStatus, SpaceTypeOK
  <2>3. ASSUME NEW s \in Space, NEW p \in Principal, NEW m \in Membership, SetMember(s, p, m)
        PROVE  SpaceTypeOK'
    BY <2>3 DEF SetMember, SpaceTypeOK
  <2>4. CASE UNCHANGED spaceVars
    BY <2>4 DEF spaceVars, SpaceTypeOK
  <2>5. QED
    BY <2>1, <2>2, <2>3, <2>4 DEF SpaceNext
<1>3. QED
  BY <1>1, <1>2, PTL DEF SpaceSpec

\* What resolve_workspace_context gives to a single membership is a membership.
LEMMA SingleIsMember ==
    ASSUME NEW c \in Callers, ResolveUnnamed(c).mode = "single_membership"
    PROVE  \E s \in Space :
              /\ Memberships(c) = {s} /\ ~IsCross(c)
              /\ Reachable(c, s) /\ ActiveMember(s, c.person)
              /\ ResolveUnnamed(c) = Context(s, c.tenant, member[s][c.person].role, FALSE,
                                             "single_membership")
<1>1. ~IsCross(c) /\ \E s \in Memberships(c) : Memberships(c) = {s}
  BY DEF ResolveUnnamed, Context, Refused
<1>2. PICK s \in Memberships(c) : Memberships(c) = {s}
  BY <1>1
<1>3. (CHOOSE x \in Memberships(c) : TRUE) = s
  BY <1>2
<1> QED
  BY <1>1, <1>2, <1>3 DEF ResolveUnnamed, Memberships

\* Whatever the rows, what a caller gets without a header is what it gets when it names
\* the workspace, but for the fallbacks (_list_operator_workspaces against
\* _get_workspace_row and _get_membership_row).
THEOREM AutoMatchesHeader == SpaceSpec => []AutoIsWhatHeaderGives
<1>1. AutoIsWhatHeaderGives
  <2> SUFFICES ASSUME NEW c \in Callers, Resolve(c, NoSpace).mode = "single_membership"
               PROVE  LET auto  == Resolve(c, NoSpace)
                          named == Resolve(c, auto.space) IN
                      /\ Answered(named)
                      /\ named.space = auto.space /\ named.tenant = auto.tenant
                      /\ named.role = auto.role /\ named.cross = auto.cross
    BY DEF AutoIsWhatHeaderGives
  <2>1. c.person # NoPrincipal
    BY DEF Resolve, LegacyContext, Context
  <2>2. Resolve(c, NoSpace) = ResolveUnnamed(c)
    BY <2>1 DEF Resolve
  <2>3. PICK s \in Space :
           /\ ~IsCross(c) /\ Reachable(c, s) /\ ActiveMember(s, c.person)
           /\ ResolveUnnamed(c) = Context(s, c.tenant, member[s][c.person].role, FALSE,
                                          "single_membership")
    BY <2>2, SingleIsMember
  <2>4. s # NoSpace
    BY SpaceAssumption
  <2>5. Resolve(c, s) = Context(s, c.tenant, member[s][c.person].role, FALSE,
                                "membership_verified")
    BY <2>1, <2>3, <2>4 DEF Resolve, ResolveNamed
  <2>6. /\ Resolve(c, NoSpace).space = s /\ Resolve(c, NoSpace).tenant = c.tenant
        /\ Resolve(c, NoSpace).role = member[s][c.person].role
    BY <2>2, <2>3 DEF Context
  <2>7. /\ Resolve(c, s).space = s /\ Resolve(c, s).tenant = c.tenant
        /\ Resolve(c, s).role = member[s][c.person].role
        /\ Resolve(c, s).mode = "membership_verified"
    BY <2>5 DEF Context
  <2>8. Resolve(c, NoSpace).cross = FALSE /\ Resolve(c, s).cross = FALSE
    <3>1. /\ Context(s, c.tenant, member[s][c.person].role, FALSE, "single_membership").cross
                = FALSE
          /\ Context(s, c.tenant, member[s][c.person].role, FALSE, "membership_verified").cross
                = FALSE
      BY DEF Context
    <3> QED
      BY <2>2, <2>3, <2>5, <3>1, Zenon
  <2> QED
    BY <2>6, <2>7, <2>8, Zenon DEF Answered
<1> QED
  BY <1>1, PTL

\* Whatever the rows and the header, whoever may write a resource of a workspace is of
\* its tenant and has a role across workspaces or a membership there that may write;
\* the demo workspace has the exceptions that WritersAreEntitled names
\* (check_workspace_resource_access).
THEOREM WritersEntitled == SpaceSpec => []WritersAreEntitled
<1>1. WritersAreEntitled
  <2> SUFFICES ASSUME NEW c \in Callers, NEW named \in Space \cup {NoSpace}, NEW s \in Space,
                      Answered(Resolve(c, named)),
                      MayAccess(Resolve(c, named), s, SpaceTenant[s], TRUE)
               PROVE  \/ c.person = NoPrincipal /\ s = DemoSpace
                      \/ /\ SpaceTenant[s] = c.tenant
                         /\ \/ IsCross(c)
                            \/ /\ space[s] = "active" /\ ActiveMember(s, c.person)
                               /\ member[s][c.person].role # "workspace_readonly"
                            \/ s = DemoSpace /\ c.tenant = DemoTenant /\ Memberships(c) = {}
    BY DEF WritersAreEntitled
  <2>0. s # NoSpace /\ SpaceTenant[s] # NoSpace
    BY SpaceAssumption
  <2>1. CASE c.person = NoPrincipal
    BY <2>0, <2>1 DEF Resolve, LegacyContext, Context, MayAccess
  <2>2. CASE c.person # NoPrincipal /\ named # NoSpace
    BY <2>0, <2>2 DEF Resolve, ResolveNamed, Context, MayAccess, Reachable, Answered, Refused
  <2>3. CASE c.person # NoPrincipal /\ named = NoSpace
    <3>1. Resolve(c, named) = ResolveUnnamed(c)
      BY <2>3 DEF Resolve
    <3>2. CASE ResolveUnnamed(c).mode = "single_membership"
      BY <2>0, <3>1, <3>2, SingleIsMember DEF Context, MayAccess, Reachable
    <3>3. CASE ResolveUnnamed(c).mode # "single_membership"
      BY <2>0, <3>1, <3>3 DEF ResolveUnnamed, Context, MayAccess, Answered, Refused
    <3> QED
      BY <3>2, <3>3
  <2> QED
    BY <2>1, <2>2, <2>3
<1> QED
  BY <1>1, PTL

------------------------------------------------------------------------------
(* The policy engine                                                        *)

\* A table that has rows has grants, and the ladder has eight rungs.
LEMMA LadderRungs == Len(Ladder) = 8 /\ DOMAIN Ladder = 1..8
  BY DEF Ladder

\* A limit is kept exactly if the ladder finds nothing against it.
LEMMA LimitKept ==
    ASSUME NEW declared \in Nat \cup {Absent}, NEW limit \in Nat \cup {Absent, Malformed}
    PROVE  ~Violates(declared, limit) <=>
              limit = Absent \/ (limit \in Nat /\ declared \in 0..limit)
<1>1. Absent \notin Nat /\ Malformed \notin Nat /\ Absent # Malformed
  BY EngineAssumption
<1>2. CASE limit \notin Nat
  BY <1>1, <1>2 DEF Violates
<1>3. CASE limit \in Nat /\ declared = Absent
  BY <1>1, <1>3 DEF Violates
<1>4. CASE limit \in Nat /\ declared \in Nat
  BY <1>1, <1>4 DEF Violates
<1> QED
  BY <1>2, <1>3, <1>4

\* A grant that is about the request, and that the clock can be compared with,
\* authorises it exactly if no rung of the ladder bars it (check_constraints and the
\* rungs before it against the promise of each grant).
THEOREM LadderIsExact ==
    ASSUME NEW g \in GrantRow, NEW q \in Question, NEW now \in Int,
           Relevant(g, q), Readable(g), ~Raises(g, now)
    PROVE  Authorises(g, q, now) <=> Barring(g, q, now) = {}
<1> DEFINE Clear == \A r \in 1..8 : ~Bars(r, g, q, now)
<1>1. Barring(g, q, now) = {} <=> Clear
  BY LadderRungs DEF Barring
<1>2. /\ g.from \in Stamp /\ g.until \in Stamp /\ g.uses \in Nat
      /\ g.maxUses \in Nat \cup {NoLimit} /\ g.limits \in GrantLimits
      /\ q.fee \in Nat \cup {Absent} /\ q.balance \in Nat \cup {Absent}
  BY DEF GrantRow, Question
<1>3. /\ g.limits.form \in {"none", "garbage", "unknown", "typed"}
      /\ g.limits.fee \in Nat \cup {Absent, Malformed}
      /\ g.limits.balance \in Nat \cup {Absent, Malformed}
  BY <1>2 DEF GrantLimits
<1>4. g.from.at \in Int /\ g.until.at \in Int /\ g.from.kind = "aware"
  BY <1>2 DEF Stamp, Readable, Raises
<1>5. Clear <=> /\ now \in g.from.at..g.until.at /\ ~g.revoked /\ ~UsedUp(g)
                /\ g.limits.form # "garbage" /\ ~Empty(g.limits)
                /\ g.limits.form # "unknown"
                /\ g.limits.form = "typed" => /\ ~Violates(q.fee, g.limits.fee)
                                              /\ ~Violates(q.balance, g.limits.balance)
  <2>1. Clear <=> /\ ~Bars(1, g, q, now) /\ ~Bars(2, g, q, now) /\ ~Bars(3, g, q, now)
                  /\ ~Bars(4, g, q, now) /\ ~Bars(5, g, q, now) /\ ~Bars(6, g, q, now)
                  /\ ~Bars(7, g, q, now) /\ ~Bars(8, g, q, now)
    <3>1. 1..8 = {1, 2, 3, 4, 5, 6, 7, 8}
      OBVIOUS
    <3> QED
      BY <3>1
  <2>2. ~Bars(1, g, q, now) /\ ~Bars(2, g, q, now) <=> now \in g.from.at..g.until.at
    BY <1>4 DEF Bars
  <2>3. (Bars(3, g, q, now) <=> g.revoked) /\ (Bars(4, g, q, now) <=> UsedUp(g))
    BY DEF Bars
  <2>4. /\ Bars(5, g, q, now) <=> g.limits.form = "garbage" \/ Empty(g.limits)
        /\ Bars(6, g, q, now) <=> g.limits.form = "unknown"
    BY DEF Bars
  <2>5. /\ Bars(7, g, q, now) <=> g.limits.form = "typed" /\ Violates(q.fee, g.limits.fee)
        /\ Bars(8, g, q, now) <=>
              g.limits.form = "typed" /\ Violates(q.balance, g.limits.balance)
    BY DEF Bars
  <2> QED
    BY <2>1, <2>2, <2>3, <2>4, <2>5
<1>6. Permits(g.limits, q) <=> /\ g.limits.form # "garbage" /\ ~Empty(g.limits)
                               /\ g.limits.form # "unknown"
                               /\ g.limits.form = "typed" =>
                                     /\ ~Violates(q.fee, g.limits.fee)
                                     /\ ~Violates(q.balance, g.limits.balance)
  <2>1. ~Violates(q.fee, g.limits.fee) <=>
           g.limits.fee = Absent \/ (g.limits.fee \in Nat /\ q.fee \in 0..g.limits.fee)
    BY <1>2, <1>3, LimitKept
  <2>2. ~Violates(q.balance, g.limits.balance) <=>
           \/ g.limits.balance = Absent
           \/ g.limits.balance \in Nat /\ q.balance \in 0..g.limits.balance
    BY <1>2, <1>3, LimitKept
  <2> QED
    BY <1>3, <2>1, <2>2 DEF Permits, Empty
<1>7. ~UsedUp(g) <=> g.maxUses = NoLimit \/ g.uses < g.maxUses
  BY <1>2, EngineAssumption DEF UsedUp
<1>8. Clear => g.until.kind = "aware"
  BY <1>2, <1>4, <1>5 DEF Readable, Raises, Stamp
<1> QED
  BY <1>1, <1>4, <1>5, <1>6, <1>7, <1>8 DEF Authorises

\* What the scan has found so far: nothing before its position decides, and the refusal it
\* keeps is of the first grant that is about the request.
ScanHolds ==
    pos # 0 =>
        /\ answer = NoRuling
        /\ \A j \in 1..pos - 1 : j \notin Authorising /\ j \notin Breaking
        /\ refusal = NoRuling => \A j \in 1..pos - 1 : j \notin Concerned
        /\ refusal # NoRuling =>
              /\ refusal.kind = "denied"
              /\ First(refusal.grant, Concerned)
              /\ refusal.rung \in Barring(table[refusal.grant], question, moment)

EngineInv == EngineTypeOK /\ AnsweredByTheGrants /\ ScanHolds

\* A scan that looks at one more grant, which neither authorises nor breaks: what held of
\* those before it holds of one more.
LEMMA ScanAdvances ==
    ASSUME EngineInv, Looking, pos \notin Authorising, pos \notin Breaking,
           pos' = pos + 1, UNCHANGED <<table, moment, question, answer>>,
           \/ pos \notin Concerned /\ refusal' = refusal
           \/ /\ pos \in Concerned
              /\ \E rung \in Barring(table[pos], question, moment) :
                    refusal' = IF refusal = NoRuling THEN Ruling("denied", pos, rung)
                               ELSE refusal
    PROVE  EngineInv'
<1>1. /\ table \in Seq(GrantRow) /\ pos \in 1..Len(table) /\ question \in Question
      /\ refusal \in Rulings /\ answer = NoRuling
  BY DEF EngineInv, EngineTypeOK, ScanHolds, Looking
<1>2. /\ Authorising' = Authorising /\ Concerned' = Concerned /\ Breaking' = Breaking
  BY DEF Authorising, Concerned, Breaking
<1>3. AnsweredByTheGrants'
  BY <1>1 DEF AnsweredByTheGrants, NoRuling, Ruling
<1>4. pos + 1 \in 0..Len(table) + 1 /\ pos \in Nat /\ pos # 0 /\ (pos + 1) - 1 = pos
  BY <1>1
<1>5. \A rung \in Barring(table[pos], question, moment) : Ruling("denied", pos, rung) \in Rulings
  BY <1>4 DEF Barring, Ruling, Rulings, Ladder
<1>6. EngineTypeOK'
  BY <1>1, <1>4, <1>5 DEF EngineInv, EngineTypeOK, NoRuling, Ruling
<1>7. \A j \in 1..pos : j \notin Authorising /\ j \notin Breaking
  BY <1>1 DEF EngineInv, ScanHolds
<1>8. ASSUME pos \notin Concerned, refusal' = refusal
      PROVE  ScanHolds'
  <2>1. CASE refusal = NoRuling
    <3>1. \A j \in 1..pos : j \notin Concerned
      BY <1>4, <1>8, <2>1 DEF EngineInv, ScanHolds
    <3> QED
      BY <1>1, <1>2, <1>4, <1>7, <1>8, <2>1, <3>1 DEF ScanHolds
  <2>2. CASE refusal # NoRuling
    <3>1. /\ refusal.kind = "denied" /\ First(refusal.grant, Concerned)
          /\ refusal.rung \in Barring(table[refusal.grant], question, moment)
      BY <1>4, <2>2 DEF EngineInv, ScanHolds
    <3> QED
      BY <1>1, <1>2, <1>4, <1>7, <1>8, <2>2, <3>1 DEF ScanHolds, First
  <2> QED
    BY <2>1, <2>2
<1>9. ASSUME pos \in Concerned, NEW rung \in Barring(table[pos], question, moment),
             refusal' = IF refusal = NoRuling THEN Ruling("denied", pos, rung) ELSE refusal
      PROVE  ScanHolds'
  <2>1. CASE refusal = NoRuling
    <3>1. refusal' = Ruling("denied", pos, rung) /\ refusal' # NoRuling
      BY <1>9, <2>1 DEF Ruling, NoRuling
    <3>2. /\ refusal'.kind = "denied" /\ refusal'.grant = pos /\ refusal'.rung = rung
      BY <3>1 DEF Ruling
    <3>3. First(pos, Concerned)
      <4>1. \A j \in 1..pos - 1 : j \notin Concerned
        BY <1>4, <2>1 DEF EngineInv, ScanHolds
      <4>2. Concerned \subseteq 1..Len(table)
        BY <1>1 DEF Concerned
      <4> QED
        BY <1>1, <1>9, <4>1, <4>2 DEF First
    <3> QED
      BY <1>1, <1>2, <1>4, <1>7, <1>9, <3>1, <3>2, <3>3 DEF ScanHolds, First
  <2>2. CASE refusal # NoRuling
    BY <1>1, <1>2, <1>4, <1>7, <1>9, <2>2 DEF EngineInv, ScanHolds, First
  <2> QED
    BY <2>1, <2>2
<1> QED
  BY <1>3, <1>6, <1>8, <1>9 DEF EngineInv

\* An answer by the row that the scan is at.
LEMMA AnswerByRow ==
    ASSUME EngineInv, Looking, table \in Seq(GrantRow), UNCHANGED <<table, moment, question>>,
           pos' = 0, refusal' = NoRuling,
           \/ pos \in Authorising /\ answer' = Ruling("approved", pos, 0)
           \/ pos \in Breaking /\ answer' = Ruling("failed", pos, 0)
    PROVE  EngineInv'
<1>1. pos \in 1..Len(table) /\ question \in Question
  BY DEF EngineInv, EngineTypeOK, Looking
<1>2. Authorising' = Authorising /\ Concerned' = Concerned /\ Breaking' = Breaking
  BY DEF Authorising, Concerned, Breaking
<1>3. \A j \in Authorising \cup Breaking : pos <= j
  <2>1. \A j \in 1..pos - 1 : j \notin Authorising /\ j \notin Breaking
    BY <1>1 DEF EngineInv, ScanHolds
  <2>2. Authorising \subseteq 1..Len(table) /\ Breaking \subseteq 1..Len(table)
    BY DEF Authorising, Breaking, Concerned
  <2> QED
    BY <1>1, <2>1, <2>2
<1>4. answer'.grant = pos /\ answer'.kind \in {"approved", "failed"} /\ answer'.rung = 0
  BY DEF Ruling
<1>5. answer' \in Rulings /\ refusal' \in Rulings
  BY <1>1 DEF Rulings, Ruling, NoRuling, Ladder
<1>6. EngineTypeOK'
  BY <1>1, <1>5 DEF EngineInv, EngineTypeOK
<1>7. AnsweredByTheGrants'
  BY <1>2, <1>3, <1>4 DEF AnsweredByTheGrants, First, Ruling
<1> QED
  BY <1>6, <1>7 DEF EngineInv, ScanHolds

\* The end of the list: the refusal that was kept, or none.
LEMMA ScanConcludes ==
    ASSUME EngineInv, Conclude
    PROVE  EngineInv'
<1>1. /\ table \in Seq(GrantRow) /\ pos = Len(table) + 1 /\ pos # 0
      /\ question \in Question /\ refusal \in Rulings
  BY DEF EngineInv, EngineTypeOK, Conclude
<1>2. Authorising' = Authorising /\ Concerned' = Concerned /\ Breaking' = Breaking
  BY DEF Authorising, Concerned, Breaking, Conclude, AnswerWith
<1>3. Authorising = {} /\ Breaking = {}
  <2>1. \A j \in 1..Len(table) : j \notin Authorising /\ j \notin Breaking
    BY <1>1 DEF EngineInv, ScanHolds
  <2> QED
    BY <1>1, <2>1 DEF Authorising, Breaking, Concerned
<1>4. answer' = IF refusal = NoRuling THEN Ruling("denied", 0, 0) ELSE refusal
  BY DEF Conclude, AnswerWith
<1>5. pos' = 0 /\ refusal' = NoRuling /\ UNCHANGED <<table, moment, question>>
  BY DEF Conclude, AnswerWith
<1>6. EngineTypeOK'
  BY <1>1, <1>4, <1>5 DEF EngineInv, EngineTypeOK, Rulings, Ruling, NoRuling, Ladder
<1>7. CASE refusal = NoRuling
  <2>1. answer' = Ruling("denied", 0, 0)
    BY <1>4, <1>7
  <2>2. \A j \in 1..Len(table) : j \notin Concerned
    BY <1>1, <1>7 DEF EngineInv, ScanHolds
  <2>3. Concerned = {}
    BY <1>1, <2>2 DEF Concerned
  <2>4. AnsweredByTheGrants'
    BY <1>2, <1>3, <2>1, <2>3 DEF AnsweredByTheGrants, Ruling
  <2> QED
    BY <1>5, <1>6, <2>4 DEF EngineInv, ScanHolds
<1>8. CASE refusal # NoRuling
  <2>1. answer' = refusal
    BY <1>4, <1>8
  <2>2. /\ refusal.kind = "denied" /\ First(refusal.grant, Concerned)
        /\ refusal.rung \in Barring(table[refusal.grant], question, moment)
    BY <1>1, <1>8 DEF EngineInv, ScanHolds
  <2>3. AnsweredByTheGrants'
    BY <1>2, <1>3, <1>5, <2>1, <2>2 DEF AnsweredByTheGrants, First
  <2> QED
    BY <1>5, <1>6, <2>3 DEF EngineInv, ScanHolds
<1> QED
  BY <1>7, <1>8

\* A row for which no evaluation is under way: nothing is asked and nothing is answered.
LEMMA AtRest ==
    ASSUME Forgotten, table' \in Seq(GrantRow), moment' \in 0..LastMoment
    PROVE  EngineInv'
  BY DEF Forgotten, EngineInv, EngineTypeOK, AnsweredByTheGrants, ScanHolds, NoRuling, Ruling,
         Rulings, Ladder

\* The invariant of the scan, through everything that may happen to the rows between two.
THEOREM EngineInvariant == EngineSpec => []EngineInv
<1>1. EngineInit => EngineInv
  BY EngineAssumption DEF EngineInit, EngineInv, EngineTypeOK, AnsweredByTheGrants, ScanHolds,
     NoRuling, Ruling, Rulings, Ladder
<1>2. EngineInv /\ [EngineNext]_engineVars => EngineInv'
  <2> SUFFICES ASSUME EngineInv, [EngineNext]_engineVars PROVE EngineInv'
    OBVIOUS
  <2>0. /\ table \in Seq(GrantRow) /\ moment \in 0..LastMoment
        /\ Concerned \subseteq 1..Len(table) /\ Authorising \subseteq Concerned
        /\ Breaking \subseteq Concerned
    <3>1. table \in Seq(GrantRow) /\ moment \in 0..LastMoment
      BY DEF EngineInv, EngineTypeOK
    <3>2. Concerned \subseteq 1..Len(table) /\ Breaking \subseteq Concerned
      BY <3>1 DEF Concerned, Breaking
    <3>3. Authorising \subseteq Concerned
      BY DEF Authorising, Concerned, Authorises, Readable
    <3> QED
      BY <3>1, <3>2, <3>3
  <2>1. ASSUME NEW q \in GivenQuestions, Ask(q) PROVE EngineInv'
    <3>1. q \in Question
      BY EngineAssumption
    <3> QED
      BY <2>0, <2>1, <3>1 DEF Ask, EngineInv, EngineTypeOK, AnsweredByTheGrants, ScanHolds,
         NoRuling, Ruling, Rulings, Ladder
  <2>2. CASE PassOver
    <3>1. pos \notin Concerned
      BY <2>2 DEF PassOver, Concerned
    <3> QED
      BY <2>0, <2>2, <3>1, ScanAdvances DEF PassOver
  <2>3. CASE RefuseGrant
    <3>1. pos \in Concerned /\ pos \notin Breaking
      BY <2>3 DEF RefuseGrant, Climbing, Looking, Concerned, Breaking
    <3>2. table[pos] \in GrantRow /\ question \in Question /\ moment \in Int
      BY <2>0, <3>1 DEF EngineInv, EngineTypeOK
    <3>3. Barring(table[pos], question, moment) # {}
      BY <2>3 DEF RefuseGrant, Stops
    <3>4. pos \notin Authorising
      BY <2>3, <3>2, <3>3, LadderIsExact DEF RefuseGrant, Climbing, Authorising
    <3>5. \E rung \in Barring(table[pos], question, moment) :
             refusal' = IF refusal = NoRuling THEN Ruling("denied", pos, rung) ELSE refusal
      BY <2>3 DEF RefuseGrant, Stops
    <3> QED
      BY <2>3, <3>1, <3>4, <3>5, ScanAdvances DEF RefuseGrant, Climbing
  <2>4. CASE Raise
    <3>1. pos \in Breaking
      BY <2>4 DEF Raise, Climbing, Looking, Concerned, Breaking
    <3>2. answer' = Ruling("failed", pos, 0)
      BY <2>4 DEF Raise, AnswerWith
    <3> QED
      BY <2>4, <3>1, <3>2, <2>0, AnswerByRow DEF Raise, Climbing, AnswerWith
  <2>5. CASE ApproveByGrant
    <3>1. table[pos] \in GrantRow /\ question \in Question /\ moment \in Int
      BY <2>0, <2>5 DEF ApproveByGrant, Climbing, Looking, EngineInv, EngineTypeOK
    <3>2. pos \in Authorising
      BY <2>5, <3>1, LadderIsExact DEF ApproveByGrant, Climbing, Looking, Authorising
    <3>3. answer' = Ruling("approved", pos, 0)
      BY <2>5 DEF ApproveByGrant, AnswerWith
    <3> QED
      BY <2>5, <3>2, <3>3, <2>0, AnswerByRow DEF ApproveByGrant, Climbing, AnswerWith
  <2>6. CASE Conclude
    BY <2>6, <2>0, ScanConcludes
  <2>7. ASSUME NEW g \in GivenGrants, CreateGrant(g) PROVE EngineInv'
    <3>1. [g EXCEPT !.revoked = FALSE, !.uses = 0] \in GrantRow
      BY EngineAssumption DEF GrantRow
    <3>2. table' \in Seq(GrantRow)
      BY <2>0, <2>7, <3>1 DEF CreateGrant
    <3> QED
      BY <2>0, <2>7, <3>2, AtRest DEF CreateGrant
  <2>8. ASSUME NEW i \in 1..MaxTable, RevokeRow(i) PROVE EngineInv'
    <3>1. table[i] \in GrantRow
      BY <2>0, <2>8 DEF RevokeRow
    <3>2. [table[i] EXCEPT !.revoked = TRUE] \in GrantRow
      BY <3>1 DEF GrantRow
    <3>3. table' \in Seq(GrantRow)
      BY <2>0, <2>8, <3>2 DEF RevokeRow
    <3> QED
      BY <2>0, <2>8, <3>3, AtRest DEF RevokeRow
  <2>9. ASSUME NEW i \in 1..MaxTable, NEW until \in GivenUntils, Renew(i, until)
        PROVE  EngineInv'
    <3>1. until \in Stamp
      BY EngineAssumption
    <3>2. table[i] \in GrantRow
      BY <2>0, <2>9 DEF Renew
    <3>3. [table[i] EXCEPT !.until = until] \in GrantRow
      BY <3>2, <3>1 DEF GrantRow
    <3>4. table' \in Seq(GrantRow)
      BY <2>0, <2>9, <3>3 DEF Renew
    <3> QED
      BY <2>0, <2>9, <3>4, AtRest DEF Renew
  <2>10. CASE ConsumeUse
    <3>1. answer.grant \in DOMAIN table
      BY <2>10 DEF ConsumeUse, EngineInv, AnsweredByTheGrants, Authorising
    <3>2. table[answer.grant] \in GrantRow
      BY <2>0, <3>1
    <3>3. [table[answer.grant] EXCEPT !.uses = @ + 1] \in GrantRow
      BY <3>2 DEF GrantRow
    <3>4. table' \in Seq(GrantRow)
      BY <2>0, <2>10, <3>1, <3>3 DEF ConsumeUse
    <3> QED
      BY <2>0, <2>10, <3>4, AtRest DEF ConsumeUse
  <2>11. CASE TimeGoesOn
    <3>1. moment' \in 0..LastMoment
      BY <2>0, <2>11, EngineAssumption DEF TimeGoesOn
    <3> QED
      BY <2>0, <2>11, <3>1, AtRest DEF TimeGoesOn
  <2>12. CASE UNCHANGED engineVars
    BY <2>12 DEF engineVars, EngineInv, EngineTypeOK, AnsweredByTheGrants, ScanHolds, First,
       Authorising, Concerned, Breaking
  <2> QED
    BY <2>1, <2>2, <2>3, <2>4, <2>5, <2>6, <2>7, <2>8, <2>9, <2>10, <2>11, <2>12
       DEF EngineNext, LookOn
<1> QED
  BY <1>1, <1>2, PTL DEF EngineSpec

\* The variables of the scan have their types.
THEOREM EngineTypeCorrect == EngineSpec => []EngineTypeOK
<1>1. EngineInv => EngineTypeOK
  BY DEF EngineInv
<1> QED
  BY <1>1, EngineInvariant, PTL

\* For every number of grants and whatever they are about: the first grant that
\* authorises the request approves it unless a row before it breaks the evaluation, and a
\* denial hides none and names the first grant that is about the request with a reason
\* that is true of it (evaluate_access).
THEOREM AnswersByGrants == EngineSpec => []AnsweredByTheGrants
<1>1. EngineInv => AnsweredByTheGrants
  BY DEF EngineInv
<1> QED
  BY <1>1, EngineInvariant, PTL

------------------------------------------------------------------------------
(* Credentials over time                                                    *)

\* Of the versions that a row has come to, only the last one may not have been withdrawn;
\* of those that it can still come to, none has.
Agrees(r, d) ==
    /\ \A v \in Version : v <= r.version =>
          (d[v] = NotDead <=> r.state # "revoked" /\ v = r.version /\ ~r.lapsed)
    /\ r.state # "revoked" => \A v \in Version : v > r.version => d[v] = NotDead

RowsAgree == \A o \in Operator : Agrees(row[o], dead[o])

\* A JWT without an excuse is older than the withdrawal of its secret, if there was one.
JwtsAgree ==
    \A j \in jwts : \/ dead[j.op][j.version] <= j.age
                    \/ j.excuse = "raced"
                    \/ j.excuse = "open" /\ mode.open

\* A secret that was not looked at is one of an open deployment.
ChecksAgree == \A r \in checked : r.open => mode.open

\* Where a cache that is still alive differs from the provider, the provider has changed
\* since it was filled.
CachesAgree ==
    \A w \in Worker, k \in Kid :
        cache[w].age < CacheTtl /\ (k \in cache[w].keys) # provider.keys[k].in
            => provider.keys[k].for <= cache[w].age

SessionInv ==
    SessionTypeOK /\ RowsAgree /\ JwtsAgree /\ ChecksAgree /\ CachesAgree /\ StaleWithinTtl

Dying == [Operator -> [Version -> NotDead..TokenTtl]]
Cached == [keys : SUBSET Kid, age : 0..CacheTtl]
Listed == [in : BOOLEAN, for : 0..CacheTtl]

\* A withdrawal starts the count of the versions it names that are not counted yet.
LEMMA WithdrawalsCount ==
    ASSUME SessionInv, NEW o \in Operator, NEW vs
    PROVE  /\ Withdraw(o, vs) \in Dying
           /\ \A p \in Operator : p # o => Withdraw(o, vs)[p] = dead[p]
           /\ \A v \in Version : v \notin vs => Withdraw(o, vs)[o][v] = dead[o][v]
           /\ \A v \in Version : v \in vs => Withdraw(o, vs)[o][v] # NotDead
           /\ \A p \in Operator, v \in Version :
                 Withdraw(o, vs)[p][v] = dead[p][v] \/ Withdraw(o, vs)[p][v] = 0
<1>1. TokenTtl \in Nat /\ dead \in [Operator -> [Version -> NotDead..TokenTtl]]
  BY TtlAssumption DEF SessionInv, SessionTypeOK
<1> DEFINE d == [v \in Version |-> IF v \in vs /\ dead[o][v] = NotDead THEN 0 ELSE dead[o][v]]
<1>2. d \in [Version -> NotDead..TokenTtl]
  BY <1>1 DEF NotDead
<1>3. /\ \A v \in Version : v \notin vs => d[v] = dead[o][v]
      /\ \A v \in Version : d[v] = dead[o][v] \/ d[v] = 0
      /\ \A v \in Version : v \in vs => d[v] # NotDead
  BY DEF NotDead
<1>4. Withdraw(o, vs) = [dead EXCEPT ![o] = d]
  BY DEF Withdraw
<1> HIDE DEF d
<1>5. QED
  BY <1>1, <1>2, <1>3, <1>4 DEF Dying

\* A withdrawal makes no JWT older than its withdrawal.
LEMMA WithdrawalsKeepJwts ==
    ASSUME SessionInv, NEW o \in Operator, NEW vs, dead' = Withdraw(o, vs),
           UNCHANGED <<jwts, mode>>
    PROVE  JwtsAgree'
<1>1. ASSUME NEW j \in jwts, dead[j.op][j.version] <= j.age
      PROVE  dead'[j.op][j.version] <= j.age
  <2>1. j.op \in Operator /\ j.version \in Version /\ j.age \in Nat
    BY TtlAssumption DEF SessionInv, SessionTypeOK, Jwt
  <2>2. dead'[j.op][j.version] = dead[j.op][j.version] \/ dead'[j.op][j.version] = 0
    BY <2>1, WithdrawalsCount
  <2>3. QED
    BY <1>1, <2>1, <2>2
<1>2. QED
  BY <1>1 DEF SessionInv, JwtsAgree

\* What is still to be accepted agrees with the rows, with the keys or with an age below the
\* time to live, through any rotations, races of /auth/token and outages of the provider.
THEOREM SessionInvariant == SessionSpec => []SessionInv
<1>0. TokenTtl \in Nat \ {0} /\ CacheTtl \in Nat \ {0} /\ MaxVersion \in Nat
      /\ Version = 0..MaxVersion
  BY TtlAssumption DEF Version
<1>1. SessionInit => SessionInv
  <2> SUFFICES ASSUME SessionInit PROVE SessionInv
    OBVIOUS
  <2>1. SessionTypeOK
    BY <1>0 DEF SessionInit, SessionTypeOK, NoDecision, NotDead, DecidedRequest, Excuse
  <2>2. RowsAgree /\ JwtsAgree /\ ChecksAgree
    BY <1>0 DEF SessionInit, RowsAgree, Agrees, JwtsAgree, ChecksAgree
  <2>3. CachesAgree /\ StaleWithinTtl
    BY <1>0 DEF SessionInit, CachesAgree, StaleWithinTtl, NoDecision
  <2>4. QED
    BY <2>1, <2>2, <2>3 DEF SessionInv
<1>2. SessionInv /\ [SessionNext]_sessionVars => SessionInv'
  <2> SUFFICES ASSUME SessionInv, [SessionNext]_sessionVars
               PROVE  SessionInv'
    OBVIOUS
  <2>0. \A o \in Operator : row[o] \in [state : {"none", "active", "revoked"},
                                        version : Version, lapsed : BOOLEAN]
    BY DEF SessionInv, SessionTypeOK
  <2>1. ASSUME NEW o \in Operator, NEW r, row' = [row EXCEPT ![o] = r],
               r \in [state : {"none", "active", "revoked"}, version : Version, lapsed : BOOLEAN],
               dead' \in Dying, JwtsAgree',
               \A p \in Operator : p # o => dead'[p] = dead[p],
               Agrees(r, dead'[o]),
               UNCHANGED <<mode, checked, jwts, external, last>>
        PROVE  SessionInv'
    <3>1. SessionTypeOK'
      BY <2>1 DEF SessionInv, SessionTypeOK, external, Dying
    <3>2. RowsAgree'
      <4>1. \A p \in Operator : row'[p] = IF p = o THEN r ELSE row[p]
        BY <2>1 DEF SessionInv, SessionTypeOK
      <4>2. QED
        BY <2>1, <4>1 DEF SessionInv, RowsAgree
    <3>3. ChecksAgree' /\ CachesAgree' /\ StaleWithinTtl'
      BY <2>1 DEF SessionInv, ChecksAgree, CachesAgree, StaleWithinTtl, external
    <3>4. QED
      BY <2>1, <3>1, <3>2, <3>3 DEF SessionInv
  <2>2. ASSUME NEW o \in Operator, CreateOperator(o)
        PROVE  SessionInv'
    <3> DEFINE r == [row[o] EXCEPT !.state = "active"]
    <3>1. /\ r \in [state : {"none", "active", "revoked"}, version : Version, lapsed : BOOLEAN]
          /\ r.version = row[o].version /\ r.lapsed = row[o].lapsed /\ r.state # "revoked"
      BY <2>0
    <3>2. /\ row[o].state # "revoked" /\ row' = [row EXCEPT ![o] = r] /\ dead' = dead
          /\ UNCHANGED <<jwts, mode>>
      BY <2>2 DEF CreateOperator
    <3>3. dead' \in Dying /\ JwtsAgree'
      BY <3>2 DEF SessionInv, SessionTypeOK, Dying, JwtsAgree
    <3> HIDE DEF r
    <3>4. Agrees(r, dead'[o])
      BY <3>1, <3>2 DEF SessionInv, RowsAgree, Agrees
    <3>5. QED
      BY <2>1, <2>2, <3>1, <3>2, <3>3, <3>4 DEF CreateOperator
  <2>3. ASSUME NEW o \in Operator, RevokeOperator(o)
        PROVE  SessionInv'
    <3> DEFINE r == [row[o] EXCEPT !.state = "revoked"]
    <3>1. /\ r \in [state : {"none", "active", "revoked"}, version : Version, lapsed : BOOLEAN]
          /\ r.state = "revoked"
      BY <2>0
    <3>2. row' = [row EXCEPT ![o] = r] /\ dead' = Withdraw(o, Version) /\ UNCHANGED <<jwts, mode>>
      BY <2>3 DEF RevokeOperator
    <3>3. dead' \in Dying /\ JwtsAgree' /\ \A p \in Operator : p # o => dead'[p] = dead[p]
      BY <3>2, WithdrawalsCount, WithdrawalsKeepJwts
    <3>4. Agrees(r, dead'[o])
      BY <3>1, <3>2, WithdrawalsCount DEF Agrees
    <3> HIDE DEF r
    <3>5. QED
      BY <2>1, <2>3, <3>1, <3>2, <3>3, <3>4 DEF RevokeOperator
  <2>4. ASSUME NEW o \in Operator, RotateToken(o)
        PROVE  SessionInv'
    <3> DEFINE r == [row[o] EXCEPT !.version = @ + 1, !.lapsed = FALSE]
    <3>1. row[o].version \in 0..MaxVersion /\ row[o].version < MaxVersion
      BY <1>0, <2>0, <2>4 DEF RotateToken
    <3>2. row[o].version + 1 \in Version
      BY <1>0, <3>1
    <3>3. /\ r \in [state : {"none", "active", "revoked"}, version : Version, lapsed : BOOLEAN]
          /\ r.version = row[o].version + 1 /\ ~r.lapsed /\ r.state = row[o].state
      BY <2>0, <3>2
    <3>4. /\ row' = [row EXCEPT ![o] = r] /\ dead' = Withdraw(o, {row[o].version})
          /\ UNCHANGED <<jwts, mode>>
          /\ row[o].state # "revoked"
      BY <2>4 DEF RotateToken, SessionInv, SessionTypeOK
    <3>5. dead' \in Dying /\ JwtsAgree' /\ \A p \in Operator : p # o => dead'[p] = dead[p]
      BY <3>4, WithdrawalsCount, WithdrawalsKeepJwts
    <3> HIDE DEF r
    <3>6. ASSUME NEW v \in Version
          PROVE  dead'[o][v] = NotDead <=> v > row[o].version
      <4>1. v \in Nat /\ row[o].version \in Nat
        BY <1>0, <3>1
      <4>2. CASE v = row[o].version
        <5>1. v \in {row[o].version}
          BY <4>2
        <5>2. dead'[o][v] # NotDead
          BY <3>4, <5>1, WithdrawalsCount
        <5>3. QED
          BY <4>1, <4>2, <5>2
      <4>3. CASE v # row[o].version
        <5>1. dead'[o][v] = dead[o][v]
          BY <3>4, <4>3, WithdrawalsCount
        <5>2. dead[o][v] = NotDead <=> v > row[o].version
          BY <3>4, <4>1, <4>3 DEF SessionInv, RowsAgree, Agrees
        <5>3. QED
          BY <5>1, <5>2
      <4>4. QED
        BY <4>2, <4>3
    <3>7. Agrees(r, dead'[o])
      <4>1. ASSUME NEW v \in Version
            PROVE  /\ v <= r.version => (v > row[o].version <=> v = r.version)
                   /\ v > r.version => v > row[o].version
        BY <1>0, <3>1, <3>3
      <4>2. QED
        BY <3>3, <3>4, <3>6, <4>1 DEF Agrees
    <3>8. QED
      BY <2>1, <2>4, <3>3, <3>4, <3>5, <3>7 DEF RotateToken
  <2>5. ASSUME NEW o \in Operator, Lapse(o)
        PROVE  SessionInv'
    <3> DEFINE r == [row[o] EXCEPT !.lapsed = TRUE]
    <3>1. /\ r \in [state : {"none", "active", "revoked"}, version : Version, lapsed : BOOLEAN]
          /\ r.version = row[o].version /\ r.lapsed /\ r.state = row[o].state
      BY <2>0
    <3>2. /\ row' = [row EXCEPT ![o] = r] /\ dead' = Withdraw(o, {row[o].version})
          /\ UNCHANGED <<jwts, mode>>
      BY <2>5 DEF Lapse, SessionInv, SessionTypeOK
    <3>3. dead' \in Dying /\ JwtsAgree' /\ \A p \in Operator : p # o => dead'[p] = dead[p]
      BY <3>2, WithdrawalsCount, WithdrawalsKeepJwts
    <3> HIDE DEF r
    <3>4. Agrees(r, dead'[o])
      <4>1. \A v \in Version : v # row[o].version => dead'[o][v] = dead[o][v]
        BY <3>2, WithdrawalsCount
      <4>2. dead'[o][row[o].version] # NotDead
        <5>1. row[o].version \in Version
          BY <2>0
        <5>2. \A v \in Version :
                 v \in {row[o].version} => Withdraw(o, {row[o].version})[o][v] # NotDead
          BY WithdrawalsCount
        <5>3. QED
          BY <3>2, <5>1, <5>2
      <4>3. Agrees(row[o], dead[o]) /\ row[o].version \in Nat /\ \A v \in Version : v \in Nat
        BY <1>0, <2>0 DEF SessionInv, RowsAgree
      <4>4. QED
        BY <3>1, <4>1, <4>2, <4>3 DEF Agrees
    <3>5. QED
      BY <2>1, <2>5, <3>1, <3>2, <3>3, <3>4 DEF Lapse
  <2>6. ASSUME UNCHANGED <<mode, row, dead, jwts, external>>,
               checked' \subseteq [op : Operator, version : Version, open : BOOLEAN],
               ChecksAgree', last' \in DecidedRequest, StaleWithinTtl'
        PROVE  SessionInv'
    <3>1. SessionTypeOK'
      BY <2>6 DEF SessionInv, SessionTypeOK, external
    <3>2. RowsAgree' /\ JwtsAgree' /\ CachesAgree'
      BY <2>6 DEF SessionInv, RowsAgree, JwtsAgree, CachesAgree, external
    <3>3. QED
      BY <2>6, <3>1, <3>2 DEF SessionInv
  <2>7. ASSUME NEW o \in Operator, NEW v \in Version, UseToken(o, v)
        PROVE  SessionInv'
    <3>1. Authenticates(o, v) = (dead[o][v] = NotDead)
      <4>1. /\ row[o].state \in {"active", "revoked"} /\ v <= row[o].version
            /\ row[o].lapsed \in BOOLEAN
        BY <2>0, <2>7 DEF UseToken, Issued
      <4>2. dead[o][v] = NotDead <=>
               row[o].state # "revoked" /\ v = row[o].version /\ ~row[o].lapsed
        BY <4>1 DEF SessionInv, RowsAgree, Agrees
      <4>3. QED
        BY <4>1, <4>2 DEF Authenticates
    <3>2. last' = [kind |-> "operator", agrees |-> TRUE, lag |-> 0, excuse |-> "none"]
      BY <2>7, <3>1 DEF UseToken, Decided
    <3>3. StaleWithinTtl'
      BY <3>2 DEF StaleWithinTtl
    <3>4. last' \in DecidedRequest
      <4>1. 0 \in 0..TokenTtl + CacheTtl
        BY <1>0
      <4>2. QED
        BY <3>2, <4>1 DEF DecidedRequest, Excuse
    <3>5. /\ UNCHANGED <<mode, row, dead, jwts, external>> /\ ChecksAgree'
          /\ checked' \subseteq [op : Operator, version : Version, open : BOOLEAN]
      BY <2>7 DEF UseToken, rows, SessionInv, SessionTypeOK, ChecksAgree
    <3>6. QED
      BY <2>6, <3>3, <3>4, <3>5
  <2>8. ASSUME NEW o \in Operator, NEW v \in Version, CheckSecret(o, v)
        PROVE  SessionInv'
    <3> DEFINE r == [op |-> o, version |-> v, open |-> ~Authenticates(o, v)]
    <3>1. /\ r \in [op : Operator, version : Version, open : BOOLEAN]
          /\ r.open => mode.open
      BY <2>8 DEF CheckSecret
    <3>2. /\ checked' = checked \cup {r} /\ UNCHANGED <<mode, rows, jwts, external, last>>
      BY <2>8 DEF CheckSecret
    <3> HIDE DEF r
    <3>3. /\ checked' \subseteq [op : Operator, version : Version, open : BOOLEAN]
          /\ ChecksAgree'
      <4>1. checked \subseteq [op : Operator, version : Version, open : BOOLEAN] /\ mode' = mode
        BY <3>2 DEF SessionInv, SessionTypeOK
      <4>2. \A q \in checked' : q.open => mode'.open
        BY <3>1, <3>2, <4>1 DEF SessionInv, ChecksAgree
      <4>3. QED
        BY <3>1, <3>2, <4>1, <4>2 DEF ChecksAgree
    <3>4. /\ UNCHANGED <<mode, row, dead, jwts, external>>
          /\ last' \in DecidedRequest /\ StaleWithinTtl'
      BY <3>2 DEF rows, SessionInv, SessionTypeOK, StaleWithinTtl
    <3>5. QED
      BY <2>6, <3>3, <3>4
  <2>9. ASSUME NEW r \in checked, SignToken(r)
        PROVE  SessionInv'
    <3> DEFINE excuse == CASE r.open -> "open"
                           [] ~r.open /\ dead[r.op][r.version] # NotDead -> "raced"
                           [] OTHER -> "none"
               new == [op |-> r.op, version |-> r.version, age |-> 0, excuse |-> excuse]
    <3>1. r.op \in Operator /\ r.version \in Version /\ r.open \in BOOLEAN
          /\ (r.open => mode.open)
      BY DEF SessionInv, SessionTypeOK, ChecksAgree
    <3>2. /\ new \in Jwt
          /\ \/ dead[new.op][new.version] <= new.age
             \/ new.excuse = "raced" \/ (new.excuse = "open" /\ mode.open)
      <4>1. 0 \in 0..TokenTtl - 1 /\ NotDead <= 0
        BY <1>0 DEF NotDead
      <4>2. /\ excuse \in Excuse /\ (excuse = "open" => mode.open)
            /\ excuse \notin {"raced", "open"} => dead[r.op][r.version] = NotDead
        BY <3>1 DEF Excuse
      <4> HIDE DEF excuse
      <4>3. new \in Jwt
        BY <3>1, <4>1, <4>2 DEF Jwt
      <4>4. new.excuse = excuse /\ new.op = r.op /\ new.version = r.version /\ new.age = 0
        OBVIOUS
      <4>5. QED
        BY <4>1, <4>2, <4>3, <4>4
    <3> HIDE DEF new
    <3>3. /\ jwts' = jwts \cup {new} /\ checked' \subseteq checked
          /\ UNCHANGED <<mode, rows, external, last>>
      BY <2>9 DEF SignToken, new
    <3>4. SessionTypeOK'
      BY <3>2, <3>3 DEF SessionInv, SessionTypeOK, rows, external
    <3>5. JwtsAgree'
      BY <3>2, <3>3 DEF SessionInv, JwtsAgree, rows
    <3>6. RowsAgree' /\ ChecksAgree' /\ CachesAgree' /\ StaleWithinTtl'
      BY <3>3 DEF SessionInv, RowsAgree, ChecksAgree, CachesAgree, StaleWithinTtl, rows, external
    <3>7. QED
      BY <3>4, <3>5, <3>6 DEF SessionInv
  <2>10. ASSUME NEW j \in jwts, UseJwt(j)
         PROVE  SessionInv'
    <3> DEFINE late == dead[j.op][j.version]
    <3>1. /\ j.op \in Operator /\ j.version \in Version /\ j.excuse \in Excuse
          /\ j.age \in Nat /\ j.age < TokenTtl
      BY <1>0 DEF SessionInv, SessionTypeOK, Jwt
    <3>2. /\ late \in NotDead..TokenTtl
          /\ late <= j.age \/ j.excuse = "raced" \/ (j.excuse = "open" /\ mode.open)
      BY <3>1 DEF SessionInv, SessionTypeOK, JwtsAgree
    <3>3. /\ last' = [kind |-> "jwt", agrees |-> late = NotDead,
                      lag |-> IF late = NotDead THEN 0 ELSE late, excuse |-> j.excuse]
          /\ UNCHANGED <<mode, rows, checked, jwts, external>>
      BY <2>10 DEF UseJwt, Decided
    <3> HIDE DEF late
    <3>4. last' \in DecidedRequest
      BY <1>0, <3>1, <3>2, <3>3 DEF NotDead, DecidedRequest
    <3>5. \/ last'.lag < TokenTtl
          \/ last'.excuse = "raced" \/ (last'.excuse = "open" /\ mode'.open)
      BY <1>0, <3>1, <3>2, <3>3 DEF NotDead
    <3>6. StaleWithinTtl'
      BY <3>3, <3>5 DEF StaleWithinTtl
    <3>7. QED
      BY <2>6, <3>3, <3>4, <3>6 DEF rows, SessionInv, SessionTypeOK, ChecksAgree
  <2>11. ASSUME UNCHANGED <<mode, rows, checked, jwts, last>>,
                provider' \in [up : BOOLEAN, keys : [Kid -> Listed]],
                cache' \in [Worker -> Cached], CachesAgree'
         PROVE  SessionInv'
    <3>1. SessionTypeOK'
      BY <2>11 DEF SessionInv, SessionTypeOK, rows, Listed, Cached
    <3>2. RowsAgree' /\ JwtsAgree' /\ ChecksAgree' /\ StaleWithinTtl'
      BY <2>11 DEF SessionInv, RowsAgree, JwtsAgree, ChecksAgree, StaleWithinTtl, rows
    <3>3. QED
      BY <2>11, <3>1, <3>2 DEF SessionInv
  <2>12. /\ provider \in [up : BOOLEAN, keys : [Kid -> Listed]] /\ cache \in [Worker -> Cached]
         /\ \A k \in Kid : provider.keys[k].in \in BOOLEAN /\ provider.keys[k].for \in 0..CacheTtl
         /\ \A w \in Worker : cache[w].age \in 0..CacheTtl
    BY DEF SessionInv, SessionTypeOK, Listed, Cached
  <2>13. ASSUME NEW k \in Kid, ChangeKey(k)
         PROVE  SessionInv'
    <3> DEFINE e == [in |-> ~provider.keys[k].in, for |-> 0]
    <3>1. e \in Listed /\ e.for = 0
      BY <1>0, <2>12 DEF Listed
    <3>2. /\ provider' = [provider EXCEPT !.keys[k] = e]
          /\ UNCHANGED <<mode, rows, checked, jwts, cache, last>>
      BY <2>13 DEF ChangeKey
    <3> HIDE DEF e
    <3>3. /\ provider' \in [up : BOOLEAN, keys : [Kid -> Listed]]
          /\ \A i \in Kid : provider'.keys[i] = IF i = k THEN e ELSE provider.keys[i]
      BY <2>12, <3>1, <3>2
    <3>4. CachesAgree'
      BY <2>12, <3>1, <3>2, <3>3 DEF SessionInv, CachesAgree
    <3>5. QED
      BY <2>11, <2>12, <3>2, <3>3, <3>4
  <2>14. CASE ProviderChanges
    <3>1. /\ provider' = [provider EXCEPT !.up = ~@]
          /\ UNCHANGED <<mode, rows, checked, jwts, cache, last>>
      BY <2>14 DEF ProviderChanges
    <3>2. provider' \in [up : BOOLEAN, keys : [Kid -> Listed]] /\ provider'.keys = provider.keys
      BY <2>12, <3>1
    <3>3. CachesAgree'
      BY <3>1, <3>2 DEF SessionInv, CachesAgree
    <3>4. QED
      BY <2>11, <2>12, <3>1, <3>2, <3>3
  <2>15. ASSUME NEW w \in Worker, NEW k \in Kid, UseOidc(w, k)
         PROVE  SessionInv'
    <3> DEFINE c == IF Fetch(w) THEN [keys |-> Published, age |-> 0] ELSE cache[w]
    <3>1. c \in Cached
      BY <1>0, <2>12 DEF Cached, Published
    <3>2. /\ cache' = [cache EXCEPT ![w] = c]
          /\ last' = [kind |-> "oidc", agrees |-> (k \in cache'[w].keys) = provider.keys[k].in,
                      lag |-> provider.keys[k].for, excuse |-> "none"]
          /\ UNCHANGED <<mode, rows, checked, jwts, provider>>
      BY <2>15 DEF UseOidc, Decided
    <3>3. /\ \A i \in Kid : Fetch(w) => ((i \in c.keys) = provider.keys[i].in)
          /\ ~Fetch(w) => c = cache[w] /\ cache[w].age < CacheTtl
      BY <1>0, <2>12 DEF Published, Fetch
    <3> HIDE DEF c
    <3>4. \A i \in Kid : \/ (i \in c.keys) = provider.keys[i].in
                         \/ provider.keys[i].for <= c.age /\ c.age < CacheTtl
      BY <3>3 DEF SessionInv, CachesAgree
    <3>5. \A u \in Worker : cache'[u] = IF u = w THEN c ELSE cache[u]
      BY <2>12, <3>2
    <3>6. CachesAgree'
      BY <3>2, <3>4, <3>5 DEF SessionInv, CachesAgree
    <3>7. /\ (k \in c.keys) = provider.keys[k].in \/ provider.keys[k].for < CacheTtl
      BY <1>0, <2>12, <3>1, <3>4 DEF Cached
    <3>8. last' \in DecidedRequest
      BY <1>0, <2>12, <3>2 DEF DecidedRequest, Excuse
    <3>9. StaleWithinTtl'
      BY <3>2, <3>5, <3>7 DEF StaleWithinTtl
    <3>10. SessionTypeOK'
      BY <2>12, <3>1, <3>2, <3>8 DEF SessionInv, SessionTypeOK, rows, Cached, Listed
    <3>11. RowsAgree' /\ JwtsAgree' /\ ChecksAgree'
      BY <3>2 DEF SessionInv, RowsAgree, JwtsAgree, ChecksAgree, rows
    <3>12. QED
      BY <3>6, <3>9, <3>10, <3>11 DEF SessionInv
  <2>16. ASSUME NEW w \in Worker, NEW k \in Kid, RefuseOidc(w, k)
         PROVE  SessionInv'
    <3>1. /\ last' = [kind |-> "oidc", agrees |-> ~provider.keys[k].in,
                      lag |-> provider.keys[k].for, excuse |-> "outage"]
          /\ UNCHANGED <<mode, rows, checked, jwts, external>>
      BY <2>16 DEF RefuseOidc, Decided
    <3>2. last' \in DecidedRequest
      BY <1>0, <2>12, <3>1 DEF DecidedRequest, Excuse
    <3>3. StaleWithinTtl'
      BY <3>1 DEF StaleWithinTtl
    <3>4. QED
      BY <2>6, <3>1, <3>2, <3>3 DEF rows, SessionInv, SessionTypeOK, ChecksAgree
  <2>17. CASE Tick
    <3>1. /\ dead' = [o \in Operator |-> [v \in Version |->
                  IF dead[o][v] = NotDead THEN NotDead ELSE Counted(dead[o][v], TokenTtl)]]
          /\ jwts' = {j \in {[i EXCEPT !.age = @ + 1] : i \in jwts} : ~Expired(j)}
          /\ provider' = [provider EXCEPT !.keys = [k \in Kid |->
                             [provider.keys[k] EXCEPT !.for = Counted(@, CacheTtl)]]]
          /\ cache' = [w \in Worker |-> [cache[w] EXCEPT !.age = Counted(@, CacheTtl)]]
          /\ UNCHANGED <<mode, row, checked, last>>
      BY <2>17 DEF Tick
    <3>2. ASSUME NEW n \in Nat, NEW max \in Nat, n <= max
          PROVE  Counted(n, max) \in 0..max /\ Counted(n, max) <= n + 1
                 /\ (Counted(n, max) < max => Counted(n, max) = n + 1)
      BY <3>2 DEF Counted
    <3>3. ASSUME NEW o \in Operator, NEW v \in Version
          PROVE  /\ dead'[o][v] \in NotDead..TokenTtl /\ dead[o][v] \in NotDead..TokenTtl
                 /\ dead'[o][v] <= dead[o][v] + 1
                 /\ dead[o][v] = NotDead => dead'[o][v] = NotDead
                 /\ dead[o][v] # NotDead => dead'[o][v] # NotDead
      <4>1. dead[o][v] \in NotDead..TokenTtl
        BY DEF SessionInv, SessionTypeOK
      <4>2. dead'[o][v] = IF dead[o][v] = NotDead THEN NotDead ELSE Counted(dead[o][v], TokenTtl)
        BY <3>1
      <4>3. dead[o][v] # NotDead =>
              /\ dead[o][v] \in Nat /\ TokenTtl \in Nat /\ dead[o][v] <= TokenTtl
        BY <1>0, <4>1 DEF NotDead
      <4>4. dead[o][v] # NotDead =>
              /\ Counted(dead[o][v], TokenTtl) \in 0..TokenTtl
              /\ Counted(dead[o][v], TokenTtl) <= dead[o][v] + 1
        BY <3>2, <4>3
      <4>5. CASE dead[o][v] = NotDead
        BY <1>0, <4>2, <4>5 DEF NotDead
      <4>6. CASE dead[o][v] # NotDead
        BY <1>0, <4>1, <4>2, <4>4, <4>6 DEF NotDead
      <4>7. QED
        BY <4>5, <4>6
    <3>4. dead' \in Dying
      BY <3>1, <3>3 DEF Dying
    <3>5. RowsAgree'
      <4>1. \A o \in Operator, v \in Version : dead'[o][v] = NotDead <=> dead[o][v] = NotDead
        BY <3>3
      <4>2. QED
        BY <3>1, <4>1 DEF SessionInv, RowsAgree, Agrees
    <3>6. ASSUME NEW j \in jwts'
          PROVE  /\ j \in Jwt
                 /\ \/ dead'[j.op][j.version] <= j.age
                    \/ j.excuse = "raced" \/ (j.excuse = "open" /\ mode'.open)
      <4>1. PICK i \in jwts : j = [i EXCEPT !.age = @ + 1]
        BY <3>1
      <4>2. i \in Jwt
        BY DEF SessionInv, SessionTypeOK
      <4>3. ~(j.age >= TokenTtl)
        BY <3>1 DEF Expired
      <4>4. /\ j.op = i.op /\ j.version = i.version /\ j.excuse = i.excuse
            /\ j.age = i.age + 1 /\ i.age \in Nat
        BY <1>0, <4>1, <4>2 DEF Jwt
      <4>5. j.age \in 0..TokenTtl - 1
        BY <1>0, <4>3, <4>4
      <4>6. j \in Jwt
        BY <4>1, <4>2, <4>4, <4>5 DEF Jwt
      <4>7. \/ dead[i.op][i.version] <= i.age
            \/ i.excuse = "raced" \/ (i.excuse = "open" /\ mode.open)
        BY DEF SessionInv, JwtsAgree
      <4>8. i.op \in Operator /\ i.version \in Version
        BY <4>2 DEF Jwt
      <4>9. dead[i.op][i.version] <= i.age => dead'[j.op][j.version] <= j.age
        BY <3>3, <4>4, <4>8 DEF NotDead
      <4>10. QED
        BY <3>1, <4>4, <4>6, <4>7, <4>9
    <3>7. JwtsAgree'
      BY <3>6 DEF JwtsAgree
    <3>8. ASSUME NEW k \in Kid
          PROVE  /\ provider'.keys[k] \in Listed /\ provider'.keys[k].in = provider.keys[k].in
                 /\ provider'.keys[k].for <= provider.keys[k].for + 1
      <4>1. provider.keys[k] \in Listed /\ Counted(provider.keys[k].for, CacheTtl) \in 0..CacheTtl
            /\ Counted(provider.keys[k].for, CacheTtl) <= provider.keys[k].for + 1
        <5>1. /\ provider.keys[k].for \in Nat /\ CacheTtl \in Nat
              /\ provider.keys[k].for <= CacheTtl
          BY <1>0, <2>12
        <5>2. QED
          BY <2>12, <3>2, <5>1
      <4>2. provider'.keys[k] = [provider.keys[k] EXCEPT !.for = Counted(@, CacheTtl)]
        BY <2>12, <3>1
      <4>3. QED
        BY <4>1, <4>2 DEF Listed
    <3>9. provider' \in [up : BOOLEAN, keys : [Kid -> Listed]]
      <4>1. [k \in Kid |-> [provider.keys[k] EXCEPT !.for = Counted(@, CacheTtl)]]
                \in [Kid -> Listed]
        <5>1. ASSUME NEW k \in Kid
              PROVE  [provider.keys[k] EXCEPT !.for = Counted(@, CacheTtl)] \in Listed
          <6>1. /\ provider.keys[k].for \in Nat /\ CacheTtl \in Nat
                /\ provider.keys[k].for <= CacheTtl
            BY <1>0, <2>12
          <6>2. /\ provider.keys[k] \in Listed
                /\ Counted(provider.keys[k].for, CacheTtl) \in 0..CacheTtl
            BY <2>12, <3>2, <6>1
          <6>3. QED
            BY <6>2 DEF Listed
        <5>2. QED
          BY <5>1
      <4>2. QED
        BY <2>12, <3>1, <4>1
    <3>10. ASSUME NEW w \in Worker
           PROVE  /\ cache'[w] \in Cached /\ cache'[w].keys = cache[w].keys
                  /\ cache'[w].age < CacheTtl => /\ cache'[w].age = cache[w].age + 1
                                                 /\ cache[w].age < CacheTtl
      <4>1. cache[w] \in Cached /\ cache[w].age \in 0..CacheTtl
        BY <2>12
      <4>2. /\ Counted(cache[w].age, CacheTtl) \in 0..CacheTtl
            /\ Counted(cache[w].age, CacheTtl) < CacheTtl =>
                  Counted(cache[w].age, CacheTtl) = cache[w].age + 1
        <5>1. cache[w].age \in Nat /\ CacheTtl \in Nat /\ cache[w].age <= CacheTtl
          BY <1>0, <4>1
        <5>2. QED
          BY <3>2, <5>1
      <4>3. /\ cache'[w] = [cache[w] EXCEPT !.age = Counted(@, CacheTtl)]
        BY <3>1
      <4>4. /\ cache'[w] \in Cached /\ cache'[w].keys = cache[w].keys
            /\ cache'[w].age = Counted(cache[w].age, CacheTtl)
        BY <4>1, <4>2, <4>3 DEF Cached
      <4>5. QED
        BY <1>0, <4>1, <4>2, <4>4
    <3>11. CachesAgree'
      <4> SUFFICES ASSUME NEW w \in Worker, NEW k \in Kid, cache'[w].age < CacheTtl,
                          (k \in cache'[w].keys) # provider'.keys[k].in
                   PROVE  provider'.keys[k].for <= cache'[w].age
        BY DEF CachesAgree
      <4>1. provider.keys[k].for <= cache[w].age
        BY <3>8, <3>10 DEF SessionInv, CachesAgree
      <4>2. provider'.keys[k].for \in Nat /\ provider.keys[k].for \in Nat /\ cache[w].age \in Nat
        BY <1>0, <2>12, <3>8 DEF Listed
      <4>3. QED
        BY <3>8, <3>10, <4>1, <4>2
    <3>12. SessionTypeOK'
      <4>1. jwts' \subseteq Jwt
        BY <3>6
      <4>2. cache' \in [Worker -> Cached]
        BY <3>1, <3>10
      <4>3. QED
        BY <3>1, <3>4, <3>9, <4>1, <4>2 DEF SessionInv, SessionTypeOK, Dying, Cached, Listed
    <3>13. ChecksAgree' /\ StaleWithinTtl'
      BY <3>1 DEF SessionInv, ChecksAgree, StaleWithinTtl
    <3>14. QED
      BY <3>5, <3>7, <3>11, <3>12, <3>13 DEF SessionInv
  <2>18. CASE UNCHANGED sessionVars
    BY <2>18 DEF sessionVars, SessionInv, SessionTypeOK, RowsAgree, JwtsAgree, ChecksAgree,
                 CachesAgree, StaleWithinTtl
  <2>19. QED
    BY <2>2, <2>3, <2>4, <2>5, <2>7, <2>8, <2>9, <2>10, <2>13, <2>14, <2>15, <2>16, <2>17, <2>18
       DEF SessionNext
<1>3. QED
  BY <1>1, <1>2, PTL DEF SessionSpec

\* For all deployments, times to live, workers and keys: an answer that the truth has
\* overtaken is less than a time to live behind it, unless the secret was withdrawn while it
\* was exchanged, the deployment takes any secret or the provider did not answer
\* (issue_token, validate_jwt_header, _JWKSCache.get_key).
THEOREM StalenessIsBounded == SessionSpec => []StaleWithinTtl
BY SessionInvariant, PTL DEF SessionInv
==============================================================================
