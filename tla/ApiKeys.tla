------------------------------ MODULE ApiKeys ------------------------------
(***************************************************************************)
(* API keys: minting by users and by keys, revocation, and the erasure of  *)
(* a user, which revokes the user's keys.  A request reads a key in one    *)
(* transaction and acts on what it read in another.  The hash of a key     *)
(* stands for the key.  An answer that refuses changes nothing; where the  *)
(* request has read something it ends with Refuse.                         *)
(*                                                                         *)
(* A list of scopes is the highest of them: no check looks further.        *)
(***************************************************************************)
EXTENDS Integers, FiniteSets

CONSTANTS MaxKeys,     \* bound on the keys
          Call, User, Workspace, Subject,
          NoOne,      \* no key, no user, no subject
          RoleOf,      \* RoleOf[u]: the role claim of the JWT of user u
          UserTenant,  \* UserTenant[u]: its tenant_id claim
          HomeTenant,  \* HomeTenant[w]: COALESCE(w.tenant_id, ak.workspace_id)
          Entitled,    \* Entitled[u]: the workspaces WorkspaceAccess resolves u into
          GivenScope,  \* the scopes that are asked for
          GivenSubject \* the subjects that users give to keys

ASSUME NoOneAssumption ==
    MaxKeys \in Nat /\ NoOne \notin (1..MaxKeys) \cup User \cup Subject

Key == 1..MaxKeys

AdminRole == {"admin", "grant_admin", "owner"}
Scope     == {"none", "read_only", "read_write", "admin"}

ASSUME GivenAssumption ==
    /\ GivenScope \subseteq Scope /\ GivenSubject \subseteq Subject
    /\ \A u \in User : Entitled[u] \subseteq Workspace

ScopeRank(s) == CASE s = "none" -> -1 [] s = "read_only" -> 0 [] s = "read_write" -> 1 [] OTHER -> 2

VARIABLES key,     \* the rows of api_keys
          call,    \* call[c]: a request and what it has read
          events   \* the audit events about keys

keyVars == <<key, call, events>>

\* maker, late (history): the key that made the row, if any, and whether that key was
\* revoked already when the request that made the row began.
NoKey == [state |-> "none", scope |-> "none", home |-> NoOne,
          user |-> NoOne, subject |-> NoOne, maker |-> NoOne, late |-> FALSE]

Row == [state : {"none", "live", "expired", "revoked"}, scope : Scope,
        home : Workspace \cup {NoOne}, user : User \cup {NoOne},
        subject : Subject \cup {NoOne}, maker : Key \cup {NoOne}, late : BOOLEAN]

\* pc: a request that has authenticated with a key, or has found the key to revoke.
Idle == [pc |-> "idle", key |-> NoOne, late |-> FALSE]

KeyTypeOK ==
    /\ key \in [Key -> Row]
    /\ call \in [Call -> [pc : {"idle", "minting", "revoking"},
                          key : Key \cup {NoOne}, late : BOOLEAN]]
    /\ \A e \in events : e.kind \in {"created", "revoked"} /\ e.key \in Key

KeyInit == key = [k \in Key |-> NoKey] /\ call = [c \in Call |-> Idle] /\ events = {}

Event(kind, k, tenant) == [kind |-> kind, key |-> k, tenant |-> tenant]

Minted(scope, home, user, subject, maker, late) ==
    [state |-> "live", scope |-> scope, home |-> home, user |-> user,
     subject |-> subject, maker |-> maker, late |-> late]

\* What may write besides minting: enforce_api_key_write_scope.
Writes(s) == s \in {"read_write", "admin"}

------------------------------------------------------------------------------
(* Resolution of a key                                                      *)

\* Mutant: the row is not asked whether it is revoked.
UsableUnlessExpired(k) == key[k].state \in {"live", "revoked"}

\* A row that is neither revoked nor expired; its columns but those two never change
\* again, so that the key stands for what is read of it.
Usable(k) == key[k].state = "live"

\* The tenant the two resolvers put the request into: the asynchronous one knows no
\* tenant and takes the workspace for it.
SyncTenant(k)  == HomeTenant[key[k].home]
AsyncTenant(k) == key[k].home

\* A header may name the workspace of the key, which makes no difference, and no other.
Begin(c, k, pc) ==
    /\ call[c].pc = "idle" /\ Usable(k)
    /\ call' = [call EXCEPT ![c] = [pc |-> pc, key |-> k, late |-> key[k].state = "revoked"]]
    /\ UNCHANGED <<key, events>>

BeginMint(c, k) == Begin(c, k, "minting")

\* Any check that refuses, OPA denying or out of reach, and a failed audit write.
Refuse(c) ==
    /\ call[c].pc # "idle"
    /\ call' = [call EXCEPT ![c] = Idle]
    /\ UNCHANGED <<key, events>>

------------------------------------------------------------------------------
(* create_api_key                                                           *)

\* Ids are random and fresh: here they are numbered.
Fresh(k) == \A j \in Key : key[j].state = "none" <=> j >= k

MintByUser(u, k, w, scope, subject) ==
    /\ Fresh(k) /\ w \in Entitled[u]
    /\ scope = "admin" => RoleOf[u] \in AdminRole
    /\ key' = [key EXCEPT ![k] = Minted(scope, w, u, subject, NoOne, FALSE)]
    /\ events' = events \cup {Event("created", k, UserTenant[u])}
    /\ UNCHANGED call

\* A request that has authenticated with a key, may write and has a subject.
MayMint(c) ==
    /\ call[c].pc = "minting"
    /\ Writes(key[call[c].key].scope) /\ key[call[c].key].subject # NoOne

Mint(c, k, scope) ==
    LET by == call[c].key IN
    /\ Fresh(k)
    /\ key' = [key EXCEPT ![k] = Minted(scope, key[by].home, key[by].user, key[by].subject,
                                        by, call[c].late)]
    /\ events' = events \cup {Event("created", k, AsyncTenant(by))}
    /\ call' = [call EXCEPT ![c] = Idle]

\* Mutant: the scopes are not compared with those of the key.
MintByKeyUnranked(c, k, scope) == MayMint(c) /\ Mint(c, k, scope)

\* The payload of a key has no role, so that no key makes an admin key.
MintByKey(c, k, scope) ==
    /\ MayMint(c)
    /\ ScopeRank(scope) <= ScopeRank(key[call[c].key].scope) /\ scope # "admin"
    /\ Mint(c, k, scope)

------------------------------------------------------------------------------
(* revoke_api_key, and time                                                 *)

\* The owner, or an admin of the tenant of the key; an expired key may be revoked.
BeginRevoke(c, u, k) ==
    /\ call[c].pc = "idle" /\ key[k].state \in {"live", "expired"}
    /\ \/ key[k].user = u
       \/ RoleOf[u] \in AdminRole /\ UserTenant[u] = SyncTenant(k)
    /\ call' = [call EXCEPT ![c] = [Idle EXCEPT !.pc = "revoking", !.key = k]]
    /\ UNCHANGED <<key, events>>

\* The update is by id alone: a second one writes revoked_at again and audits again.
Revoke(c) ==
    /\ call[c].pc = "revoking"
    /\ key' = [key EXCEPT ![call[c].key].state = "revoked"]
    /\ events' = events \cup {Event("revoked", call[c].key, SyncTenant(call[c].key))}
    /\ call' = [call EXCEPT ![c] = Idle]

\* erase_user_data: an admin, an auditor included, of a tenant where the user has a row
\* or a key, or of none that anybody knows; and everyone for themselves.
MayErase(by, u) ==
    \/ by = u
    \/ /\ RoleOf[by] \in AdminRole \cup {"auditor"}
       /\ UserTenant[by] \in {UserTenant[u]} \cup
                             {HomeTenant[key[k].home] : k \in {j \in Key : key[j].user = u}}

\* All keys of the user in one update.  Its event is about the user, and about no key.
Erase(by, u) ==
    /\ MayErase(by, u)
    /\ key' = [k \in Key |-> IF key[k].user = u THEN [key[k] EXCEPT !.state = "revoked"]
                             ELSE key[k]]
    /\ UNCHANGED <<call, events>>

\* expires_at passes.  A revoked key may expire too, which nothing looks at.
KeyExpires(k) ==
    /\ key[k].state = "live"
    /\ key' = [key EXCEPT ![k].state = "expired"]
    /\ UNCHANGED <<call, events>>

------------------------------------------------------------------------------
KeyNext ==
    \/ \E c \in Call, k \in Key :
          \/ BeginMint(c, k)
          \/ \E s \in GivenScope : MintByKey(c, k, s)
          \/ \E u \in User : BeginRevoke(c, u, k)
    \/ \E c \in Call : Refuse(c) \/ Revoke(c)
    \/ \E u \in User, k \in Key, w \in Workspace, s \in GivenScope, x \in GivenSubject :
          MintByUser(u, k, w, s, x)
    \/ \E by, u \in User : Erase(by, u)
    \/ \E k \in Key : KeyExpires(k)

KeySpec == KeyInit /\ [][KeyNext]_keyVars

------------------------------------------------------------------------------
(* Properties                                                               *)

\* Along any chain of keys that made keys, none is above the one that made it, all act
\* in one workspace, for one user and as one subject, and none is an admin key but the
\* first, which an admin minted (create_api_key).
KeyNeverOutranksCreator ==
    \A k \in Key :
        /\ key[k].maker # NoOne =>
              LET by == key[key[k].maker] IN
              /\ Writes(by.scope) /\ ScopeRank(key[k].scope) <= ScopeRank(by.scope)
              /\ <<key[k].home, key[k].user, key[k].subject>> = <<by.home, by.user, by.subject>>
        /\ key[k].scope = "admin" => /\ key[k].maker = NoOne
                                     /\ RoleOf[key[k].user] \in AdminRole

\* A key that was revoked before a request began makes no key in it, although the
\* request reads the key in a transaction of its own (resolve_api_key_auth).
NoKeyAfterRevocation ==
    \A k \in Key : ~key[k].late

\* Whatever a key may do it has by an admin, a user or a key that was good at the time:
\* chains of keys gain nothing, and no link of a chain was made in a request that began
\* with a revoked key, although the request reads and acts in two transactions.
KeysAreEarned == KeyNeverOutranksCreator /\ NoKeyAfterRevocation

\* A row and its audit events are written together (create_api_key: "an api key is
\* never created without its audit record").
KeyEventsMatch ==
    \A k \in Key :
        /\ key[k].state # "none" <=> \E e \in events : e.kind = "created" /\ e.key = k
        /\ (\E e \in events : e.kind = "revoked" /\ e.key = k) => key[k].state = "revoked"

\* A key makes keys only while it is live, so that no key is left of a user whose erasure
\* answered that they are all revoked (erase_user_data: "api_keys_revoked").  A request that
\* read the key before makes one nevertheless.
MintsOnlyWhileLive ==
    [][\A c \in Call, k \in Key, s \in GivenScope :
          MintByKey(c, k, s) => key[call[c].key].state = "live"]_keyVars

\* Audit events carry the tenant of the workspace; those of a key that a key made do not.
EventsInTenant ==
    \A e \in events : e.tenant = HomeTenant[key[e.key].home]
============================================================================
