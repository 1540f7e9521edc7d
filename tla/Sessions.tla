------------------------------ MODULE Sessions ------------------------------
(***************************************************************************)
(* Credentials over time: tokens of operators, the JWT that /auth/token    *)
(* makes of them, and tokens of an OIDC provider whose keys every worker   *)
(* caches.  Signatures are sound; time is ticks, and ages are relative to  *)
(* now.  Operators are enabled.  The static admin token never changes while *)
(* the program runs; it is left out with the routes that ask for it alone  *)
(* and with the JWT it is exchanged for, but not the deployments that have *)
(* and require none, where /auth/token takes any secret for it.            *)
(***************************************************************************)
EXTENDS Integers, FiniteSets

CONSTANTS Operator, Worker, Kid,
          MaxVersion,  \* bound on the rotations of a token
          MaxTokens,   \* bound on the JWT that are alive at once
          TokenTtl,    \* _TTL_HOURS
          CacheTtl     \* jwks_cache_ttl_seconds

ASSUME TtlAssumption == /\ TokenTtl \in Nat \ {0}
                        /\ CacheTtl \in Nat \ {0}
                        /\ {MaxVersion, MaxTokens} \subseteq Nat

VARIABLES mode,      \* what the deployment configures
          row,       \* the rows of operators
          dead,      \* dead[o][v]: ticks since version v of o's token was withdrawn (history)
          checked,   \* requests to /auth/token between check_auth and sign_token
          jwts,      \* tokens that were issued and have not expired
          provider,  \* the OIDC provider
          cache,     \* cache[w]: _JWKSCache of worker w
          last       \* the last request that was decided (history)

sessionVars == <<mode, row, dead, checked, jwts, provider, cache, last>>

Version == 0..MaxVersion
NotDead == -1

\* oidc, jwt: a provider, keys for JWT.  open: no admin token is set and none required.
Deployment == [oidc : BOOLEAN, jwt : BOOLEAN, open : BOOLEAN]

\* Why an answer may be late: the secret was withdrawn while it was exchanged, the secret
\* was not asked for, the provider did not answer.
Excuse == {"none", "raced", "open", "outage"}

Jwt == [op : Operator, version : Version, age : 0..TokenTtl - 1, excuse : Excuse]
DecidedRequest == [kind : {"none", "operator", "jwt", "oidc"}, agrees : BOOLEAN,
                   lag : 0..TokenTtl + CacheTtl, excuse : Excuse]

\* in, for: whether the provider publishes a key, and for how many ticks it has or has not.
SessionTypeOK ==
    /\ mode \in Deployment
    /\ row \in [Operator -> [state : {"none", "active", "revoked"}, version : Version,
                             lapsed : BOOLEAN]]
    /\ dead \in [Operator -> [Version -> NotDead..TokenTtl]]
    /\ checked \subseteq [op : Operator, version : Version, open : BOOLEAN]
    /\ jwts \subseteq Jwt
    /\ provider \in [up : BOOLEAN, keys : [Kid -> [in : BOOLEAN, for : 0..CacheTtl]]]
    /\ cache \in [Worker -> [keys : SUBSET Kid, age : 0..CacheTtl]]
    /\ last \in DecidedRequest

NoDecision == [kind |-> "none", agrees |-> TRUE, lag |-> 0, excuse |-> "none"]

SessionInit ==
    /\ mode \in Deployment
    /\ row = [o \in Operator |-> [state |-> "none", version |-> 0, lapsed |-> FALSE]]
    /\ dead = [o \in Operator |-> [v \in Version |-> NotDead]]
    /\ checked = {} /\ jwts = {}
    /\ provider = [up |-> TRUE, keys |-> [k \in Kid |-> [in |-> FALSE, for |-> 0]]]
    /\ cache = [w \in Worker |-> [keys |-> {}, age |-> CacheTtl]]
    /\ last = NoDecision

rows     == <<row, dead>>
external == <<provider, cache>>

\* The versions of o's token that the condition withdraws now.
Withdraw(o, vs) == [dead EXCEPT ![o] = [v \in Version |->
                        IF v \in vs /\ dead[o][v] = NotDead THEN 0 ELSE dead[o][v]]]

------------------------------------------------------------------------------
(* Operators                                                                *)

\* create, and the bootstrap operator of an empty table.
CreateOperator(o) ==
    /\ row[o].state = "none"
    /\ row' = [row EXCEPT ![o].state = "active"]
    /\ UNCHANGED <<mode, dead, checked, jwts, external, last>>

\* Also of an operator that is revoked.
RevokeOperator(o) ==
    /\ row[o].state # "none"
    /\ row' = [row EXCEPT ![o].state = "revoked"]
    /\ dead' = Withdraw(o, Version)
    /\ UNCHANGED <<mode, checked, jwts, external, last>>

\* Only of an active operator; the new token expires later.
RotateToken(o) ==
    /\ row[o].state = "active" /\ row[o].version < MaxVersion
    /\ row' = [row EXCEPT ![o].version = @ + 1, ![o].lapsed = FALSE]
    /\ dead' = Withdraw(o, {row[o].version})
    /\ UNCHANGED <<mode, checked, jwts, external, last>>

\* expires_at passes.
Lapse(o) ==
    /\ row[o].state # "none" /\ ~row[o].lapsed
    /\ row' = [row EXCEPT ![o].lapsed = TRUE]
    /\ dead' = Withdraw(o, {row[o].version})
    /\ UNCHANGED <<mode, checked, jwts, external, last>>

\* Rows from before the lookup hash are found by another query and treated alike.
Authenticates(o, v) ==
    row[o].state = "active" /\ row[o].version = v /\ ~row[o].lapsed

\* o has had the token v.
Issued(o, v) == row[o].state # "none" /\ v <= row[o].version

Decided(kind, agrees, lag, excuse) ==
    last' = [kind |-> kind, agrees |-> agrees, lag |-> lag, excuse |-> excuse]

\* Asked for only where there are neither a provider nor keys for JWT.
UseToken(o, v) ==
    /\ ~mode.oidc /\ ~mode.jwt /\ Issued(o, v)
    /\ Decided("operator", Authenticates(o, v) = (dead[o][v] = NotDead), 0, "none")
    /\ UNCHANGED <<mode, rows, checked, jwts, external>>

------------------------------------------------------------------------------
(* issue_token, validate_jwt_header                                         *)

\* What check_auth refuses goes to check_admin_token, which takes any secret in an open
\* deployment.  Not even a provider keeps /auth/token from it.
CheckSecret(o, v) ==
    /\ mode.jwt /\ Issued(o, v) /\ (Authenticates(o, v) \/ mode.open)
    /\ checked' = checked \cup {[op |-> o, version |-> v, open |-> ~Authenticates(o, v)]}
    /\ UNCHANGED <<mode, rows, jwts, external, last>>

SignToken(r) ==
    /\ Cardinality(jwts) < MaxTokens
    /\ checked' = checked \ {r}
    /\ jwts' = jwts \cup {[op |-> r.op, version |-> r.version, age |-> 0,
                           excuse |-> CASE r.open -> "open"
                                        [] ~r.open /\ dead[r.op][r.version] # NotDead -> "raced"
                                        [] OTHER -> "none"]}
    /\ UNCHANGED <<mode, rows, external, last>>

\* The database is not asked.  Next to a provider the routes of keys, users, templates and
\* administration still ask for a JWT.
UseJwt(j) ==
    /\ LET late == dead[j.op][j.version] IN
       Decided("jwt", late = NotDead, IF late = NotDead THEN 0 ELSE late, j.excuse)
    /\ UNCHANGED <<mode, rows, checked, jwts, external>>

------------------------------------------------------------------------------
(* The provider and the cache of its keys                                   *)

Published == {k \in Kid : provider.keys[k].in}

ChangeKey(k) ==
    /\ mode.oidc
    /\ provider' = [provider EXCEPT !.keys[k] = [in |-> ~provider.keys[k].in, for |-> 0]]
    /\ UNCHANGED <<mode, rows, checked, jwts, cache, last>>

ProviderChanges ==
    /\ mode.oidc
    /\ provider' = [provider EXCEPT !.up = ~@]
    /\ UNCHANGED <<mode, rows, checked, jwts, cache, last>>

\* Mutant: keys are fetched only when there are none.
FetchWhenEmpty(w) == cache[w].keys = {}

\* An unknown key id does not fetch again.
Fetch(w) == cache[w].age >= CacheTtl \/ cache[w].keys = {}

Answers == provider.up /\ Published # {}

\* A token that is signed with key k is accepted when its key is in the cache.
UseOidc(w, k) ==
    /\ mode.oidc /\ (Fetch(w) => Answers)
    /\ cache' = [cache EXCEPT ![w] = IF Fetch(w) THEN [keys |-> Published, age |-> 0] ELSE @]
    /\ Decided("oidc", (k \in cache'[w].keys) = provider.keys[k].in, provider.keys[k].for, "none")
    /\ UNCHANGED <<mode, rows, checked, jwts, provider>>

\* A fetch that fails, or finds no key, refuses the token and leaves the cache.
RefuseOidc(w, k) ==
    /\ mode.oidc /\ Fetch(w) /\ ~Answers
    /\ Decided("oidc", ~provider.keys[k].in, provider.keys[k].for, "outage")
    /\ UNCHANGED <<mode, rows, checked, jwts, external>>

------------------------------------------------------------------------------
\* exp is reached: PyJWT refuses the token from then on.
Expired(j) == j.age >= TokenTtl

Counted(n, max) == IF n < max THEN n + 1 ELSE n

Tick ==
    /\ dead' = [o \in Operator |-> [v \in Version |->
                  IF dead[o][v] = NotDead THEN NotDead ELSE Counted(dead[o][v], TokenTtl)]]
    /\ jwts' = {j \in {[i EXCEPT !.age = @ + 1] : i \in jwts} : ~Expired(j)}
    /\ provider' = [provider EXCEPT !.keys = [k \in Kid |->
                       [provider.keys[k] EXCEPT !.for = Counted(@, CacheTtl)]]]
    /\ cache' = [w \in Worker |-> [cache[w] EXCEPT !.age = Counted(@, CacheTtl)]]
    /\ UNCHANGED <<mode, row, checked, last>>

SessionNext ==
    \/ \E o \in Operator :
          \/ CreateOperator(o) \/ RevokeOperator(o) \/ RotateToken(o) \/ Lapse(o)
          \/ \E v \in Version : UseToken(o, v) \/ CheckSecret(o, v)
    \/ \E r \in checked : SignToken(r)
    \/ \E j \in jwts : UseJwt(j)
    \/ \E k \in Kid :
          \/ ChangeKey(k)
          \/ \E w \in Worker : UseOidc(w, k) \/ RefuseOidc(w, k)
    \/ ProviderChanges
    \/ Tick

SessionSpec == SessionInit /\ [][SessionNext]_sessionVars

------------------------------------------------------------------------------
(* Properties                                                               *)

\* What the server decides lags behind the truth by less than a time to live.  A token
\* that was revoked, rotated or has lapsed is refused at once.  Its JWT is refused within
\* the hour of the JWT, unless it was being issued meanwhile or the deployment is one that
\* takes any secret.  A key that the provider withdraws or publishes is refused or known
\* within the life of the cache, in every worker and through any outages of the provider,
\* during which everything may be refused (issue_token, validate_jwt_header,
\* _JWKSCache.get_key).
StaleWithinTtl ==
    /\ last.kind = "operator" => last.agrees
    /\ last.kind = "jwt" => \/ last.agrees \/ last.lag < TokenTtl
                            \/ last.excuse = "raced" \/ (last.excuse = "open" /\ mode.open)
    /\ last.kind = "oidc" => \/ last.agrees \/ last.lag < CacheTtl
                             \/ last.excuse = "outage"
==============================================================================
