# GrantLayer: TLA+ models, model checking and proofs

This directory models the GrantLayer backend (`backend/src/`): how authority is
requested, decided, signed, used, limited and revoked, who may do so, how every
decision ends up in a tamper-evident audit chain and what is later reported of
it, and the services around: webhooks, jobs, the rate limiter and the migration
of the database. The models are written from
the code, not from its documents; where a document and the code disagree, a run
shows it (section 7).

1. [Inventory](#1-inventory)
2. [Plan](#2-plan)
3. [Modules and how they correspond to the code](#3-modules-and-how-they-correspond-to-the-code)
4. [Runs](#4-runs)
5. [Fairness](#5-fairness)
6. [Proofs](#6-proofs)
7. [What disagrees](#7-what-disagrees)
8. [What is not modelled, and why](#8-what-is-not-modelled-and-why)

## 1. Inventory

The backend is a FastAPI application. One process serves requests in one event
loop; several replicas (`deploy/k8s`) and an ARQ worker process share one
PostgreSQL database (SQLite in development), and optionally one Redis.

| component | state | operations | interacts with | modelled in |
|---|---|---|---|---|
| audit hash chain (`audit/audit_log.py`) | `audit_events` rows: `seq`, `timestamp`, `prev_hash`, `row_hash` | `append_event`, `verify_audit_hash_chain` | called inside the transaction of every handler that decides something | `AuditChain` |
| audit readers (`api/routers/audit_events.py`, `audit_compliance.py`) | none; the anchored head is kept outside the database | paging with a cursor, export fold, `anchor_head` | read the chain while it grows | `AuditReaders` |
| grant requests (`grants/grant_request_service.py`, `grant_requests.py`, `api/routers/grant_requests.py`, `bulk.py`) | `grant_requests` rows | submit, approve, deny, revoke, expire, bulk approve / reject / revoke | create and revoke grants, append audit events, dispatch webhooks | `GrantRequests` |
| grants and signing (`grants/grant_service.py`, `core/crypto_signing.py`, `core/repositories_sqlalchemy.py`) | `grants` rows: validity, `revoked`, `max_uses`, `use_count`, signature; key files and keyring | create, revoke, renew, tamper, verify; generation and registration of keys | read by the policy engine | `GrantSigning`, `Exercise` |
| exercise (`demo/demo_action.py`, `api/routers/demo.py`) | `grant_executions` rows | `handle_demo_action` | lists grants, evaluates the policy, validates a challenge, consumes a use, appends an audit event, and keeps the event loop of its process meanwhile | `Exercise`, `EventLoop` |
| processes of the API (`core/db.py`, `deploy/`, `docker-compose.yml`) | an event loop each; what their probes ask | handlers as coroutines, restart by a probe | run the calls and the attempts | `EventLoop` |
| challenges (`auth/challenges.py`) | `challenges` rows: `used_at`, `expires_at` | create, validate, mark used | called by exercise, in transactions of its own | `Exercise` |
| policy engine (`policy/policy_engine.py`, `constraints.py`) | none | `evaluate_access` | pure function over the listed grants | `PolicyEngine`, `Exercise` |
| anchoring job (`workers/jobs.py`, `anchoring/`) | `anchor_records` rows | one submission per day and workspace, confirmation | exercises a grant, then pays for a Cardano transaction | `AnchorJob` |
| approval rules and lifecycle (`policy/approval_rules.py`, `approval_lifecycle.py`) | a request value that the caller holds | evaluate, build, seven transitions | documents go from endpoint to endpoint by way of the caller | `ApprovalRules`, `ApprovalLifecycle` |
| evidence, completeness, gaps (`evidence/`, `audit/`, `policy/compliance_gap_report.py`) | `evidence_archives` and their hash index | build, store, verify; four reports | read the execution, its grant and its request, which go on changing | `EvidenceReview` |
| policy packs (`policy/policy_requirements.py`) | none | five evaluations and their combination | documents by way of the caller | `PolicyPack` |
| compliance dossier (`policy/compliance_readiness.py`, `decision_provenance.py`, `audit/auditor_export.py`) | none | four builders | documents by way of the caller | `ComplianceSummary` |
| API keys (`api/routers/api_keys.py`, `gdpr.py`) | `api_keys` rows | mint by user or key, revoke, erase | every request; the audit log | `ApiKeys` |
| operators, tokens, OIDC (`auth/operators.py`, `oidc.py`, `api/auth_jwt.py`, `api/routers/auth.py`) | operators; a cache of keys per process | create, rotate, revoke, issue, validate | the provider of identities | `Sessions` |
| workspaces (`auth/auth.py`, `workspaces/bootstrap.py`) | workspaces and members | bootstrap, resolve, check of a resource | every request | `WorkspaceAccess` |
| webhooks (`core/webhook_dispatcher.py`, `webhooks/`) | subscriptions, delivery log | dispatch, retry, test | background tasks of the process that handled the request | `WebhookDelivery` |
| background jobs (`workers/`) | the queue of ARQ in Redis | enqueue, run, dead letters | mail, files | `WorkerJobs` |
| rate limiter (`core/rate_limiter.py`) | windows in Redis, or in the process when Redis is lost | `check`, health probe | middleware, login, exercise | `RateLimiter` |
| migrations (`migrations/`, `core/db.py`) | `schema_migrations`, the schema | `run_migrations` at every start | several processes start at once | `Migrations` |
| others | | templates, agent permissions, OPA client, e-mail, admin, logging | | section 8 |

What is hard about it, by component; each point is a hazard in `PROJECT.json`
with its line, and the properties in brackets are about it.

* **Audit chain.** The timestamp of an event is taken when the handler builds
  it, the `seq` under an advisory lock, and they may be in different orders.
  The tail is found by timestamp, the verifier walks by `seq`. The lock has to
  last to the end of the *caller's* transaction, because the row is not
  committed before, or may be rolled back. (`LinkIsTail`,
  `VerifiesWithoutInversion`, `ImplementsLedger`.)
* **Readers.** A page and a cursor use different orders; an anchored head must
  stay the head of a prefix although `seq` values are handed out before the
  commit. (`WalkSeesAllWithoutInversion`, `AnchorIsPrefix`.)
* **Grant requests.** Status checks on rows that are read without a lock and
  written by id alone; audit event and decision in one transaction; bulk calls
  that fail half-way, and that hold the advisory lock while they wait for the
  next row. (`DecisionsWitnessed`, `DecisionsAreFinal`,
  `DecidedOnceIsConsistent`, `BulkIsWhole`, `CyclesNeedMany`.)
* **Signing.** Key files that several processes look for, open and write; a
  renewal that reads a grant, signs it and writes it later, with a revocation or
  a change of keys in between. (`HonestGrantVerifies`, `AuthorityIsWitnessed`.)
* **Exercise.** The policy is evaluated on a copy of the grants, the challenge
  in other transactions, and the use is consumed in a third one; processes
  crash in between; the grant is revoked, renewed or expires in between.
  (`ImplementsLedger`, `RevocationHolds`, `ReplayBlocked`,
  `DecisionsWitnessed`.)
* **Event loops.** The handler of `POST /v1/exercise` is a coroutine that talks to
  the database synchronously: while it waits for a lock its process does nothing else,
  and if a suspended call of the same process holds the lock, neither goes on and
  PostgreSQL sees no deadlock. (`AttemptsKeepOrder`, `CallsFinish`, `AttemptsFinish`.)
* **Anchoring.** A guard that reads long before it writes; runs that overlap,
  because the body is in a thread that survives the cancelled job; a payment that
  cannot be rolled back between two transactions of the database; an
  acknowledgement that is lost. (`PaidWithinGrant`, `PaidIsWitnessed`,
  `PaidIsRecorded`, `DoublePaymentExplained`.)
* **Approvals.** The caller holds the request, adds approvers to it and may
  reopen it. (`ApprovedByAllRoles`.)
* **Evidence and reports.** A verdict is computed from a read and written in a
  later transaction; reports combine an archive of the past with rows of now; a
  block has to survive four builders that look for it under names of their own.
  (`ValidIsExplained`, `ClearMeansClean`, `NoCauseIsLost`,
  `NeverBetterByWaiting`.)
* **Who may act.** A key is read in one transaction and acts in another; keys make
  keys; JWT outlive the token they were made of and every process caches the keys
  of the provider; a workspace is found by one query with a header and by another
  without. (`KeysAreEarned`, `StaleWithinTtl`, `AutoIsWhatHeaderGives`.)
* **Policy engine.** A request is put to one grant after the other, by rows that other
  builds or calls without a time zone have left: one refusal must not hide a later grant,
  and the reason that is named must be true of the grant it names.
  (`AnsweredByTheGrants`.)
* **Services.** Deliveries that die with the process and are repeated when an
  answer is lost; jobs whose worker ends; a limiter that falls back to a window
  per process; migrations that commit statement by statement and are marked in a
  transaction of their own. (`DuplicatesExplained`, `NothingAfterDeletion`,
  `DeliveriesSettle`, `EffectsExplained`, `WindowHolds`, `StartIsTrustworthy`.)

## 2. Plan

Done, in this order: the audit chain and its readers; grant requests; the
exercise of a grant; the anchoring job; then approvals, evidence, policy packs
and the dossier; keys, sessions and workspaces; webhooks, jobs, the limiter and
migrations; signing; the policy engine; and last the event loops that the calls and the
attempts run in. Each came with its properties and runs; the theorems
followed, by now for every component and for all its safety properties (section 6).

Left, in the order in which it would add most:

1. The public export with its limit and its date filter, over `AuditReaders`.
2. The SQLite variant of the append path.

## 3. Modules and how they correspond to the code

| module | models |
|---|---|
| `AuditLedger` | abstract: a table that only grows, by whole transactions, in `seq` order, with links to older entries |
| `AuditChain` | `append_event` on PostgreSQL inside a caller's transaction; the verifier; the anchor export |
| `AuditReaders` | `list_events` and the cursor of `GET /audit-events`, over `AuditChain` |
| `GrantRequests` | the grant request workflow, direct revocation, bulk calls |
| `UsageLedger` | abstract: one outcome per attempt, one use per success, no limit exceeded |
| `Exercise` | `handle_demo_action`, challenges, and the life of grants around it |
| `EventLoop` | the calls of `GrantRequests` and the locks of attempts, in processes with one event loop each; extends `GrantRequests` |
| `AnchorJob` | the daily anchoring job, its records, the use of its grant, and the payments |
| `GrantSigning` | signing, renewal and verification of a grant over the files of keys |
| `ApprovalRules` | `evaluate_approval_requirements`, a pure function |
| `ApprovalLifecycle` | the life of an approval request, over `ApprovalRules` |
| `EvidenceReview` | one execution, the archive of its evidence, and the reports made of both |
| `PolicyPack` | the rules of a pack against a subject that is amended while time passes |
| `ComplianceSummary` | the chain of documents from the policy evaluation to the readiness |
| `PolicyEngine` | `evaluate_access` and `check_constraints` over the rows that creation, renewal, revocation and consumption leave |
| `ApiKeys` | minting, resolution, revocation and erasure of keys |
| `Sessions` | tokens of operators, JWT, the cache of the provider's keys |
| `WorkspaceAccess` | resolution of a workspace, and the check of a resource |
| `WebhookDelivery` | subscriptions, dispatch, delivery tasks |
| `WorkerJobs` | background jobs under arq |
| `RateLimiter` | one bucket over Redis and the windows of the processes |
| `Migrations` | starts of the program on a SQLite database |
| `AuditChainProofs` | theorems about the chain and its readers (section 6) |
| `GrantRequestsProofs` | about the request workflow, alone and in its processes (`EventLoop`) |
| `ExerciseProofs` | about the exercise of grants |
| `AnchorSigningProofs` | about the anchoring job and signing: `MCAnchorJob`'s parts |
| `GovernanceProofs` | about approvals, evidence, the dossier and packs, and about the parts of `MCGovernance` together |
| `AccessProofs` | about keys, sessions, workspaces and the policy engine |
| `ServiceProofs` | about webhooks, jobs, the limiter and migrations: `MCServices`' parts |
| `Induction` | lemmas on natural numbers that stand in for induction over data |
| `MCAuditChain`, `MCGrantRequests`, `MCEventLoop`, `MCExercise` | constants, bounds and symmetry for TLC |
| `MCAnchorJob`, `MCGovernance`, `MCServices` | the same, for several modules at once: an instance chooses a *part* at the start and runs that module only, because the parts share no state |

`PROJECT.json` maps every definition to its lines. The correspondence in short:

**AuditChain.** One transaction `t` of a handler: `BuildEvent` is the
construction of `AuditEvent` (`_now_iso`), `AcquireLock` the
`pg_advisory_xact_lock`, `ReadTail` is `_get_latest_row_hash` on committed rows
and the transaction's own, `Insert` the `INSERT ... RETURNING seq`; then the
handler may build another event, commit or roll back, and only the end of the
transaction frees the lock. `pending[t]` holds the uncommitted rows. `nextSeq`
is a database sequence and is not rolled back. Each row keeps its timestamp,
workspace and the row whose hash it stores; the hash is taken to be injective,
so a row stands for its hash. `Tick` lets time pass or stand still between any
two steps, so equal timestamps occur. `ChainVerifies` is what
`verify_audit_hash_chain` computes over the table, `Anchor` stores what
`anchor_head` covers.

**AuditReaders.** `Newest` is `ORDER BY timestamp DESC, seq DESC LIMIT n`,
`ListEvents` adds `seq < after_seq`, `CursorWalk` is a client that follows
`next_cursor` from the first page on.

**GrantRequests.** A call `c` is one request to the service with its own session
and one `READ COMMITTED` transaction: `RequestsOf` and `GrantsOf` are what its
statements see, and `mine[c]` what it has written. An `UPDATE` waits for the
row (`RequestLocked`, `GrantLocked`), an audit append for the advisory lock
(`ChainLocked`). `ReadRequest` and `Refuse` are the two outcomes of the checks
in `approve_request`, `deny_request` and `revoke_request`; they look at the
row *without* locking it, and `UpdateRequest` writes by id whatever the status
is by then, as `mark_approved` and its siblings do. `UpdateGrant` has the guard
`revoked = 0` of the repository. Bulk calls work through `job[c].todo` in the
same transaction and append a summary event. A failing check rolls the whole
transaction back. `DeadlockVictim` is PostgreSQL's detector: it aborts one of
the calls of a cycle; `Rollback` is every other failure. The webhooks that the
service dispatches before the commit are in `WebhookDelivery`.
`expire_old_requests` has no caller in the repository; it is modelled as a call
like the others.

**Exercise.** An attempt `a` goes through `handle_demo_action`: `Start` (with the
early denial when a challenge is required and missing), `Evaluate` (listing,
policy and signature, on one snapshot), `ReadChallenge` and `MarkUsed` (two
transactions of their own), `Consume` (`try_consume_use`, which locks the row),
`AppendDecision` (execution row and audit event, under the advisory lock),
`CommitDecision`. `Fail` and `RecordFailure` are the exception path, whose row has an
id of its own and is in `failures`; `CommitDecision` may lead to it as well, when the
server commits and its answer is lost. `Crash` is the death of the process at any
point. `RevokeGrant`, `RenewGrant`,
`TamperGrant`, `GrantExpires` and `ChallengeExpires` are the environment;
revocation, renewal and tampering wait for the row lock and are atomic here
(their own audit events are in `GrantRequests`). All grants match the attempt
in subject, role, action and resource, and their typed constraints are met:
what remains of `evaluate_access` is validity, revocation and exhaustion, in
the order of the listing. `plan[a].barred` and `plan[a].burned` are history
variables that only properties read.

**EventLoop.** It adds to the calls of `GrantRequests` where they run. A coroutine reads,
checks and sends its statements when the loop of its process is free (`Arrive`, `Check`,
`Send`); a statement at the server is executed there when its locks are free, whatever the
loop does (`Execute`). An attempt takes the loop (`Begin`), its locks (`Consume`,
`TakeChain`) and gives back the loop with its transaction (`CommitAttempt`, `FailAttempt`);
of `handle_demo_action` only what locks is here, the rest is in `Exercise`. `Restart` is the
end of a process, for any reason, after which the server takes back the transactions that
it finds cut off (`Disconnect`); `Victim` is its deadlock detector, which sees the locks and
not the loops. `Supervised` are the processes that a liveness probe restarts:
with the Kubernetes manifest and the Helm chart all, with Docker Compose (whose
`restart: unless-stopped` does not act on an unhealthy container) and a bare `uvicorn` none.

**AnchorJob.** A run `r` is one execution of `_anchor_audit_chain_sync`, by the
worker's cron job, a retried job or a call by hand: `Start` reads the time once,
`Skip` and `PassGuard` are the outcomes of the query for today's record,
`ExerciseGrant` and `Denied` of `_exercise_anchor_grant`, `ReadHead` is
`anchor_head` with the minimum length, `WriteRecord` the committed row with
status `submitted`, `Submit` the payment, `Confirm` and `MarkFailed` the update
of the row. Each is a database transaction or a network call of its own, so other
runs and other writers of the audit chain (`OtherEvent`, which may also use the
grant) interleave between any two. `Refuse` stands for every gate that returns
before the record is written; the gates differ in what they ask of the outside
and not in what they leave behind. `Submit` has three outcomes: taken and
acknowledged, taken and not acknowledged, not taken (a failed build, the pinned
address, the fee ceiling and a rejected transaction among them). The exercise is
one step because `Exercise` implements `UsageLedger`, in which it is one step
(section 6). An audit chain is its length here: `entry_count` is what the payload
commits to, and `witness` the position of the exercise's event. `passed` and
`rivals` are history that only properties read.

**GrantSigning.** A call `r` signs (`StartCreate`, `StartRenew`) or verifies
(`StartVerify`) the one grant; both begin with `_ensure_keyring_baseline`:
`EnsurePair` (is the demo pair there?), `LoadPublic`, `Register`,
`RegisterAlias`, with `OpenFile` (which empties the file) and `WriteFile` as two
steps for each file, so that another process may look in between or the writer
die (`Abandon`). `SignGrant` is `sign_grant` with its test that the public key is
registered; `LandCreate` and `LandRenewal` are the guarded statements and the
event of the same transaction. The keys of production come by hand
(`RegisterLivePair`, `ConfigureLivePair`). A signature is what it signs and by
which pair; a key id is a fingerprint and stands for its pair, the id "legacy"
stands for whatever is registered under it.

**ApprovalRules, ApprovalLifecycle.** Values are the classes that the rules tell
apart: an amount is below, above one or above both thresholds, malformed or NaN, which
passes every threshold because no comparison with it holds.
`Evaluate` and `Build` are the two endpoints, the other actions the transitions of
`_VALID_TRANSITIONS` with the checks in front of them; a refused transition
returns the request as it was and is a stutter. The caller may write any approver
at any time (`AddApprover`), since it holds the request.

**EvidenceReview.** The rows are one record `fact`, which goes on changing
(`Spoil`, `SettleRequest`, `RecordProvenance`). `StoreBundle` and `IndexBundle`,
and `ReadForVerdict` and `RecordVerdict`, are transactions of their own, as in
the code. `Alter` is any change of the stored bundle: one that its own hash gives away
("altered"), one that takes the hash along ("resealed"), which `verify_execution` cannot
notice, since it compares with the hash in the bundle and never with the columns that the
row and the index keep, and one of the version. The reports are operators:
`CriticalFindings` and `Findings` (auditor report), `Gaps` and `Penalty`
(completeness), `GapReport`. `archive.sound` is history.

**PolicyPack.** `Judgement` combines the evaluations; `Amend` changes the subject
in one respect, `TimePasses` the clock, and `Judge` evaluates. A deadline without an offset
(`naive`) raises when it is compared with the clock, so that there is no answer. The amount is
where it lies relative to the maximum of the pack.

**ComplianceSummary.** One variable, the dossier. A builder reads some of the
inputs (`Kept`: the caller may leave documents out) and the documents built before
it, and keeps only the fields that a later builder looks at, under the key names it
looks at: where the code reads a key that nobody writes, the operator has no
case for it and says so. `causes` is history: what is wrong in the documents that
one was built from.

**PolicyEngine.** The evaluation is a scan: `Ask` is the call with the listed rows, and
each further step the turn of one grant, which is passed over, raises, refuses or
approves; `pos` is the place of the loop, `refusal` is `best_denial`. `Bars` has the eight
rungs of the ladder in the order of the code, the typed constraints at the end. Nothing
happens to the rows meanwhile, since the code evaluates a copy at one instant (`Exercise`
has the rest); between two evaluations they are created, renewed, revoked and used, and
time goes on. A timestamp is a moment and whether it has an offset or can be read at all.
A table may begin with a row of another build (`Inherited`).

**ApiKeys.** A request `c` reads a key (`BeginMint`, `BeginRevoke`) and acts in
another transaction (`MintByKey`, `Revoke`), with revocations, expiry and erasures in
between. A list of scopes is the highest of them. The two resolvers differ in the
tenant (`SyncTenant`, `AsyncTenant`). `late` and `maker` are history.

**Sessions.** A version of an operator's token is a number; `dead` counts the ticks
since it was withdrawn. `mode` is what the deployment configures: a provider, keys for
JWT, an admin token or none. `CheckSecret` and `SignToken` are the two halves of
`/auth/token`, which no provider keeps from being asked; what it does not find as an
operator's token it hands to `check_admin_token`, which takes any secret in a deployment
that has no admin token and requires none (`open`). Next to a provider `UseJwt` remains
possible, because the routes of keys, users, templates and administration ask for a JWT
without asking the provider. `UseOidc` is `_JWKSCache.get_key` of one process: it fetches
when the cache is old or empty, not for an unknown key id, and `RefuseOidc` is the answer
when the fetch fails or finds no key. Every answer is recorded in `last`, refusals too. Ages
are relative to now.

**WorkspaceAccess.** `Resolve` is `resolve_workspace_context` as a function of the rows,
by its two branches `ResolveNamed` and `ResolveUnnamed`; `MayAccess` is the check of
a resource. Rows come from the bootstrap script, and change by hand.

**WebhookDelivery.** A request `r` announces its event before it commits
(`Announce`, then `Commit` or `Rollback`), and the tasks it leaves deliver from then
on. `Receive` is the receiver, `Deliver` the answer that arrives, `FailAttempt` the
time-out, the error and the answer that is lost; `Retry` ends the sleep between.
`Crash` ends requests and tasks. The time-out of the client is one of every single read,
so an answer that keeps coming in small parts may be under way for ever.

**WorkerJobs.** arq is outside: `Take`, `Succeed`, `Fail` and `WorkerEnds` are what it
does with a job, `DoWork` and `SkipWebhook` the body of the job. A body and its
return are two steps, so that the worker may end in between. What the body returns and what
it did are independent: mail with the backend `noop` and an export without a destination
report success without an effect, and a write that fails half-way leaves an effect and
reports an error.

**RateLimiter.** A window holds admissions by age. `AdmitShared` is the Lua script,
which runs as a whole; `FailOver` is the call that fails, with Redis having counted the
request or not; `AdmitLocal` the window of the process; `Probe` a request to
`/readiness`, the only place that connects again; nothing makes it happen, since the
Kubernetes manifest, Docker Compose and the Dockerfile ask `/health`, which reads the cached
status. A check takes the time from the clock of its worker before its call reaches Redis;
the model has one clock for all. `calm` and `granted` are history.

**Migrations.** Each migration is the sequence of what it commits: SQLite commits a
statement that changes the schema at once, so a migration is several steps.
`ReadTracker`, `Detect`, `NextMigration`, `ApplyStep`, `ApplyEnds`, `Mark` and `Adopt` follow
`run_migrations`; `FailStart` is an exception anywhere in it. `Deploy` brings a
process that is off back with another release, newer or older, while others go on with
theirs. The baseline already has some columns that later migrations look for and add to
tables of an older program (`MadeEarly`). `AllMigrations` lists all migrations; a run may
ship a selection.

Abstractions common to all: hashes and signatures are sound, ids are unique, and
the text of messages, logs and responses is left out.

## 4. Runs

| run | instance | what it shows |
|---|---|---|
| `audit_chain` | 2 transactions of up to 2 events, 2 workspaces, 2 clock values, 4 `seq` values, pages of 2 | all safety properties of the chain and its readers, and the refinement of `AuditLedger` |
| `audit_honest_chain` | 2 transactions, 2 clock values, 3 `seq` values | *violation*: an honest chain that does not verify |
| `grant_requests` | 4 calls for single ids, 1 request, 2 operators, all operations | every decision has its event, decisions are final, a request decided once has the grants its status says, and calls for one request never wait for each other in a cycle |
| `grant_bulk` | 2 calls, 2 requests, bulk calls of 2 ids | bulk calls are all or nothing, although they do deadlock |
| `grant_denied_with_grant` | 2 calls | *violation*: a denied request with a live grant |
| `exercise` | 3 attempts, 1 grant of one use, 1 challenge | limits, revocation, replay, witnesses, and the refinement of `UsageLedger` |
| `event_loop` | 2 processes, 1 of them supervised, each with 1 call and 1 attempt; 2 requests; approvals, direct revocation, bulk calls of 2 ids | attempts add no lock cycle; calls and attempts come to an end unless they wait through the loop of a process that nothing restarts |
| `exercise_challenge` | 2 attempts, 1 challenge | *violation*: a challenge used by two attempts |
| `anchor_job` | part 1: 3 runs, 2 days, a grant of 2 uses, at least 2 events; part 2: 2 calls that sign, 2 demo pairs and the pair of production, 2 dates | payments are authorised, witnessed and on record, and a day is paid for twice only by rivals or after a false failure; an honest grant verifies and its last event tells its state |
| `governance` | eight parts, one module each: approvals of 2 people and 3 roles; one execution and 2 verifications; packs of one item and two currencies; the dossier; 3 keys and 2 calls; 2 processes and 2 keys of the provider, times to live of 2 ticks; 3 workspaces of 2 tenants; 2 grants, 3 moments and 6 questions | no approval misses a role; a clear report is clean, a verdict is explained by its read; no block is lost on the way and waiting never helps; no key rises above its maker or acts once revoked; no credential outlives its withdrawal by its time to live but for named excuses; a workspace found without a header is the one a header gives; an attempt is approved by the first grant that authorises it |
| `services` | four parts: 1 request, 2 subscriptions, 3 attempts; 3 jobs of 2 tries; 2 processes, 2 plans, a window of 2; 2 processes that start and 3 migrations | nothing is delivered after a deletion, repetitions are explained by losses, deliveries settle unless an answer never ends; effects of jobs are explained by interruptions; a limit holds a window after Redis does; what serves has the migrations of its release marked, and executed if no start was broken off or overlapped |
| `start_marked` | as `services` | *violation*: a migration marked that was never executed |

Three more configurations show disagreements of section 7 and are not in the list of
runs, which has one run for each question: `MCAuditCursor.cfg`,
`MCRequesterNeverDenies.cfg` and `MCAnchorOnce.cfg`. TLC finds each of them violated.

Why these bounds are enough for what the runs ask:

* The hazards of the chain need two writers, one inversion of timestamps, and a
  third row that is linked after it; a fork needs a fourth. A rolled-back
  transaction leaves a gap in `seq`; four values leave room for a gap and three
  rows. `MaxBatch` of 2 lets a transaction read a tail that it wrote itself.
  The theorems of section 6 then lift the safety properties to any bounds.
* Every race of the workflow is between two calls that read before either
  commits; a third and a fourth call revoke or decide what the first two left.
  One request is enough for races on a request; two are the smallest number
  with which bulk calls take rows in opposite orders. A bulk call with the same
  id twice is among the inputs. The theorems hold for any of these numbers.
* One grant of one use is the smallest limit that two attempts can overrun; the
  third attempt meets the exhausted grant.
* Two processes are one that a probe looks after and one that none does, and let every
  call wait for an attempt of its own process and of the other one. A bulk call of one
  process over both requests and any call of the other give the lock cycles; the attempts
  use the grants that come of the approvals. `MCEventLoop` also fixes the order of what
  makes no difference to locks (requests are submitted first), lets a bulk call name no id
  twice, and lets a process end only with its loop blocked.
* Two runs of the job race for a day; a third meets what a failed or lost one left.
  A grant of two uses is exhausted by the third run or by another attempt, and a
  minimum of two events is missed by a first run on an empty chain. A second day
  shows that records count for their own day only.
* Two calls that sign race for the files; two pairs are what two processes generate at
  once; two dates tell two renewals apart.
* The signals are one representative of each class that a rule tells apart; four-eyes
  has two roles, and the third is one that no rule asks for. Three keys make a chain of
  two links, the shortest on which authority could creep up; two calls race on one key.
  Times to live of two ticks are the smallest that tell "at once", "within" and "after".
  Where a provider stands next to other credentials, the run changes rows only where there
  are keys for JWT and keys of the provider only where there are none: the two halves share
  nothing but `last`, and `StalenessIsBounded` is about all deployments.
  Three workspaces are the demo one and two that make a caller with several memberships.
  Two grants are one that refuses, raises or is passed over and one behind it; three
  moments are before, within and after a validity; the grants given differ from a plain
  one in one rung each, and the rows of other builds have what creation refuses. The
  theorem `AnswersByGrants` holds for any list.
* The packs considered are those whose rules differ in kind; the documents are those
  the builders before them can return, together with those a caller may leave out.
* Three attempts are what `_MAX_WEBHOOK_RETRIES` is; one event is enough, since two
  deliveries share nothing but the process and its subscriptions. A window of two seconds
  and a limit of one are the smallest with which an entry grows old before it is dropped.
  The three migrations are one of each kind: the baseline, one whose steps are looked at
  one by one, and one that edits rows and may be blocked by the triggers of the second.
  The invariant of the proof was also checked with all 23.

Symmetry is used where calls, requests, operators, attempts, runs or signers are
interchangeable (`grant_requests`, `exercise`, `anchor_job`, `governance`), never with a
liveness property. `CHECK_DEADLOCK FALSE` is set where the calls, attempts, runs
or documents of the instance are finite in number: when all have finished and nothing
else can change, the system may really stop. The runs on `AuditChain` check
for deadlock.

Bounds in the modules: `MaxClock`, `MaxSeq` and `MaxBatch` of `AuditChain`, as
guards of `Tick` and `BuildEvent` (`NextFreeSeq` counts the events on their way
to an insert so that the bound never stops one half-way); `PageLimit` is the
request's own parameter; the sets `Call` and `Action` bound the number of calls
and attempts, `BulkSizes` the ids of a bulk call; `MaxDay` and `MaxEvents` of
`AnchorJob` bound `Tick` and `OtherEvent`, and never the job itself; `DemoPair` the
pairs that are generated; `MaxKeys` the keys; `MaxVersion` the rotations of a token and
`MaxTokens` the JWT alive at once; `MaxTable`, `LastMoment` and `MaxCounted` the rows, the
clock and the uses of `PolicyEngine`; `LastInstant` the clock of `PolicyPack`;
`MaxGranted` what `RateLimiter` counts per second for its property, and
`MaxRetries` + 1 what a delivery counts. Ages stop at the time to live, where nothing
tells them apart any more.

Each property of a passing run has a mutant in `PROJECT.json`: a plausible bug
put into a mapped definition (its operator stands before the original in the
module, marked "Mutant"), under which the property fails. Mutants are not used
by any specification.

## 5. Fairness

Liveness is stated where something may be in the way for ever, and says what. Only
`EventLoop` and `WebhookDelivery` have fairness; the other modules are about safety alone.

* `EventLoop`: what a call or an attempt can do again and again it does (`Advance`, strongly
  fair). The loop runs its ready coroutines in turn, and PostgreSQL queues the waiters of a
  lock, so that none is overtaken for ever although locks are taken again and again;
  `deadlock_timeout` is finite, and the server finds out about a connection that was cut.
  There is no `lock_timeout` in `core/db.py` that would end a wait otherwise. Nothing is
  assumed of a loop that an attempt blocks: it gets free when the attempt does. Only the
  processes in `Supervised` are restarted when their loop stays blocked
  (`deploy/k8s/deployment.yaml:52`, the Helm chart). So `CallsFinish` and `AttemptsFinish`
  say: it ends, or it is `Hung`, which means that it waits in a ring of locks and loops that
  is no cycle of locks and in which no loop belongs to a supervised process. Without the
  exception neither would hold.
* `WebhookDelivery` (`HookFairness`): the loop runs a task that is not waiting, a connection
  or a first byte that does not come times out, and sleeps are finite; in a process whose
  loop hangs this is the work of its probe (`Crash`), and nothing is said of deliveries in a
  process that has none. Nothing is assumed of an answer that is under way, since the
  time-out of httpx is one of every read: `DeliveriesSettle` excepts a receiver whose answer
  never ends.
* Nothing about the arrival of calls, time, failures, crashes, the acts of operators, or
  probes of `/readiness`: nothing in the code makes them happen. In particular no property
  says that a worker that lost Redis ever uses it again.

## 6. Proofs

Eight modules are checked by TLAPS, for all values of the constants that satisfy the
named assumptions of the modules they are about:

* `AuditChain`, `AuditReaders`: `NobodyAssumption`, `BoundsAssumption`, `PageLimitAssumption`;
* `GrantRequests`: `OpsAssumption`, `NobodyAssumption`, `RequestAssumption`;
* `Exercise`: `ListingAssumption`, `LimitsAssumption`, `UnlimitedAssumption`,
  `NoneAssumption`, `RequireChallengeAssumption`, `ExecutionAssumption`;
* `AnchorJob`, `GrantSigning`: `LimitAssumption`, `MinEventsAssumption`,
  `BoundsAssumption`, `NoRecordAssumption`; `FileAssumption`, `NoSigAssumption`;
* governance: `RoleAssumption`, `ConsideredAssumption`, `SpoiledByAssumption`,
  `CollectedAssumption`, `InstantAssumption`, `ConsideringAssumption`;
* access: `NoOneAssumption`, `GivenAssumption`, `TtlAssumption`, `DemoAssumption`,
  `SpaceAssumption`, `PrincipalAssumption`, `EngineAssumption`;
* services: `EventsAssumption`, `RetriesAssumption`, `KindAssumption`, `TriesAssumption`,
  `LimitAssumption`, `WindowAssumption`, `ShippedAssumption`, `EffectsAssumption`;
* event loops: `SupervisedAssumption`, `HomeAssumption`, `AttemptAssumption`.

Each is about model values, the types of parameters or the subset of inputs that an
instance considers, but for two about the code: the migrations that ship are among those
of the repository with the baseline first; and no two have a step in common, but that the
baseline makes some columns early, none of which a migration that returns early has. TLC
evaluates all of them in the runs.

**AuditChain.** `LinkIsTail` is not inductive: it speaks of committed rows only,
but a row is linked long before it is committed, and other transactions run in
between. `ChainInv` adds what the advisory lock guarantees: only its holder has
uncommitted rows or has read a tail; those rows lie above every committed row
and are linked as the committed ones are; and a tail once read is still the
latest visible row at the insert. One step per action: `AcquireLock` uses that
nobody else has pending rows, `ReadTail` establishes the tail, `Insert` extends
the pending links, `Commit` moves them to the table (`BeforeBelow`: rows added
above do not change what lies before a row). From it follow `LinkIsTailCorrect`;
`VerifierCorrect`, since without an inversion the latest row before another is
its predecessor by `seq` (`TailIsPredecessor`); `ForksExplained`, since of two
children of one parent the younger was not linked to the older one although it
lay before it (`ForkFromInversion`); `LedgerImplemented`, the refinement of
`AuditLedger` step by step; and `AnchorsStayPrefixes`, from an invariant that
relates the anchored rows to the committed and pending ones.

**AuditReaders.** `WalksAreComplete` needs an induction over the walk of the client, whose
length no constant bounds. `Induction` has it in first-order form: a set of numbers that
holds 0 and is closed under successors (`UpTo`), or that holds n as soon as all below n
(`UpToByAllBelow`), is everything up to a bound, and a recursive definition on 0..N whose
value at n uses one smaller number has a function (`RecursionExists`); the sets and
functions are given in each use, so that no operator has to be instantiated. Without an
inversion the rows before the cursor are the rows with a lower `seq` (`LaterIsHigher`), a
page is the top of them (`PageIsByRank`, `PageHolds`), its lowest row is the next cursor
(`CursorIsLowest`), and the walk from any cursor on has every row below it
(`WalkIsComplete`). `TableInv` adds that the rows are finite in number and no two have one
`seq`, so that a page has a last row.

**GrantRequests.** `RequestsInv` says for each call where it may be and what it has
written: `StepsHold` ties the position to the operation and to what is left to do,
`RowsHold`, `GrantsHold` and `EventsHold` tie uncommitted rows, grants and events to
each other, with the one event that is still to come at `audit` (`Pending`), and
`SeenHolds` is what a revocation knows of the grant that it read. `CallsApart` is what
the row locks give: no two calls have written the same request, which is what lets a
commit replace a row without undoing another one. `TablesHold` relates the committed
tables. One lemma per action; `Commit` moves the facts about a call to facts about the
tables. `DecisionsHaveWitness` is a conjunct; `OnceIsConsistent` follows from
`TablesHold`; `DecisionsStay` from where each operation may start. `BulksAreWhole` adds
`AtEnd`: a call comes to its summary or its commit only when nothing is left to do, and an
end that changes a table is a commit (`CommitsOnly`). `LocksAreOrdered` adds `AllInOrder`,
which locks a call for one target has by where it is: from the row of the grant over the
row of the request to the advisory lock. A call that waits for the audit chain
waits for one that is past waiting, so of a set of such calls none can wait for
the chain, hence none for a request, hence none for a grant.

**EventLoop.** `LoopImplementsRequests`: every step of the processes is a step of a call or
changes nothing that `GrantRequests` knows, so that all of the above holds there too.
`AttemptsOrdered` extends the argument about the order of locks by the attempts, which take
the row of a grant and then the advisory lock, as the calls do.

**Exercise.** `LedgerInv` says why the refinement of `UsageLedger` holds: an
attempt has no execution row before it commits, approval and consumption agree
in the deciding transaction, and the row of a grant that an attempt has locked
has a use left and no other holder (`LocksKept` carries this over the steps
that leave the row alone). `LedgerImplemented` maps `CommitDecision` to a use
or a refusal and everything else to a stutter, the row of a failure too.
`WitnessesCorrect` follows from the same invariant.
`HistoryInv` is the invariant behind `RevocationCorrect` and `ReplayCorrect`:
`revoked` and `used` never go back, so whatever was barred or burned when an
attempt began still is when it evaluates, and an attempt that is approved when
it reaches its transaction saw neither.

**AnchorJob.** Three invariants, each inductive on its own with the ones before it,
and together `AnchorInv`. `UsesHeld`: the runs between exercise and payment
(`Entitled`) and the payments together are never more than the uses; a payment
takes its run out of the entitled ones as it adds to the payments
(`EntitledCount`), which gives `PaymentsAuthorised`. `RunInv`: a range is read at
or above the run's own event and the record is there, with that range, from
before the submission on; it gives `AnchorsWitnessed` and `AnchorsRecorded`.
`GuardInv`: whenever two runs of a day have passed the guard, the one that did so
later found the other between guard and record, or found it out (a record marked
failed, or ended without one), and out is for ever; it gives `DoublePayments`.

**ApprovalLifecycle.** `ApprovalInv` adds
`AsksWhatWasDecided`: a request asks for the roles, and as many approvals, as the
decision it was built from, so that enough approvals are all of the roles
(`ApprovalNeedsAllRoles`), whatever was rejected and reopened in between.

**EvidenceReview, ComplianceSummary, PolicyPack.** `EvidenceInv` adds to
`ValidIsExplained` what a verdict under way was computed from (`VerdictsHold`), since the
archive may be altered before it is recorded. Valid means that the bundle agreed with the
hash in it and had its sections: the theorem does not exclude a bundle that was altered
with its hash, because the code does not. A clear report has no gaps
(`ClearHasNoGaps`), each of which names one row that would have fallen. `SummaryInv` follows the
causes through the four builders: each document blocks for them, but a denied decision,
whose provenance says "denied", and an export, which blocks the readiness whatever it
says (`CausesHold`). `PackInv` says that the last answer is one of an instant that has
passed; `JudgementIsMonotonic` compares two instants.

**Governance.** The run `governance` chooses one part and runs it. `PartsKeepTheirSpecs` shows
that under its specification each part either follows its own or stands still, so the theorems
about the parts are theorems about the composition (`GovernanceTypeCorrect`).

**ApiKeys, WorkspaceAccess.** `KeyInv`, which gives `KeysEarned`, is the comparison of a key with its maker
(`KeyRows`) and what a request under way has read (`CallsHold`): the columns that
authority rests on are written once, so `StatesKeepRows` disposes of every step
that only changes states. The theorems on workspaces are about every table of rows: the two
queries are compared by cases of what the caller is (`AutoMatchesHeader`), and
`WritersEntitled` states which exceptions there are.

**Sessions.** `SessionInv` says of what is accepted since when it is wrong: no version of
a token that an operator can still come to has been withdrawn (`RowsAgree`); a JWT is
older than the withdrawal of the token it was made of, unless the two raced
(`JwtsAgree`); and a cache that is alive and differs from the provider is older than the
change that it missed (`CachesAgree`). Ages end at the times to live, so
whatever is accepted is wrong for less than those. What was exchanged in an open deployment
keeps that excuse (`ChecksAgree`, `JwtsAgree`), and a refusal for a fetch that failed has its
own. The theorem is about every deployment, the mixed ones included.

**PolicyEngine.** `LadderIsExact` compares the ladder with `Authorises`, which says
without any order what a grant permits: no rung bars a grant exactly when it authorises
the request, provided its timestamps can be compared. `EngineInv` is what the scan has
established at its position: no grant before it authorises or raises, and the refusal it
holds is of the first grant that is about the request, or there is none (`ScanAdvances`).
`ScanConcludes` and `AnswerByRow` turn that into the three kinds of answer, and once given
an answer stays true because every change of a row forgets it.

**GrantSigning.** `SigningInv`: `FilesHold` says which pairs a file may hold, `CallsHold`
that whatever a call has signed verifies or has its key about to be written,
`GrantHolds` the same of the row, and `OldKeyHolds` that the key under the
legacy id is the one that old rows were signed with, since it is never written over.

**Migrations.** `StartInv`: what a process has seen and passed is marked (`TrackHolds`),
which is why a process that serves has its release marked; and, as long as every start
was alone and ended, a migration is executed as a whole before it is marked
(`Orderly`, `Whole`), and a database with any table has a mark or a process that is
about to make one (`Begun`), so that it is not taken for an older one. Fresh databases
that were disturbed are where this fails (`start_marked`).

**WebhookDelivery, WorkerJobs.** `HookInv` counts, for every delivery, what was accepted
against the attempts made and the answers that did not arrive, by the place of the task
(`Counts`), and keeps tasks away from requests before their event and from subscriptions
after their deletion. `JobInv` counts the effects of a job against its tries and the ends
of its workers in the same way (`Accounts`). Both are moved by one task or job at a time
(`OneTaskMoves`, `OneJobMoves`).

**RateLimiter.** The sum over a window is a recursive function; `RunningSums` shows by
`Induction` that it exists, and from it that a sum grows by one with an admission, is
monotonic and does not grow when the window moves (`TotalOfOneMore`, `TotalIsMonotonic`,
`TotalOfOlder`). `LimiterInv` then says that what Redis holds of a plan is within it,
whatever plan comes and goes, and that as long as Redis serves every worker all that
was admitted since is among what it holds.

**Only model-checked.** Liveness: `CallsFinish`, `AttemptsFinish` and `DeliveriesSettle`,
because the prover handles neither fairness nor `ENABLED`. Every other property of a passing run is stated by a theorem. Type
correctness is the other way round: it is proved for every module (`TypeCorrect`,
`...TypeCorrect`, or a conjunct of the invariant) and no run repeats it. What the
prover cannot do elsewhere, instantiating a theorem that takes an operator, is avoided by
the sets of `Induction`; no module declares a `RECURSIVE` operator.

## 7. What disagrees

The quotes are in `PROJECT.json` under "findings". With a run that TLC finds violated:

* `audit_honest_chain`: the tail is read by `(timestamp, seq)`, the verifier
  walks by `seq`. A handler that takes its timestamp, waits for the lock while
  another one appends, and appends then, makes the *next* row link to a row that
  is not its predecessor: the chain is reported as tampered, although a comment
  and the specification say that this can no longer happen. The theorem
  `VerifierCorrect` shows that an inversion is the only way to get there.
* `grant_denied_with_grant`: an approval and a denial that both read the request
  as `requested` are both carried out; the request is denied, its grant is live.
  `DecidedOnceIsConsistent` shows that all is well with one decision.
* `exercise_challenge`: two attempts that read a challenge before either marks it
  both succeed. `ReplayBlocked` shows that an attempt that *begins* after the
  challenge was used never does.
* `start_marked`: a start that ends between the baseline and its mark leaves a database
  that the next one takes for an older one and adopts, marking what was never executed.
  `StartsTrustworthy` shows that a start must be broken off, fail or overlap for this.

With a property of a module that no run checks because it does not hold (TLC finds each
violated; the first three have a configuration, section 4):

* `WalkSeesAll`: the inversion hides an event from a client that pages.
* `RequesterNeverDenies`: only approval compares requester and operator.
* `OneAnchorPerDay`: two runs pass the guard of the day before either writes its
  record. `DoublePayments` shows that this, and a transaction that is taken
  although its run reports a failure, are the only ways to pay twice for a day.
* `ReopenedKeepsDecision`: the decision was overwritten before the reopening keeps it.
* `AnnouncedHappened`: a webhook tells of an approval whose commit then fails.
* `FailuresAreAlone`: the commit of an attempt whose answer is lost leaves the decision and,
  beside it, the row of a failure.
* `TamperingIsDetected`: a bundle that is altered together with the hash in it is valid.
* `HonestEvidenceIsValid`: a bundle built after its request was revoked is invalid,
  although nobody altered it. `FailureIsAGap`: a failed execution may be clear.
* `BlockedHasCause`: no dossier ends ready, and one without a cause ends blocked.
* `AboveLimitBlocks`: an amount above the maximum in another currency warns only.
* `AlteredNeverVerifies`: a renewal signs what it reads, also what was altered.
  `RenewalsAreLinked`: two renewals at once both name the date that they read.
  `FilesArePair`: two first starts leave the halves of two pairs.
* `MintsOnlyWhileLive`: a request that read a key before the erasure of its user makes a
  key after it. `EventsInTenant`: the event of a key made by a key names its workspace for
  its tenant.

* `LaterGrantStillApproves`: a grant whose timestamps have no offset, which creation and
  renewal accept, ends the evaluation with an exception, and a grant behind it that
  authorises the attempt is not asked. `AnsweredByTheGrants` shows that nothing else does.

Three more are about documents only: deliveries that fail three times are not moved to the
dead-letter queue, an OPA that is out of reach does not allow the request, and an amount
that is NaN needs no approval although the rules are called fail-closed.

## 8. What is not modelled, and why

Every component is listed in `PROJECT.json` with its status.

* **Agent permissions**: pure functions from static profiles to a list; a table of
  their results would be the functions over again.
* **Anchoring configuration, administration, configuration, logging**: environment
  variables that are checked one by one, pages and log lines, with no state that two
  actors share.
* **Grant templates**: rows that are created, versioned and deactivated one at a time;
  nothing else reads them.
* **OPA and e-mail**: external services; that they refuse or fail is part of the
  callers.
* **Cryptography, parsing, identity tokens**: taken to be sound (`GrantSigning` models
  which key signs and which is found, not Ed25519).
* **Matching and constraints between the transactions of an attempt**: in `Exercise` all
  grants match the attempt; what a grant decides alone is in `PolicyEngine`, which in turn
  leaves out what happens while an attempt is under way.
* **The SQLite append path**: a process-local lock that is released before the caller
  commits; the deployment is on PostgreSQL.
* **Event loops beyond the locks of calls and attempts**: `EventLoop` has what may wait for
  each other; that a blocked loop also delays deliveries, probes and other requests of its
  process is left to fairness (section 5).
* **The static admin token**: it does not change while the program runs; only its absence
  matters to `Sessions`.
* **Clocks that differ between workers**: the rate limiter takes each worker's own time; the
  model has one.
* **PostgreSQL's migrations**: provisioned by Alembic, outside `run_migrations`.
* **The dead-letter queue**: no job reaches it, since `attempt` stays 0.
* **The public export endpoint, the SDK, examples, scripts, the front end, and
  `webhooks/service.py`** (which has no caller).
* **Within components**: challenges that do not match the attempt, owners who
  create grants, burst limits, roles and approvals of policy packs (never enforced).
