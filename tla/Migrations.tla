----------------------------- MODULE Migrations -----------------------------
(***************************************************************************)
(* The migration runner of SQLite databases: processes that start, at once *)
(* or one after the other, on a database that is fresh, older than the     *)
(* runner, or Alembic's.  SQLite commits a statement that changes the      *)
(* schema at once; from the first statement that changes rows on, all that *)
(* is left of a migration is one transaction.  A step is what is committed *)
(* together.                                                               *)
(***************************************************************************)
EXTENDS Integers, Sequences

CONSTANTS Starter,
          Shipped   \* the migrations there are, in order

\* once: apply returns when the effect of its first step is there; otherwise every step
\* looks for its own effect.  edits: the last step updates rows of audit_events.
Checked(steps) == [steps |-> steps, once |-> FALSE, edits |-> FALSE]
Once(steps)    == [steps |-> steps, once |-> TRUE, edits |-> FALSE]

Baseline        == Checked(<<"grants", "baseline tables">>)
Evidence        == Checked(<<"archives", "hashes">>)
EvidenceStatus  == Checked(<<"verification columns">>)
Provenance      == Checked(<<"provenance", "provenance indexes">>)
AuditTriggers   == Checked(<<"no update", "no delete">>)
AuditHashChain  == Checked(<<"row_hash", "prev_hash">>)
TokenLookup     == Checked(<<"token_lookup_hash", "lookup index">>)
TokenExpiry     == Checked(<<"expires_at", "rotated_at">>)
TenantIsolation == Checked(<<"tenant columns", "tenant indexes">>)
WorkspaceTables == Checked(<<"workspaces", "workspace indexes", "demo workspace">>)
WorkspaceIds    == Checked(<<"workspace ids">>)
AuditSeq        == [Once(<<"seq", "seq of old rows">>) EXCEPT !.edits = TRUE]
Subscriptions   == Once(<<"webhook_subscriptions", "subscription indexes">>)
Deliveries      == Once(<<"webhook_deliveries", "delivery indexes">>)
PlanTier        == Checked(<<"plan_tier", "rate_limit_override">>)
KeyTable        == Once(<<"api_keys", "api key indexes">>)
TemplateTable   == Once(<<"grant_templates", "template indexes">>)
AuditNotNull    == Once(<<"workspace_id not null">>)
ReasonCode      == Checked(<<"reason_code">>)
KeySubject      == Checked(<<"subject">>)
ViolationColumn == Checked(<<"constraint violation">>)
GrantConstraint == Checked(<<"constraints">>)
CanonicalGuard  == Checked(<<"canonical insert">>)

\* One is left out, which does nothing to SQLite (0008).
AllMigrations ==
    <<Baseline, Evidence, EvidenceStatus, Provenance, AuditTriggers, AuditHashChain,
      TokenLookup, TokenExpiry, TenantIsolation, WorkspaceTables, WorkspaceIds, AuditSeq,
      Subscriptions, Deliveries, PlanTier, KeyTable, TemplateTable, AuditNotNull,
      ReasonCode, KeySubject, ViolationColumn, GrantConstraint, CanonicalGuard>>

\* Shipped is AllMigrations or leaves some out; the baseline is always the first.
ASSUME ShippedAssumption ==
    /\ Shipped \in Seq([steps : Seq(STRING) \ {<<>>}, once : BOOLEAN, edits : BOOLEAN])
    /\ Shipped # <<>> /\ Shipped[1] = Baseline
    /\ \A v \in DOMAIN Shipped : \E w \in DOMAIN AllMigrations : Shipped[v] = AllMigrations[w]

Version   == DOMAIN Shipped
Steps(v)  == Shipped[v].steps
StepsOf(v) == {Steps(v)[i] : i \in DOMAIN Steps(v)}
Effects   == UNION {StepsOf(v) : v \in Version}

\* The baseline's CREATE TABLE statements have columns that later migrations look for,
\* and add to the tables of an older program.
MadeEarly == {"row_hash", "prev_hash", "token_lookup_hash", "expires_at", "rotated_at"}
Made(step) == {step} \cup IF step = "baseline tables" THEN MadeEarly \cap Effects ELSE {}

\* No two migrations have a step in common, and none that returns early has one that the
\* baseline makes.
ASSUME EffectsAssumption ==
    /\ \A v, w \in Version : v # w => StepsOf(v) \cap StepsOf(w) = {}
    /\ \A v \in Version : Shipped[v].once => StepsOf(v) \cap MadeEarly = {}

VARIABLES release,    \* release[s]: the program of process s ships 1..release[s]
          db,         \* the database
          starter,    \* starter[s]: a process in init_db, or serving
          disturbed   \* a start failed, died or was not alone (history)

migrationVars == <<release, db, starter, disturbed>>

Off == [pc |-> "off", seen |-> {}, at |-> 0, step |-> 0]

Progress == [pc : {"off", "detect", "next", "apply", "mark", "adopt", "up"},
             seen : SUBSET Version, at : Nat, step : Nat]
Database == [origin : {"fresh", "older", "alembic"}, effects : SUBSET Effects,
             marked : SUBSET Version, events : BOOLEAN]

\* The variables have their types: only versions that are shipped are marked.
MigrationTypeOK ==
    /\ release \in [Starter -> Version]
    /\ db \in Database
    /\ starter \in [Starter -> Progress]
    /\ disturbed \in BOOLEAN

\* The database of a program from before the runner has the tables of the baseline,
\* with or without the columns that came later.
MigrationInit ==
    /\ release \in [Starter -> Version]
    /\ \E origin \in {"fresh", "older", "alembic"}, events \in BOOLEAN,
          columns \in {{}, MadeEarly \cap Effects} :
          /\ events => origin # "fresh"
          /\ db = [origin |-> origin, marked |-> {}, events |-> events,
                   effects |-> IF origin = "fresh" THEN {} ELSE StepsOf(1) \cup columns]
    /\ starter = [s \in Starter |-> Off]
    /\ disturbed = FALSE

Starting(s) == starter[s].pc \notin {"off", "up"}

Goto(s, pc) == starter' = [starter EXCEPT ![s].pc = pc]

\* init_db raises: the process ends, and what it has committed stays.
FailStart(s) ==
    /\ starter' = [starter EXCEPT ![s] = Off]
    /\ disturbed' = TRUE
    /\ UNCHANGED <<release, db>>

------------------------------------------------------------------------------
(* init_db, run_migrations                                                  *)

\* Alembic's databases are left alone.
ReadTracker(s) ==
    /\ starter[s].pc = "off"
    /\ IF db.origin = "alembic" THEN Goto(s, "up")
       ELSE starter' = [starter EXCEPT ![s] = [Off EXCEPT !.pc = "detect", !.seen = db.marked]]
    /\ disturbed' = (disturbed \/ \E t \in Starter : Starting(t))
    /\ UNCHANGED <<release, db>>

LooksOlder(s) == starter[s].seen = {} /\ "grants" \in db.effects

BaselineFound == StepsOf(1) \subseteq db.effects

Detect(s) ==
    /\ starter[s].pc = "detect"
    /\ LooksOlder(s) => BaselineFound
    /\ Goto(s, IF LooksOlder(s) THEN "adopt" ELSE "next")
    /\ UNCHANGED <<release, db, disturbed>>

Refused(s) == starter[s].pc = "detect" /\ LooksOlder(s) /\ ~BaselineFound /\ FailStart(s)

Current(s) == starter[s].at + 1

Skips(v, s) == v \in starter[s].seen

\* apply finds its work done.
Returns(v) == Shipped[v].once /\ Steps(v)[1] \in db.effects

NextMigration(s) ==
    /\ starter[s].pc = "next"
    /\ LET v == Current(s) IN
       starter' = [starter EXCEPT ![s] =
           IF starter[s].at = release[s] THEN [@ EXCEPT !.pc = "up"]
           ELSE IF Skips(v, s) THEN [@ EXCEPT !.at = v]
           ELSE IF Returns(v) THEN [@ EXCEPT !.pc = "mark"]
           ELSE [@ EXCEPT !.pc = "apply", !.step = 1]]
    /\ UNCHANGED <<release, db, disturbed>>

\* Mutant: the last step of a migration is left out.
AppliedEarly(s) == starter[s].step >= Len(Steps(Current(s)))

Applied(s) == starter[s].step > Len(Steps(Current(s)))

\* A trigger refuses any update of audit_events; a table or a column that another
\* process has made meanwhile cannot be made again.
Blocked(s) ==
    LET v == Current(s)
        step == starter[s].step IN
    \/ /\ Shipped[v].edits /\ step = Len(Steps(v))
       /\ "no update" \in db.effects /\ db.events
    \/ Shipped[v].once /\ step = 1 /\ Steps(v)[1] \in db.effects

ApplyStep(s) ==
    /\ starter[s].pc = "apply" /\ ~Applied(s) /\ ~Blocked(s)
    /\ db' = [db EXCEPT !.effects = @ \cup Made(Steps(Current(s))[starter[s].step])]
    /\ starter' = [starter EXCEPT ![s].step = @ + 1]
    /\ UNCHANGED <<release, disturbed>>

ApplyEnds(s) ==
    /\ starter[s].pc = "apply" /\ Applied(s)
    /\ starter' = [starter EXCEPT ![s].pc = "mark", ![s].step = 0]
    /\ UNCHANGED <<release, db, disturbed>>

ApplyFails(s) == starter[s].pc = "apply" /\ ~Applied(s) /\ Blocked(s) /\ FailStart(s)

\* The version is the primary key of schema_migrations.
MarkApplied(s, pc) ==
    LET v == Current(s) IN
    /\ v \notin db.marked
    /\ db' = [db EXCEPT !.marked = @ \cup {v}]
    /\ starter' = [starter EXCEPT ![s].pc = pc, ![s].at = v]
    /\ UNCHANGED <<release, disturbed>>

Mark(s) == starter[s].pc = "mark" /\ MarkApplied(s, "next")

\* Every version is marked, and none is executed.
Adopt(s) ==
    /\ starter[s].pc = "adopt"
    /\ MarkApplied(s, IF Current(s) = release[s] THEN "up" ELSE "adopt")

MarkFails(s) ==
    starter[s].pc \in {"mark", "adopt"} /\ Current(s) \in db.marked /\ FailStart(s)

\* A statement fails for another reason: a locked database, a full disk.
StatementFails(s) == Starting(s) /\ FailStart(s)

------------------------------------------------------------------------------
(* Around a start                                                           *)

Stop(s) ==
    /\ starter[s].pc # "off"
    /\ starter' = [starter EXCEPT ![s] = Off]
    /\ disturbed' = (disturbed \/ Starting(s))
    /\ UNCHANGED <<release, db>>

Serve(s) ==
    /\ starter[s].pc = "up" /\ ~db.events
    /\ db' = [db EXCEPT !.events = TRUE]
    /\ UNCHANGED <<release, starter, disturbed>>

\* A process that is off comes back with any release, the others running theirs: an
\* upgrade of one process after the other, or one that is taken back.
Deploy(s) ==
    /\ starter[s].pc = "off"
    /\ \E v \in Version \ {release[s]} : release' = [release EXCEPT ![s] = v]
    /\ UNCHANGED <<db, starter, disturbed>>

MigrationNext ==
    \E s \in Starter :
       \/ ReadTracker(s) \/ Detect(s) \/ Refused(s) \/ NextMigration(s)
       \/ ApplyStep(s) \/ ApplyEnds(s) \/ ApplyFails(s)
       \/ Mark(s) \/ Adopt(s) \/ MarkFails(s) \/ StatementFails(s)
       \/ Stop(s) \/ Serve(s) \/ Deploy(s)

MigrationSpec == MigrationInit /\ [][MigrationNext]_migrationVars

------------------------------------------------------------------------------
(* Properties                                                               *)

\* schema_migrations tells what was executed (run_migrations, _mark_applied): in a
\* database that was fresh, whatever the releases that ran on it.
MarkedMeansExecuted ==
    db.origin = "fresh" => \A v \in db.marked : StepsOf(v) \subseteq db.effects

\* It does if every start ended and was alone, and a process that serves has every
\* migration of its release in the table: no other start has marked one for it without
\* its own ending (run_migrations).
StartIsTrustworthy ==
    /\ ~disturbed => MarkedMeansExecuted
    /\ db.origin # "alembic" =>
          \A s \in Starter : starter[s].pc = "up" => 1..release[s] \subseteq db.marked
============================================================================
