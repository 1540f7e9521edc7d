---------------------------- MODULE GrantRequests ----------------------------
(***************************************************************************)
(* The grant request workflow: requests are submitted, approved (which     *)
(* creates a signed grant), denied, revoked or expired, one at a time or   *)
(* in bulk, and grants are revoked directly, by calls that run             *)
(* concurrently.  A call reads the request, checks it and then writes,     *)
(* appends its audit event and commits, all in one READ COMMITTED          *)
(* transaction of PostgreSQL.  The webhooks that it dispatches before the  *)
(* commit are not part of the model.                                       *)
(*                                                                         *)
(* Uncommitted writes are private to the call: mine[c] holds the rows that *)
(* c changed and the audit events that it appended.  c has a lock on each  *)
(* row in mine[c], and the advisory lock of the audit chain once it        *)
(* appended an event; both last to the end of its transaction.             *)
(***************************************************************************)
EXTENDS Naturals, Sequences, FiniteSets, SequencesExt

CONSTANTS Call,       \* calls of the service, each with a session of its own
          Request,    \* grant requests
          Operator,   \* operators that request and decide
          Nobody,     \* no operator
          Ops,        \* the operations that calls run, a subset of AllOps
          BulkSizes   \* how many ids a bulk call carries: {} for no bulk calls

AllOps  == {"approve", "deny", "revoke", "expire", "revoke_grant"}
BulkOps == {"approve", "deny", "revoke_grant"}

ASSUME OpsAssumption == Ops \subseteq AllOps /\ BulkSizes \subseteq Nat \ {0}
ASSUME NobodyAssumption == Nobody \notin Operator
ASSUME RequestAssumption == IsFiniteSet(Request)

VARIABLES requests,  \* committed rows of grant_requests
          aged,      \* requests whose created_at is older than 24 hours
          grants,    \* committed rows of grants
          audit,     \* committed audit events
          pc,        \* pc[c]: what c does next
          job,       \* job[c]: operation, operator and targets left to process
          mine       \* mine[c]: uncommitted writes of c

vars == <<requests, aged, grants, audit, pc, job, mine>>

\* The grant that c creates for r.  A request is never "requested" again once
\* a decision on it is committed, so c commits at most one.
Grant   == Call \X Request
NoGrant == <<>>

Status == {"absent", "requested", "approved", "denied", "revoked", "expired"}
Row    == [status : Status, requester : Operator \cup {Nobody},
           grant : Grant \cup {NoGrant}, deniedBy : Operator \cup {Nobody}]
Event  == [kind : AllOps \cup {"bulk"}, target : Request \cup Grant \cup {NoGrant},
           by : Call]
Step   == {"idle", "read", "grant", "write", "audit", "summary", "commit", "done"}

Job    == [op : AllOps \cup {"none"}, bulk : BOOLEAN, by : Operator \cup {Nobody},
           todo : Seq(Request) \cup Seq(Grant), seen : Grant \cup {NoGrant}]
Writes == [req : UNION {[R -> Row] : R \in SUBSET Request},
           grant : UNION {[G -> {"live", "revoked"}] : G \in SUBSET Grant},
           audit : SUBSET Event]

Put(f, x, v) == [y \in DOMAIN f \cup {x} |-> IF y = x THEN v ELSE f[y]]
Over(f, g)   == [y \in DOMAIN f |-> IF y \in DOMAIN g THEN g[y] ELSE f[y]]

Empty == [x \in {} |-> x]
NoWrites == [req |-> Empty, grant |-> Empty, audit |-> {}]
NoJob    == [op |-> "none", bulk |-> FALSE, by |-> Nobody, todo |-> <<>>, seen |-> NoGrant]

\* What c's statements see: the committed rows and its own writes.
RequestsOf(c) == Over(requests, mine[c].req)
GrantsOf(c)   == Over(grants, mine[c].grant)

\* Locks that another transaction holds.
RequestLocked(c, r) == \E o \in Call \ {c} : r \in DOMAIN mine[o].req
GrantLocked(c, g)   == \E o \in Call \ {c} : g \in DOMAIN mine[o].grant
ChainLocked(c)      == \E o \in Call \ {c} : mine[o].audit # {}

Target(c)   == Head(job[c].todo)
More(c)     == Len(job[c].todo) > 1
FirstStep(c) == IF job[c].op = "revoke_grant" THEN "grant" ELSE "read"

\* Where c goes when it is done with a target: to the next one, in bulk calls
\* to the audit event of the call, and else to the commit.
AfterTarget(c) == IF More(c) THEN FirstStep(c)
                  ELSE IF job[c].bulk THEN "summary" ELSE "commit"

------------------------------------------------------------------------------
Init ==
    /\ requests = [r \in Request |-> [status |-> "absent", requester |-> Nobody,
                                      grant |-> NoGrant, deniedBy |-> Nobody]]
    /\ aged = {}
    /\ grants = [g \in Grant |-> "none"]
    /\ audit = {}
    /\ pc = [c \in Call |-> "idle"]
    /\ job = [c \in Call |-> NoJob]
    /\ mine = [c \in Call |-> NoWrites]

\* POST /grant-requests: one INSERT, committed at the end of the call.
Submit(r, o) ==
    /\ requests[r].status = "absent"
    /\ requests' = [requests EXCEPT ![r].status = "requested", ![r].requester = o]
    /\ UNCHANGED <<aged, grants, audit, pc, job, mine>>

\* 24 hours pass since the request was created.
Age(r) ==
    /\ requests[r].status # "absent"
    /\ r \notin aged
    /\ aged' = aged \cup {r}
    /\ UNCHANGED <<requests, grants, audit, pc, job, mine>>

\* A call arrives, for one id or, in bulk, for several.
Start(c, op, bulk, o, todo) ==
    /\ pc[c] = "idle"
    /\ job' = [job EXCEPT ![c] = [op |-> op, bulk |-> bulk, by |-> o,
                                  todo |-> todo, seen |-> NoGrant]]
    /\ pc' = [pc EXCEPT ![c] = IF op = "revoke_grant" THEN "grant" ELSE "read"]
    /\ UNCHANGED <<requests, aged, grants, audit, mine>>

\* expire_old_requests lists the pending requests past the cutoff.
StartExpire(c) ==
    LET old == {r \in aged : requests[r].status = "requested"}
    IN  /\ pc[c] = "idle"
        /\ old # {}
        /\ \E todo \in SetToSeqs(old) :
              job' = [job EXCEPT ![c] = [op |-> "expire", bulk |-> FALSE, by |-> Nobody,
                                         todo |-> todo, seen |-> NoGrant]]
        /\ pc' = [pc EXCEPT ![c] = "write"]
        /\ UNCHANGED <<requests, aged, grants, audit, mine>>

\* Mutant: the session is not given back, and its locks stay.
EndTxKeepsLocks(c) ==
    /\ job' = [job EXCEPT ![c] = NoJob]
    /\ pc' = [pc EXCEPT ![c] = "done"]
    /\ UNCHANGED <<mine, aged>>

EndTx(c) ==
    /\ mine' = [mine EXCEPT ![c] = NoWrites]
    /\ job' = [job EXCEPT ![c] = NoJob]
    /\ pc' = [pc EXCEPT ![c] = "done"]
    /\ UNCHANGED <<aged>>

\* The checks of approve_request, deny_request and revoke_request on the row
\* that they read.
Allowed(c, r) ==
    LET row == RequestsOf(c)[r]
    IN  CASE job[c].op = "approve" -> /\ row.status = "requested"
                                      /\ r \notin aged
                                      /\ row.requester # job[c].by
          [] job[c].op = "deny"    -> row.status = "requested"
          [] job[c].op = "revoke"  -> row.status = "approved"

\* Mutant: the revocation of a request leaves its grant alone.
ReadRequestKeepsGrant(c) ==
    /\ pc[c] = "read"
    /\ Allowed(c, Target(c))
    /\ job' = [job EXCEPT ![c].seen = RequestsOf(c)[Target(c)].grant]
    /\ pc' = [pc EXCEPT ![c] = "write"]
    /\ UNCHANGED <<requests, aged, grants, audit, mine>>

\* Mutant: the audit event is appended first, by every decision.
ReadRequestAuditsFirst(c) ==
    /\ pc[c] = "read"
    /\ Allowed(c, Target(c))
    /\ ~ChainLocked(c)
    /\ mine' = [mine EXCEPT ![c].audit = {[kind |-> job[c].op, target |-> Target(c), by |-> c]}]
    /\ job' = [job EXCEPT ![c].seen = RequestsOf(c)[Target(c)].grant]
    /\ pc' = [pc EXCEPT ![c] = IF job[c].op = "revoke" /\ job'[c].seen # NoGrant
                                THEN "grant" ELSE "write"]
    /\ UNCHANGED <<requests, aged, grants, audit>>

\* The call reads the request and passes the checks.
ReadRequest(c) ==
    /\ pc[c] = "read"
    /\ Allowed(c, Target(c))
    /\ job' = [job EXCEPT ![c].seen = RequestsOf(c)[Target(c)].grant]
    /\ pc' = [pc EXCEPT ![c] = IF job[c].op = "revoke" /\ job'[c].seen # NoGrant
                                THEN "grant" ELSE "write"]
    /\ UNCHANGED <<requests, aged, grants, audit, mine>>

\* Mutant: what was done before the failing id is committed.
RefuseKeepsDone(c) ==
    /\ pc[c] = "read"
    /\ ~Allowed(c, Target(c))
    /\ requests' = RequestsOf(c)
    /\ grants' = GrantsOf(c)
    /\ audit' = audit \cup mine[c].audit
    /\ EndTx(c)

\* A check fails: ValueError, and the whole transaction is rolled back, in
\* bulk calls with the targets already processed.
Refuse(c) ==
    /\ pc[c] = "read"
    /\ ~Allowed(c, Target(c))
    /\ EndTx(c)
    /\ UNCHANGED <<requests, grants, audit>>

\* UPDATE grants SET revoked = 1 WHERE id = g AND revoked = 0.  A grant that is
\* revoked already is not touched, and revoke_grant is done with it.
UpdateGrant(c) ==
    LET direct == job[c].op = "revoke_grant"
        g == IF direct THEN Target(c) ELSE job[c].seen
        hit == GrantsOf(c)[g] = "live"
        skipped == direct /\ ~hit
    IN  /\ pc[c] = "grant"
        /\ ~GrantLocked(c, g)
        /\ mine' = IF hit THEN [mine EXCEPT ![c].grant = Put(@, g, "revoked")] ELSE mine
        /\ pc' = [pc EXCEPT ![c] = IF skipped THEN AfterTarget(c)
                                    ELSE IF direct THEN "audit" ELSE "write"]
        /\ job' = IF skipped THEN [job EXCEPT ![c].todo = Tail(@)] ELSE job
        /\ UNCHANGED <<requests, aged, grants, audit>>

\* Mutant: a revoked request may be decided again.
MarkedReopening(c, row) ==
    CASE job[c].op = "approve" -> [row EXCEPT !.status = "approved", !.grant = <<c, Target(c)>>]
      [] job[c].op = "deny"    -> [row EXCEPT !.status = "denied", !.deniedBy = job[c].by]
      [] job[c].op = "revoke"  -> [row EXCEPT !.status = "requested"]
      [] job[c].op = "expire"  -> [row EXCEPT !.status = "expired"]

\* The row that mark_approved, mark_denied, mark_revoked or mark_expired leaves:
\* UPDATE grant_requests ... WHERE id = r, whatever the status is by now.
Marked(c, row) ==
    CASE job[c].op = "approve" -> [row EXCEPT !.status = "approved", !.grant = <<c, Target(c)>>]
      [] job[c].op = "deny"    -> [row EXCEPT !.status = "denied", !.deniedBy = job[c].by]
      [] job[c].op = "revoke"  -> [row EXCEPT !.status = "revoked"]
      [] job[c].op = "expire"  -> [row EXCEPT !.status = "expired"]

\* Approval inserts the grant, then every operation updates the request.
UpdateRequest(c) ==
    LET r == Target(c)
        inserted == IF job[c].op = "approve" THEN Put(mine[c].grant, <<c, r>>, "live")
                                             ELSE mine[c].grant
        next == IF job[c].op = "expire" /\ More(c) THEN "write" ELSE "audit"
    IN  /\ pc[c] = "write"
        /\ ~RequestLocked(c, r)
        /\ mine' = [mine EXCEPT ![c].req = Put(@, r, Marked(c, RequestsOf(c)[r])),
                                ![c].grant = inserted]
        /\ pc' = [pc EXCEPT ![c] = next]
        /\ job' = IF next = "write" THEN [job EXCEPT ![c].todo = Tail(@)] ELSE job
        /\ UNCHANGED <<requests, aged, grants, audit>>

\* What c's next audit events are about; expire_old_requests appends the events
\* of all its requests after the last update.
Audited(c) == IF job[c].op = "expire" THEN DOMAIN mine[c].req ELSE {Target(c)}

Events(c) == [kind : {job[c].op}, target : Audited(c), by : {c}]

\* append_event under the advisory lock, then the next target.
AppendAudit(c) ==
    /\ pc[c] = "audit"
    /\ ~ChainLocked(c)
    /\ mine' = [mine EXCEPT ![c].audit = @ \cup Events(c)]
    /\ job' = [job EXCEPT ![c].todo = Tail(@)]
    /\ pc' = [pc EXCEPT ![c] = AfterTarget(c)]
    /\ UNCHANGED <<requests, aged, grants, audit>>

\* A bulk call appends one more event, about the call.
AppendSummary(c) ==
    /\ pc[c] = "summary"
    /\ ~ChainLocked(c)
    /\ mine' = [mine EXCEPT ![c].audit =
                   @ \cup {[kind |-> "bulk", target |-> NoGrant, by |-> c]}]
    /\ pc' = [pc EXCEPT ![c] = "commit"]
    /\ UNCHANGED <<requests, aged, grants, audit, job>>

\* Mutant: the audit events are in a transaction of their own, which is lost.
CommitWithoutAudit(c) ==
    /\ pc[c] = "commit"
    /\ requests' = RequestsOf(c)
    /\ grants' = GrantsOf(c)
    /\ UNCHANGED audit
    /\ EndTx(c)

Commit(c) ==
    /\ pc[c] = "commit"
    /\ requests' = RequestsOf(c)
    /\ grants' = GrantsOf(c)
    /\ audit' = audit \cup mine[c].audit
    /\ EndTx(c)

\* A failed statement or commit, a lost worker or connection.
Rollback(c) ==
    /\ pc[c] \notin {"idle", "done"}
    /\ EndTx(c)
    /\ UNCHANGED <<requests, grants, audit>>

\* The calls whose locks c waits for.
Blockers(c) ==
    {o \in Call \ {c} :
        \/ pc[c] = "grant" /\ (IF job[c].op = "revoke_grant" THEN Target(c) ELSE job[c].seen)
                                \in DOMAIN mine[o].grant
        \/ pc[c] = "write" /\ Target(c) \in DOMAIN mine[o].req
        \/ pc[c] \in {"audit", "summary"} /\ mine[o].audit # {}}

\* c waits for itself through other waiting calls.
InCycle(c) == \E S \in SUBSET Call :
                 c \in S /\ \A o \in S : Blockers(o) \cap S # {}

\* PostgreSQL notices that transactions wait for each other and aborts one.
DeadlockVictim(c) ==
    /\ InCycle(c)
    /\ EndTx(c)
    /\ UNCHANGED <<requests, grants, audit>>

\* The ids that calls carry; one without a row would be refused like one with the
\* wrong status.
Targets(op) == IF op = "revoke_grant" THEN {g \in Grant : grants[g] # "none"}
                                      ELSE {r \in Request : requests[r].status # "absent"}

\* One statement or check of c's transaction.
Progress(c) == \/ ReadRequest(c) \/ Refuse(c) \/ UpdateGrant(c) \/ UpdateRequest(c)
               \/ AppendAudit(c) \/ AppendSummary(c) \/ Commit(c)

Next ==
    \/ \E r \in Request, o \in Operator : Submit(r, o)
    \/ \E r \in Request : Age(r)
    \/ \E c \in Call :
          \/ \E op \in Ops \ {"expire"}, o \in Operator : \E x \in Targets(op) :
                Start(c, op, FALSE, o, <<x>>)
          \/ \E op \in Ops \cap BulkOps, o \in Operator, n \in BulkSizes :
                \E todo \in [1..n -> Targets(op)] : Start(c, op, TRUE, o, todo)
          \/ "expire" \in Ops /\ StartExpire(c)
          \/ Progress(c)
          \/ DeadlockVictim(c)
          \/ Rollback(c)

Spec == Init /\ [][Next]_vars

------------------------------------------------------------------------------
\* Every variable has its type; statuses are of VALID_REQUEST_STATUSES.
TypeOK ==
    /\ requests \in [Request -> Row]
    /\ aged \subseteq Request
    /\ grants \in [Grant -> {"none", "live", "revoked"}]
    /\ audit \subseteq Event
    /\ pc \in [Call -> Step]
    /\ job \in [Call -> Job]
    /\ mine \in [Call -> Writes]

Happened(kind, r) == \E e \in audit : e.kind = kind /\ e.target = r

\* Authority is never created, and no request decided, without its witness:
\* a grant exists exactly if the approval that created it is in the audit log,
\* and the status of a request is that of an event in the log.
DecisionsWitnessed ==
    /\ \A g \in Grant : grants[g] # "none" <=>
          [kind |-> "approve", target |-> g[2], by |-> g[1]] \in audit
    /\ \A g \in Grant : grants[g] = "revoked" =>
          Happened("revoke", g[2]) \/ Happened("revoke_grant", g)
    /\ \A r \in Request :
          /\ requests[r].status = "approved" => Happened("approve", r)
          /\ requests[r].status = "denied"   => Happened("deny", r)
          /\ requests[r].status = "revoked"  => Happened("revoke", r)
          /\ requests[r].status = "expired"  => Happened("expire", r)

GrantsFor(r) == {g \in Grant : g[2] = r /\ grants[g] # "none"}
Decisions(r) == {e \in audit : e.target = r /\ e.kind \in {"approve", "deny", "expire"}}

\* A request that was decided once has the grants that its status says: none
\* before approval and after denial or expiry, the one it names after approval,
\* and that one revoked after revocation.
DecidedOnceIsConsistent ==
    \A r \in Request : (\A d, e \in Decisions(r) : d = e) =>
        CASE requests[r].status \in {"absent", "requested", "denied", "expired"} ->
                GrantsFor(r) = {}
          [] requests[r].status = "approved" -> GrantsFor(r) = {requests[r].grant}
          [] requests[r].status = "revoked" ->
                /\ GrantsFor(r) = {requests[r].grant}
                /\ grants[requests[r].grant] = "revoked"

\* Once revoked a grant stays revoked, and a decided request stays decided,
\* whoever still holds an older copy of the row.
DecisionsAreFinal ==
    [][/\ \A g \in Grant : grants[g] = "revoked" => grants'[g] = "revoked"
       /\ \A r \in Request : requests[r].status \notin {"absent", "requested"} =>
             requests'[r].status \notin {"absent", "requested"}]_vars

\* A bulk call that changes anything did so for all its ids: a failure at a later
\* id takes back the earlier ones.
BulkIsWhole ==
    [][\A c \in Call :
          /\ job[c].bulk /\ pc'[c] = "done"
          /\ <<requests, grants, audit>>' # <<requests, grants, audit>>
          => job[c].todo = <<>>]_vars

\* Calls for one request or grant take their locks in one order (grant row, request row,
\* audit chain), whatever they decide: wherever calls wait for each other there is one
\* that works on several rows, a bulk call or expire_old_requests (revoke_request,
\* revoke_grant, mark_revoked, append_event).
CyclesNeedMany ==
    \A S \in (SUBSET Call) \ {{}} : (\A c \in S : Blockers(c) \cap S # {}) =>
        \E c \in S : job[c].bulk \/ job[c].op = "expire"

\* grant_requests.py: a denied request is "rejected without creating a grant".
DeniedWithoutGrant ==
    \A r \in Request : requests[r].status = "denied" => GrantsFor(r) = {}

\* security_boundaries.md: "Requester cannot approve or deny their own request."
RequesterNeverDenies ==
    \A r \in Request : requests[r].status = "denied" =>
        requests[r].deniedBy # requests[r].requester
==============================================================================
