----------------------------- MODULE AuditChain ------------------------------
(***************************************************************************)
(* The append path of the audit hash chain on PostgreSQL: append_event     *)
(* called inside the transaction of a request handler.                     *)
(*                                                                         *)
(* A handler builds an AuditEvent (its timestamp is taken then), and       *)
(* append_event takes a transaction-scoped advisory lock, reads the row    *)
(* hash of the latest row, computes the new row hash over it and inserts   *)
(* the row, whose seq comes from a database sequence.  The handler may     *)
(* append more events before it commits or rolls back; only then is the    *)
(* lock released.                                                          *)
(*                                                                         *)
(* A row is identified by its seq, which no two inserted rows share, and   *)
(* its row_hash by the row: prev is the seq of the row whose row_hash is   *)
(* stored in prev_hash, 0 for none.  The hash is taken to be injective.    *)
(***************************************************************************)
EXTENDS Naturals, FiniteSets

CONSTANTS Tx,         \* transactions of request handlers that append events
          Workspace,  \* workspaces that the events are attributed to
          Nobody,     \* the value of the advisory lock when nobody holds it
          MaxClock,   \* bound: last value of the wall clock
          MaxSeq,     \* bound: how many seq values are handed out
          MaxBatch    \* bound: events that one transaction appends

ASSUME NobodyAssumption == Nobody \notin Tx
ASSUME BoundsAssumption == MaxClock \in Nat /\ MaxSeq \in Nat /\ MaxBatch \in Nat

VARIABLES clock,     \* wall clock behind AuditEvent.timestamp
          nextSeq,   \* next value of the sequence behind audit_events.seq
          rows,      \* committed rows of audit_events
          pending,   \* pending[t]: rows that t inserted and has not committed
          lock,      \* holder of the advisory lock
          pc,        \* pc[t]: where t is inside append_event
          event,     \* event[t]: timestamp and workspace of t's new event
          tail,      \* tail[t]: the prev_hash that t read
          anchored   \* anchored[w]: rows folded into w's last anchored head

vars == <<clock, nextSeq, rows, pending, lock, pc, event, tail, anchored>>

Time  == 0 .. MaxClock
Row   == [seq : Nat \ {0}, ts : Nat, prev : Nat, ws : Workspace]
Event == [ts : Nat, ws : Workspace]
Step  == {"idle", "built", "locked", "read", "inserted"}

------------------------------------------------------------------------------
\* ORDER BY timestamp DESC, seq DESC puts a before b.
Later(a, b) == a.ts > b.ts \/ (a.ts = b.ts /\ a.seq >= b.seq)

\* h is what the tail query returns on the rows S.
IsLatest(h, S) ==
    \/ S = {} /\ h = 0
    \/ \E r \in S : r.seq = h /\ \A q \in S : Later(r, q)

\* Mutant of Visible: the tail is read outside the caller's transaction.
VisibleCommittedOnly(t) == rows

\* The rows that a statement of t's transaction sees.
Visible(t) == rows \cup pending[t]

\* Mutant of WorkspaceRows: the export reads rows that are not committed yet.
WorkspaceRowsDirty(w) == {r \in rows \cup UNION {pending[t] : t \in Tx} : r.ws = w}

\* The anchor export of one workspace; the fold runs over it in seq order.
WorkspaceRows(w) == {r \in rows : r.ws = w}

------------------------------------------------------------------------------
\* An empty table.  The sequence of a database goes on from wherever the
\* migration set it; the model counts from there.
Init ==
    /\ clock = 0
    /\ nextSeq = 1
    /\ rows = {}
    /\ pending = [t \in Tx |-> {}]
    /\ lock = Nobody
    /\ pc = [t \in Tx |-> "idle"]
    /\ event \in [Tx -> [ts : {0}, ws : Workspace]]
    /\ tail = [t \in Tx |-> 0]
    /\ anchored = [w \in Workspace |-> {}]

Tick ==
    /\ clock < MaxClock
    /\ clock' = clock + 1
    /\ UNCHANGED <<nextSeq, rows, pending, lock, pc, event, tail, anchored>>

\* Bounding aid: the first seq that no event on its way to its insert will take.
NextFreeSeq == nextSeq + Cardinality({t \in Tx : pc[t] \in {"built", "locked", "read"}})

\* The handler constructs the AuditEvent: timestamp = now.
BuildEvent(t, w) ==
    /\ pc[t] \in {"idle", "inserted"}
    /\ Cardinality(pending[t]) < MaxBatch
    /\ NextFreeSeq <= MaxSeq
    /\ event' = [event EXCEPT ![t] = [ts |-> clock, ws |-> w]]
    /\ pc' = [pc EXCEPT ![t] = "built"]
    /\ UNCHANGED <<clock, nextSeq, rows, pending, lock, tail, anchored>>

\* Mutant of AcquireLock: no lock is taken around the read and the insert.
AcquireLockNoWait(t) ==
    /\ pc[t] = "built"
    /\ lock' = t
    /\ pc' = [pc EXCEPT ![t] = "locked"]
    /\ UNCHANGED <<clock, nextSeq, rows, pending, event, tail, anchored>>

\* SELECT pg_advisory_xact_lock(key): waits while another transaction holds it.
AcquireLock(t) ==
    /\ pc[t] = "built"
    /\ lock \in {Nobody, t}
    /\ lock' = t
    /\ pc' = [pc EXCEPT ![t] = "locked"]
    /\ UNCHANGED <<clock, nextSeq, rows, pending, event, tail, anchored>>

ReadTail(t) ==
    /\ pc[t] = "locked"
    /\ \E h \in {0} \cup {r.seq : r \in Visible(t)} :
          /\ IsLatest(h, Visible(t))
          /\ tail' = [tail EXCEPT ![t] = h]
    /\ pc' = [pc EXCEPT ![t] = "read"]
    /\ UNCHANGED <<clock, nextSeq, rows, pending, lock, event, anchored>>

Insert(t) ==
    /\ pc[t] = "read"
    /\ pending' = [pending EXCEPT ![t] = @ \cup
          {[seq |-> nextSeq, ts |-> event[t].ts, prev |-> tail[t], ws |-> event[t].ws]}]
    /\ nextSeq' = nextSeq + 1
    /\ pc' = [pc EXCEPT ![t] = "inserted"]
    /\ UNCHANGED <<clock, rows, lock, event, tail, anchored>>

\* The end of a transaction gives the lock back.
EndTx(t) ==
    /\ pending' = [pending EXCEPT ![t] = {}]
    /\ lock' = IF lock = t THEN Nobody ELSE lock
    /\ pc' = [pc EXCEPT ![t] = "idle"]
    /\ UNCHANGED <<clock, nextSeq, event, tail, anchored>>

Commit(t) ==
    /\ pc[t] = "inserted"
    /\ rows' = rows \cup pending[t]
    /\ EndTx(t)

\* An exception in the handler, a failed statement, a lost worker.
Rollback(t) ==
    /\ pc[t] # "idle"
    /\ EndTx(t)
    /\ UNCHANGED rows

\* anchor_head(w): the head over all committed rows of the workspace.
Anchor(w) ==
    /\ anchored' = [anchored EXCEPT ![w] = WorkspaceRows(w)]
    /\ UNCHANGED <<clock, nextSeq, rows, pending, lock, pc, event, tail>>

Next ==
    \/ Tick
    \/ \E t \in Tx, w \in Workspace : BuildEvent(t, w)
    \/ \E t \in Tx : \/ AcquireLock(t) \/ ReadTail(t) \/ Insert(t)
                     \/ Commit(t) \/ Rollback(t)
    \/ \E w \in Workspace : Anchor(w)

Spec == Init /\ [][Next]_vars

------------------------------------------------------------------------------
\* Every variable has its type: rows and pending hold rows, the lock a
\* transaction or nobody.
TypeOK ==
    /\ clock \in Nat
    /\ nextSeq \in Nat \ {0}
    /\ rows \subseteq Row
    /\ pending \in [Tx -> SUBSET Row]
    /\ lock \in Tx \cup {Nobody}
    /\ pc \in [Tx -> Step]
    /\ event \in [Tx -> Event]
    /\ tail \in [Tx -> Nat]
    /\ anchored \in [Workspace -> SUBSET Row]

\* Rows before r in seq order.
Before(r, S) == {q \in S : q.seq < r.seq}

\* Every committed row is linked to the row that was the latest by (timestamp,
\* seq) of the rows before it: no two transactions read the same tail, and none
\* links to a row that is rolled back later (_append_event_postgres_with_conn).
LinkIsTail == \A r \in rows : IsLatest(r.prev, Before(r, rows))

\* LinkIsTail strengthened to an inductive invariant: only the holder of the
\* lock has uncommitted rows, they lie above every committed row, they are
\* linked as the committed ones are, and a tail once read stays the tail.
ChainInv ==
    /\ TypeOK
    /\ \A t \in Tx : \A r \in Visible(t) : r.seq < nextSeq
    /\ \A t \in Tx : \A r \in pending[t], q \in rows : q.seq < r.seq
    /\ \A t \in Tx : pc[t] \in {"locked", "read", "inserted"} \/ pending[t] # {}
                       => lock = t
    /\ \A t \in Tx : \A r \in pending[t] : IsLatest(r.prev, Before(r, Visible(t)))
    /\ \A t \in Tx : pc[t] = "read" => IsLatest(tail[t], Visible(t))
    /\ LinkIsTail

\* p is the row that the verifier expects before r: the one with the next
\* lower seq, none for the first row.
IsPredecessor(p, r, S) ==
    \/ Before(r, S) = {} /\ p = 0
    \/ \E q \in Before(r, S) : q.seq = p /\ \A o \in Before(r, S) : o.seq <= q.seq

\* verify_audit_hash_chain reports valid.
ChainVerifies == \A r \in rows : IsPredecessor(r.prev, r, rows)

\* No row carries an older timestamp than a row inserted before it.
TimestampsFollowSeq == \A r, q \in rows : r.seq < q.seq => r.ts <= q.ts

\* As long as timestamps follow the insertion order the verifier reports an
\* honest chain as valid, however its writers interleave, batch and fail.
VerifiesWithoutInversion == TimestampsFollowSeq => ChainVerifies

\* A chain forks (two rows store the same prev_hash) only through a row that
\* got its timestamp before its parent did and its seq after it.
ForkMeansInversion ==
    \A a, b \in rows : a.prev = b.prev /\ a.seq < b.seq =>
        \E p \in rows : p.seq = b.prev /\ p.seq < a.seq /\ a.ts < p.ts

\* A head that was anchored stays the head of a prefix of the workspace's
\* export: no row ever appears before or between the rows it covers.
AnchorIsPrefix ==
    \A w \in Workspace :
        /\ anchored[w] \subseteq rows
        /\ \A r \in WorkspaceRows(w) \ anchored[w], a \in anchored[w] : a.seq < r.seq

Ledger == INSTANCE AuditLedger WITH ledger <- rows

\* The chain implements the abstract ledger: it grows by whole transactions,
\* in seq order, and keeps no link to a row that never committed.
ImplementsLedger == Ledger!Spec
==============================================================================
