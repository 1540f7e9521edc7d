-------------------------- MODULE AuditChainProofs ---------------------------
(***************************************************************************)
(* Theorems about AuditChain and AuditReaders, for every set of            *)
(* transactions and workspaces, every length of a page and every bound:    *)
(* the chain links each row to the tail that was the latest when it was    *)
(* inserted, and what follows from that for the verifier, the forks, the   *)
(* anchored heads, the abstract ledger and a client that reads page by     *)
(* page.                                                                   *)
(***************************************************************************)
EXTENDS AuditReaders, FiniteSetTheorems, Induction, TLAPS

\* The variables have their types in every reachable state.
THEOREM TypeCorrect == Spec => []TypeOK
<1>1. Init => TypeOK
  BY DEF Init, TypeOK, Row, Event, Step
<1>2. TypeOK /\ [Next]_vars => TypeOK'
  <2> SUFFICES ASSUME TypeOK, [Next]_vars
               PROVE  TypeOK'
    OBVIOUS
  <2> USE DEF TypeOK
  <2>1. CASE Tick
    BY <2>1 DEF Tick
  <2>2. ASSUME NEW t \in Tx, NEW w \in Workspace, BuildEvent(t, w)
        PROVE  TypeOK'
    BY <2>2 DEF BuildEvent, Event, Step
  <2>3. ASSUME NEW t \in Tx, AcquireLock(t)
        PROVE  TypeOK'
    BY <2>3 DEF AcquireLock, Step
  <2>4. ASSUME NEW t \in Tx, ReadTail(t)
        PROVE  TypeOK'
    <3>1. PICK h \in {0} \cup {r.seq : r \in Visible(t)} :
              tail' = [tail EXCEPT ![t] = h]
      BY <2>4 DEF ReadTail
    <3>2. h \in Nat
      BY DEF Visible, Row
    <3> QED
      BY <2>4, <3>1, <3>2 DEF ReadTail, Step
  <2>5. ASSUME NEW t \in Tx, Insert(t)
        PROVE  TypeOK'
    <3>1. [seq |-> nextSeq, ts |-> event[t].ts, prev |-> tail[t], ws |-> event[t].ws] \in Row
      BY DEF Row, Event
    <3>2. pending' \in [Tx -> SUBSET Row]
      BY <2>5, <3>1 DEF Insert
    <3> QED
      BY <2>5, <3>2 DEF Insert, Step
  <2>6. ASSUME NEW t \in Tx, Commit(t)
        PROVE  TypeOK'
    BY <2>6 DEF Commit, EndTx, Step
  <2>7. ASSUME NEW t \in Tx, Rollback(t)
        PROVE  TypeOK'
    BY <2>7 DEF Rollback, EndTx, Step
  <2>8. ASSUME NEW w \in Workspace, Anchor(w)
        PROVE  TypeOK'
    BY <2>8 DEF Anchor, WorkspaceRows
  <2>9. CASE UNCHANGED vars
    BY <2>9 DEF vars
  <2> QED
    BY <2>1, <2>2, <2>3, <2>4, <2>5, <2>6, <2>7, <2>8, <2>9 DEF Next
<1> QED
  BY <1>1, <1>2, PTL DEF Spec

------------------------------------------------------------------------------
\* Rows with a higher seq do not change what lies before a row.
LEMMA BeforeBelow ==
    ASSUME NEW S, NEW T, NEW r,
           S \subseteq Row, T \subseteq Row, r \in Row,
           \A q \in T : r.seq <= q.seq
    PROVE  Before(r, S \cup T) = Before(r, S)
BY DEF Before, Row

\* The strengthened invariant holds in every reachable state.
THEOREM ChainInvariant == Spec => []ChainInv
<1>1. Init => ChainInv
  <2> SUFFICES ASSUME Init PROVE ChainInv
    OBVIOUS
  <2>1. TypeOK
    BY DEF Init, TypeOK, Row, Event, Step
  <2> QED
    BY <2>1 DEF Init, ChainInv, Visible, LinkIsTail
<1>2. ChainInv /\ TypeOK' /\ [Next]_vars => ChainInv'
  <2> SUFFICES ASSUME ChainInv, TypeOK', [Next]_vars
               PROVE  ChainInv'
    OBVIOUS
  <2>0. ASSUME UNCHANGED <<rows, pending>>, nextSeq' = nextSeq,
               \A t \in Tx : pc'[t] \in {"locked", "read", "inserted"} \/ pending[t] # {}
                                => lock' = t,
               \A t \in Tx : pc'[t] = "read" => IsLatest(tail'[t], Visible(t))
        PROVE  ChainInv'
    BY <2>0 DEF ChainInv, LinkIsTail, Visible
  <2>1. CASE Tick
    BY <2>1, <2>0 DEF Tick, ChainInv
  <2>2. ASSUME NEW t \in Tx, NEW w \in Workspace, BuildEvent(t, w)
        PROVE  ChainInv'
    BY <2>2, <2>0 DEF BuildEvent, ChainInv, TypeOK
  <2>3. ASSUME NEW t \in Tx, AcquireLock(t)
        PROVE  ChainInv'
    BY <2>3, <2>0, NobodyAssumption DEF AcquireLock, ChainInv, TypeOK
  <2>4. ASSUME NEW t \in Tx, ReadTail(t)
        PROVE  ChainInv'
    <3>1. PICK h \in {0} \cup {r.seq : r \in Visible(t)} :
              IsLatest(h, Visible(t)) /\ tail' = [tail EXCEPT ![t] = h]
      BY <2>4 DEF ReadTail
    <3>2. \A u \in Tx : pc'[u] = "read" => IsLatest(tail'[u], Visible(u))
      BY <2>4, <3>1 DEF ReadTail, ChainInv, TypeOK
    <3> QED
      BY <2>4, <2>0, <3>2 DEF ReadTail, ChainInv, TypeOK
  <2>5. ASSUME NEW t \in Tx, Insert(t)
        PROVE  ChainInv'
    <3> DEFINE new == [seq |-> nextSeq, ts |-> event[t].ts,
                       prev |-> tail[t], ws |-> event[t].ws]
    <3>1. new \in Row /\ new.seq = nextSeq /\ new.prev = tail[t]
      BY DEF ChainInv, TypeOK, Row, Event
    <3> HIDE DEF new
    <3>2. /\ pending' = [pending EXCEPT ![t] = @ \cup {new}]
          /\ rows' = rows /\ nextSeq' = nextSeq + 1 /\ lock' = lock
          /\ tail' = tail /\ pc[t] = "read" /\ pc' = [pc EXCEPT ![t] = "inserted"]
      BY <2>5 DEF Insert, new
    <3>3. /\ pending'[t] = pending[t] \cup {new}
          /\ \A u \in Tx \ {t} : pending'[u] = pending[u]
          /\ Visible(t)' = Visible(t) \cup {new}
          /\ \A u \in Tx \ {t} : Visible(u)' = Visible(u)
          /\ \A u \in Tx : pc'[u] = IF u = t THEN "inserted" ELSE pc[u]
      BY <3>2 DEF ChainInv, TypeOK, Visible
    <3>4. \A u \in Tx : Visible(u) \subseteq Row /\ \A r \in Visible(u) : r.seq < nextSeq
      BY DEF ChainInv, TypeOK, Visible
    <3>5. \A u \in Tx : \A r \in Visible(u)' : r.seq < nextSeq'
      BY <3>1, <3>2, <3>3, <3>4 DEF ChainInv, TypeOK, Row
    <3>6. \A u \in Tx : \A r \in pending'[u], q \in rows' : q.seq < r.seq
      BY <3>1, <3>2, <3>3, <3>4 DEF ChainInv, Visible
    <3>7. \A u \in Tx : pc'[u] \in {"locked", "read", "inserted"} \/ pending'[u] # {}
                         => lock' = u
      BY <3>2, <3>3 DEF ChainInv
    <3>8. \A u \in Tx : \A r \in pending'[u] : IsLatest(r.prev, Before(r, Visible(u)'))
      <4>1. IsLatest(new.prev, Visible(t)) /\ Before(new, Visible(t)') = Visible(t)
        BY <3>1, <3>2, <3>3, <3>4 DEF ChainInv, Before, Row, TypeOK
      <4>2. \A r \in pending[t] : Before(r, Visible(t)') = Before(r, Visible(t))
        <5> SUFFICES ASSUME NEW r \in pending[t]
                     PROVE  Before(r, Visible(t)') = Before(r, Visible(t))
          OBVIOUS
        <5>1. r \in Row /\ r.seq <= new.seq
          BY <3>1, <3>4 DEF Visible, Row, ChainInv, TypeOK
        <5>2. ~(new.seq < r.seq)
          BY <5>1, <3>1 DEF Row
        <5> QED
          BY <5>2, <3>3 DEF Before
      <4> QED
        BY <3>3, <4>1, <4>2 DEF ChainInv
    <3>9. \A u \in Tx : pc'[u] = "read" => IsLatest(tail'[u], Visible(u)')
      BY <3>2, <3>3 DEF ChainInv
    <3>10. LinkIsTail'
      BY <3>2 DEF ChainInv, LinkIsTail
    <3> QED
      BY <3>5, <3>6, <3>7, <3>8, <3>9, <3>10 DEF ChainInv
  <2>6. ASSUME NEW t \in Tx, Commit(t)
        PROVE  ChainInv'
    <3>1. /\ rows' = rows \cup pending[t] /\ nextSeq' = nextSeq /\ tail' = tail
          /\ pending' = [pending EXCEPT ![t] = {}] /\ pc[t] = "inserted"
          /\ pc' = [pc EXCEPT ![t] = "idle"]
          /\ lock' = IF lock = t THEN Nobody ELSE lock
      BY <2>6 DEF Commit, EndTx
    <3>2. /\ lock = t
          /\ \A u \in Tx : pending'[u] = {} /\ pc'[u] \notin {"locked", "read", "inserted"}
      BY <3>1 DEF ChainInv, TypeOK
    <3>3. rows' = Visible(t) /\ \A u \in Tx : Visible(u)' = Visible(t)
      BY <3>1, <3>2 DEF Visible
    <3>4. LinkIsTail'
      <4> SUFFICES ASSUME NEW r \in Visible(t)
                   PROVE  IsLatest(r.prev, Before(r, Visible(t)))
        BY <3>3 DEF LinkIsTail
      <4>1. CASE r \in pending[t]
        BY <4>1 DEF ChainInv
      <4>2. CASE r \in rows
        <5>1. /\ rows \subseteq Row /\ pending[t] \subseteq Row
              /\ \A q \in pending[t] : r.seq <= q.seq
          BY <4>2 DEF ChainInv, TypeOK, Row
        <5>2. Before(r, rows \cup pending[t]) = Before(r, rows)
          BY <4>2, <5>1, BeforeBelow
        <5> QED
          BY <4>2, <5>2 DEF ChainInv, LinkIsTail, Visible
      <4> QED
        BY <4>1, <4>2 DEF Visible
    <3> QED
      BY <3>1, <3>2, <3>3, <3>4 DEF ChainInv
  <2>7. ASSUME NEW t \in Tx, Rollback(t)
        PROVE  ChainInv'
    <3>1. /\ rows' = rows /\ nextSeq' = nextSeq /\ tail' = tail
          /\ pending' = [pending EXCEPT ![t] = {}]
          /\ pc' = [pc EXCEPT ![t] = "idle"]
          /\ lock' = IF lock = t THEN Nobody ELSE lock
      BY <2>7 DEF Rollback, EndTx
    <3>2. /\ pending'[t] = {} /\ pc'[t] = "idle"
          /\ \A u \in Tx \ {t} : pending'[u] = pending[u] /\ pc'[u] = pc[u]
          /\ \A u \in Tx \ {t} : Visible(u)' = Visible(u)
          /\ Visible(t)' \subseteq Visible(t)
      BY <3>1 DEF ChainInv, TypeOK, Visible
    <3>3. \A u \in Tx : pc'[u] \in {"locked", "read", "inserted"} \/ pending'[u] # {}
                         => lock' = u
      BY <3>1, <3>2 DEF ChainInv
    <3> QED
      BY <3>1, <3>2, <3>3 DEF ChainInv, LinkIsTail
  <2>8. ASSUME NEW w \in Workspace, Anchor(w)
        PROVE  ChainInv'
    BY <2>8, <2>0 DEF Anchor, ChainInv
  <2>9. CASE UNCHANGED vars
    BY <2>9, <2>0 DEF vars, ChainInv
  <2> QED
    BY <2>1, <2>2, <2>3, <2>4, <2>5, <2>6, <2>7, <2>8, <2>9 DEF Next
<1> QED
  BY <1>1, <1>2, TypeCorrect, PTL DEF Spec

------------------------------------------------------------------------------
\* Every row is linked to the tail that was the latest before it.
THEOREM LinkIsTailCorrect == Spec => []LinkIsTail
BY ChainInvariant, PTL DEF ChainInv

\* If timestamps follow seq, the latest row before another is the one right
\* before it.
LEMMA TailIsPredecessor ==
    ASSUME TypeOK, LinkIsTail
    PROVE  VerifiesWithoutInversion
<1> SUFFICES ASSUME TimestampsFollowSeq, NEW r \in rows
             PROVE  IsPredecessor(r.prev, r, rows)
  BY DEF VerifiesWithoutInversion, ChainVerifies
<1>1. CASE Before(r, rows) = {} /\ r.prev = 0
  BY <1>1 DEF IsPredecessor
<1>2. CASE \E q \in Before(r, rows) : r.prev = q.seq /\ \A o \in Before(r, rows) : Later(q, o)
  <2>1. PICK q \in Before(r, rows) :
            r.prev = q.seq /\ \A o \in Before(r, rows) : Later(q, o)
    BY <1>2
  <2>2. ASSUME NEW o \in Before(r, rows)
        PROVE  o.seq <= q.seq
    <3>1. o \in rows /\ q \in rows /\ o \in Row /\ q \in Row
      BY DEF Before, TypeOK
    <3>2. o.seq \in Nat /\ q.seq \in Nat /\ o.ts \in Nat /\ q.ts \in Nat
      BY <3>1 DEF Row
    <3>3. q.seq < o.seq => q.ts <= o.ts
      BY <3>1 DEF TimestampsFollowSeq
    <3>4. Later(q, o)
      BY <2>1
    <3> QED
      BY <3>2, <3>3, <3>4 DEF Later
  <2> QED
    BY <2>1, <2>2 DEF IsPredecessor
<1> QED
  BY <1>1, <1>2 DEF LinkIsTail, IsLatest

\* Without an inversion of timestamps verify_audit_hash_chain accepts the chain.
THEOREM VerifierCorrect == Spec => []VerifiesWithoutInversion
BY TailIsPredecessor, TypeCorrect, LinkIsTailCorrect, PTL

\* Of two rows with one parent, the parent is later than the first of them.
LEMMA ForkFromInversion ==
    ASSUME TypeOK, LinkIsTail
    PROVE  ForkMeansInversion
<1> SUFFICES ASSUME NEW a \in rows, NEW b \in rows, a.prev = b.prev, a.seq < b.seq
             PROVE  \E p \in rows : p.seq = b.prev /\ p.seq < a.seq /\ a.ts < p.ts
  BY DEF ForkMeansInversion
<1>1. a \in Before(b, rows)
  BY DEF Before
<1>2. PICK p \in Before(b, rows) : p.seq = b.prev /\ Later(p, a)
  BY <1>1 DEF LinkIsTail, IsLatest
<1>3. /\ p \in rows /\ p.seq \in Nat \ {0} /\ p.ts \in Nat
      /\ a.seq \in Nat /\ a.ts \in Nat
  BY <1>2 DEF TypeOK, Row, Before
<1>4. PICK q \in Before(a, rows) : q.seq = a.prev
  BY <1>2, <1>3 DEF LinkIsTail, IsLatest
<1>5. p.seq < a.seq
  BY <1>2, <1>4 DEF Before
<1> QED
  BY <1>2, <1>3, <1>5 DEF Later

\* A fork of the audit chain is always the trace of an inversion of timestamps.
THEOREM ForksExplained == Spec => []ForkMeansInversion
BY ForkFromInversion, TypeCorrect, LinkIsTailCorrect, PTL

\* Every step of the chain is a step of the ledger or leaves it alone.
THEOREM LedgerImplemented == Spec => ImplementsLedger
<1>1. Init => Ledger!Init
  BY DEF Init, Ledger!Init
<1>2. ChainInv /\ LinkIsTail' /\ TypeOK' /\ [Next]_vars => [Ledger!Append]_rows
  <2> SUFFICES ASSUME ChainInv, LinkIsTail', TypeOK', [Next]_vars
               PROVE  [Ledger!Append]_rows
    OBVIOUS
  <2>1. CASE UNCHANGED rows
    BY <2>1
  <2>2. ASSUME NEW t \in Tx, Commit(t)
        PROVE  Ledger!Append
    <3>1. rows' = rows \cup pending[t]
      BY <2>2 DEF Commit
    <3>2. ASSUME NEW new \in rows' \ rows
          PROVE  /\ \A old \in rows : old.seq < new.seq
                 /\ Ledger!Linked(new, rows')
      <4>1. \A old \in rows : old.seq < new.seq
        BY <3>1, <3>2 DEF ChainInv
      <4>2. IsLatest(new.prev, Before(new, rows'))
        BY <3>2 DEF LinkIsTail
      <4>3. \A r \in rows' : r.seq \in Nat \ {0}
        BY DEF TypeOK, Row
      <4>4. CASE new.prev = 0
        <5>1. Before(new, rows') = {}
          BY <4>2, <4>3, <4>4 DEF IsLatest, Before
        <5> QED
          BY <4>1, <4>3, <4>4, <5>1 DEF Ledger!Linked, Before
      <4>5. CASE new.prev # 0
        <5>1. PICK q \in Before(new, rows') : q.seq = new.prev
          BY <4>2, <4>5 DEF IsLatest
        <5> QED
          BY <4>1, <4>5, <5>1 DEF Ledger!Linked, Before
      <4> QED
        BY <4>4, <4>5, <4>1
    <3> QED
      BY <3>1, <3>2 DEF Ledger!Append
  <2> QED
    BY <2>1, <2>2 DEF Next, vars, Tick, BuildEvent, AcquireLock, ReadTail, Insert,
                      Rollback, Anchor
<1> QED
  BY <1>1, <1>2, TypeCorrect, ChainInvariant, LinkIsTailCorrect, PTL
     DEF Spec, ImplementsLedger, Ledger!Spec

\* An anchored head stays the head of a prefix of the workspace's export.
THEOREM AnchorsStayPrefixes == Spec => []AnchorIsPrefix
<1>1. Init => AnchorIsPrefix
  BY DEF Init, AnchorIsPrefix, WorkspaceRows
<1>2. ChainInv /\ AnchorIsPrefix /\ [Next]_vars => AnchorIsPrefix'
  <2> SUFFICES ASSUME ChainInv, AnchorIsPrefix, [Next]_vars
               PROVE  AnchorIsPrefix'
    OBVIOUS
  <2>1. CASE UNCHANGED <<rows, anchored>>
    BY <2>1 DEF AnchorIsPrefix, WorkspaceRows
  <2>2. ASSUME NEW t \in Tx, Commit(t)
        PROVE  AnchorIsPrefix'
    <3>1. rows' = rows \cup pending[t] /\ anchored' = anchored
      BY <2>2 DEF Commit, EndTx
    <3>2. \A r \in pending[t], q \in rows : q.seq < r.seq
      BY DEF ChainInv
    <3> QED
      BY <3>1, <3>2 DEF AnchorIsPrefix, WorkspaceRows
  <2>3. ASSUME NEW w \in Workspace, Anchor(w)
        PROVE  AnchorIsPrefix'
    <3>1. rows' = rows /\ anchored' = [anchored EXCEPT ![w] = WorkspaceRows(w)]
      BY <2>3 DEF Anchor
    <3>2. \A v \in Workspace :
              anchored'[v] = IF v = w THEN WorkspaceRows(w) ELSE anchored[v]
      BY <3>1 DEF ChainInv, TypeOK
    <3> QED
      BY <3>1, <3>2 DEF AnchorIsPrefix, WorkspaceRows
  <2> QED
    BY <2>1, <2>2, <2>3 DEF Next, vars, Tick, BuildEvent, AcquireLock, ReadTail,
                            Insert, Rollback, EndTx
<1> QED
  BY <1>1, <1>2, ChainInvariant, PTL DEF Spec

------------------------------------------------------------------------------
(* The table as its readers see it                                          *)

\* Of the rows that a transaction sees there are finitely many, below the sequence, and no
\* two have one seq.
Distinct(S) == IsFiniteSet(S) /\ \A a, b \in S : a.seq = b.seq => a = b

TableInv ==
    /\ Distinct(rows) /\ \A r \in rows : r.seq < nextSeq
    /\ \A t \in Tx : Distinct(pending[t])

\* A row number belongs to one row, whatever is rolled back.
THEOREM TableInvariant == Spec => []TableInv
<1>1. Init => TableInv
  BY FS_EmptySet DEF Init, TableInv, Distinct
<1>2. TableInv /\ ChainInv /\ [Next]_vars => TableInv'
  <2> SUFFICES ASSUME TableInv, ChainInv, [Next]_vars
               PROVE  TableInv'
    OBVIOUS
  <2>1. CASE UNCHANGED <<rows, pending>> /\ nextSeq' = nextSeq
    BY <2>1 DEF TableInv
  <2>2. ASSUME NEW t \in Tx, Insert(t)
        PROVE  TableInv'
    <3> DEFINE new == [seq |-> nextSeq, ts |-> event[t].ts,
                       prev |-> tail[t], ws |-> event[t].ws]
    <3>1. /\ pending' = [pending EXCEPT ![t] = @ \cup {new}]
          /\ rows' = rows /\ nextSeq' = nextSeq + 1 /\ new.seq = nextSeq
      BY <2>2 DEF Insert
    <3> HIDE DEF new
    <3>2. /\ nextSeq \in Nat /\ rows \subseteq Row /\ pending \in [Tx -> SUBSET Row]
          /\ \A r \in pending[t] : r.seq < nextSeq
      BY DEF ChainInv, TypeOK, Visible
    <3>3. Distinct(pending[t] \cup {new})
      <4>1. IsFiniteSet(pending[t] \cup {new})
        BY FS_AddElement DEF TableInv, Distinct
      <4>2. \A r \in pending[t] : r.seq # new.seq
        BY <3>1, <3>2 DEF Row
      <4>3. QED
        BY <4>1, <4>2 DEF TableInv, Distinct
    <3>4. \A r \in rows : r.seq < nextSeq + 1
      BY <3>2 DEF TableInv, Row
    <3>5. QED
      BY <3>1, <3>2, <3>3, <3>4 DEF TableInv
  <2>3. ASSUME NEW t \in Tx, Commit(t)
        PROVE  TableInv'
    <3>1. /\ rows' = rows \cup pending[t] /\ nextSeq' = nextSeq
          /\ pending' = [pending EXCEPT ![t] = {}]
      BY <2>3 DEF Commit, EndTx
    <3>2. /\ nextSeq \in Nat /\ rows \subseteq Row /\ pending \in [Tx -> SUBSET Row]
          /\ \A r \in pending[t] : r.seq < nextSeq
          /\ \A r \in pending[t], q \in rows : q.seq < r.seq
      BY DEF ChainInv, TypeOK, Visible
    <3>3. Distinct(rows \cup pending[t])
      <4>1. IsFiniteSet(rows \cup pending[t])
        BY FS_Union DEF TableInv, Distinct
      <4>2. \A r \in pending[t], q \in rows : q.seq # r.seq
        BY <3>2 DEF Row
      <4>3. QED
        BY <4>1, <4>2 DEF TableInv, Distinct
    <3>4. \A u \in Tx : pending'[u] = {} \/ pending'[u] = pending[u]
      BY <3>1, <3>2
    <3>5. QED
      BY <3>1, <3>2, <3>3, <3>4, FS_EmptySet DEF TableInv, Distinct
  <2>4. ASSUME NEW t \in Tx, Rollback(t)
        PROVE  TableInv'
    <3>1. rows' = rows /\ nextSeq' = nextSeq /\ pending' = [pending EXCEPT ![t] = {}]
      BY <2>4 DEF Rollback, EndTx
    <3>2. \A u \in Tx : pending'[u] = {} \/ pending'[u] = pending[u]
      BY <3>1 DEF ChainInv, TypeOK
    <3>3. QED
      BY <3>1, <3>2, FS_EmptySet DEF TableInv, Distinct
  <2>5. QED
    BY <2>1, <2>2, <2>3, <2>4 DEF Next, vars, Tick, BuildEvent, AcquireLock, ReadTail, Anchor
<1>3. QED
  BY <1>1, <1>2, ChainInvariant, PTL DEF Spec

------------------------------------------------------------------------------
(* Pages *)

\* Rows in an order that both columns agree on.
InOrder(S) ==
    /\ S \subseteq Row /\ Distinct(S)
    /\ \A r, q \in S : r.seq < q.seq => r.ts <= q.ts

Above(r, S) == {q \in S : q.seq > r.seq}

\* Where the timestamps follow the sequence, the later row is the one of the higher seq.
LEMMA LaterIsHigher ==
    ASSUME NEW S, InOrder(S), NEW a \in S, NEW b \in S
    PROVE  Later(a, b) <=> a.seq >= b.seq
<1>1. /\ a.seq \in Nat /\ b.seq \in Nat /\ a.ts \in Nat /\ b.ts \in Nat
      /\ a.seq < b.seq => a.ts <= b.ts
      /\ b.seq < a.seq => b.ts <= a.ts
      /\ a.seq = b.seq => a = b
  BY DEF InOrder, Distinct, Row
<1>2. QED
  BY <1>1 DEF Later

\* A set of such rows has a first and a last one.
LEMMA FirstAndLast ==
    ASSUME NEW S, InOrder(S), S # {}, NEW n \in Nat, \A r \in S : r.seq <= n
    PROVE  /\ \E r \in S : \A q \in S : r.seq <= q.seq
           /\ \E r \in S : \A q \in S : q.seq <= r.seq
<1>1. \A r \in S : r.seq \in Nat
  BY DEF InOrder, Row
<1>2. \E r \in S : \A q \in S : r.seq <= q.seq
  <2> DEFINE T == {r.seq : r \in S}
  <2>1. T \in SUBSET Nat /\ T # {}
    BY <1>1
  <2>2. \E i \in T : \A m \in T : i <= m
    <3> HIDE DEF T
    <3> QED BY <2>1, LeastNumber
  <2>3. QED
    BY <2>2
<1>3. \E r \in S : \A q \in S : q.seq <= r.seq
  <2> DEFINE T == {n - r.seq : r \in S}
  <2>1. T \in SUBSET Nat /\ T # {}
    BY <1>1
  <2>2. PICK i \in T : \A m \in T : i <= m
    <3> HIDE DEF T
    <3> QED BY <2>1, LeastNumber
  <2>3. PICK r \in S : i = n - r.seq
    BY <2>2
  <2>4. \A q \in S : n - r.seq <= n - q.seq
    BY <2>2, <2>3
  <2>5. QED
    BY <1>1, <2>4
<1>4. QED
  BY <1>2, <1>3

\* A page holds the rows that have fewer than its length above them.
LEMMA PageIsByRank ==
    ASSUME NEW S, InOrder(S), NEW n \in Nat
    PROVE  Newest(S, n) = {r \in S : Cardinality(Above(r, S)) < n}
<1>1. ASSUME NEW r \in S
      PROVE  {q \in S \ {r} : Later(q, r)} = Above(r, S)
  <2>1. ASSUME NEW q \in S
        PROVE  (q # r /\ Later(q, r)) <=> q.seq > r.seq
    <3>1. Later(q, r) <=> q.seq >= r.seq
      BY LaterIsHigher
    <3>2. q.seq \in Nat /\ r.seq \in Nat /\ (q.seq = r.seq => q = r)
      BY DEF InOrder, Distinct, Row
    <3>3. QED
      BY <3>1, <3>2
  <2>2. QED
    BY <2>1 DEF Above
<1>2. QED
  BY <1>1 DEF Newest

\* A page has no more rows than its length, a page that is not full has all rows, and
\* what is above a row of the page is in the page.
LEMMA PageHolds ==
    ASSUME NEW S, InOrder(S), NEW n \in Nat \ {0}, NEW top \in Nat, \A r \in S : r.seq <= top
    PROVE  /\ Newest(S, n) \subseteq S
           /\ \A r \in Newest(S, n), q \in S : q.seq > r.seq => q \in Newest(S, n)
           /\ Cardinality(Newest(S, n)) # n => Newest(S, n) = S
           /\ Cardinality(Newest(S, n)) = n => Newest(S, n) # {}
<1> DEFINE page == Newest(S, n)
<1>1. page = {r \in S : Cardinality(Above(r, S)) < n}
  BY PageIsByRank
<1>2. ASSUME NEW T \in SUBSET S
      PROVE  IsFiniteSet(T) /\ Cardinality(T) \in Nat /\ InOrder(T)
  <2>1. IsFiniteSet(T)
    BY FS_Subset DEF InOrder, Distinct
  <2>2. QED
    BY <2>1, FS_CardinalityType DEF InOrder, Distinct
<1>3. ASSUME NEW T \in SUBSET S, NEW U \in SUBSET T
      PROVE  Cardinality(U) <= Cardinality(T)
  BY <1>2, FS_Subset
<1>4. \A r, q \in S : q.seq > r.seq => Above(q, S) \subseteq Above(r, S)
  <2>1. \A r \in S : r.seq \in Nat
    BY DEF InOrder, Row
  <2>2. QED
    BY <2>1 DEF Above
<1>5. \A r \in S : Above(r, S) \in SUBSET S
  BY DEF Above
<1>6. ASSUME NEW r \in page, NEW q \in S, q.seq > r.seq
      PROVE  q \in page
  <2>1. Cardinality(Above(q, S)) <= Cardinality(Above(r, S))
    BY <1>1, <1>3, <1>4, <1>5, <1>6
  <2>2. Cardinality(Above(q, S)) \in Nat /\ Cardinality(Above(r, S)) \in Nat
    BY <1>1, <1>2, <1>5
  <2>3. QED
    BY <1>1, <2>1, <2>2
<1> HIDE DEF page
<1>7. Cardinality(page) <= n
  <2>1. CASE page = {}
    BY <2>1, FS_EmptySet
  <2>2. CASE page # {}
    <3>1. InOrder(page) /\ \A r \in page : r.seq <= top
      BY <1>1, <1>2
    <3>2. PICK r \in page : \A q \in page : r.seq <= q.seq
      BY <2>2, <3>1, FirstAndLast
    <3>3. page \ {r} \in SUBSET Above(r, S)
      <4> SUFFICES ASSUME NEW q \in page, q # r PROVE q \in Above(r, S)
        OBVIOUS
      <4>1. q \in S /\ r \in S /\ q.seq \in Nat /\ r.seq \in Nat /\ (q.seq = r.seq => q = r)
        BY <1>1 DEF InOrder, Distinct, Row
      <4>2. QED
        BY <3>2, <4>1 DEF Above
    <3>4. Cardinality(page \ {r}) <= Cardinality(Above(r, S))
      BY <1>1, <1>3, <1>5, <3>3
    <3>5. Cardinality(page \ {r}) = Cardinality(page) - 1
      BY <1>1, <1>2, FS_RemoveElement
    <3>6. /\ Cardinality(Above(r, S)) < n /\ Cardinality(Above(r, S)) \in Nat
          /\ Cardinality(page) \in Nat
      BY <1>1, <1>2, <1>5
    <3>7. QED
      BY <3>4, <3>5, <3>6
  <2>3. QED
    BY <2>1, <2>2
<1>8. ASSUME page # S
      PROVE  Cardinality(page) = n
  <2> DEFINE rest == S \ page
  <2>1. rest # {} /\ rest \in SUBSET S
    BY <1>1, <1>8
  <2>2. InOrder(rest) /\ \A r \in rest : r.seq <= top
    BY <1>2, <2>1
  <2> HIDE DEF rest
  <2>3. PICK r \in rest : \A q \in rest : q.seq <= r.seq
    BY <2>1, <2>2, FirstAndLast
  <2>4. r \in S /\ r \notin page
    BY <2>3 DEF rest
  <2>5. Above(r, S) \in SUBSET page
    <3> SUFFICES ASSUME NEW q \in Above(r, S), q \notin page PROVE FALSE
      OBVIOUS
    <3>1. q \in rest /\ q.seq > r.seq
      BY DEF Above, rest
    <3>2. q.seq \in Nat /\ r.seq \in Nat
      BY <2>4 DEF Above, InOrder, Row
    <3>3. QED
      BY <2>3, <3>1, <3>2
  <2>6. page \in SUBSET S
    BY <1>1
  <2>7. Cardinality(Above(r, S)) <= Cardinality(page)
    BY <1>3, <2>5, <2>6
  <2>8. ~(Cardinality(Above(r, S)) < n)
    BY <1>1, <2>4
  <2>9. Cardinality(Above(r, S)) \in Nat /\ Cardinality(page) \in Nat
    BY <1>2, <1>5, <2>4, <2>6
  <2>10. QED
    BY <1>7, <2>7, <2>8, <2>9
<1>9. Cardinality(page) = n => page # {}
  BY FS_EmptySet
<1>10. page \subseteq S
  BY <1>1
<1>11. QED
  BY <1>6, <1>8, <1>9, <1>10 DEF page

\* The cursor of a full page is the least seq on it.
LEMMA CursorIsLowest ==
    ASSUME NEW page, InOrder(page), page # {}, NEW top \in Nat, \A r \in page : r.seq <= top
    PROVE  \E r \in page : NextCursor(page) = r.seq /\ \A q \in page : r.seq <= q.seq
<1>1. \E r \in page : \A q \in page : Later(q, r)
  <2>1. PICK r \in page : \A q \in page : r.seq <= q.seq
    BY FirstAndLast
  <2>2. \A q \in page : Later(q, r)
    <3> SUFFICES ASSUME NEW q \in page PROVE Later(q, r)
      OBVIOUS
    <3>1. q.seq \in Nat /\ r.seq \in Nat /\ r.seq <= q.seq
      BY <2>1 DEF InOrder, Row
    <3>2. QED
      BY <3>1, LaterIsHigher
  <2>3. QED
    BY <2>2
<1> DEFINE last == CHOOSE r \in page : \A q \in page : Later(q, r)
<1>2. last \in page /\ \A q \in page : Later(q, last)
  BY <1>1
<1>3. NextCursor(page) = last.seq
  BY DEF NextCursor
<1> HIDE DEF last
<1>4. \A q \in page : last.seq <= q.seq
  <2> SUFFICES ASSUME NEW q \in page PROVE last.seq <= q.seq
    OBVIOUS
  <2>1. q.seq \in Nat /\ last.seq \in Nat /\ q.seq >= last.seq
    BY <1>2, LaterIsHigher DEF InOrder, Row
  <2>2. QED
    BY <2>1
<1>5. QED
  BY <1>2, <1>3, <1>4

------------------------------------------------------------------------------
(* The walk *)

\* While the timestamps follow the sequence a client that follows the cursor sees every row.
LEMMA WalkIsComplete ==
    ASSUME TypeOK, TableInv, TimestampsFollowSeq, NEW w \in Workspace
    PROVE  CursorWalk(w) = WorkspaceRows(w)
<1> DEFINE W == WorkspaceRows(w)
           Rest(n) == {r \in W : r.seq < n}
           Page(n) == ListEvents(w, n)
           Full(n) == Cardinality(Page(n)) = PageLimit
<1>1. nextSeq \in Nat /\ PageLimit \in Nat \ {0}
  BY PageLimitAssumption DEF TypeOK
<1>2. InOrder(W) /\ \A r \in W : r.seq \in Nat /\ r.seq < nextSeq
  <2>1. W \subseteq rows
    BY DEF WorkspaceRows
  <2>2. IsFiniteSet(W)
    BY <2>1, FS_Subset DEF TableInv, Distinct
  <2>3. \A r \in rows : r.seq \in Nat
    BY DEF TypeOK, Row
  <2> HIDE DEF W
  <2>4. QED
    BY <2>1, <2>2, <2>3 DEF InOrder, TypeOK, TableInv, Distinct, TimestampsFollowSeq
<1> HIDE DEF W
<1>3. ASSUME NEW n \in 0..nextSeq
      PROVE  /\ Page(n) = Newest(Rest(n), PageLimit) /\ Page(n) \in SUBSET W
             /\ InOrder(Page(n)) /\ InOrder(Rest(n))
             /\ \A r \in Rest(n) : r.seq <= nextSeq
  <2>1. Page(n) = Newest(Rest(n), PageLimit)
    BY DEF ListEvents, W
  <2>2. ASSUME NEW T \in SUBSET W
        PROVE  InOrder(T)
    BY <1>2, FS_Subset DEF InOrder, Distinct
  <2>3. Rest(n) \in SUBSET W /\ Newest(Rest(n), PageLimit) \in SUBSET W
    BY DEF Newest
  <2>4. \A r \in Rest(n) : r.seq <= nextSeq
    BY <1>1, <1>2
  <2>5. QED
    BY <2>1, <2>2, <2>3, <2>4
<1> HIDE DEF Page
<1>4. ASSUME NEW n \in 0..nextSeq
      PROVE  /\ Page(n) \subseteq Rest(n)
             /\ \A r \in Page(n), q \in Rest(n) : q.seq > r.seq => q \in Page(n)
             /\ ~Full(n) => Page(n) = Rest(n)
             /\ Full(n) => Page(n) # {}
  <2> HIDE DEF Rest
  <2> QED BY <1>1, <1>3, PageHolds
<1>5. ASSUME NEW n \in 0..nextSeq, Full(n)
      PROVE  /\ NextCursor(Page(n)) \in 0..nextSeq /\ NextCursor(Page(n)) < n
             /\ Page(n) \cup Rest(NextCursor(Page(n))) = Rest(n)
  <2>1. Page(n) # {} /\ Page(n) \subseteq Rest(n) /\ Page(n) \subseteq W
    BY <1>4, <1>5
  <2>2. \A r \in Page(n) : r.seq <= nextSeq
    BY <1>1, <1>2, <2>1
  <2>3. PICK r \in Page(n) : NextCursor(Page(n)) = r.seq /\ \A q \in Page(n) : r.seq <= q.seq
    BY <1>1, <1>3, <2>1, <2>2, CursorIsLowest
  <2>4. r \in W /\ r.seq \in Nat /\ r.seq < n /\ r.seq < nextSeq
    BY <1>2, <2>1, <2>3
  <2>5. ASSUME NEW q \in Rest(n), ~(q.seq < r.seq)
        PROVE  q \in Page(n)
    <3>1. q.seq \in Nat /\ q \in W
      BY <1>2
    <3>2. CASE q.seq > r.seq
      BY <1>4, <2>3, <3>2
    <3>3. CASE q.seq = r.seq
      BY <1>2, <2>3, <2>4, <3>1, <3>3 DEF InOrder, Distinct
    <3>4. QED
      BY <2>4, <2>5, <3>1, <3>2, <3>3
  <2>6. Rest(r.seq) \subseteq Rest(n)
    BY <1>2, <2>4
  <2>7. Rest(n) \subseteq Page(n) \cup Rest(r.seq)
    BY <2>5
  <2>8. QED
    BY <1>1, <2>1, <2>3, <2>4, <2>6, <2>7
<1> DEFINE Walks(f) == f = [n \in 0..nextSeq |-> IF Full(n) THEN Page(n) \cup f[NextCursor(Page(n))]
                                                           ELSE Page(n)]
<1>6. \E f : Walks(f)
  <2> DEFINE Given == {n \in 0..nextSeq : ~Full(n)}
             base  == [n \in 0..nextSeq |-> Page(n)]
             below == [n \in 0..nextSeq |-> IF Full(n) THEN NextCursor(Page(n)) ELSE 0]
             step  == [n \in 0..nextSeq |-> [v \in SUBSET W |-> Page(n) \cup v]]
  <2>1. IsRecursion(nextSeq, SUBSET W, Given, base, below, step)
    <3>1. base \in [0..nextSeq -> SUBSET W]
      <4> HIDE DEF Full
      <4> QED BY <1>3
    <3>2. step \in [0..nextSeq -> [SUBSET W -> SUBSET W]]
      <4>1. ASSUME NEW n \in 0..nextSeq
            PROVE  [v \in SUBSET W |-> Page(n) \cup v] \in [SUBSET W -> SUBSET W]
        BY <1>3
      <4>2. QED
        BY <4>1
    <3>3. below \in [0..nextSeq -> 0..nextSeq] /\ \A n \in (0..nextSeq) \ Given : below[n] < n
      <4> HIDE DEF Full
      <4> QED BY <1>1, <1>5
    <3>4. Given \in SUBSET (0..nextSeq)
      OBVIOUS
    <3> HIDE DEF Given, base, below, step
    <3>5. QED
      BY <1>1, <3>1, <3>2, <3>3, <3>4 DEF IsRecursion
  <2>2. HasSolution(nextSeq, SUBSET W, Given, base, below, step)
    <3> HIDE DEF Given, base, below, step
    <3> QED BY <2>1, RecursionExists
  <2>3. PICK f \in [0..nextSeq -> SUBSET W] : \A n \in 0..nextSeq :
            f[n] = IF n \in Given THEN base[n] ELSE step[n][f[below[n]]]
    <3> HIDE DEF Given, base, below, step
    <3> QED BY <2>2 DEF HasSolution
  <2>4. ASSUME NEW n \in 0..nextSeq
        PROVE  f[n] = IF Full(n) THEN Page(n) \cup f[NextCursor(Page(n))] ELSE Page(n)
    <3> HIDE DEF Full
    <3>1. CASE ~Full(n)
      BY <2>3, <3>1
    <3>2. CASE Full(n)
      <4>1. n \notin Given /\ below[n] = NextCursor(Page(n))
        BY <3>2
      <4>2. f[below[n]] \in SUBSET W
        BY <1>5, <3>2, <4>1
      <4>3. step[n][f[below[n]]] = Page(n) \cup f[below[n]]
        BY <4>2
      <4> HIDE DEF Given, below, step, base
      <4>4. QED
        BY <2>3, <3>2, <4>1, <4>3
    <3>3. QED
      BY <3>1, <3>2
  <2>5. Walks(f)
    <3> HIDE DEF Full
    <3> QED BY <2>4
  <2>6. QED
    BY <2>5
<1> DEFINE walk == CHOOSE f : Walks(f)
<1>7. CursorWalk(w) = walk[nextSeq]
  BY DEF CursorWalk, Page
<1>8. Walks(walk)
  <2> HIDE DEF Walks
  <2> QED BY <1>6
<1> HIDE DEF walk
<1>9. \A n \in 0..nextSeq :
          walk[n] = IF Full(n) THEN Page(n) \cup walk[NextCursor(Page(n))] ELSE Page(n)
  <2> DEFINE body(n) == IF Full(n) THEN Page(n) \cup walk[NextCursor(Page(n))] ELSE Page(n)
  <2>1. walk = [n \in 0..nextSeq |-> body(n)]
    BY <1>8
  <2> HIDE DEF body
  <2>2. \A n \in 0..nextSeq : walk[n] = body(n)
    BY <2>1
  <2>3. QED
    BY <2>2 DEF body
<1> DEFINE Complete == {n \in 0..nextSeq : walk[n] = Rest(n)}
<1>10. ASSUME NEW n \in 0..nextSeq, \A m \in 0..nextSeq : m < n => m \in Complete
       PROVE  n \in Complete
  <2> HIDE DEF Full, Rest
  <2>1. CASE ~Full(n)
    BY <1>4, <1>9, <2>1
  <2>2. CASE Full(n)
    <3>1. NextCursor(Page(n)) \in Complete
      BY <1>5, <1>10, <2>2
    <3>2. walk[n] = Page(n) \cup Rest(NextCursor(Page(n)))
      BY <1>9, <2>2, <3>1
    <3>3. QED
      BY <1>5, <2>2, <3>2
  <2>3. QED
    BY <2>1, <2>2
<1>11. nextSeq \in Complete
  <2> HIDE DEF Complete
  <2>1. 0..nextSeq \subseteq Complete
    BY <1>1, <1>10, UpToByAllBelow
  <2>2. QED
    BY <1>1, <2>1
<1>12. Rest(nextSeq) = W
  BY <1>2
<1>13. QED
  BY <1>7, <1>11, <1>12 DEF W

\* For every number of rows and every length of a page: as long as timestamps follow seq, a
\* client that follows the cursor to its end has seen every row of the workspace
\* (list_events, with before_seq and next_cursor).
THEOREM WalksAreComplete == Spec => []WalkSeesAllWithoutInversion
<1>1. TypeOK /\ TableInv => WalkSeesAllWithoutInversion
  BY WalkIsComplete DEF WalkSeesAllWithoutInversion, WalkSeesAll
<1>2. QED
  BY <1>1, TypeCorrect, TableInvariant, PTL
==============================================================================
