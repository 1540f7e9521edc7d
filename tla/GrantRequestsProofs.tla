------------------------- MODULE GrantRequestsProofs -------------------------
(***************************************************************************)
(* Theorems about GrantRequests, for every number of calls, requests and   *)
(* operators, bulk calls of any size included: every decision and every    *)
(* grant has its witness in the audit log, what is decided stays decided,  *)
(* and a request that was decided once has the grants that its status      *)
(* says.                                                                   *)
(***************************************************************************)
EXTENDS EventLoop, FiniteSetTheorems, TLAPS

Result(op) == CASE op = "approve" -> "approved" [] op = "deny" -> "denied"
                [] op = "revoke" -> "revoked" [] OTHER -> "expired"

EventOf(c, x) == [kind |-> job[c].op, target |-> x, by |-> c]

\* Written, and its event is still to come.
Pending(c, r) ==
    \/ pc[c] = "audit" /\ r \in Audited(c)
    \/ pc[c] = "write" /\ job[c].op = "expire"

\* Where a call of each kind may be, and what it still has to do there.
StepsHold(c) ==
    /\ pc[c] \in {"idle", "done"} => mine[c] = NoWrites /\ job[c] = NoJob
    /\ pc[c] \notin {"idle", "done"} => job[c].op # "none"
    /\ job[c].op \in {"revoke", "expire"} => ~job[c].bulk
    /\ job[c].op = "revoke_grant" => /\ job[c].todo \in Seq(Grant)
                                     /\ pc[c] \notin {"read", "write"}
    /\ job[c].op \in AllOps \ {"revoke_grant"} => job[c].todo \in Seq(Request)
    /\ pc[c] = "grant" => job[c].op \in {"revoke", "revoke_grant"}
    /\ pc[c] \in {"read", "grant", "write", "audit"} => job[c].todo # <<>>
    /\ job[c].op = "expire" => /\ pc[c] # "read"
                               /\ pc[c] = "audit" => ~More(c)
    /\ pc[c] = "audit" /\ job[c].op \notin {"expire", "revoke_grant"} =>
          Target(c) \in DOMAIN mine[c].req
    /\ job[c].op = "revoke" => /\ pc[c] \in {"read", "grant", "write"} => mine[c].req = Empty
                               /\ pc[c] \in {"read", "grant"} => mine[c].grant = Empty
                               /\ pc[c] \in {"read", "grant", "write", "audit"} => ~More(c)

\* The rows that a call has written are those of its operation, with their events.
RowsHold(c) ==
    \A r \in DOMAIN mine[c].req :
        /\ job[c].op \in AllOps \ {"revoke_grant"}
        /\ mine[c].req[r].status = Result(job[c].op)
        /\ mine[c].req[r].grant = IF job[c].op = "approve" THEN <<c, r>> ELSE requests[r].grant
        /\ job[c].op = "approve" => <<c, r>> \in DOMAIN mine[c].grant
        /\ EventOf(c, r) \in mine[c].audit \/ Pending(c, r)

\* A grant is written by the call that makes it, or was there to be revoked.
GrantsHold(c) ==
    \A g \in DOMAIN mine[c].grant :
        \/ /\ job[c].op = "approve" /\ mine[c].grant[g] = "live"
           /\ g[1] = c /\ g[2] \in DOMAIN mine[c].req
        \/ /\ job[c].op = "revoke" /\ mine[c].grant[g] = "revoked" /\ grants[g] # "none"
           /\ g = job[c].seen
           /\ \/ pc[c] \in {"write", "audit"} /\ g[2] = Target(c)
              \/ EventOf(c, g[2]) \in mine[c].audit
        \/ /\ job[c].op = "revoke_grant" /\ mine[c].grant[g] = "revoked" /\ grants[g] # "none"
           /\ \/ pc[c] = "audit" /\ g = Target(c)
              \/ EventOf(c, g) \in mine[c].audit

\* The events that a call has appended are about what it wrote.
EventsHold(c) ==
    \A e \in mine[c].audit :
        /\ e.by = c
        /\ \/ e.kind = job[c].op /\ job[c].op = "revoke_grant"
           \/ e.kind = job[c].op /\ e.target \in DOMAIN mine[c].req
           \/ e.kind = "bulk" /\ e.target = NoGrant

\* A revocation has the grant of the request that it read: it was made, and by the time
\* that the request is marked it is revoked.
SeenHolds(c) ==
    /\ job[c].op = "revoke" /\ pc[c] \in {"grant", "write"} =>
          /\ job[c].seen \in Call \X {Target(c)} /\ grants[job[c].seen] # "none"
          /\ pc[c] = "write" =>
                grants[job[c].seen] = "revoked" \/ job[c].seen \in DOMAIN mine[c].grant
    /\ job[c].op = "revoke" =>
          \A r \in DOMAIN mine[c].req :
             /\ job[c].seen \in Call \X {r} /\ grants[job[c].seen] # "none"
             /\ grants[job[c].seen] = "revoked" \/ job[c].seen \in DOMAIN mine[c].grant

CallHolds(c) == StepsHold(c) /\ RowsHold(c) /\ GrantsHold(c) /\ EventsHold(c) /\ SeenHolds(c)

\* Two calls have no request row in common, which the lock sees to, and a call whose
\* events are committed is done.
CallsApart ==
    /\ \A c, o \in Call : c # o => DOMAIN mine[c].req \cap DOMAIN mine[o].req = {}
    /\ \A e \in audit : pc[e.by] = "done"

Unique(r) == \A d, e \in Decisions(r) : d = e

\* What the committed rows say of each other.
TablesHold ==
    \A r \in Request :
        /\ requests[r].grant # NoGrant => /\ requests[r].grant \in Call \X {r}
                                          /\ grants[requests[r].grant] # "none"
        /\ Happened("approve", r) \/ requests[r].status \in {"approved", "revoked"} =>
              requests[r].grant # NoGrant
        /\ requests[r].status \in {"absent", "requested"} => Decisions(r) = {}
        /\ requests[r].status = "revoked" /\ Unique(r) => grants[requests[r].grant] = "revoked"

RequestsInv == /\ TypeOK /\ (\A c \in Call : CallHolds(c)) /\ CallsApart
               /\ TablesHold /\ DecisionsWitnessed

------------------------------------------------------------------------------
(* Functions over sets of rows                                              *)

\* Put keeps the type of a partial function.
LEMMA PutTyped ==
    ASSUME NEW X, NEW V, NEW f \in UNION {[R -> V] : R \in SUBSET X}, NEW x \in X, NEW v \in V
    PROVE  Put(f, x, v) \in UNION {[R -> V] : R \in SUBSET X}
<1>1. PICK R \in SUBSET X : f \in [R -> V]
  OBVIOUS
<1>2. Put(f, x, v) \in [R \cup {x} -> V]
  BY <1>1 DEF Put
<1> QED
  BY <1>2

\* What Over gives.
LEMMA OverGives ==
    ASSUME NEW f, NEW g
    PROVE  /\ DOMAIN Over(f, g) = DOMAIN f
           /\ \A y \in DOMAIN f : Over(f, g)[y] = IF y \in DOMAIN g THEN g[y] ELSE f[y]
BY DEF Over

\* No grant is a grant of none.
LEMMA NoGrantIsNone == NoGrant \notin Grant
<1> SUFFICES ASSUME NEW c \in Call, NEW r \in Request PROVE <<>> # <<c, r>>
  BY DEF NoGrant, Grant
<1>1. Len(<<>>) = 0 /\ Len(<<c, r>>) = 2
  OBVIOUS
<1> QED
  BY <1>1

\* What the types say of the writes of a call, and of what it sees.
LEMMA CallTypes ==
    ASSUME TypeOK, NEW c \in Call
    PROVE  /\ mine[c] \in Writes /\ job[c] \in Job
           /\ DOMAIN mine[c].req \subseteq Request
           /\ \A r \in DOMAIN mine[c].req : mine[c].req[r] \in Row
           /\ DOMAIN mine[c].grant \subseteq Grant
           /\ \A g \in DOMAIN mine[c].grant : mine[c].grant[g] \in {"live", "revoked"}
           /\ mine[c].audit \subseteq Event
           /\ RequestsOf(c) \in [Request -> Row]
           /\ GrantsOf(c) \in [Grant -> {"none", "live", "revoked"}]
<1>1. mine[c] \in Writes /\ job[c] \in Job
  BY DEF TypeOK
<1>2. PICK R \in SUBSET Request : mine[c].req \in [R -> Row]
  BY <1>1 DEF Writes
<1>3. PICK G \in SUBSET Grant : mine[c].grant \in [G -> {"live", "revoked"}]
  BY <1>1 DEF Writes
<1>4. mine[c].audit \subseteq Event
  BY <1>1 DEF Writes
<1>5. RequestsOf(c) \in [Request -> Row]
  BY <1>2 DEF RequestsOf, Over, TypeOK
<1>6. GrantsOf(c) \in [Grant -> {"none", "live", "revoked"}]
  BY <1>3 DEF GrantsOf, Over, TypeOK
<1> QED
  BY <1>1, <1>2, <1>3, <1>4, <1>5, <1>6

\* Nothing written, and nothing to do, are of their types.
LEMMA NothingTyped ==
    /\ NoWrites \in Writes /\ NoJob \in Job
    /\ DOMAIN NoWrites.req = {} /\ DOMAIN NoWrites.grant = {} /\ NoWrites.audit = {}
    /\ NoWrites.req = Empty /\ NoWrites.grant = Empty /\ DOMAIN Empty = {}
    /\ NoJob.op = "none" /\ ~NoJob.bulk
<1>1. Empty \in [{} -> Row] /\ Empty \in [{} -> {"live", "revoked"}] /\ DOMAIN Empty = {}
  BY DEF Empty
<1>2. NoWrites.req = Empty /\ NoWrites.grant = Empty /\ NoWrites.audit = {}
  BY DEF NoWrites
<1>3. NoWrites \in Writes
  <2>1. Empty \in UNION {[R -> Row] : R \in SUBSET Request}
    BY <1>1
  <2>2. Empty \in UNION {[G -> {"live", "revoked"}] : G \in SUBSET Grant}
    BY <1>1
  <2> QED
    BY <2>1, <2>2 DEF NoWrites, Writes
<1>4. NoJob \in Job /\ NoJob.op = "none" /\ ~NoJob.bulk
  BY DEF NoJob, Job
<1> QED
  BY <1>1, <1>2, <1>3, <1>4

------------------------------------------------------------------------------
(* Steps of one call                                                        *)

\* A call that does nothing holds what it held, as long as the rows it wrote keep their
\* grants and no grant is taken back.
LEMMA OtherCall ==
    ASSUME TypeOK, NEW o \in Call, CallHolds(o),
           pc'[o] = pc[o], job'[o] = job[o], mine'[o] = mine[o],
           \A r \in DOMAIN mine[o].req : requests'[r].grant = requests[r].grant,
           \A g \in Grant : /\ grants[g] # "none" => grants'[g] # "none"
                            /\ grants[g] = "revoked" => grants'[g] = "revoked"
    PROVE  CallHolds(o)'
<1> USE DEF CallHolds
<1>1. StepsHold(o)'
  BY DEF StepsHold, More, Target
<1>2. RowsHold(o)'
  BY DEF RowsHold, EventOf, Pending, Audited, Target
<1>3. GrantsHold(o)'
  <2>1. DOMAIN mine[o].grant \subseteq Grant
    BY CallTypes
  <2> QED
    BY <2>1 DEF GrantsHold, EventOf, Target
<1>4. EventsHold(o)'
  BY DEF EventsHold
<1>5. SeenHolds(o)'
  <2>1. job[o].seen \in Grant \cup {NoGrant} /\ DOMAIN mine[o].req \subseteq Request
    BY CallTypes DEF Job
  <2>2. ASSUME NEW r \in Request, job[o].seen \in Call \X {r}
        PROVE  job[o].seen \in Grant
    <3>1. PICK x \in Call : job[o].seen = <<x, r>>
      BY <2>2
    <3> QED
      BY <3>1 DEF Grant
  <2>3. job[o].op = "revoke" /\ pc[o] \in {"grant", "write"} => Target(o) \in Request
    BY DEF StepsHold, Target, AllOps
  <2>4. (job[o].op = "revoke" /\ pc[o] \in {"grant", "write"} =>
            /\ job[o].seen \in Call \X {Target(o)} /\ grants[job[o].seen] # "none"
            /\ pc[o] = "write" =>
                  grants[job[o].seen] = "revoked" \/ job[o].seen \in DOMAIN mine[o].grant)'
    BY <2>2, <2>3 DEF SeenHolds, Target
  <2>5. (job[o].op = "revoke" =>
            \A r \in DOMAIN mine[o].req :
               /\ job[o].seen \in Call \X {r} /\ grants[job[o].seen] # "none"
               /\ grants[job[o].seen] = "revoked" \/ job[o].seen \in DOMAIN mine[o].grant)'
    BY <2>1, <2>2 DEF SeenHolds
  <2> QED
    BY <2>4, <2>5 DEF SeenHolds
<1> QED
  BY <1>1, <1>2, <1>3, <1>4, <1>5

\* A step that commits nothing keeps the invariant if it keeps what holds of the call.
LEMMA LocalStep ==
    ASSUME RequestsInv, NEW c \in Call, UNCHANGED <<requests, aged, grants, audit>>,
           TypeOK', CallHolds(c)',
           \A o \in Call \ {c} : pc'[o] = pc[o] /\ job'[o] = job[o] /\ mine'[o] = mine[o],
           \A o \in Call \ {c} : DOMAIN mine'[c].req \cap DOMAIN mine[o].req = {},
           pc[c] = "done" => pc'[c] = "done"
    PROVE  RequestsInv'
<1> USE DEF RequestsInv
<1>1. \A o \in Call : CallHolds(o)'
  <2> SUFFICES ASSUME NEW o \in Call \ {c} PROVE CallHolds(o)'
    OBVIOUS
  <2> QED
    BY OtherCall
<1>2. CallsApart'
  <2>1. \A a, b \in Call : a # b => DOMAIN mine'[a].req \cap DOMAIN mine'[b].req = {}
    BY DEF CallsApart
  <2>2. \A e \in audit' : pc'[e.by] = "done"
    <3> SUFFICES ASSUME NEW e \in audit PROVE pc'[e.by] = "done"
      OBVIOUS
    <3>1. e.by \in Call /\ pc[e.by] = "done"
      BY DEF CallsApart, TypeOK, Event
    <3> QED
      BY <3>1
  <2> QED
    BY <2>1, <2>2 DEF CallsApart
<1>3. TablesHold'
  BY DEF TablesHold, Happened, Decisions, Unique
<1>4. DecisionsWitnessed'
  BY DEF DecisionsWitnessed, Happened
<1> QED
  BY <1>1, <1>2, <1>3, <1>4

\* A transaction that ends without a commit leaves nothing.
LEMMA EndedHolds ==
    ASSUME RequestsInv, NEW c \in Call, EndTx(c)
    PROVE  /\ pc' \in [Call -> Step] /\ job' \in [Call -> Job] /\ mine' \in [Call -> Writes]
           /\ pc'[c] = "done" /\ mine'[c] = NoWrites /\ aged' = aged
           /\ \A o \in Call \ {c} : pc'[o] = pc[o] /\ job'[o] = job[o] /\ mine'[o] = mine[o]
           /\ CallHolds(c)'
<1>1. /\ mine' = [mine EXCEPT ![c] = NoWrites] /\ job' = [job EXCEPT ![c] = NoJob]
      /\ pc' = [pc EXCEPT ![c] = "done"] /\ aged' = aged
  BY DEF EndTx
<1>2. /\ pc \in [Call -> Step] /\ job \in [Call -> Job] /\ mine \in [Call -> Writes]
  BY DEF RequestsInv, TypeOK
<1>3. /\ pc'[c] = "done" /\ mine'[c] = NoWrites /\ job'[c] = NoJob
      /\ mine'[c].req = Empty /\ mine'[c].grant = Empty /\ mine'[c].audit = {}
      /\ job'[c].op = "none" /\ ~job'[c].bulk
  BY <1>1, <1>2, NothingTyped
<1>4. StepsHold(c)'
  BY <1>3 DEF StepsHold, AllOps
<1>5. RowsHold(c)' /\ GrantsHold(c)' /\ EventsHold(c)' /\ SeenHolds(c)'
  BY <1>3, NothingTyped DEF RowsHold, GrantsHold, EventsHold, SeenHolds
<1> QED
  BY <1>1, <1>2, <1>3, <1>4, <1>5, NothingTyped DEF CallHolds, Step

LEMMA RollbackSteps ==
    ASSUME RequestsInv, NEW c \in Call, Refuse(c) \/ Rollback(c) \/ DeadlockVictim(c)
    PROVE  RequestsInv'
<1>1. EndTx(c) /\ UNCHANGED <<requests, grants, audit>>
  BY DEF Refuse, Rollback, DeadlockVictim
<1>2. TypeOK'
  BY <1>1, EndedHolds DEF RequestsInv, TypeOK
<1>3. DOMAIN mine'[c].req = {}
  BY <1>1, EndedHolds, NothingTyped
<1> QED
  BY <1>1, <1>2, <1>3, EndedHolds, LocalStep

\* A call that arrives has written nothing, and its targets are of its kind.
LEMMA StartStep ==
    ASSUME RequestsInv, NEW c \in Call, pc[c] = "idle",
           NEW op \in AllOps, NEW bulk \in BOOLEAN, NEW o \in Operator \cup {Nobody},
           NEW todo \in Seq(Request) \cup Seq(Grant), todo # <<>>,
           op = "revoke_grant" => todo \in Seq(Grant),
           op # "revoke_grant" => todo \in Seq(Request),
           op \in {"revoke", "expire"} => ~bulk,
           op = "revoke" => Len(todo) = 1,
           job' = [job EXCEPT ![c] = [op |-> op, bulk |-> bulk, by |-> o, todo |-> todo,
                                      seen |-> NoGrant]],
           pc' = [pc EXCEPT ![c] = CASE op = "revoke_grant" -> "grant"
                                     [] op = "expire" -> "write" [] OTHER -> "read"],
           UNCHANGED <<requests, aged, grants, audit, mine>>
    PROVE  RequestsInv'
<1> DEFINE new == [op |-> op, bulk |-> bulk, by |-> o, todo |-> todo, seen |-> NoGrant]
<1>1. /\ pc \in [Call -> Step] /\ job \in [Call -> Job] /\ mine \in [Call -> Writes]
  BY DEF RequestsInv, TypeOK
<1>2. new \in Job /\ new.op = op /\ new.bulk = bulk /\ new.todo = todo
  BY DEF Job
<1>3. /\ job' \in [Call -> Job] /\ job'[c] = new
      /\ \A d \in Call \ {c} : job'[d] = job[d]
  <2> HIDE DEF new
  <2>1. job' = [job EXCEPT ![c] = new]
    BY DEF new
  <2> QED
    BY <1>1, <1>2, <2>1
<1>4. /\ pc' \in [Call -> Step]
      /\ pc'[c] = IF op = "revoke_grant" THEN "grant" ELSE IF op = "expire" THEN "write"
                  ELSE "read"
      /\ \A d \in Call \ {c} : pc'[d] = pc[d]
  BY <1>1 DEF Step
<1> HIDE DEF new
<1>5. mine'[c] = NoWrites /\ mine'[c].req = Empty /\ mine'[c].grant = Empty
      /\ mine'[c].audit = {}
  BY NothingTyped DEF RequestsInv, CallHolds, StepsHold
<1>6. StepsHold(c)'
  <2>1. job'[c].op = op /\ job'[c].todo = todo /\ (op \in {"revoke", "expire"} => ~job'[c].bulk)
    BY <1>2, <1>3
  <2>2. op \in {"approve", "deny", "revoke", "expire", "revoke_grant"} /\ op # "none"
    BY DEF AllOps
  <2>3. ASSUME op = "revoke" PROVE ~(Len(todo) > 1)
    <3>1. Len(todo) = 1
      BY <2>3
    <3> QED
      BY <3>1
  <2> QED
    BY <1>4, <1>5, <2>1, <2>2, <2>3 DEF StepsHold, More, AllOps
<1>7. RowsHold(c)' /\ GrantsHold(c)' /\ EventsHold(c)'
  BY <1>5, NothingTyped DEF RowsHold, GrantsHold, EventsHold
<1>8. SeenHolds(c)'
  BY <1>2, <1>3, <1>4, <1>5, NothingTyped DEF SeenHolds
<1>9. TypeOK'
  BY <1>3, <1>4 DEF RequestsInv, TypeOK
<1>10. \A d \in Call \ {c} : DOMAIN mine'[c].req \cap DOMAIN mine[d].req = {}
  BY <1>5, NothingTyped
<1> QED
  BY <1>3, <1>4, <1>6, <1>7, <1>8, <1>9, <1>10, LocalStep DEF CallHolds

\* The request is read and allowed.  A revocation has read a grant that was made,
\* because the request is approved.
LEMMA ReadStep ==
    ASSUME RequestsInv, NEW c \in Call, ReadRequest(c)
    PROVE  RequestsInv'
<1>1. /\ pc \in [Call -> Step] /\ job \in [Call -> Job] /\ mine' = mine
      /\ UNCHANGED <<requests, aged, grants, audit>> /\ pc[c] = "read" /\ Allowed(c, Target(c))
      /\ CallHolds(c) /\ StepsHold(c)
  BY DEF RequestsInv, TypeOK, ReadRequest, CallHolds
<1>2. /\ job[c].op \in {"approve", "deny", "revoke"} /\ Target(c) \in Request
      /\ job[c].todo # <<>>
  BY <1>1, CallTypes DEF StepsHold, Target, AllOps, Job, RequestsInv
<1> DEFINE seen == RequestsOf(c)[Target(c)].grant
<1>3. seen \in Grant \cup {NoGrant} /\ job' = [job EXCEPT ![c].seen = seen]
  BY <1>2, CallTypes DEF ReadRequest, Row, RequestsInv
<1> HIDE DEF seen
<1>4. /\ job' \in [Call -> Job] /\ job'[c].seen = seen
      /\ job'[c].op = job[c].op /\ job'[c].bulk = job[c].bulk /\ job'[c].todo = job[c].todo
      /\ \A o \in Call \ {c} : job'[o] = job[o]
  BY <1>1, <1>3 DEF Job
<1>5. ASSUME job[c].op = "revoke"
      PROVE  seen \in Call \X {Target(c)} /\ seen # NoGrant /\ grants[seen] # "none"
  <2>1. RequestsOf(c)[Target(c)] = requests[Target(c)]
    BY <1>1, <1>2, <1>5, OverGives, NothingTyped DEF RequestsOf, StepsHold, RequestsInv, TypeOK
  <2>2. requests[Target(c)].status = "approved"
    BY <1>1, <1>5, <2>1 DEF Allowed
  <2> QED
    BY <1>2, <2>1, <2>2 DEF seen, RequestsInv, TablesHold
<1>6. /\ pc' \in [Call -> Step] /\ pc'[c] = IF job[c].op = "revoke" THEN "grant" ELSE "write"
      /\ \A o \in Call \ {c} : pc'[o] = pc[o]
  BY <1>1, <1>4, <1>5 DEF ReadRequest, Step
<1>7. StepsHold(c)'
  BY <1>1, <1>2, <1>4, <1>6 DEF StepsHold, More, Target, AllOps
<1>8. RowsHold(c)'
  BY <1>1, <1>2, <1>4, <1>6 DEF CallHolds, RowsHold, EventOf, Pending, Audited, AllOps
<1>9. GrantsHold(c)'
  BY <1>1, <1>2, <1>4, <1>6, NothingTyped DEF CallHolds, StepsHold, GrantsHold, EventOf
<1>10. EventsHold(c)'
  BY <1>1, <1>4 DEF CallHolds, EventsHold
<1>11. SeenHolds(c)'
  BY <1>1, <1>2, <1>4, <1>5, <1>6, NothingTyped DEF StepsHold, SeenHolds, Target
<1>12. TypeOK'
  BY <1>1, <1>4, <1>6 DEF RequestsInv, TypeOK
<1>13. \A o \in Call \ {c} : DOMAIN mine'[c].req \cap DOMAIN mine[o].req = {}
  BY <1>1 DEF RequestsInv, CallsApart
<1> QED
  BY <1>1, <1>4, <1>6, <1>7, <1>8, <1>9, <1>10, <1>11, <1>12, <1>13, LocalStep DEF CallHolds

\* What is left of a sequence of targets.
LEMMA TodoRest ==
    ASSUME NEW S, NEW s \in Seq(S), s # <<>>
    PROVE  Head(s) \in S /\ Tail(s) \in Seq(S) /\ (Len(s) > 1 => Tail(s) # <<>>)
<1>1. Head(s) \in S /\ Tail(s) \in Seq(S) /\ Len(Tail(s)) = Len(s) - 1 /\ Len(s) \in Nat
  OBVIOUS
<1>2. ASSUME Len(s) > 1 PROVE Tail(s) # <<>>
  <2>1. Len(Tail(s)) # Len(<<>>)
    BY <1>1, <1>2
  <2> QED
    BY <2>1
<1> QED
  BY <1>1, <1>2

\* The writes of a call whose grants are replaced.
LEMMA GrantsReplaced ==
    ASSUME TypeOK, NEW c \in Call,
           NEW G \in UNION {[S -> {"live", "revoked"}] : S \in SUBSET Grant},
           mine' = [mine EXCEPT ![c] = [mine[c] EXCEPT !.grant = G]]
    PROVE  /\ mine' \in [Call -> Writes] /\ mine'[c].grant = G
           /\ mine'[c].req = mine[c].req /\ mine'[c].audit = mine[c].audit
           /\ \A o \in Call \ {c} : mine'[o] = mine[o]
<1>1. mine \in [Call -> Writes]
  BY DEF TypeOK
<1>2. /\ [mine[c] EXCEPT !.grant = G] \in Writes
      /\ [mine[c] EXCEPT !.grant = G].grant = G
      /\ [mine[c] EXCEPT !.grant = G].req = mine[c].req
      /\ [mine[c] EXCEPT !.grant = G].audit = mine[c].audit
  BY <1>1 DEF Writes
<1> QED
  BY <1>1, <1>2

\* The targets of a call, without the one that it is done with.
LEMMA JobAdvanced ==
    ASSUME TypeOK, NEW c \in Call, job[c].todo # <<>>,
           job' = [job EXCEPT ![c].todo = Tail(@)]
    PROVE  /\ job' \in [Call -> Job] /\ job'[c].todo = Tail(job[c].todo)
           /\ job'[c].op = job[c].op /\ job'[c].bulk = job[c].bulk /\ job'[c].by = job[c].by
           /\ job'[c].seen = job[c].seen
           /\ \A o \in Call \ {c} : job'[o] = job[o]
<1>1. job \in [Call -> Job]
  BY DEF TypeOK
<1>2. job' = [job EXCEPT ![c] = [job[c] EXCEPT !.todo = Tail(job[c].todo)]]
  BY <1>1 DEF Job
<1>3. Tail(job[c].todo) \in Seq(Request) \cup Seq(Grant)
  <2>1. job[c].todo \in Seq(Request) \cup Seq(Grant)
    BY <1>1 DEF Job
  <2> QED
    BY <2>1, TodoRest
<1>4. /\ [job[c] EXCEPT !.todo = Tail(job[c].todo)] \in Job
      /\ [job[c] EXCEPT !.todo = Tail(job[c].todo)].todo = Tail(job[c].todo)
      /\ [job[c] EXCEPT !.todo = Tail(job[c].todo)].op = job[c].op
      /\ [job[c] EXCEPT !.todo = Tail(job[c].todo)].bulk = job[c].bulk
      /\ [job[c] EXCEPT !.todo = Tail(job[c].todo)].by = job[c].by
      /\ [job[c] EXCEPT !.todo = Tail(job[c].todo)].seen = job[c].seen
  BY <1>1, <1>3 DEF Job
<1> QED
  BY <1>1, <1>2, <1>4

\* A grant that was live is revoked by the call.  One that was not had been revoked
\* before, and the call has no more to do with it.
LEMMA UpdateGrantStep ==
    ASSUME RequestsInv, NEW c \in Call, UpdateGrant(c)
    PROVE  RequestsInv'
<1> DEFINE direct == job[c].op = "revoke_grant"
           g == IF direct THEN Target(c) ELSE job[c].seen
           hit == GrantsOf(c)[g] = "live"
           skipped == direct /\ ~hit
<1>1. /\ TypeOK /\ StepsHold(c) /\ RowsHold(c) /\ GrantsHold(c) /\ EventsHold(c) /\ SeenHolds(c)
      /\ pc[c] = "grant" /\ UNCHANGED <<requests, aged, grants, audit>>
      /\ mine' = (IF hit THEN [mine EXCEPT ![c].grant = Put(@, g, "revoked")] ELSE mine)
      /\ pc' = [pc EXCEPT ![c] = IF skipped THEN AfterTarget(c)
                                  ELSE IF direct THEN "audit" ELSE "write"]
      /\ job' = (IF skipped THEN [job EXCEPT ![c].todo = Tail(@)] ELSE job)
  BY DEF RequestsInv, UpdateGrant, CallHolds
<1>2. /\ pc \in [Call -> Step] /\ job \in [Call -> Job] /\ mine \in [Call -> Writes]
      /\ grants \in [Grant -> {"none", "live", "revoked"}]
  BY <1>1 DEF TypeOK
<1>3. /\ job[c].op \in {"revoke", "revoke_grant"} /\ job[c].todo # <<>>
      /\ direct => job[c].todo \in Seq(Grant) /\ Target(c) \in Grant
      /\ ~direct => job[c].todo \in Seq(Request) /\ Target(c) \in Request
  <2>1. job[c].op \in {"revoke", "revoke_grant"} /\ job[c].todo # <<>>
    BY <1>1 DEF StepsHold
  <2>2. direct => job[c].todo \in Seq(Grant)
    BY <1>1 DEF StepsHold
  <2>3. ~direct => job[c].todo \in Seq(Request)
    BY <1>1, <2>1 DEF StepsHold, AllOps
  <2> QED
    BY <2>1, <2>2, <2>3, TodoRest DEF Target
<1>4. g \in Grant
  <2>1. CASE direct
    BY <1>3, <2>1
  <2>2. CASE ~direct
    <3>1. job[c].seen \in Call \X {Target(c)} /\ Target(c) \in Request
      BY <1>1, <1>3, <2>2 DEF SeenHolds
    <3>2. PICK x \in Call : job[c].seen = <<x, Target(c)>>
      BY <3>1
    <3> QED
      BY <2>2, <3>1, <3>2 DEF Grant
  <2> QED
    BY <2>1, <2>2
<1>5. /\ \A x \in DOMAIN mine[c].grant : mine[c].grant[x] = "revoked"
      /\ DOMAIN mine[c].req = {}
      /\ ~direct => mine[c].req = Empty /\ mine[c].grant = Empty /\ DOMAIN mine[c].grant = {}
  <2>1. ~direct => mine[c].req = Empty /\ mine[c].grant = Empty /\ DOMAIN Empty = {}
    BY <1>1, <1>3, NothingTyped DEF StepsHold
  <2>2. direct => DOMAIN mine[c].req = {}
    BY <1>1 DEF RowsHold
  <2>3. \A x \in DOMAIN mine[c].grant : mine[c].grant[x] = "revoked"
    BY <1>1, <1>3 DEF GrantsHold
  <2> QED
    BY <2>1, <2>2, <2>3
<1>6. hit => grants[g] # "none"
  <2> SUFFICES ASSUME hit PROVE grants[g] # "none"
    OBVIOUS
  <2>1. g \notin DOMAIN mine[c].grant /\ GrantsOf(c)[g] = grants[g]
    BY <1>2, <1>4, <1>5, OverGives DEF GrantsOf
  <2> QED
    BY <2>1
<1>7. ~direct /\ ~hit => grants[g] = "revoked"
  <2> SUFFICES ASSUME ~direct, ~hit PROVE grants[g] = "revoked"
    OBVIOUS
  <2>1. GrantsOf(c)[g] = grants[g]
    BY <1>2, <1>4, <1>5, OverGives DEF GrantsOf
  <2>2. grants[g] # "none"
    BY <1>1, <1>3 DEF SeenHolds
  <2> QED
    BY <1>2, <1>4, <2>1, <2>2
<1>8. /\ direct => g = Target(c)
      /\ ~direct => /\ g = job[c].seen /\ g \in Call \X {Target(c)} /\ grants[g] # "none"
                    /\ g[2] = Target(c) /\ job[c].op = "revoke"
  <2> SUFFICES ASSUME ~direct
               PROVE  /\ g = job[c].seen /\ g \in Call \X {Target(c)} /\ grants[g] # "none"
                      /\ g[2] = Target(c) /\ job[c].op = "revoke"
    OBVIOUS
  <2> QED
    BY <1>1, <1>3 DEF SeenHolds
<1>9. ASSUME hit PROVE RequestsInv'
  <2> DEFINE G == Put(mine[c].grant, g, "revoked")
  <2>1. G \in UNION {[S -> {"live", "revoked"}] : S \in SUBSET Grant}
    <3>1. mine[c].grant \in UNION {[S -> {"live", "revoked"}] : S \in SUBSET Grant}
      BY <1>2 DEF Writes
    <3> QED
      BY <1>4, <3>1, PutTyped, ZenonT(60)
  <2>2. mine' = [mine EXCEPT ![c] = [mine[c] EXCEPT !.grant = G]] /\ job' = job
    <3>1. job' = job
      BY <1>1, <1>9
    <3>2. mine' = [mine EXCEPT ![c].grant = Put(@, g, "revoked")]
      BY <1>1, <1>9
    <3> HIDE DEF g, hit
    <3>3. mine' = [mine EXCEPT ![c] = [mine[c] EXCEPT !.grant = G]]
      BY <1>2, <3>2 DEF Writes
    <3> QED
      BY <3>1, <3>3
  <2>3. /\ DOMAIN G = DOMAIN mine[c].grant \cup {g} /\ G[g] = "revoked"
        /\ \A y \in DOMAIN mine[c].grant \ {g} : G[y] = mine[c].grant[y]
    <3> HIDE DEF g
    <3> QED
      BY DEF Put
  <2> HIDE DEF G
  <2>4. /\ mine' \in [Call -> Writes] /\ mine'[c].grant = G
        /\ mine'[c].req = mine[c].req /\ mine'[c].audit = mine[c].audit
        /\ \A o \in Call \ {c} : mine'[o] = mine[o]
    BY <1>1, <2>1, <2>2, GrantsReplaced
  <2>5. /\ pc' \in [Call -> Step] /\ pc'[c] = IF direct THEN "audit" ELSE "write"
        /\ \A o \in Call \ {c} : pc'[o] = pc[o]
    BY <1>1, <1>2, <1>9 DEF Step
  <2> HIDE DEF g, hit
  <2>6. StepsHold(c)'
    BY <1>1, <1>3, <1>5, <2>2, <2>4, <2>5 DEF StepsHold, More, AllOps
  <2>7. RowsHold(c)' /\ EventsHold(c)'
    BY <1>1, <1>5, <2>2, <2>4 DEF RowsHold, EventsHold
  <2>8. GrantsHold(c)'
    <3> SUFFICES ASSUME NEW x \in DOMAIN G PROVE GrantsHold(c)!(x)'
      BY <2>4 DEF GrantsHold
    <3>1. CASE x = g
      BY <1>1, <1>3, <1>6, <1>8, <1>9, <2>2, <2>3, <2>4, <2>5, <3>1 DEF Target
    <3>2. CASE x # g
      <4>1. /\ x \in DOMAIN mine[c].grant /\ direct /\ G[x] = "revoked"
            /\ grants[x] # "none" /\ EventOf(c, x) \in mine[c].audit
        BY <1>1, <1>5, <2>3, <3>2 DEF GrantsHold
      <4> QED
        BY <1>1, <2>2, <2>4, <4>1 DEF EventOf
    <3> QED
      BY <3>1, <3>2
  <2>9. SeenHolds(c)'
    BY <1>1, <1>3, <1>5, <1>8, <2>2, <2>3, <2>4, <2>5 DEF SeenHolds, Target
  <2>10. TypeOK'
    BY <1>1, <2>2, <2>4, <2>5 DEF TypeOK
  <2>11. DOMAIN mine'[c].req = {}
    BY <1>5, <2>4
  <2> QED
    BY <1>1, <2>2, <2>4, <2>5, <2>6, <2>7, <2>8, <2>9, <2>10, <2>11, LocalStep DEF CallHolds
<1>10. ASSUME ~hit, direct PROVE RequestsInv'
  <2>1. mine' = mine /\ job' = [job EXCEPT ![c].todo = Tail(@)]
    BY <1>1, <1>10
  <2>2. /\ job' \in [Call -> Job] /\ job'[c].todo = Tail(job[c].todo)
        /\ job'[c].op = "revoke_grant" /\ job'[c].bulk = job[c].bulk
        /\ \A o \in Call \ {c} : job'[o] = job[o]
    BY <1>1, <1>3, <1>10, <2>1, JobAdvanced
  <2>3. /\ pc' \in [Call -> Step] /\ \A o \in Call \ {c} : pc'[o] = pc[o]
        /\ pc'[c] = IF More(c) THEN "grant" ELSE IF job[c].bulk THEN "summary" ELSE "commit"
    BY <1>1, <1>2, <1>10 DEF Step, AfterTarget, FirstStep
  <2>4. Tail(job[c].todo) \in Seq(Grant) /\ (More(c) => Tail(job[c].todo) # <<>>)
    BY <1>3, <1>10, TodoRest DEF More
  <2> HIDE DEF g, hit
  <2>5. StepsHold(c)'
    BY <2>2, <2>3, <2>4 DEF StepsHold, AllOps
  <2>6. RowsHold(c)' /\ EventsHold(c)' /\ SeenHolds(c)'
    BY <1>1, <1>5, <1>10, <2>1, <2>2 DEF RowsHold, EventsHold, SeenHolds
  <2>7. GrantsHold(c)'
    BY <1>1, <1>10, <2>1, <2>2 DEF GrantsHold, EventOf
  <2>8. TypeOK'
    BY <1>1, <2>1, <2>2, <2>3 DEF TypeOK
  <2>9. DOMAIN mine'[c].req = {}
    BY <1>5, <2>1
  <2> QED
    BY <1>1, <2>1, <2>2, <2>3, <2>5, <2>6, <2>7, <2>8, <2>9, LocalStep DEF CallHolds
<1>11. ASSUME ~hit, ~direct PROVE RequestsInv'
  <2>1. mine' = mine /\ job' = job
    BY <1>1, <1>11
  <2>2. /\ pc' \in [Call -> Step] /\ pc'[c] = "write" /\ \A o \in Call \ {c} : pc'[o] = pc[o]
    BY <1>1, <1>2, <1>11 DEF Step
  <2>3. grants[job[c].seen] = "revoked"
    BY <1>7, <1>8, <1>11
  <2> HIDE DEF g, hit
  <2>4. StepsHold(c)'
    BY <1>1, <1>3, <1>5, <1>11, <2>1, <2>2 DEF StepsHold, More, AllOps
  <2>5. RowsHold(c)' /\ EventsHold(c)' /\ GrantsHold(c)'
    BY <1>1, <1>5, <1>11, <2>1 DEF RowsHold, EventsHold, GrantsHold
  <2>6. SeenHolds(c)'
    BY <1>1, <1>5, <1>8, <1>11, <2>1, <2>2, <2>3 DEF SeenHolds, Target
  <2>7. TypeOK'
    BY <1>1, <2>1, <2>2 DEF TypeOK
  <2>8. DOMAIN mine'[c].req = {}
    BY <1>5, <2>1
  <2> QED
    BY <1>1, <2>1, <2>2, <2>4, <2>5, <2>6, <2>7, <2>8, LocalStep DEF CallHolds
<1> QED
  BY <1>9, <1>10, <1>11

\* The row that a call leaves has the status of its operation.
LEMMA MarkedRow ==
    ASSUME TypeOK, NEW c \in Call, job[c].op \in AllOps \ {"revoke_grant"},
           Target(c) \in Request, NEW row \in Row
    PROVE  /\ Marked(c, row) \in Row /\ Marked(c, row).status = Result(job[c].op)
           /\ Marked(c, row).grant = IF job[c].op = "approve" THEN <<c, Target(c)>> ELSE row.grant
<1>1. job[c].by \in Operator \cup {Nobody} /\ <<c, Target(c)>> \in Grant
  BY DEF TypeOK, Job, Grant
<1>2. CASE job[c].op = "approve"
  BY <1>1, <1>2 DEF Marked, Result, Row, Status
<1>3. CASE job[c].op = "deny"
  BY <1>1, <1>3 DEF Marked, Result, Row, Status
<1>4. CASE job[c].op = "revoke"
  BY <1>4 DEF Marked, Result, Row, Status
<1>5. CASE job[c].op = "expire"
  BY <1>5 DEF Marked, Result, Row, Status
<1> QED
  BY <1>2, <1>3, <1>4, <1>5 DEF AllOps

\* The writes of a call whose rows and grants are replaced.
LEMMA RowsReplaced ==
    ASSUME TypeOK, NEW c \in Call, NEW R \in UNION {[S -> Row] : S \in SUBSET Request},
           NEW G \in UNION {[S -> {"live", "revoked"}] : S \in SUBSET Grant},
           mine' = [mine EXCEPT ![c] = [mine[c] EXCEPT !.req = R, !.grant = G]]
    PROVE  /\ mine' \in [Call -> Writes] /\ mine'[c].req = R /\ mine'[c].grant = G
           /\ mine'[c].audit = mine[c].audit
           /\ \A o \in Call \ {c} : mine'[o] = mine[o]
<1>1. mine \in [Call -> Writes]
  BY DEF TypeOK
<1>2. /\ [mine[c] EXCEPT !.req = R, !.grant = G] \in Writes
      /\ [mine[c] EXCEPT !.req = R, !.grant = G].req = R
      /\ [mine[c] EXCEPT !.req = R, !.grant = G].grant = G
      /\ [mine[c] EXCEPT !.req = R, !.grant = G].audit = mine[c].audit
  BY <1>1 DEF Writes
<1> QED
  BY <1>1, <1>2

\* The request is marked, and an approval has made its grant.  A row that no other call
\* has a lock on is no other call's.
LEMMA UpdateRequestStep ==
    ASSUME RequestsInv, NEW c \in Call, UpdateRequest(c)
    PROVE  RequestsInv'
<1> DEFINE r == Target(c)
           R == Put(mine[c].req, r, Marked(c, RequestsOf(c)[r]))
           G == IF job[c].op = "approve" THEN Put(mine[c].grant, <<c, r>>, "live")
                                         ELSE mine[c].grant
           again == job[c].op = "expire" /\ More(c)
<1>1. /\ TypeOK /\ StepsHold(c) /\ RowsHold(c) /\ GrantsHold(c) /\ EventsHold(c) /\ SeenHolds(c)
      /\ CallsApart /\ pc[c] = "write" /\ ~RequestLocked(c, r)
      /\ UNCHANGED <<requests, aged, grants, audit>>
      /\ pc' = [pc EXCEPT ![c] = IF again THEN "write" ELSE "audit"]
      /\ job' = (IF again THEN [job EXCEPT ![c].todo = Tail(@)] ELSE job)
  BY DEF RequestsInv, UpdateRequest, CallHolds
<1>2. /\ pc \in [Call -> Step] /\ job \in [Call -> Job] /\ mine \in [Call -> Writes]
      /\ requests \in [Request -> Row]
  BY <1>1 DEF TypeOK
<1>3. mine' = [mine EXCEPT ![c] = [mine[c] EXCEPT !.req = R, !.grant = G]]
  <2> DEFINE row == Marked(c, RequestsOf(c)[r])
             made == IF job[c].op = "approve" THEN Put(mine[c].grant, <<c, r>>, "live")
                                              ELSE mine[c].grant
  <2>1. mine' = [mine EXCEPT ![c].req = Put(@, r, row), ![c].grant = made]
    BY DEF UpdateRequest
  <2> HIDE DEF row, made
  <2>2. mine' = [mine EXCEPT ![c] = [mine[c] EXCEPT !.req = Put(mine[c].req, r, row),
                                                    !.grant = made]]
    BY <1>2, <2>1 DEF Writes
  <2> QED
    BY <2>2 DEF row, made
<1>4. /\ job[c].op \in AllOps \ {"revoke_grant"} /\ job[c].todo \in Seq(Request)
      /\ job[c].todo # <<>> /\ r \in Request
  <2>1. job[c].op \in AllOps \ {"revoke_grant"}
    BY <1>1, <1>2 DEF StepsHold, Job
  <2>2. job[c].todo \in Seq(Request) /\ job[c].todo # <<>>
    BY <1>1, <2>1 DEF StepsHold
  <2> QED
    BY <2>1, <2>2, TodoRest DEF Target
<1>5. /\ mine[c].req \in UNION {[S -> Row] : S \in SUBSET Request}
      /\ mine[c].grant \in UNION {[S -> {"live", "revoked"}] : S \in SUBSET Grant}
      /\ RequestsOf(c) \in [Request -> Row]
  BY <1>1, <1>2, CallTypes DEF Writes
<1>6. job[c].op # "approve" => RequestsOf(c)[r].grant = requests[r].grant
  <2>1. RequestsOf(c)[r] = IF r \in DOMAIN mine[c].req THEN mine[c].req[r] ELSE requests[r]
    BY <1>2, <1>4, OverGives DEF RequestsOf
  <2> QED
    BY <1>1, <2>1 DEF RowsHold
<1>7. /\ R \in UNION {[S -> Row] : S \in SUBSET Request}
      /\ DOMAIN R = DOMAIN mine[c].req \cup {r}
      /\ \A y \in DOMAIN mine[c].req \ {r} : R[y] = mine[c].req[y]
      /\ R[r].status = Result(job[c].op)
      /\ R[r].grant = IF job[c].op = "approve" THEN <<c, r>> ELSE requests[r].grant
  <2> DEFINE row == Marked(c, RequestsOf(c)[r])
  <2>1. /\ row \in Row /\ row.status = Result(job[c].op)
        /\ row.grant = IF job[c].op = "approve" THEN <<c, r>> ELSE requests[r].grant
    BY <1>1, <1>4, <1>5, <1>6, MarkedRow
  <2> HIDE DEF row
  <2>2. Put(mine[c].req, r, row) \in UNION {[S -> Row] : S \in SUBSET Request}
    BY <1>4, <1>5, <2>1, PutTyped
  <2>3. /\ DOMAIN Put(mine[c].req, r, row) = DOMAIN mine[c].req \cup {r}
        /\ Put(mine[c].req, r, row)[r] = row
        /\ \A y \in DOMAIN mine[c].req \ {r} : Put(mine[c].req, r, row)[y] = mine[c].req[y]
    <3> HIDE DEF r
    <3> QED
      BY DEF Put
  <2> QED
    BY <2>1, <2>2, <2>3 DEF row
<1>8. /\ G \in UNION {[S -> {"live", "revoked"}] : S \in SUBSET Grant}
      /\ DOMAIN mine[c].grant \subseteq DOMAIN G
      /\ job[c].op # "approve" => G = mine[c].grant
      /\ job[c].op = "approve" => /\ DOMAIN G = DOMAIN mine[c].grant \cup {<<c, r>>}
                                  /\ G[<<c, r>>] = "live"
                                  /\ \A y \in DOMAIN mine[c].grant \ {<<c, r>>} :
                                        G[y] = mine[c].grant[y]
  <2>1. CASE job[c].op = "approve"
    <3>1. <<c, r>> \in Grant
      BY <1>4 DEF Grant
    <3>2. G = Put(mine[c].grant, <<c, r>>, "live")
      BY <2>1
    <3> HIDE DEF r, G
    <3>3. G \in UNION {[S -> {"live", "revoked"}] : S \in SUBSET Grant}
      BY <1>5, <3>1, <3>2, PutTyped
    <3>4. /\ DOMAIN G = DOMAIN mine[c].grant \cup {<<c, r>>} /\ G[<<c, r>>] = "live"
          /\ \A y \in DOMAIN mine[c].grant \ {<<c, r>>} : G[y] = mine[c].grant[y]
      BY <3>2 DEF Put
    <3> QED
      BY <2>1, <3>3, <3>4
  <2>2. CASE job[c].op # "approve"
    BY <1>5, <2>2
  <2> QED
    BY <2>1, <2>2
<1> HIDE DEF R, G
<1>9. /\ mine' \in [Call -> Writes] /\ mine'[c].req = R /\ mine'[c].grant = G
      /\ mine'[c].audit = mine[c].audit
      /\ \A o \in Call \ {c} : mine'[o] = mine[o]
  BY <1>1, <1>3, <1>7, <1>8, RowsReplaced
<1>10. /\ pc' \in [Call -> Step] /\ pc'[c] = IF again THEN "write" ELSE "audit"
       /\ \A o \in Call \ {c} : pc'[o] = pc[o]
  BY <1>1, <1>2 DEF Step
<1>11. /\ job' \in [Call -> Job] /\ job'[c].op = job[c].op /\ job'[c].bulk = job[c].bulk
       /\ job'[c].seen = job[c].seen
       /\ job'[c].todo = IF again THEN Tail(job[c].todo) ELSE job[c].todo
       /\ \A o \in Call \ {c} : job'[o] = job[o]
  <2>1. CASE again
    <3>1. job' = [job EXCEPT ![c].todo = Tail(@)]
      BY <1>1, <2>1
    <3> HIDE DEF again
    <3> QED
      BY <1>1, <1>4, <2>1, <3>1, JobAdvanced
  <2>2. CASE ~again
    BY <1>1, <1>2, <2>2
  <2> QED
    BY <2>1, <2>2
<1>12. /\ job'[c].todo \in Seq(Request) /\ job'[c].todo # <<>>
       /\ ~again => job'[c].todo = job[c].todo
       /\ job[c].op # "expire" => ~again
       /\ job[c].op = "expire" /\ ~again => ~More(c)
  <2>1. More(c) => Tail(job[c].todo) # <<>>
    BY <1>4, TodoRest DEF More
  <2>2. Tail(job[c].todo) \in Seq(Request)
    BY <1>4, TodoRest
  <2> QED
    BY <1>4, <1>11, <2>1, <2>2
<1> HIDE DEF again
<1>13. StepsHold(c)'
  BY <1>1, <1>4, <1>7, <1>9, <1>10, <1>11, <1>12 DEF StepsHold, More, Target, AllOps
<1>14. RowsHold(c)'
  <2> SUFFICES ASSUME NEW x \in DOMAIN R PROVE RowsHold(c)!(x)'
    BY <1>9 DEF RowsHold
  <2>1. R[x].status = Result(job[c].op)
    BY <1>1, <1>7 DEF RowsHold
  <2>2. R[x].grant = IF job[c].op = "approve" THEN <<c, x>> ELSE requests[x].grant
    BY <1>1, <1>7 DEF RowsHold
  <2>3. job[c].op = "approve" => <<c, x>> \in DOMAIN G
    BY <1>1, <1>7, <1>8 DEF RowsHold
  <2>4. EventOf(c, x) \in mine[c].audit \/ Pending(c, x)'
    <3>1. CASE job[c].op = "expire"
      BY <1>9, <1>10, <1>11, <3>1 DEF Pending, Audited
    <3>2. CASE job[c].op # "expire" /\ x = r
      BY <1>10, <1>11, <1>12, <3>2 DEF Pending, Audited, Target
    <3>3. CASE job[c].op # "expire" /\ x # r
      BY <1>1, <1>7, <3>3 DEF RowsHold, Pending
    <3> QED
      BY <3>1, <3>2, <3>3
  <2>5. EventOf(c, x)' = EventOf(c, x)
    BY <1>11 DEF EventOf
  <2> QED
    BY <1>1, <1>4, <1>9, <1>11, <2>1, <2>2, <2>3, <2>4, <2>5
<1>15. GrantsHold(c)'
  <2> SUFFICES ASSUME NEW g \in DOMAIN G PROVE GrantsHold(c)!(g)'
    BY <1>9 DEF GrantsHold
  <2>1. CASE job[c].op = "approve" /\ g = <<c, r>>
    BY <1>7, <1>8, <1>9, <1>11, <2>1
  <2>2. CASE job[c].op = "approve" /\ g # <<c, r>>
    BY <1>1, <1>7, <1>8, <1>9, <1>11, <2>2 DEF GrantsHold
  <2>3. CASE job[c].op # "approve"
    <3>1. /\ g \in DOMAIN mine[c].grant /\ G[g] = mine[c].grant[g] /\ job[c].op = "revoke"
          /\ mine[c].grant[g] = "revoked" /\ grants[g] # "none" /\ g = job[c].seen
          /\ g[2] = Target(c) \/ EventOf(c, g[2]) \in mine[c].audit
      BY <1>1, <1>4, <1>8, <2>3 DEF GrantsHold
    <3> QED
      BY <1>1, <1>9, <1>10, <1>11, <1>12, <3>1 DEF Target, EventOf
  <2> QED
    BY <2>1, <2>2, <2>3
<1>16. EventsHold(c)'
  BY <1>1, <1>7, <1>9, <1>11 DEF EventsHold
<1>17. SeenHolds(c)'
  <2> SUFFICES ASSUME job[c].op = "revoke" PROVE SeenHolds(c)'
    BY <1>11 DEF SeenHolds
  <2>1. DOMAIN R = {r} /\ pc'[c] = "audit"
    BY <1>1, <1>7, <1>10, <1>12, NothingTyped DEF StepsHold
  <2>2. /\ job[c].seen \in Call \X {r} /\ grants[job[c].seen] # "none"
        /\ grants[job[c].seen] = "revoked" \/ job[c].seen \in DOMAIN G
    BY <1>1, <1>8 DEF SeenHolds
  <2> QED
    BY <1>1, <1>9, <1>11, <2>1, <2>2 DEF SeenHolds
<1>18. TypeOK'
  BY <1>1, <1>9, <1>10, <1>11 DEF TypeOK
<1>19. \A o \in Call \ {c} : DOMAIN mine'[c].req \cap DOMAIN mine[o].req = {}
  BY <1>1, <1>7, <1>9 DEF CallsApart, RequestLocked
<1> QED
  BY <1>1, <1>9, <1>10, <1>11, <1>13, <1>14, <1>15, <1>16, <1>17, <1>18, <1>19, LocalStep
     DEF CallHolds

\* The writes of a call that has appended to the audit log.
LEMMA EventsAppended ==
    ASSUME TypeOK, NEW c \in Call, NEW A \in SUBSET Event,
           mine' = [mine EXCEPT ![c].audit = @ \cup A]
    PROVE  /\ mine' \in [Call -> Writes] /\ mine'[c].audit = mine[c].audit \cup A
           /\ mine'[c].req = mine[c].req /\ mine'[c].grant = mine[c].grant
           /\ \A o \in Call \ {c} : mine'[o] = mine[o]
<1>1. mine \in [Call -> Writes]
  BY DEF TypeOK
<1>2. mine' = [mine EXCEPT ![c] = [mine[c] EXCEPT !.audit = mine[c].audit \cup A]]
  BY <1>1 DEF Writes
<1>3. /\ [mine[c] EXCEPT !.audit = mine[c].audit \cup A] \in Writes
      /\ [mine[c] EXCEPT !.audit = mine[c].audit \cup A].audit = mine[c].audit \cup A
      /\ [mine[c] EXCEPT !.audit = mine[c].audit \cup A].req = mine[c].req
      /\ [mine[c] EXCEPT !.audit = mine[c].audit \cup A].grant = mine[c].grant
  BY <1>1 DEF Writes
<1> QED
  BY <1>1, <1>2, <1>3

\* What was written gets its event before the next target is taken, or at the end.
LEMMA AppendAuditStep ==
    ASSUME RequestsInv, NEW c \in Call, AppendAudit(c)
    PROVE  RequestsInv'
<1>1. /\ TypeOK /\ StepsHold(c) /\ RowsHold(c) /\ GrantsHold(c) /\ EventsHold(c) /\ SeenHolds(c)
      /\ CallsApart /\ pc[c] = "audit" /\ UNCHANGED <<requests, aged, grants, audit>>
      /\ mine' = [mine EXCEPT ![c].audit = @ \cup Events(c)]
      /\ job' = [job EXCEPT ![c].todo = Tail(@)]
      /\ pc' = [pc EXCEPT ![c] = AfterTarget(c)]
  BY DEF RequestsInv, AppendAudit, CallHolds
<1>2. pc \in [Call -> Step] /\ job \in [Call -> Job]
  BY <1>1 DEF TypeOK
<1>3. /\ job[c].op \in AllOps /\ job[c].todo # <<>>
      /\ job[c].op = "revoke_grant" => job[c].todo \in Seq(Grant) /\ Target(c) \in Grant
      /\ job[c].op # "revoke_grant" => job[c].todo \in Seq(Request) /\ Target(c) \in Request
  <2>1. job[c].op \in AllOps /\ job[c].todo # <<>>
    BY <1>1, <1>2 DEF StepsHold, Job
  <2>2. /\ job[c].op = "revoke_grant" => job[c].todo \in Seq(Grant)
        /\ job[c].op # "revoke_grant" => job[c].todo \in Seq(Request)
    BY <1>1, <2>1 DEF StepsHold
  <2> QED
    BY <2>1, <2>2, TodoRest DEF Target
<1>4. \A e \in Events(c) : /\ e \in Event /\ e.by = c /\ e.kind = job[c].op
                           /\ e.target \in Audited(c)
  <2>1. Audited(c) \subseteq Request \cup Grant
    BY <1>1, <1>3, CallTypes DEF Audited
  <2> QED
    BY <1>3, <2>1 DEF Events, Event
<1>5. \A x \in Audited(c) : EventOf(c, x) \in Events(c)
  BY DEF Events, EventOf
<1>6. /\ mine' \in [Call -> Writes] /\ mine'[c].audit = mine[c].audit \cup Events(c)
      /\ mine'[c].req = mine[c].req /\ mine'[c].grant = mine[c].grant
      /\ \A o \in Call \ {c} : mine'[o] = mine[o]
  BY <1>1, <1>4, EventsAppended
<1>7. /\ job' \in [Call -> Job] /\ job'[c].todo = Tail(job[c].todo)
      /\ job'[c].op = job[c].op /\ job'[c].bulk = job[c].bulk /\ job'[c].seen = job[c].seen
      /\ \A o \in Call \ {c} : job'[o] = job[o]
  BY <1>1, <1>3, JobAdvanced
<1>8. /\ pc' \in [Call -> Step] /\ \A o \in Call \ {c} : pc'[o] = pc[o]
      /\ pc'[c] = IF More(c) THEN IF job[c].op = "revoke_grant" THEN "grant" ELSE "read"
                  ELSE IF job[c].bulk THEN "summary" ELSE "commit"
  BY <1>1, <1>2 DEF Step, AfterTarget, FirstStep
<1>9. /\ job[c].op = "revoke_grant" => Tail(job[c].todo) \in Seq(Grant)
      /\ job[c].op # "revoke_grant" => Tail(job[c].todo) \in Seq(Request)
      /\ More(c) => Tail(job[c].todo) # <<>>
      /\ job[c].op \in {"revoke", "expire"} => ~More(c) /\ ~job[c].bulk
  <2>1. More(c) => Tail(job[c].todo) # <<>>
    BY <1>3, TodoRest DEF More
  <2>2. job[c].op \in {"revoke", "expire"} => ~More(c) /\ ~job[c].bulk
    BY <1>1 DEF StepsHold
  <2> QED
    BY <1>3, <2>1, <2>2, TodoRest
<1>10. StepsHold(c)'
  BY <1>1, <1>3, <1>6, <1>7, <1>8, <1>9 DEF StepsHold, AllOps
<1>11. RowsHold(c)'
  BY <1>1, <1>5, <1>6, <1>7 DEF RowsHold, EventOf, Pending
<1>12. GrantsHold(c)'
  <2> SUFFICES ASSUME NEW g \in DOMAIN mine[c].grant PROVE GrantsHold(c)!(g)'
    BY <1>6 DEF GrantsHold
  <2>1. CASE job[c].op = "approve"
    BY <1>1, <1>6, <1>7, <2>1 DEF GrantsHold
  <2>2. CASE job[c].op \in {"revoke", "revoke_grant"}
    <3>1. \A x : EventOf(c, x)' = EventOf(c, x)
      BY <1>7 DEF EventOf
    <3>2. EventOf(c, Target(c)) \in Events(c)
      BY <1>5, <2>2 DEF Audited
    <3> QED
      BY <1>1, <1>6, <1>7, <2>2, <3>1, <3>2 DEF GrantsHold
  <2> QED
    BY <1>1, <2>1, <2>2 DEF GrantsHold
<1>13. EventsHold(c)'
  <2>1. job[c].op # "revoke_grant" => Audited(c) \subseteq DOMAIN mine[c].req
    BY <1>1 DEF Audited, StepsHold
  <2> QED
    BY <1>1, <1>4, <1>6, <1>7, <2>1 DEF EventsHold
<1>14. SeenHolds(c)'
  BY <1>1, <1>6, <1>7, <1>8, <1>9 DEF SeenHolds
<1>15. TypeOK'
  BY <1>1, <1>6, <1>7, <1>8 DEF TypeOK
<1>16. \A o \in Call \ {c} : DOMAIN mine'[c].req \cap DOMAIN mine[o].req = {}
  BY <1>1, <1>6 DEF CallsApart
<1> QED
  BY <1>1, <1>6, <1>7, <1>8, <1>10, <1>11, <1>12, <1>13, <1>14, <1>15, <1>16, LocalStep
     DEF CallHolds

\* The event about a bulk call is about no request and no grant.
LEMMA AppendSummaryStep ==
    ASSUME RequestsInv, NEW c \in Call, AppendSummary(c)
    PROVE  RequestsInv'
<1> DEFINE e == [kind |-> "bulk", target |-> NoGrant, by |-> c]
<1>1. /\ TypeOK /\ StepsHold(c) /\ RowsHold(c) /\ GrantsHold(c) /\ EventsHold(c) /\ SeenHolds(c)
      /\ CallsApart /\ pc[c] = "summary" /\ UNCHANGED <<requests, aged, grants, audit>>
      /\ mine' = [mine EXCEPT ![c].audit = @ \cup {e}] /\ job' = job
      /\ pc' = [pc EXCEPT ![c] = "commit"]
  BY DEF RequestsInv, AppendSummary, CallHolds
<1>2. e \in Event /\ e.by = c /\ e.kind = "bulk" /\ e.target = NoGrant
  BY DEF Event
<1> HIDE DEF e
<1>3. /\ mine' \in [Call -> Writes] /\ mine'[c].audit = mine[c].audit \cup {e}
      /\ mine'[c].req = mine[c].req /\ mine'[c].grant = mine[c].grant
      /\ \A o \in Call \ {c} : mine'[o] = mine[o]
  <2>1. {e} \in SUBSET Event
    BY <1>2
  <2> QED
    BY <1>1, <2>1, EventsAppended
<1>4. /\ pc' \in [Call -> Step] /\ pc'[c] = "commit" /\ \A o \in Call \ {c} : pc'[o] = pc[o]
  BY <1>1 DEF TypeOK, Step
<1>5. StepsHold(c)'
  <2>1. More(c)' <=> More(c)
    BY <1>1 DEF More
  <2> QED
    BY <1>1, <1>3, <1>4, <2>1 DEF StepsHold
<1>6. RowsHold(c)'
  BY <1>1, <1>3, <1>4 DEF RowsHold, EventOf, Pending
<1>7. GrantsHold(c)'
  BY <1>1, <1>3, <1>4 DEF GrantsHold, EventOf, Target
<1>8. EventsHold(c)' /\ SeenHolds(c)'
  BY <1>1, <1>2, <1>3, <1>4 DEF EventsHold, SeenHolds
<1>9. TypeOK'
  BY <1>1, <1>3, <1>4 DEF TypeOK
<1>10. \A o \in Call \ {c} : DOMAIN mine'[c].req \cap DOMAIN mine[o].req = {}
  BY <1>1, <1>3 DEF CallsApart
<1> QED
  BY <1>1, <1>3, <1>4, <1>5, <1>6, <1>7, <1>8, <1>9, <1>10, LocalStep DEF CallHolds

------------------------------------------------------------------------------
(* The commit                                                               *)

\* A grant has the pair of the call that made it and of the request that it is for.
LEMMA GrantPairs ==
    /\ \A g \in Grant : g[1] \in Call /\ g[2] \in Request /\ g = <<g[1], g[2]>>
    /\ \A c \in Call, r \in Request : <<c, r>> \in Grant /\ <<c, r>>[1] = c /\ <<c, r>>[2] = r
    /\ \A r \in Request : \A g \in Call \X {r} : g \in Grant /\ g[1] \in Call /\ g[2] = r
BY DEF Grant

\* What a call that is about to commit has in its writes.
LEMMA ReadyToCommit ==
    ASSUME RequestsInv, NEW c \in Call, pc[c] = "commit"
    PROVE  /\ \A r \in DOMAIN mine[c].req : EventOf(c, r) \in mine[c].audit
           /\ \A g \in DOMAIN mine[c].grant :
                 \/ /\ job[c].op = "approve" /\ mine[c].grant[g] = "live"
                    /\ g = <<c, g[2]>> /\ EventOf(c, g[2]) \in mine[c].audit /\ grants[g] = "none"
                 \/ /\ mine[c].grant[g] = "revoked" /\ grants[g] # "none"
                    /\ \/ job[c].op = "revoke" /\ EventOf(c, g[2]) \in mine[c].audit
                       \/ job[c].op = "revoke_grant" /\ EventOf(c, g) \in mine[c].audit
           /\ \A e \in mine[c].audit : \A r \in Request :
                 e.kind \in AllOps \ {"revoke_grant"} /\ e.target = r =>
                    e.kind = job[c].op /\ r \in DOMAIN mine[c].req
<1>1. /\ TypeOK /\ RowsHold(c) /\ GrantsHold(c) /\ EventsHold(c) /\ CallsApart
      /\ DecisionsWitnessed
  BY DEF RequestsInv, CallHolds
<1>2. DOMAIN mine[c].grant \subseteq Grant /\ DOMAIN mine[c].req \subseteq Request
  BY <1>1, CallTypes
<1>3. \A r \in DOMAIN mine[c].req : EventOf(c, r) \in mine[c].audit
  BY <1>1 DEF RowsHold, Pending
<1>4. ASSUME NEW g \in DOMAIN mine[c].grant
      PROVE  \/ /\ job[c].op = "approve" /\ mine[c].grant[g] = "live"
                /\ g = <<c, g[2]>> /\ EventOf(c, g[2]) \in mine[c].audit /\ grants[g] = "none"
             \/ /\ mine[c].grant[g] = "revoked" /\ grants[g] # "none"
                /\ \/ job[c].op = "revoke" /\ EventOf(c, g[2]) \in mine[c].audit
                   \/ job[c].op = "revoke_grant" /\ EventOf(c, g) \in mine[c].audit
  <2>1. CASE job[c].op = "approve"
    <3>1. /\ mine[c].grant[g] = "live" /\ g[1] = c /\ g[2] \in DOMAIN mine[c].req
          /\ g = <<g[1], g[2]>>
      BY <1>1, <1>2, <2>1, GrantPairs DEF GrantsHold
    <3>2. ASSUME grants[g] # "none" PROVE FALSE
      <4>1. [kind |-> "approve", target |-> g[2], by |-> g[1]] \in audit
        BY <1>1, <1>2, <3>2 DEF DecisionsWitnessed
      <4>2. pc[c] = "done"
        BY <1>1, <3>1, <4>1 DEF CallsApart
      <4> QED
        BY <4>2
    <3> QED
      BY <1>3, <2>1, <3>1, <3>2
  <2>2. CASE job[c].op # "approve"
    BY <1>1, <2>2 DEF GrantsHold
  <2> QED
    BY <2>1, <2>2
<1>5. ASSUME NEW e \in mine[c].audit, NEW r \in Request,
             e.kind \in AllOps \ {"revoke_grant"}, e.target = r
      PROVE  e.kind = job[c].op /\ r \in DOMAIN mine[c].req
  BY <1>1, <1>5 DEF EventsHold, AllOps
<1> QED
  BY <1>3, <1>4, <1>5

\* A commit makes the writes of the call those of all, with their events: the witnesses
\* are there at once, and no call takes back what another one decided.
LEMMA CommitStep ==
    ASSUME RequestsInv, NEW c \in Call, Commit(c)
    PROVE  /\ RequestsInv'
           /\ \A g \in Grant : grants[g] = "revoked" => grants'[g] = "revoked"
           /\ \A r \in Request : requests[r].status \notin {"absent", "requested"} =>
                 requests'[r].status \notin {"absent", "requested"}
<1> DEFINE R == mine[c].req
           G == mine[c].grant
           A == mine[c].audit
<1>1. /\ TypeOK /\ RowsHold(c) /\ GrantsHold(c) /\ EventsHold(c) /\ SeenHolds(c)
      /\ CallsApart /\ TablesHold /\ DecisionsWitnessed
      /\ pc[c] = "commit" /\ requests' = RequestsOf(c) /\ grants' = GrantsOf(c)
      /\ audit' = audit \cup A /\ EndTx(c)
  BY DEF RequestsInv, CallHolds, Commit
<1>2. /\ R \in UNION {[S -> Row] : S \in SUBSET Request} /\ DOMAIN R \subseteq Request
      /\ DOMAIN G \subseteq Grant /\ A \subseteq Event
      /\ requests' \in [Request -> Row] /\ grants' \in [Grant -> {"none", "live", "revoked"}]
      /\ audit' \subseteq Event /\ job[c] \in Job
  BY <1>1, CallTypes DEF TypeOK, Writes
<1>3. \A r \in Request : requests'[r] = IF r \in DOMAIN R THEN R[r] ELSE requests[r]
  BY <1>1, OverGives DEF RequestsOf, TypeOK
<1>4. \A g \in Grant : grants'[g] = IF g \in DOMAIN G THEN G[g] ELSE grants[g]
  BY <1>1, OverGives DEF GrantsOf, TypeOK
<1>5. /\ \A r \in DOMAIN R : EventOf(c, r) \in A
      /\ \A g \in DOMAIN G :
            \/ /\ job[c].op = "approve" /\ G[g] = "live"
               /\ g = <<c, g[2]>> /\ EventOf(c, g[2]) \in A /\ grants[g] = "none"
            \/ /\ G[g] = "revoked" /\ grants[g] # "none"
               /\ \/ job[c].op = "revoke" /\ EventOf(c, g[2]) \in A
                  \/ job[c].op = "revoke_grant" /\ EventOf(c, g) \in A
      /\ \A e \in A : \A r \in Request :
            e.kind \in AllOps \ {"revoke_grant"} /\ e.target = r =>
               e.kind = job[c].op /\ r \in DOMAIN R
  BY <1>1, ReadyToCommit
<1>6. \A r \in DOMAIN R :
         /\ job[c].op \in AllOps \ {"revoke_grant"} /\ R[r].status = Result(job[c].op)
         /\ R[r].grant = IF job[c].op = "approve" THEN <<c, r>> ELSE requests[r].grant
         /\ job[c].op = "approve" => <<c, r>> \in DOMAIN G
  BY <1>1 DEF RowsHold
<1>7. /\ pc' \in [Call -> Step] /\ job' \in [Call -> Job] /\ mine' \in [Call -> Writes]
      /\ pc'[c] = "done" /\ mine'[c] = NoWrites /\ aged' = aged
      /\ \A o \in Call \ {c} : pc'[o] = pc[o] /\ job'[o] = job[o] /\ mine'[o] = mine[o]
      /\ CallHolds(c)'
  BY <1>1, EndedHolds
<1>8. \A e \in A : e.by = c
  BY <1>1 DEF EventsHold
<1> HIDE DEF R, G, A
<1>9. \A g \in Grant : /\ grants[g] # "none" => grants'[g] # "none"
                       /\ grants[g] = "revoked" => grants'[g] = "revoked"
  BY <1>2, <1>4, <1>5
<1>10. TypeOK'
  BY <1>1, <1>2, <1>7 DEF TypeOK
<1>11. \A o \in Call : CallHolds(o)'
  <2> SUFFICES ASSUME NEW o \in Call \ {c} PROVE CallHolds(o)'
    BY <1>7
  <2>1. CallHolds(o) /\ TypeOK
    BY DEF RequestsInv
  <2>2. \A r \in DOMAIN mine[o].req : requests'[r].grant = requests[r].grant
    <3> SUFFICES ASSUME NEW r \in DOMAIN mine[o].req
                 PROVE  requests'[r].grant = requests[r].grant
      OBVIOUS
    <3>1. r \in Request
      BY <2>1, CallTypes
    <3>2. r \notin DOMAIN R
      BY <1>1 DEF CallsApart, R
    <3> QED
      BY <1>3, <3>1, <3>2
  <2> QED
    BY <1>7, <1>9, <2>1, <2>2, OtherCall
<1>12. CallsApart'
  <2>1. \A a, b \in Call : a # b => DOMAIN mine'[a].req \cap DOMAIN mine'[b].req = {}
    <3>1. DOMAIN mine'[c].req = {}
      BY <1>7, NothingTyped
    <3> QED
      BY <1>1, <1>7, <3>1 DEF CallsApart
  <2>2. \A e \in audit' : pc'[e.by] = "done"
    <3> SUFFICES ASSUME NEW e \in audit, e.by # c PROVE pc'[e.by] = "done"
      BY <1>1, <1>7, <1>8 DEF A
    <3>1. e.by \in Call /\ pc[e.by] = "done"
      BY <1>1 DEF CallsApart, TypeOK, Event
    <3> QED
      BY <1>7, <3>1
  <2> QED
    BY <2>1, <2>2 DEF CallsApart
<1>13. audit' = audit \cup A
  BY <1>1 DEF A
<1>14. \A x : EventOf(c, x) = [kind |-> job[c].op, target |-> x, by |-> c]
  BY DEF EventOf
<1>15. DecisionsWitnessed'
  <2>1. ASSUME NEW g \in Grant, grants'[g] # "none"
        PROVE  [kind |-> "approve", target |-> g[2], by |-> g[1]] \in audit'
    <3>1. CASE grants[g] # "none"
      BY <1>1, <1>13, <3>1 DEF DecisionsWitnessed
    <3>2. CASE grants[g] = "none"
      <4>1. /\ job[c].op = "approve" /\ g = <<c, g[2]>> /\ EventOf(c, g[2]) \in A
        BY <1>4, <1>5, <2>1, <3>2
      <4>2. g[1] = c
        BY <4>1
      <4> QED
        BY <1>13, <1>14, <4>1, <4>2
    <3> QED
      BY <3>1, <3>2
  <2>2. ASSUME NEW g \in Grant, [kind |-> "approve", target |-> g[2], by |-> g[1]] \in audit'
        PROVE  grants'[g] # "none"
    <3> DEFINE e == [kind |-> "approve", target |-> g[2], by |-> g[1]]
    <3>1. e.kind = "approve" /\ e.target = g[2] /\ e.by = g[1]
      OBVIOUS
    <3>2. CASE e \in audit
      BY <1>1, <1>9, <3>2 DEF DecisionsWitnessed
    <3>3. CASE e \in A
      <4> HIDE DEF e
      <4>1. g[2] \in Request /\ g = <<g[1], g[2]>>
        BY GrantPairs
      <4>2. e.by = c /\ e.kind = job[c].op /\ g[2] \in DOMAIN R
        BY <1>5, <1>8, <3>1, <3>3, <4>1 DEF AllOps
      <4>3. g \in DOMAIN G
        BY <1>6, <3>1, <4>1, <4>2
      <4> QED
        BY <1>4, <1>5, <4>3
    <3> QED
      BY <1>13, <2>2, <3>2, <3>3
  <2>3. ASSUME NEW g \in Grant, grants'[g] = "revoked"
        PROVE  Happened("revoke", g[2])' \/ Happened("revoke_grant", g)'
    <3>1. CASE grants[g] = "revoked"
      BY <1>1, <1>13, <3>1 DEF DecisionsWitnessed, Happened
    <3>2. CASE grants[g] # "revoked"
      <4>1. \/ job[c].op = "revoke" /\ EventOf(c, g[2]) \in A
            \/ job[c].op = "revoke_grant" /\ EventOf(c, g) \in A
        BY <1>4, <1>5, <2>3, <3>2
      <4> QED
        BY <1>13, <1>14, <4>1 DEF Happened
    <3> QED
      BY <3>1, <3>2
  <2>4. ASSUME NEW r \in Request
        PROVE  /\ requests'[r].status = "approved" => Happened("approve", r)'
               /\ requests'[r].status = "denied"   => Happened("deny", r)'
               /\ requests'[r].status = "revoked"  => Happened("revoke", r)'
               /\ requests'[r].status = "expired"  => Happened("expire", r)'
    <3>1. CASE r \in DOMAIN R
      <4>1. requests'[r].status = Result(job[c].op) /\ job[c].op \in AllOps \ {"revoke_grant"}
        BY <1>3, <1>6, <3>1
      <4>2. \E e \in audit' : e.kind = job[c].op /\ e.target = r
        BY <1>5, <1>13, <1>14, <3>1
      <4> QED
        BY <4>1, <4>2 DEF Result, AllOps, Happened
    <3>2. CASE r \notin DOMAIN R
      BY <1>1, <1>3, <1>13, <3>2 DEF DecisionsWitnessed, Happened
    <3> QED
      BY <3>1, <3>2
  <2> QED
    BY <2>1, <2>2, <2>3, <2>4 DEF DecisionsWitnessed
<1>16. TablesHold'
  <2> SUFFICES ASSUME NEW r \in Request PROVE TablesHold!(r)'
    BY DEF TablesHold
  <2>1. TablesHold!(r)
    BY <1>1 DEF TablesHold
  <2>2. /\ Decisions(r) \subseteq Decisions(r)' /\ (Unique(r)' => Unique(r))
        /\ \A kind : Happened(kind, r) => Happened(kind, r)'
    BY <1>13 DEF Decisions, Unique, Happened
  <2>3. requests[r].grant # NoGrant => /\ requests[r].grant \in Call \X {r}
                                       /\ requests[r].grant \in Grant
                                       /\ grants[requests[r].grant] # "none"
                                       /\ grants'[requests[r].grant] # "none"
    BY <1>9, <2>1, GrantPairs
  <2>4. ASSUME r \in DOMAIN R, job[c].op = "approve" PROVE TablesHold!(r)'
    <3>1. requests'[r].grant = <<c, r>> /\ requests'[r].status = "approved"
      BY <1>3, <1>6, <2>4 DEF Result
    <3>2. <<c, r>> \in Call \X {r} /\ <<c, r>> \in Grant /\ grants'[<<c, r>>] # "none"
      BY <1>4, <1>5, <1>6, <2>4, GrantPairs
    <3> QED
      BY <3>1, <3>2, NoGrantIsNone
  <2>5. ASSUME r \in DOMAIN R, job[c].op = "revoke" PROVE TablesHold!(r)'
    <3>1. requests'[r].grant = requests[r].grant /\ requests'[r].status = "revoked"
      BY <1>3, <1>6, <2>5 DEF Result
    <3>2. /\ job[c].seen \in Call \X {r} /\ grants[job[c].seen] # "none"
          /\ job[c].seen \in Grant
          /\ grants[job[c].seen] = "revoked" \/ job[c].seen \in DOMAIN G
      BY <1>1, <2>5, GrantPairs DEF SeenHolds, R, G
    <3>3. grants'[job[c].seen] = "revoked"
      BY <1>4, <1>5, <1>9, <2>5, <3>2
    <3> DEFINE Made(g) == [kind |-> "approve", target |-> r, by |-> g[1]]
    <3>4. \A g \in Call \X {r} : grants[g] # "none" =>
             /\ Made(g) \in Decisions(r) /\ Made(g).by = g[1] /\ Happened("approve", r)
      BY <1>1, GrantPairs DEF DecisionsWitnessed, Decisions, Happened
    <3>5. requests[r].grant # NoGrant
      BY <2>1, <3>2, <3>4
    <3>6. Unique(r) => requests[r].grant = job[c].seen
      <4> SUFFICES ASSUME Unique(r) PROVE requests[r].grant = job[c].seen
        OBVIOUS
      <4>1. Made(requests[r].grant) = Made(job[c].seen)
        BY <2>3, <3>2, <3>4, <3>5 DEF Unique
      <4>2. requests[r].grant[1] = job[c].seen[1]
        BY <2>3, <3>2, <3>4, <3>5, <4>1
      <4> QED
        BY <2>3, <3>2, <3>5, <4>2
    <3> QED
      BY <2>2, <2>3, <3>1, <3>3, <3>5, <3>6
  <2>6. ASSUME r \in DOMAIN R, job[c].op \in {"deny", "expire"} PROVE TablesHold!(r)'
    <3>1. requests'[r].grant = requests[r].grant /\ requests'[r].status \in {"denied", "expired"}
      BY <1>3, <1>6, <2>6 DEF Result
    <3>2. Happened("approve", r)' => Happened("approve", r)
      BY <1>5, <1>13, <2>6 DEF Happened, AllOps
    <3> QED
      BY <2>1, <2>3, <3>1, <3>2
  <2>7. ASSUME r \notin DOMAIN R PROVE TablesHold!(r)'
    <3>1. requests'[r] = requests[r]
      BY <1>3, <2>7
    <3>2. \A e \in A : e.target = r => e.kind \notin {"approve", "deny", "expire"}
      BY <1>5, <2>7 DEF AllOps
    <3>3. Decisions(r)' = Decisions(r) /\ (Happened("approve", r)' => Happened("approve", r))
      BY <1>13, <3>2 DEF Decisions, Happened
    <3> QED
      BY <1>9, <2>1, <2>2, <2>3, <3>1, <3>3
  <2> QED
    BY <1>6, <2>4, <2>5, <2>6, <2>7 DEF AllOps
<1>17. \A r \in Request : requests[r].status \notin {"absent", "requested"} =>
          requests'[r].status \notin {"absent", "requested"}
  <2>1. \A r \in DOMAIN R : R[r].status \notin {"absent", "requested"}
    BY <1>6 DEF Result, AllOps
  <2> QED
    BY <1>3, <2>1
<1> QED
  BY <1>9, <1>10, <1>11, <1>12, <1>15, <1>16, <1>17 DEF RequestsInv

------------------------------------------------------------------------------
(* The specification                                                        *)

\* A revoked grant stays revoked, and a decided request decided.
StaysDecided ==
    /\ \A g \in Grant : grants[g] = "revoked" => grants'[g] = "revoked"
    /\ \A r \in Request : requests[r].status \notin {"absent", "requested"} =>
          requests'[r].status \notin {"absent", "requested"}

\* A new request has no grant and no decision.
LEMMA SubmitStep ==
    ASSUME RequestsInv, NEW r \in Request, NEW o \in Operator, Submit(r, o)
    PROVE  /\ RequestsInv'
           /\ \A x \in Request : requests[x].status \notin {"absent", "requested"} =>
                 requests'[x].status \notin {"absent", "requested"}
<1>1. /\ TypeOK /\ (\A c \in Call : CallHolds(c)) /\ CallsApart /\ TablesHold
      /\ DecisionsWitnessed /\ UNCHANGED <<aged, grants, audit, pc, job, mine>>
      /\ requests[r].status = "absent"
      /\ requests' = [requests EXCEPT ![r].status = "requested", ![r].requester = o]
  BY DEF RequestsInv, Submit
<1>2. requests \in [Request -> Row]
  BY <1>1 DEF TypeOK
<1>3. requests' = [requests EXCEPT ![r] = [requests[r] EXCEPT !.status = "requested",
                                                              !.requester = o]]
  BY <1>1, <1>2 DEF Row
<1>4. /\ requests' \in [Request -> Row]
      /\ requests'[r].status = "requested" /\ requests'[r].grant = requests[r].grant
      /\ \A x \in Request \ {r} : requests'[x] = requests[x]
  BY <1>2, <1>3 DEF Row, Status
<1>5. \A c \in Call : CallHolds(c)'
  <2> SUFFICES ASSUME NEW c \in Call PROVE CallHolds(c)'
    OBVIOUS
  <2>1. \A x \in DOMAIN mine[c].req : requests'[x].grant = requests[x].grant
    BY <1>1, <1>4, CallTypes
  <2> QED
    BY <1>1, <2>1, OtherCall
<1>6. TablesHold'
  <2> SUFFICES ASSUME NEW x \in Request PROVE TablesHold!(x)'
    BY DEF TablesHold
  <2>1. TablesHold!(x)
    BY <1>1 DEF TablesHold
  <2>2. Decisions(x)' = Decisions(x) /\ (Happened("approve", x)' <=> Happened("approve", x))
        /\ (Unique(x)' <=> Unique(x))
    BY <1>1 DEF Decisions, Happened, Unique
  <2> QED
    BY <1>1, <1>4, <2>1, <2>2
<1>7. DecisionsWitnessed'
  BY <1>1, <1>4 DEF DecisionsWitnessed, Happened
<1>8. TypeOK' /\ CallsApart'
  BY <1>1, <1>4 DEF TypeOK, CallsApart
<1> QED
  BY <1>1, <1>4, <1>5, <1>6, <1>7, <1>8 DEF RequestsInv

\* Time passes for the requests, which nothing else in the invariant is about.
LEMMA AgeStep ==
    ASSUME RequestsInv, NEW r \in Request, Age(r)
    PROVE  RequestsInv'
<1>1. /\ TypeOK /\ (\A c \in Call : CallHolds(c)) /\ CallsApart /\ TablesHold
      /\ DecisionsWitnessed /\ UNCHANGED <<requests, grants, audit, pc, job, mine>>
      /\ aged' = aged \cup {r}
  BY DEF RequestsInv, Age
<1>2. \A c \in Call : CallHolds(c)'
  BY <1>1, OtherCall
<1>3. TypeOK' /\ CallsApart'
  BY <1>1 DEF TypeOK, CallsApart
<1>4. TablesHold'
  BY <1>1 DEF TablesHold, Happened, Decisions, Unique
<1>5. DecisionsWitnessed'
  BY <1>1 DEF DecisionsWitnessed, Happened
<1> QED
  BY <1>2, <1>3, <1>4, <1>5 DEF RequestsInv

\* expire_old_requests starts with at least one request.
LEMMA StartExpireStep ==
    ASSUME RequestsInv, NEW c \in Call, StartExpire(c)
    PROVE  RequestsInv'
<1> DEFINE old == {r \in aged : requests[r].status = "requested"}
<1>1. /\ pc[c] = "idle" /\ old # {} /\ pc' = [pc EXCEPT ![c] = "write"]
      /\ UNCHANGED <<requests, aged, grants, audit, mine>>
  BY DEF StartExpire
<1>2. PICK todo \in SetToSeqs(old) :
         job' = [job EXCEPT ![c] = [op |-> "expire", bulk |-> FALSE, by |-> Nobody,
                                    todo |-> todo, seen |-> NoGrant]]
  BY DEF StartExpire
<1>3. old \subseteq Request
  BY DEF RequestsInv, TypeOK
<1> HIDE DEF old
<1>4. IsFiniteSet(old) /\ Cardinality(old) \in Nat /\ Cardinality(old) # 0
  BY <1>1, <1>3, RequestAssumption, FS_Subset, FS_CardinalityType, FS_EmptySet
<1>5. todo \in [1..Cardinality(old) -> Request]
  BY <1>2, <1>3 DEF SetToSeqs
<1>6. todo \in Seq(Request) /\ todo # <<>>
  <2>1. todo \in Seq(Request) /\ Len(todo) = Cardinality(old)
    BY <1>4, <1>5
  <2> QED
    BY <1>4, <2>1
<1>7. "expire" \in AllOps /\ FALSE \in BOOLEAN /\ Nobody \in Operator \cup {Nobody}
  BY DEF AllOps
<1>8. pc' = [pc EXCEPT ![c] = CASE "expire" = "revoke_grant" -> "grant"
                                [] "expire" = "expire" -> "write" [] OTHER -> "read"]
  BY <1>1
<1> QED
  BY <1>1, <1>2, <1>6, <1>7, <1>8, StartStep

\* A call arrives for one target, or in bulk for several.
LEMMA StartCallStep ==
    ASSUME RequestsInv, NEW c \in Call, NEW op \in Ops \ {"expire"}, NEW o \in Operator,
           NEW bulk \in BOOLEAN, NEW todo, Start(c, op, bulk, o, todo),
           todo \in Seq(Targets(op)), todo # <<>>, bulk => op \in BulkOps,
           ~bulk => Len(todo) = 1
    PROVE  RequestsInv'
<1>1. /\ pc[c] = "idle" /\ UNCHANGED <<requests, aged, grants, audit, mine>>
      /\ job' = [job EXCEPT ![c] = [op |-> op, bulk |-> bulk, by |-> o,
                                    todo |-> todo, seen |-> NoGrant]]
      /\ pc' = [pc EXCEPT ![c] = IF op = "revoke_grant" THEN "grant" ELSE "read"]
  BY DEF Start
<1>2. op \in AllOps /\ op # "expire"
  BY OpsAssumption
<1>3. /\ op = "revoke_grant" => todo \in Seq(Grant)
      /\ op # "revoke_grant" => todo \in Seq(Request)
  <2>1. CASE op = "revoke_grant"
    <3>1. Targets(op) \subseteq Grant
      BY <2>1 DEF Targets
    <3> QED
      BY <2>1, <3>1
  <2>2. CASE op # "revoke_grant"
    <3>1. Targets(op) \subseteq Request
      BY <2>2 DEF Targets
    <3> QED
      BY <2>2, <3>1
  <2> QED
    BY <2>1, <2>2
<1>4. op \in {"revoke", "expire"} => ~bulk
  BY <1>2 DEF BulkOps
<1>5. pc' = [pc EXCEPT ![c] = CASE op = "revoke_grant" -> "grant"
                                [] op = "expire" -> "write" [] OTHER -> "read"]
  BY <1>1, <1>2
<1>6. op = "revoke" => Len(todo) = 1
  BY <1>4
<1>7. todo \in Seq(Request) \cup Seq(Grant)
  BY <1>3
<1>8. o \in Operator \cup {Nobody}
  OBVIOUS
<1> QED
  BY <1>1, <1>2, <1>3, <1>4, <1>5, <1>6, <1>7, <1>8, StartStep

\* Every step keeps the invariant, and takes back neither a revocation nor a decision.
LEMMA NextStep == RequestsInv /\ [Next]_vars => RequestsInv' /\ StaysDecided
<1> SUFFICES ASSUME RequestsInv, [Next]_vars PROVE RequestsInv' /\ StaysDecided
  OBVIOUS
<1>1. UNCHANGED <<requests, grants>> => StaysDecided
  BY DEF StaysDecided
<1>2. CASE UNCHANGED vars
  <2>1. UNCHANGED <<requests, aged, grants, audit, pc, job, mine>>
    BY <1>2 DEF vars
  <2>2. \A c \in Call : CallHolds(c)'
    BY <2>1, OtherCall DEF RequestsInv
  <2>3. TypeOK' /\ CallsApart'
    BY <2>1 DEF RequestsInv, TypeOK, CallsApart
  <2>4. TablesHold' /\ DecisionsWitnessed'
    BY <2>1 DEF RequestsInv, TablesHold, DecisionsWitnessed, Happened, Decisions, Unique
  <2> QED
    BY <1>1, <2>1, <2>2, <2>3, <2>4 DEF RequestsInv
<1>3. ASSUME NEW r \in Request, NEW o \in Operator, Submit(r, o)
      PROVE  RequestsInv' /\ StaysDecided
  <2>1. grants' = grants
    BY <1>3 DEF Submit
  <2> QED
    BY <1>3, <2>1, SubmitStep DEF StaysDecided
<1>4. ASSUME NEW r \in Request, Age(r)
      PROVE  RequestsInv' /\ StaysDecided
  <2>1. requests' = requests /\ grants' = grants
    BY <1>4 DEF Age
  <2> QED
    BY <1>1, <1>4, <2>1, AgeStep
<1>5. ASSUME NEW c \in Call, NEW op \in Ops \ {"expire"}, NEW o \in Operator,
             NEW x \in Targets(op), Start(c, op, FALSE, o, <<x>>)
      PROVE  RequestsInv' /\ StaysDecided
  <2>1. <<x>> \in Seq(Targets(op)) /\ Len(<<x>>) = 1
    OBVIOUS
  <2>2. <<x>> # <<>>
    <3>1. Len(<<x>>) # Len(<<>>)
      BY <2>1
    <3> QED
      BY <3>1
  <2>3. requests' = requests /\ grants' = grants
    BY <1>5 DEF Start
  <2> QED
    BY <1>1, <1>5, <2>1, <2>2, <2>3, StartCallStep
<1>6. ASSUME NEW c \in Call, NEW op \in Ops \cap BulkOps, NEW o \in Operator,
             NEW n \in BulkSizes, NEW todo \in [1..n -> Targets(op)],
             Start(c, op, TRUE, o, todo)
      PROVE  RequestsInv' /\ StaysDecided
  <2>1. n \in Nat /\ n # 0 /\ op \in Ops \ {"expire"} /\ op \in BulkOps
    BY OpsAssumption DEF BulkOps
  <2>2. todo \in Seq(Targets(op)) /\ Len(todo) = n
    BY <2>1
  <2>3. todo # <<>>
    BY <2>1, <2>2
  <2>4. requests' = requests /\ grants' = grants
    BY <1>6 DEF Start
  <2> QED
    BY <1>1, <1>6, <2>1, <2>2, <2>3, <2>4, StartCallStep
<1>7. ASSUME NEW c \in Call, StartExpire(c)
      PROVE  RequestsInv' /\ StaysDecided
  <2>1. requests' = requests /\ grants' = grants
    BY <1>7 DEF StartExpire
  <2> QED
    BY <1>1, <1>7, <2>1, StartExpireStep
<1>8. ASSUME NEW c \in Call, ReadRequest(c)
      PROVE  RequestsInv' /\ StaysDecided
  <2>1. requests' = requests /\ grants' = grants
    BY <1>8 DEF ReadRequest
  <2> QED
    BY <1>1, <1>8, <2>1, ReadStep
<1>9. ASSUME NEW c \in Call, Refuse(c) \/ Rollback(c) \/ DeadlockVictim(c)
      PROVE  RequestsInv' /\ StaysDecided
  <2>1. requests' = requests /\ grants' = grants
    BY <1>9 DEF Refuse, Rollback, DeadlockVictim
  <2> QED
    BY <1>1, <1>9, <2>1, RollbackSteps
<1>10. ASSUME NEW c \in Call, UpdateGrant(c)
       PROVE  RequestsInv' /\ StaysDecided
  <2>1. requests' = requests /\ grants' = grants
    BY <1>10 DEF UpdateGrant
  <2> QED
    BY <1>1, <1>10, <2>1, UpdateGrantStep
<1>11. ASSUME NEW c \in Call, UpdateRequest(c)
       PROVE  RequestsInv' /\ StaysDecided
  <2>1. requests' = requests /\ grants' = grants
    BY <1>11 DEF UpdateRequest
  <2> QED
    BY <1>1, <1>11, <2>1, UpdateRequestStep
<1>12. ASSUME NEW c \in Call, AppendAudit(c)
       PROVE  RequestsInv' /\ StaysDecided
  <2>1. requests' = requests /\ grants' = grants
    BY <1>12 DEF AppendAudit
  <2> QED
    BY <1>1, <1>12, <2>1, AppendAuditStep
<1>13. ASSUME NEW c \in Call, AppendSummary(c)
       PROVE  RequestsInv' /\ StaysDecided
  <2>1. requests' = requests /\ grants' = grants
    BY <1>13 DEF AppendSummary
  <2> QED
    BY <1>1, <1>13, <2>1, AppendSummaryStep
<1>14. ASSUME NEW c \in Call, Commit(c)
       PROVE  RequestsInv' /\ StaysDecided
  BY <1>14, CommitStep DEF StaysDecided
<1> QED
  BY <1>2, <1>3, <1>4, <1>5, <1>6, <1>7, <1>8, <1>9, <1>10, <1>11, <1>12, <1>13, <1>14
     DEF Next, Progress

\* Nothing has happened yet.
LEMMA InitHolds == Init => RequestsInv
<1> SUFFICES ASSUME Init PROVE RequestsInv
  OBVIOUS
<1> DEFINE absent == [status |-> "absent", requester |-> Nobody, grant |-> NoGrant,
                      deniedBy |-> Nobody]
<1>1. /\ requests = [r \in Request |-> absent] /\ aged = {}
      /\ grants = [g \in Grant |-> "none"] /\ audit = {}
      /\ pc = [c \in Call |-> "idle"] /\ job = [c \in Call |-> NoJob]
      /\ mine = [c \in Call |-> NoWrites]
  BY DEF Init
<1>2. absent \in Row /\ absent.status = "absent" /\ absent.grant = NoGrant
  BY DEF Row, Status
<1> HIDE DEF absent
<1>3. TypeOK
  BY <1>1, <1>2, NothingTyped DEF TypeOK, Step
<1>4. ASSUME NEW c \in Call PROVE CallHolds(c)
  <2>1. pc[c] = "idle" /\ job[c] = NoJob /\ mine[c] = NoWrites
    BY <1>1
  <2>2. /\ job[c].op = "none" /\ ~job[c].bulk /\ DOMAIN mine[c].req = {}
        /\ DOMAIN mine[c].grant = {} /\ mine[c].audit = {}
    BY <2>1, NothingTyped
  <2>3. StepsHold(c)
    BY <2>1, <2>2 DEF StepsHold, AllOps
  <2> QED
    BY <2>2, <2>3 DEF CallHolds, RowsHold, GrantsHold, EventsHold, SeenHolds
<1>5. CallsApart
  BY <1>1, NothingTyped DEF CallsApart
<1>6. TablesHold
  BY <1>1, <1>2 DEF TablesHold, Happened, Decisions
<1>7. DecisionsWitnessed
  BY <1>1, <1>2 DEF DecisionsWitnessed
<1> QED
  BY <1>3, <1>4, <1>5, <1>6, <1>7 DEF RequestsInv

\* What the calls have written, the locks that keep their rows apart and the committed
\* rows agree in every reachable state.
THEOREM RequestsInvariant == Spec => []RequestsInv
<1> QED
  BY InitHolds, NextStep, PTL DEF Spec

\* The variables have their types: a status is always one of VALID_REQUEST_STATUSES.
THEOREM RequestsTypeCorrect == Spec => []TypeOK
<1>1. RequestsInv => TypeOK
  BY DEF RequestsInv
<1> QED
  BY <1>1, RequestsInvariant, PTL

\* Whatever the interleaving, a grant exists exactly if its approval is in the audit log,
\* and every status and revocation has its event.
THEOREM DecisionsHaveWitness == Spec => []DecisionsWitnessed
<1>1. RequestsInv => DecisionsWitnessed
  BY DEF RequestsInv
<1> QED
  BY <1>1, RequestsInvariant, PTL

\* If the race of two decisions did not happen to a request, its status and its grants
\* agree.
THEOREM OnceIsConsistent == Spec => []DecidedOnceIsConsistent
<1>1. RequestsInv => DecidedOnceIsConsistent
  <2> SUFFICES ASSUME RequestsInv, NEW r \in Request, Unique(r)
               PROVE  CASE requests[r].status \in {"absent", "requested", "denied", "expired"} ->
                             GrantsFor(r) = {}
                        [] requests[r].status = "approved" -> GrantsFor(r) = {requests[r].grant}
                        [] requests[r].status = "revoked" ->
                             /\ GrantsFor(r) = {requests[r].grant}
                             /\ grants[requests[r].grant] = "revoked"
    BY DEF DecidedOnceIsConsistent, Unique
  <2> DEFINE Made(g) == [kind |-> "approve", target |-> r, by |-> g[1]]
  <2>1. \A g \in GrantsFor(r) : /\ g = <<g[1], r>> /\ Happened("approve", r)
                                /\ Made(g) \in Decisions(r) /\ Made(g).by = g[1]
                                /\ Made(g).kind = "approve"
    BY GrantPairs DEF GrantsFor, RequestsInv, DecisionsWitnessed, Decisions, Happened
  <2> HIDE DEF Made
  <2>2. \A g, h \in GrantsFor(r) : g = h
    <3> SUFFICES ASSUME NEW g \in GrantsFor(r), NEW h \in GrantsFor(r) PROVE g = h
      OBVIOUS
    <3>1. Made(g) = Made(h)
      BY <2>1 DEF Unique
    <3>2. g[1] = h[1]
      BY <2>1, <3>1
    <3> QED
      BY <2>1, <3>2
  <2>3. CASE requests[r].status \in {"absent", "requested"}
    <3>1. Decisions(r) = {}
      BY <2>3 DEF RequestsInv, TablesHold
    <3> QED
      BY <2>1, <2>3, <3>1
  <2>4. CASE requests[r].status \in {"denied", "expired"}
    <3>1. \E e \in Decisions(r) : e.kind \in {"deny", "expire"}
      BY <2>4 DEF RequestsInv, DecisionsWitnessed, Happened, Decisions
    <3> QED
      BY <2>1, <2>4, <3>1 DEF Unique
  <2>5. ASSUME requests[r].status \in {"approved", "revoked"}
        PROVE  GrantsFor(r) = {requests[r].grant}
    <3>1. requests[r].grant \in Call \X {r} /\ grants[requests[r].grant] # "none"
      BY <2>5 DEF RequestsInv, TablesHold
    <3>2. requests[r].grant \in GrantsFor(r)
      BY <3>1, GrantPairs DEF GrantsFor
    <3> QED
      BY <2>2, <3>2
  <2>6. requests[r].status = "revoked" => grants[requests[r].grant] = "revoked"
    BY DEF RequestsInv, TablesHold
  <2>7. requests[r].status \in Status
    BY DEF RequestsInv, TypeOK, Row
  <2> QED
    BY <2>3, <2>4, <2>5, <2>6, <2>7 DEF Status
<1> QED
  BY <1>1, RequestsInvariant, PTL

\* No call, whatever copy of the rows it holds, takes back a revocation or reopens a
\* decided request.
THEOREM DecisionsStay == Spec => DecisionsAreFinal
<1>1. RequestsInv /\ [Next]_vars => [StaysDecided]_vars
  BY NextStep
<1>2. Spec => [][StaysDecided]_vars
  BY <1>1, RequestsInvariant, PTL DEF Spec
<1> QED
  BY <1>2 DEF DecisionsAreFinal, StaysDecided
------------------------------------------------------------------------------
(* Bulk calls as a whole                                                    *)

\* Whoever has come to the end of its transaction has nothing left to do.
AtEnd(c) == pc[c] \in {"summary", "commit"} => job[c].todo = <<>>

AllAtEnd == \A c \in Call : AtEnd(c)

\* The last of the targets is the last: the call goes to its end with none left.
LEMMA LastTarget ==
    ASSUME RequestsInv, NEW c \in Call, pc[c] \in {"grant", "audit"},
           job' = [job EXCEPT ![c].todo = Tail(@)], pc' = [pc EXCEPT ![c] = AfterTarget(c)]
    PROVE  AtEnd(c)'
<1> DEFINE todo == job[c].todo
<1>1. /\ TypeOK /\ StepsHold(c)
  BY DEF RequestsInv, CallHolds
<1>2. job[c] \in Job /\ job'[c].todo = Tail(todo) /\ pc'[c] = AfterTarget(c)
  BY <1>1 DEF TypeOK, Job
<1>3. todo # <<>> /\ \E S : todo \in Seq(S)
  BY <1>1, <1>2 DEF StepsHold, Job
<1> HIDE DEF todo
<1>4. ASSUME ~(Len(todo) > 1)
      PROVE  Tail(todo) = <<>>
  <2>1. PICK S : todo \in Seq(S)
    BY <1>3
  <2>2. Tail(todo) \in Seq(S) /\ Len(Tail(todo)) = Len(todo) - 1 /\ Len(todo) \in Nat
    BY <1>3, <2>1
  <2>3. Len(Tail(todo)) = 0
    BY <1>4, <2>2
  <2>4. ASSUME NEW s \in Seq(S), Len(s) = 0
        PROVE  s = <<>>
    BY <2>4
  <2>5. QED
    BY <2>2, <2>3, <2>4
<1>5. More(c) => pc'[c] \in {"grant", "read"}
  BY <1>2 DEF AfterTarget, FirstStep
<1>6. More(c) <=> Len(todo) > 1
  BY DEF More, todo
<1>7. QED
  BY <1>2, <1>4, <1>5, <1>6 DEF AtEnd

\* Every step leaves a call that has come to its end there, or brings it there.
LEMMA EndsStep == RequestsInv /\ AllAtEnd /\ [Next]_vars => AllAtEnd'
<1> SUFFICES ASSUME RequestsInv, \A c \in Call : AtEnd(c), [Next]_vars, NEW c \in Call
             PROVE  AtEnd(c)'
  BY DEF AllAtEnd
<1>0. pc \in [Call -> Step] /\ job \in [Call -> Job] /\ StepsHold(c)
  BY DEF RequestsInv, TypeOK, CallHolds
<1>1. ASSUME pc'[c] = pc[c], job'[c] = job[c]
      PROVE  AtEnd(c)'
  BY <1>1 DEF AtEnd
<1>2. ASSUME pc'[c] \notin {"summary", "commit"}
      PROVE  AtEnd(c)'
  BY <1>2 DEF AtEnd
<1>3. CASE UNCHANGED <<pc, job>>
  BY <1>1, <1>3
<1>4. ASSUME NEW o \in Call, o # c,
             \E s, j : pc' = [pc EXCEPT ![o] = s] /\ job' = [job EXCEPT ![o] = j]
      PROVE  AtEnd(c)'
  BY <1>0, <1>1, <1>4
<1>5. ASSUME NEW o \in Call, NEW op, NEW bulk, NEW b, NEW todo, Start(o, op, bulk, b, todo)
      PROVE  AtEnd(c)'
  <2>1. CASE o = c
    BY <1>0, <1>2, <1>5, <2>1 DEF Start
  <2>2. CASE o # c
    BY <1>4, <1>5, <2>2 DEF Start
  <2>3. QED
    BY <2>1, <2>2
<1>6. ASSUME NEW o \in Call, StartExpire(o)
      PROVE  AtEnd(c)'
  <2>1. /\ pc' = [pc EXCEPT ![o] = "write"] /\ \E j : job' = [job EXCEPT ![o] = j]
    BY <1>6 DEF StartExpire
  <2>2. QED
    BY <1>0, <1>2, <1>4, <2>1
<1>7. ASSUME NEW o \in Call, EndTx(o)
      PROVE  AtEnd(c)'
  <2>1. pc' = [pc EXCEPT ![o] = "done"] /\ job' = [job EXCEPT ![o] = NoJob]
    BY <1>7 DEF EndTx
  <2>2. QED
    BY <1>0, <1>2, <1>4, <2>1
<1>8. ASSUME NEW o \in Call, ReadRequest(o)
      PROVE  AtEnd(c)'
  <2>1. /\ \E s \in {"grant", "write"} : pc' = [pc EXCEPT ![o] = s]
        /\ \E j : job' = [job EXCEPT ![o] = j]
    BY <1>8 DEF ReadRequest
  <2>2. QED
    BY <1>0, <1>2, <1>4, <2>1
<1>9. ASSUME NEW o \in Call, UpdateGrant(o)
      PROVE  AtEnd(c)'
  <2>1. /\ pc[o] = "grant"
        /\ \/ /\ pc' = [pc EXCEPT ![o] = AfterTarget(o)]
              /\ job' = [job EXCEPT ![o].todo = Tail(@)]
           \/ /\ \E s \in {"audit", "write"} : pc' = [pc EXCEPT ![o] = s]
              /\ job' = job
    BY <1>9 DEF UpdateGrant
  <2>2. CASE o = c
    BY <1>0, <1>2, <2>1, <2>2, LastTarget
  <2>3. CASE o # c
    BY <1>0, <1>1, <2>1, <2>3
  <2>4. QED
    BY <2>2, <2>3
<1>10. ASSUME NEW o \in Call, UpdateRequest(o)
       PROVE  AtEnd(c)'
  <2>1. /\ \E s \in {"audit", "write"} : pc' = [pc EXCEPT ![o] = s]
        /\ job' = job \/ job' = [job EXCEPT ![o].todo = Tail(@)]
    BY <1>10 DEF UpdateRequest
  <2>2. QED
    BY <1>0, <1>1, <1>2, <2>1
<1>11. ASSUME NEW o \in Call, AppendAudit(o)
       PROVE  AtEnd(c)'
  <2>1. /\ pc[o] = "audit" /\ pc' = [pc EXCEPT ![o] = AfterTarget(o)]
        /\ job' = [job EXCEPT ![o].todo = Tail(@)]
    BY <1>11 DEF AppendAudit
  <2>2. CASE o = c
    BY <2>1, <2>2, LastTarget
  <2>3. CASE o # c
    BY <1>0, <1>1, <2>1, <2>3
  <2>4. QED
    BY <2>2, <2>3
<1>12. ASSUME NEW o \in Call, AppendSummary(o)
       PROVE  AtEnd(c)'
  <2>1. pc[o] = "summary" /\ pc' = [pc EXCEPT ![o] = "commit"] /\ job' = job
    BY <1>12 DEF AppendSummary
  <2>2. QED
    BY <1>0, <2>1 DEF AtEnd
<1>13. QED
  BY <1>3, <1>5, <1>6, <1>7, <1>8, <1>9, <1>10, <1>11, <1>12
     DEF Next, Progress, Submit, Age, Refuse, Commit, Rollback, DeadlockVictim, vars

\* Only a new request and a commit change what others see.
LEMMA CommitsOnly ==
    ASSUME [Next]_vars, <<requests, grants, audit>>' # <<requests, grants, audit>>
    PROVE  \/ \E o \in Call : Commit(o)
           \/ UNCHANGED <<pc, job>>
BY ZenonT(60)
   DEF Next, Progress, Start, StartExpire, ReadRequest, Refuse, UpdateGrant, UpdateRequest,
       AppendAudit, AppendSummary, Rollback, DeadlockVictim, Submit, Age, vars

\* What BulkIsWhole says of a step.
EndsWhole == \A c \in Call :
                /\ job[c].bulk /\ pc'[c] = "done"
                /\ <<requests, grants, audit>>' # <<requests, grants, audit>>
                => job[c].todo = <<>>

\* For any number of ids: a bulk call that changes anything has gone through all of
\* them, and a failure at one of them takes back what was done to the others
\* (bulk_approve, bulk_reject, bulk_revoke in one transaction).
THEOREM BulksAreWhole == Spec => BulkIsWhole
<1>1. RequestsInv /\ AllAtEnd /\ [Next]_vars => [EndsWhole]_vars
  <2> SUFFICES ASSUME RequestsInv, AllAtEnd, [Next]_vars, NEW c \in Call,
                      job[c].bulk, pc'[c] = "done",
                      <<requests, grants, audit>>' # <<requests, grants, audit>>
               PROVE  job[c].todo = <<>>
    BY DEF EndsWhole
  <2>1. pc \in [Call -> Step] /\ pc[c] # "done"
    BY DEF RequestsInv, TypeOK, CallHolds, StepsHold, NoJob
  <2>2. PICK o \in Call : Commit(o)
    BY <2>1, CommitsOnly
  <2>3. pc[o] = "commit" /\ pc' = [pc EXCEPT ![o] = "done"]
    BY <2>2 DEF Commit, EndTx
  <2>4. o = c
    BY <2>1, <2>3
  <2>5. QED
    BY <2>3, <2>4 DEF AllAtEnd, AtEnd
<1>2. Init => AllAtEnd
  BY DEF Init, AllAtEnd, AtEnd
<1>3. Spec => []AllAtEnd
  BY <1>2, EndsStep, RequestsInvariant, PTL DEF Spec
<1>4. Spec => [][EndsWhole]_vars
  BY <1>1, <1>3, RequestsInvariant, PTL DEF Spec
<1>5. QED
  BY <1>4 DEF BulkIsWhole, EndsWhole
------------------------------------------------------------------------------
(* The order of the locks                                                   *)

Single(c) == ~job[c].bulk /\ job[c].op # "expire"

\* The locks that a call for one request or grant has, by where it is.
InOrder(c) ==
    Single(c) =>
        /\ ~More(c) /\ pc[c] # "summary"
        /\ mine[c].grant # Empty => pc[c] \in {"write", "audit", "commit"}
        /\ mine[c].req # Empty => pc[c] \in {"audit", "commit"}
        /\ mine[c].audit # {} => pc[c] = "commit"

AllInOrder == \A c \in Call : InOrder(c)

\* One step of a call for one target keeps the order in which it takes its locks.
LEMMA OrderStep ==
    ASSUME RequestsInv, NEW c \in Call, InOrder(c), Progress(c)
    PROVE  InOrder(c)'
<1>1. /\ TypeOK /\ StepsHold(c) /\ pc \in [Call -> Step] /\ job \in [Call -> Job]
      /\ mine \in [Call -> Writes] /\ job[c] \in Job /\ mine[c] \in Writes
  BY DEF RequestsInv, CallHolds, TypeOK
<1>2. ASSUME EndTx(c)
      PROVE  InOrder(c)'
  <2>1. /\ pc'[c] = "done" /\ mine'[c] = NoWrites /\ job'[c] = NoJob
    BY <1>1, <1>2 DEF EndTx
  <2>2. Len(NoJob.todo) = 0
    BY DEF NoJob
  <2>3. ~More(c)'
    BY <2>1, <2>2 DEF More
  <2>4. QED
    BY <2>1, <2>3 DEF InOrder, NoWrites
<1>3. ASSUME job[c].todo # <<>>, ~More(c)
      PROVE  ~(Len(Tail(job[c].todo)) > 1) /\ (~job[c].bulk => AfterTarget(c) = "commit")
  <2>1. PICK S : job[c].todo \in Seq(S)
    BY <1>1 DEF Job
  <2>2. Len(Tail(job[c].todo)) = Len(job[c].todo) - 1 /\ Len(job[c].todo) \in Nat
    BY <1>3, <2>1
  <2>3. QED
    BY <1>3, <2>2 DEF More, AfterTarget
<1>4. CASE ReadRequest(c)
  <2>1. /\ pc[c] = "read" /\ pc'[c] \in {"grant", "write"} /\ mine' = mine
        /\ job'[c].todo = job[c].todo /\ job'[c].op = job[c].op /\ job'[c].bulk = job[c].bulk
    BY <1>1, <1>4 DEF ReadRequest, Job
  <2>2. QED
    BY <2>1 DEF InOrder, Single, More
<1>5. CASE Refuse(c)
  BY <1>2, <1>5 DEF Refuse
<1>6. CASE UpdateGrant(c)
  <2>1. /\ pc[c] = "grant" /\ mine'[c].req = mine[c].req /\ mine'[c].audit = mine[c].audit
        /\ job'[c].op = job[c].op /\ job'[c].bulk = job[c].bulk
        /\ \/ /\ pc'[c] \in {"audit", "write"} /\ job' = job
           \/ /\ pc'[c] = AfterTarget(c) /\ job'[c].todo = Tail(job[c].todo)
    BY <1>1, <1>6 DEF UpdateGrant, Writes, Job
  <2>2. job[c].todo # <<>>
    BY <1>1, <2>1 DEF StepsHold
  <2>3. QED
    BY <1>3, <2>1, <2>2 DEF InOrder, Single, More
<1>7. CASE UpdateRequest(c)
  <2>1. /\ pc[c] = "write" /\ mine'[c].audit = mine[c].audit
        /\ job'[c].op = job[c].op /\ job'[c].bulk = job[c].bulk
        /\ job[c].op # "expire" => pc'[c] = "audit" /\ job' = job
    BY <1>1, <1>7 DEF UpdateRequest, Writes, Job
  <2>2. QED
    BY <2>1 DEF InOrder, Single, More
<1>8. CASE AppendAudit(c)
  <2>1. /\ pc[c] = "audit" /\ pc'[c] = AfterTarget(c) /\ job'[c].todo = Tail(job[c].todo)
        /\ job'[c].op = job[c].op /\ job'[c].bulk = job[c].bulk
    BY <1>1, <1>8 DEF AppendAudit, Job
  <2>2. job[c].todo # <<>>
    BY <1>1, <2>1 DEF StepsHold
  <2>3. QED
    BY <1>3, <2>1, <2>2 DEF InOrder, Single, More
<1>9. CASE AppendSummary(c)
  BY <1>9 DEF AppendSummary, InOrder, Single
<1>10. CASE Commit(c)
  BY <1>2, <1>10 DEF Commit
<1>11. QED
  BY <1>4, <1>5, <1>6, <1>7, <1>8, <1>9, <1>10 DEF Progress

\* Every step keeps the order, of the call that takes it and of the others.
LEMMA OrderKept == RequestsInv /\ AllInOrder /\ [Next]_vars => AllInOrder'
<1> SUFFICES ASSUME RequestsInv, \A c \in Call : InOrder(c), [Next]_vars, NEW c \in Call
             PROVE  InOrder(c)'
  BY DEF AllInOrder
<1>0. /\ StepsHold(c) /\ pc \in [Call -> Step] /\ job \in [Call -> Job]
      /\ mine \in [Call -> Writes]
  BY DEF RequestsInv, TypeOK, CallHolds
<1>1. ASSUME pc'[c] = pc[c], job'[c] = job[c], mine'[c] = mine[c]
      PROVE  InOrder(c)'
  BY <1>1 DEF InOrder, Single, More
<1>2. CASE UNCHANGED <<pc, job, mine>>
  BY <1>1, <1>2
<1>3. ASSUME NEW o \in Call, o # c, Progress(o) \/ EndTx(o)
      PROVE  InOrder(c)'
  BY <1>0, <1>1, <1>3
     DEF Progress, ReadRequest, Refuse, UpdateGrant, UpdateRequest, AppendAudit, AppendSummary,
         Commit, EndTx
<1>4. ASSUME EndTx(c)
      PROVE  InOrder(c)'
  <2>1. pc'[c] = "done" /\ mine'[c] = NoWrites /\ job'[c] = NoJob
    BY <1>0, <1>4 DEF EndTx
  <2>2. Len(NoJob.todo) = 0
    BY DEF NoJob
  <2>3. ~More(c)'
    BY <2>1, <2>2 DEF More
  <2>4. QED
    BY <2>1, <2>3 DEF InOrder, NoWrites
<1>5. ASSUME NEW o \in Call, NEW op, NEW b, NEW x, Start(o, op, FALSE, b, <<x>>)
      PROVE  InOrder(c)'
  <2>1. CASE o = c
    <3>1. /\ pc'[c] \in {"grant", "read"} /\ mine'[c] = NoWrites
          /\ job'[c].todo = <<x>>
      BY <1>0, <1>5, <2>1 DEF Start, StepsHold
    <3>2. ~More(c)'
      BY <3>1 DEF More
    <3>3. QED
      BY <3>1, <3>2 DEF InOrder, NoWrites
  <2>2. CASE o # c
    BY <1>0, <1>1, <1>5, <2>2 DEF Start
  <2>3. QED
    BY <2>1, <2>2
<1>6. ASSUME NEW o \in Call, NEW op, NEW b, NEW todo, Start(o, op, TRUE, b, todo)
      PROVE  InOrder(c)'
  BY <1>0, <1>1, <1>6 DEF Start, InOrder, Single
<1>7. ASSUME NEW o \in Call, StartExpire(o)
      PROVE  InOrder(c)'
  <2>1. CASE o = c
    BY <1>0, <1>7, <2>1 DEF StartExpire, InOrder, Single
  <2>2. CASE o # c
    BY <1>0, <1>1, <1>7, <2>2 DEF StartExpire
  <2>3. QED
    BY <2>1, <2>2
<1>8. ASSUME NEW o \in Call, Progress(o)
      PROVE  InOrder(c)'
  BY <1>3, <1>8, OrderStep
<1>9. ASSUME NEW o \in Call, Rollback(o) \/ DeadlockVictim(o)
      PROVE  InOrder(c)'
  BY <1>3, <1>4, <1>9 DEF Rollback, DeadlockVictim
<1>10. CASE \E r \in Request, o \in Operator : Submit(r, o)
  BY <1>2, <1>10 DEF Submit
<1>11. CASE \E r \in Request : Age(r)
  BY <1>2, <1>11 DEF Age
<1>12. CASE UNCHANGED vars
  BY <1>2, <1>12 DEF vars
<1>13. QED
  BY <1>5, <1>6, <1>7, <1>8, <1>9, <1>10, <1>11, <1>12 DEF Next

LEMMA OrderHolds == Spec => []AllInOrder
<1>1. Init => AllInOrder
  BY DEF Init, AllInOrder, InOrder, More, NoJob, NoWrites
<1>2. QED
  BY <1>1, OrderKept, RequestsInvariant, PTL DEF Spec

\* For any number of calls: decisions on one request or grant never wait for each other
\* in a cycle, so that PostgreSQL aborts one of them only beside a bulk call or an
\* expiry (revoke_request, revoke_grant, append_event).
THEOREM LocksAreOrdered == Spec => []CyclesNeedMany
<1>1. RequestsInv /\ AllInOrder => CyclesNeedMany
  <2> SUFFICES ASSUME RequestsInv, AllInOrder, NEW S \in (SUBSET Call) \ {{}},
                      \A c \in S : Blockers(c) \cap S # {},
                      \A c \in S : ~job[c].bulk /\ job[c].op # "expire"
               PROVE  FALSE
    BY DEF CyclesNeedMany
  <2>1. \A c \in S : /\ pc[c] # "summary"
                     /\ mine[c].grant # Empty => pc[c] \in {"write", "audit", "commit"}
                     /\ mine[c].req # Empty => pc[c] \in {"audit", "commit"}
                     /\ mine[c].audit # {} => pc[c] = "commit"
    BY DEF AllInOrder, InOrder, Single
  <2>2. \A c \in S : /\ DOMAIN mine[c].grant # {} => mine[c].grant # Empty
                     /\ DOMAIN mine[c].req # {} => mine[c].req # Empty
    BY DEF Empty
  <2>3. ASSUME NEW c \in S
        PROVE  \E o \in S : \/ pc[c] = "grant" /\ mine[o].grant # Empty
                            \/ pc[c] = "write" /\ mine[o].req # Empty
                            \/ pc[c] = "audit" /\ mine[o].audit # {}
    <3>1. PICK o \in S : o \in Blockers(c)
      OBVIOUS
    <3>2. pc[c] # "summary"
      BY <2>1
    <3>3. \/ pc[c] = "grant" /\ DOMAIN mine[o].grant # {}
          \/ pc[c] = "write" /\ DOMAIN mine[o].req # {}
          \/ pc[c] \in {"audit", "summary"} /\ mine[o].audit # {}
      BY <3>1, Zenon DEF Blockers
    <3>4. QED
      BY <2>2, <3>2, <3>3
  <2>4. \A c \in S : pc[c] \in {"grant", "write", "audit"}
    BY <2>3
  <2>5. \A c \in S : pc[c] # "audit"
    BY <2>1, <2>3, <2>4
  <2>6. \A c \in S : pc[c] # "write"
    BY <2>1, <2>3, <2>4, <2>5
  <2>7. \A c \in S : pc[c] # "grant"
    BY <2>1, <2>3, <2>4, <2>5, <2>6
  <2>8. QED
    BY <2>4, <2>5, <2>6, <2>7
<1>2. QED
  BY <1>1, OrderHolds, RequestsInvariant, PTL

------------------------------------------------------------------------------
\* Whatever loops, attempts and ends of processes do, the calls do what GrantRequests
\* says: what is proved of it above holds in the processes too.
THEOREM LoopImplementsRequests == LoopSpec => Spec
<1>1. LoopInit => Init
  BY DEF LoopInit
<1>2. [LoopNext]_allVars => [Next]_vars
  <2>1. CASE UNCHANGED allVars
    BY <2>1 DEF allVars
  <2>2. CASE \E r \in Request, o \in Operator : Submit(r, o) /\ UNCHANGED loopVars
    BY <2>2 DEF Next
  <2>3. CASE \E r \in Request : Age(r) /\ UNCHANGED loopVars
    BY <2>3 DEF Next
  <2>4. CASE \E c \in Call : Arrive(c)
    BY <2>4 DEF Arrive, Next
  <2>5. CASE \E c \in Call : FailCall(c)
    BY <2>5 DEF FailCall, Next
  <2>6. CASE \E a \in Attempt, g \in Grant \cup {NoGrant} : Begin(a, g)
    BY <2>6 DEF Begin
  <2>7. CASE \E a \in Attempt : FailAttempt(a)
    BY <2>7 DEF FailAttempt, EndAttempt
  <2>8. ASSUME NEW c \in Call, Check(c) \/ Send(c) \/ Execute(c)
        PROVE  [Next]_vars
    BY <2>8 DEF Check, Send, Execute, Progress, Next
  <2>9. ASSUME NEW a \in Attempt, Consume(a) \/ TakeChain(a) \/ CommitAttempt(a)
        PROVE  [Next]_vars
    BY <2>9 DEF Consume, TakeChain, CommitAttempt, EndAttempt
  <2>10. ASSUME NEW x \in Call \cup Attempt, Disconnect(x) \/ Victim(x)
         PROVE  [Next]_vars
    BY <2>10 DEF Disconnect, Victim, EndAttempt, Next
  <2>11. CASE \E x \in Call \cup Attempt : Advance(x)
    BY <2>8, <2>9, <2>10, <2>11 DEF Advance
  <2>12. CASE \E p \in Process : Restart(p)
    BY <2>12 DEF Restart
  <2>13. QED
    BY <2>1, <2>2, <2>3, <2>4, <2>5, <2>6, <2>7, <2>11, <2>12 DEF LoopNext
<1>3. QED
  BY <1>1, <1>2, PTL DEF LoopSpec, Spec

\* For any number of calls, attempts and processes: exercising a grant adds no cycle to
\* the locks of the calls (handle_demo_action, try_consume_grant_use, append_event).
THEOREM AttemptsOrdered == LoopSpec => []AttemptsKeepOrder
<1>1. RequestsInv /\ AllInOrder => AttemptsKeepOrder
  <2> SUFFICES ASSUME RequestsInv, AllInOrder, NEW S \in SUBSET (Call \cup Attempt),
                      S # {}, \A x \in S : LockWaits(x) \cap S # {},
                      \A c \in S \cap Call : ~job[c].bulk /\ job[c].op # "expire"
               PROVE  FALSE
    BY DEF AttemptsKeepOrder, LockCycle
  <2> DEFINE Chain(x) == IF x \in Call THEN pc[x] = "commit" ELSE stage[x] = "commit"
             Later(x) == IF x \in Call THEN pc[x] \in {"audit", "commit"}
                                       ELSE stage[x] \in {"audit", "commit"}
  <2>1. \A c \in S \cap Call :
           /\ pc[c] # "summary"
           /\ DOMAIN mine[c].grant # {} => pc[c] \in {"write", "audit", "commit"}
           /\ DOMAIN mine[c].req # {} => pc[c] \in {"audit", "commit"}
           /\ mine[c].audit # {} => pc[c] = "commit"
    <3>1. \A c \in S \cap Call : /\ DOMAIN mine[c].grant # {} => mine[c].grant # Empty
                                 /\ DOMAIN mine[c].req # {} => mine[c].req # Empty
      BY DEF Empty
    <3>2. \A c \in S \cap Call : Single(c) /\ InOrder(c)
      BY Zenon DEF AllInOrder, Single
    <3>3. \A c \in S \cap Call : /\ pc[c] # "summary"
                                 /\ mine[c].grant # Empty => pc[c] \in {"write", "audit", "commit"}
                                 /\ mine[c].req # Empty => pc[c] \in {"audit", "commit"}
                                 /\ mine[c].audit # {} => pc[c] = "commit"
      BY <3>2, Zenon DEF InOrder
    <3>4. QED
      BY <3>1, <3>3
  <2>2. ASSUME NEW x \in S
        PROVE  IF x \in Call THEN pc[x] \in {"grant", "write", "audit", "summary"}
                             ELSE stage[x] \in {"consume", "audit"}
    <3>1. PICK y \in S : y \in LockWaits(x)
      OBVIOUS
    <3>2. CASE x \in Call
      <4>1. pc[x] \in {"grant", "write", "audit", "summary"}
        BY <3>1, <3>2, Zenon DEF LockWaits, Blockers, AttemptsAhead
      <4>2. QED
        BY <3>2, <4>1
    <3>3. CASE x \notin Call
      <4>1. stage[x] = "consume" \/ stage[x] = "audit"
        BY <3>1, <3>3 DEF LockWaits
      <4>2. QED
        BY <3>3, <4>1
    <3>4. QED
      BY <3>2, <3>3
  <2>3. \A x \in S : ~Chain(x)
    BY <2>2
  <2>4. \A c \in S \cap Call : mine[c].audit = {}
    BY <2>1, <2>3
  <2>5. \A a \in S \ Call : ~HasChain(a)
    BY <2>3 DEF HasChain
  <2>6. ASSUME NEW x \in S, Later(x)
        PROVE  FALSE
    <3>1. PICK y \in S : y \in LockWaits(x)
      OBVIOUS
    <3>2. IF y \in Call THEN mine[y].audit # {} ELSE HasChain(y)
      BY <3>1, <2>6, <2>3, AttemptAssumption DEF LockWaits, Blockers, AttemptsAhead
    <3>3. QED
      BY <3>2, <2>4, <2>5
  <2>7. \A c \in S \cap Call : DOMAIN mine[c].req = {}
    BY <2>1, <2>6
  <2>8. \A c \in S \cap Call : pc[c] # "write"
    <3> SUFFICES ASSUME NEW c \in S \cap Call, pc[c] = "write"
                 PROVE  FALSE
      OBVIOUS
    <3>1. PICK y \in S : y \in LockWaits(c)
      OBVIOUS
    <3>2. y \in Call /\ DOMAIN mine[y].req # {}
      BY <3>1, AttemptAssumption DEF LockWaits, Blockers, AttemptsAhead
    <3>3. QED
      BY <3>2, <2>7
  <2>9. \A c \in S \cap Call : DOMAIN mine[c].grant = {}
    BY <2>1, <2>6, <2>8
  <2>10. \A a \in S \ Call : \A g : ~HasRow(a, g)
    BY <2>6 DEF HasRow
  <2>11. PICK x \in S : TRUE
    OBVIOUS
  <2>12. PICK y \in S : y \in LockWaits(x)
    OBVIOUS
  <2>13. QED
    BY <2>2, <2>4, <2>5, <2>6, <2>8, <2>9, <2>10, <2>12, AttemptAssumption
       DEF LockWaits, Blockers, AttemptsAhead
<1>2. QED
  BY <1>1, OrderHolds, RequestsInvariant, LoopImplementsRequests, PTL
=============================================================================
