------------------------------ MODULE EventLoop ------------------------------
(***************************************************************************)
(* The calls of GrantRequests and the attempts of Exercise, in the         *)
(* processes that run them.  Every process has one event loop.  The        *)
(* handlers of calls are coroutines: between two statements they need the  *)
(* loop, and while a statement is at the server they do not.  The handler  *)
(* of POST /v1/exercise is a coroutine too, but it calls                   *)
(* handle_demo_action, which talks to the database synchronously: from the *)
(* evaluation to the commit the attempt has the loop for itself, also      *)
(* while it waits for a lock.  If a call of the same process holds that    *)
(* lock, neither goes on, and the server sees no cycle of transactions.    *)
(*                                                                         *)
(* Of an attempt only what locks is left: the UPDATE of the grant's row    *)
(* and the append under the advisory lock.  The processes in Supervised    *)
(* are restarted when their loop no longer answers (livenessProbe of the   *)
(* Kubernetes manifest and of the Helm chart); Docker Compose and a bare   *)
(* uvicorn only restart a process that ended.                              *)
(***************************************************************************)
EXTENDS GrantRequests

CONSTANTS Attempt,     \* calls of POST /v1/exercise
          Process,     \* processes of the API
          Supervised,  \* those that a liveness probe looks after
          HomeOf,      \* HomeOf[x]: the process that x runs in
          Free         \* no attempt has the loop

ASSUME SupervisedAssumption == Supervised \subseteq Process
ASSUME HomeAssumption == HomeOf \in [Call \cup Attempt -> Process]
ASSUME AttemptAssumption == Attempt \cap Call = {} /\ Free \notin Attempt

VARIABLES atServer,  \* calls whose statement is at the server
          blocks,    \* blocks[p]: the attempt that has the loop of p, or Free
          stage,     \* stage[a]: the lock that a waits for or what it does with it
          uses,      \* uses[a]: the grant whose row a updates, or NoGrant
          lost       \* calls and attempts whose process ended before them

loopVars == <<atServer, blocks, stage, uses, lost>>
allVars  == <<vars, loopVars>>

Stage == {"idle", "consume", "audit", "commit", "done"}

Running(x) == IF x \in Call THEN pc[x] \notin {"idle", "done"}
                            ELSE stage[x] \notin {"idle", "done"}

\* Locks of attempts: like those of calls they last to the end of the transaction.
HasRow(a, g) == stage[a] \in {"audit", "commit"} /\ uses[a] = g

\* Mutant: the session of an attempt is not closed.
HasChainForEver(a) == stage[a] \in {"commit", "done"}

\* Mutant: the audit event is appended before the use is consumed.
HasChainFirst(a) == stage[a] \in {"consume", "audit", "commit"}

HasChain(a) == stage[a] = "commit"

\* The loop runs c when no attempt has it.
Runs(c) == blocks[HomeOf[c]] = Free /\ c \notin lost /\ c \notin atServer

\* The attempts whose locks the statement of the call c needs.
AttemptsAhead(c) ==
    {a \in Attempt :
        \/ /\ pc[c] = "grant"
           /\ HasRow(a, IF job[c].op = "revoke_grant" THEN Target(c) ELSE job[c].seen)
        \/ pc[c] \in {"audit", "summary"} /\ HasChain(a)}

\* The transactions that the statement of x waits for.
LockWaits(x) ==
    IF x \in Call
    THEN IF x \in atServer THEN Blockers(x) \cup AttemptsAhead(x) ELSE {}
    ELSE {c \in Call :
             \/ stage[x] = "consume" /\ uses[x] \in DOMAIN mine[c].grant
             \/ stage[x] = "audit" /\ mine[c].audit # {}}
         \cup {a \in Attempt \ {x} :
             \/ stage[x] = "consume" /\ HasRow(a, uses[x])
             \/ stage[x] = "audit" /\ HasChain(a)}

\* The attempt that keeps the loop from x.
LoopWaits(x) == IF x \in Call /\ Running(x) /\ x \notin atServer \cup lost
                THEN {blocks[HomeOf[x]]} \ {Free} ELSE {}

\* The server sees that the transactions of S wait for each other.
LockCycle(S) == S # {} /\ \A x \in S : LockWaits(x) \cap S # {}

------------------------------------------------------------------------------
LoopInit ==
    /\ Init
    /\ atServer = {}
    /\ blocks = [p \in Process |-> Free]
    /\ stage = [a \in Attempt |-> "idle"]
    /\ uses = [a \in Attempt |-> NoGrant]
    /\ lost = {}

\* The loop takes a request from its socket.  No handler runs expire_old_requests.
Arrive(c) ==
    /\ Runs(c)
    /\ \/ \E op \in Ops \ {"expire"}, o \in Operator : \E x \in Targets(op) :
             Start(c, op, FALSE, o, <<x>>)
       \/ \E op \in Ops \cap BulkOps, o \in Operator, n \in BulkSizes :
             \E todo \in [1..n -> Targets(op)] : Start(c, op, TRUE, o, todo)
    /\ UNCHANGED loopVars

\* A read takes no lock and waits for none; its check needs the loop.
Check(c) ==
    /\ Runs(c)
    /\ ReadRequest(c) \/ Refuse(c)
    /\ UNCHANGED loopVars

\* The coroutine sends its next statement and is suspended.
Send(c) ==
    /\ Runs(c)
    /\ pc[c] \in {"grant", "write", "audit", "summary", "commit"}
    /\ atServer' = atServer \cup {c}
    /\ UNCHANGED <<vars, blocks, stage, uses, lost>>

\* The server executes the statement, whatever the loop does meanwhile.
Execute(c) ==
    /\ c \in atServer
    /\ AttemptsAhead(c) = {}
    /\ \/ UpdateGrant(c) \/ UpdateRequest(c) \/ AppendAudit(c) \/ AppendSummary(c)
       \/ Commit(c)
    /\ atServer' = atServer \ {c}
    /\ UNCHANGED <<blocks, stage, uses, lost>>

\* The statement fails, or the handler raises.
FailCall(c) ==
    /\ c \in atServer \/ Runs(c)
    /\ Rollback(c)
    /\ atServer' = atServer \ {c}
    /\ UNCHANGED <<blocks, stage, uses, lost>>

\* exercise_endpoint calls handle_demo_action for a grant that is there, or for
\* none (a denial is audited too).
Begin(a, g) ==
    /\ stage[a] = "idle"
    /\ blocks[HomeOf[a]] = Free
    /\ g \in Targets("revoke_grant") \cup {NoGrant}
    /\ blocks' = [blocks EXCEPT ![HomeOf[a]] = a]
    /\ uses' = [uses EXCEPT ![a] = g]
    /\ stage' = [stage EXCEPT ![a] = IF g = NoGrant THEN "audit" ELSE "consume"]
    /\ UNCHANGED <<vars, atServer, lost>>

\* try_consume_grant_use: the row is updated and locked, or no use is left.
Consume(a) ==
    /\ stage[a] = "consume"
    /\ LockWaits(a) = {}
    /\ \E g \in {uses[a], NoGrant} : uses' = [uses EXCEPT ![a] = g]
    /\ stage' = [stage EXCEPT ![a] = "audit"]
    /\ UNCHANGED <<vars, atServer, blocks, lost>>

\* append_event takes the advisory lock.
TakeChain(a) ==
    /\ stage[a] = "audit"
    /\ LockWaits(a) = {}
    /\ stage' = [stage EXCEPT ![a] = "commit"]
    /\ UNCHANGED <<vars, atServer, blocks, uses, lost>>

\* The attempt is over: its transaction is, and the loop is free again.
EndAttempt(a) ==
    /\ stage' = [stage EXCEPT ![a] = "done"]
    /\ uses' = [uses EXCEPT ![a] = NoGrant]
    /\ blocks' = [p \in Process |-> IF blocks[p] = a THEN Free ELSE blocks[p]]
    /\ UNCHANGED <<vars, atServer, lost>>

CommitAttempt(a) == stage[a] = "commit" /\ EndAttempt(a)

\* An exception, a failed statement.
FailAttempt(a) == Running(a) /\ a \notin lost /\ EndAttempt(a)

\* The process ends, by a crash or because a probe of /health was not answered
\* in time, and is started anew.
Restart(p) ==
    /\ lost' = lost \cup {x \in Call \cup Attempt : HomeOf[x] = p /\ Running(x)}
    /\ blocks' = [blocks EXCEPT ![p] = Free]
    /\ UNCHANGED <<vars, atServer, stage, uses>>

\* The server finds the connection of x closed when no statement of x is under
\* way, and takes the transaction back.
Disconnect(x) ==
    /\ x \in lost /\ Running(x)
    /\ x \notin atServer /\ LockWaits(x) = {}
    /\ IF x \in Call THEN Rollback(x) /\ UNCHANGED loopVars ELSE EndAttempt(x)

\* PostgreSQL aborts one of several transactions that wait for each other.
Victim(x) ==
    /\ LockWaits(x) # {}
    /\ \E S \in SUBSET {y \in Call \cup Attempt : LockWaits(y) # {}} :
          x \in S /\ LockCycle(S)
    /\ IF x \in Call THEN /\ Rollback(x)
                          /\ atServer' = atServer \ {x}
                          /\ UNCHANGED <<blocks, stage, uses, lost>>
                     ELSE EndAttempt(x)

\* What x does next, wherever it is.
Advance(x) ==
    \/ x \in Call /\ (Check(x) \/ Send(x) \/ Execute(x))
    \/ x \in Attempt /\ (Consume(x) \/ TakeChain(x) \/ CommitAttempt(x))
    \/ Disconnect(x)
    \/ Victim(x)

LoopNext ==
    \/ \E r \in Request, o \in Operator : Submit(r, o) /\ UNCHANGED loopVars
    \/ \E r \in Request : Age(r) /\ UNCHANGED loopVars
    \/ \E c \in Call : Arrive(c) \/ FailCall(c)
    \/ \E a \in Attempt : \/ \E g \in Grant \cup {NoGrant} : Begin(a, g)
                          \/ FailAttempt(a)
    \/ \E x \in Call \cup Attempt : Advance(x)
    \/ \E p \in Process : Restart(p)

LoopSpec == LoopInit /\ [][LoopNext]_allVars

\* The loop and the queues of the server's locks are first in, first out, so what
\* can go on again and again does; and a probe restarts the process of a loop that
\* stays blocked.  Nothing says that a blocked loop becomes free.
LoopFairness ==
    /\ \A x \in Call \cup Attempt : SF_allVars(Advance(x))
    /\ \A p \in Supervised : WF_allVars(blocks[p] # Free /\ Restart(p))

FairSpec == LoopSpec /\ LoopFairness

------------------------------------------------------------------------------
\* Every variable has its type, those of GrantRequests included.
LoopTypeOK ==
    /\ TypeOK
    /\ atServer \subseteq Call
    /\ blocks \in [Process -> Attempt \cup {Free}]
    /\ stage \in [Attempt -> Stage]
    /\ uses \in [Attempt -> Grant \cup {NoGrant}]
    /\ lost \subseteq Call \cup Attempt

\* x waits, through locks and loops, for members of S that wait for each other; the
\* server sees no cycle, and no probe looks after the loops that are part of it.
Hung(x) ==
    \E S \in SUBSET {y \in Call \cup Attempt : LockWaits(y) \cup LoopWaits(y) # {}} :
        /\ x \in S
        /\ \A y \in S : (LockWaits(y) \cup LoopWaits(y)) \cap S # {}
        /\ \A T \in SUBSET S : ~LockCycle(T)
        /\ \A y \in S : LoopWaits(y) # {} => HomeOf[y] \notin Supervised

\* Attempts take their locks in the order of the calls (grant row, audit chain): no
\* transactions wait for each other unless one of them is a call that works on several
\* rows (handle_demo_action, revoke_grant, append_event).
AttemptsKeepOrder ==
    \A S \in SUBSET (Call \cup Attempt) : LockCycle(S) =>
        \E c \in S \cap Call : job[c].bulk \/ job[c].op = "expire"

\* Every call of the service comes to an end, unless an event loop is in the way that
\* no probe looks after: the calls' lock cycles are broken, and those through the
\* loop of a supervised process too (exercise_endpoint, livenessProbe).
CallsFinish == \A c \in Call : Running(c) ~> ~Running(c) \/ Hung(c)

\* So does every attempt: it does not wait for ever for the row of a grant or for
\* the advisory lock, but for the calls of its own blocked loop.
AttemptsFinish == \A a \in Attempt : Running(a) ~> ~Running(a) \/ Hung(a)
==============================================================================
