------------------------------- MODULE Exercise ------------------------------
(***************************************************************************)
(* Exercising a grant: handle_demo_action decides one attempt at a         *)
(* protected action.  It lists the grants and evaluates the policy on that *)
(* copy, validates the challenge in transactions of its own, and then, in  *)
(* one transaction, consumes a use, stores the execution and appends the   *)
(* audit event.  Attempts run concurrently in several processes (replicas  *)
(* of the API, worker threads), with revocation, renewal, tampering and    *)
(* the passing of time in between.                                         *)
(*                                                                         *)
(* All grants of the model match the attempts in subject, role, action and *)
(* resource, and their constraints are met; evaluate_access tells them     *)
(* apart by validity, revocation and exhaustion.                           *)
(***************************************************************************)
EXTENDS Naturals, Sequences, FiniteSets, SequencesExt

CONSTANTS Action,           \* attempts
          Listing,          \* the grants, in the order of list_grants
          MaxUses,          \* MaxUses[g]: a number, or Unlimited
          Unlimited,
          Challenge,
          None,             \* no challenge, no grant, no execution
          RequireChallenge  \* GRANTLAYER_REQUIRE_CHALLENGE

Grant == ToSet(Listing)

ASSUME ListingAssumption == Listing \in Seq(Grant)
ASSUME LimitsAssumption == MaxUses \in [Grant -> Nat \cup {Unlimited}]
ASSUME UnlimitedAssumption == Unlimited \notin Nat
ASSUME NoneAssumption == None \notin Grant \cup Challenge
ASSUME RequireChallengeAssumption == RequireChallenge \in BOOLEAN

VARIABLES grants,      \* committed rows of grants
          challenges,  \* committed rows of challenges
          executions,  \* executions[a]: committed row of what was decided of a, or None
          failures,    \* attempts with a committed row of a failure, which has an id of its own
          events,      \* committed audit events of decisions
          pc,          \* pc[a]: what a does next
          plan         \* plan[a]: local variables and uncommitted writes of a

vars == <<grants, challenges, executions, failures, events, pc, plan>>

Step == {"idle", "list", "challenge", "mark", "consume", "audit", "commit",
         "failing", "done"}

\* barred and burned are history: the grants that were revoked, and whether the
\* challenge was used, before the attempt began.
Plan == [challenge : Challenge \cup {None}, approved : BOOLEAN,
         grant : Grant \cup {None}, consumed : BOOLEAN,
         barred : SUBSET Grant, burned : BOOLEAN]

Execution == [result : {"succeeded", "denied"}, grant : Grant \cup {None},
              challenge : Challenge \cup {None}]
Event     == [by : Action, approved : BOOLEAN, grant : Grant \cup {None}]

ASSUME ExecutionAssumption == None \notin Execution

NoPlan == [challenge |-> None, approved |-> FALSE, grant |-> None, consumed |-> FALSE,
           barred |-> {}, burned |-> FALSE]

Exhausted(g, n) == MaxUses[g] # Unlimited /\ n >= MaxUses[g]

\* Mutant: revocation is not looked at.
UsableRevoked(g) == /\ ~grants[g].expired
                    /\ ~Exhausted(g, grants[g].uses)

\* evaluate_access approves an attempt by g.
Usable(g) == /\ ~grants[g].expired
             /\ ~grants[g].revoked
             /\ ~Exhausted(g, grants[g].uses)

\* evaluate_access decides the attempt by g: the first grant that approves, or
\* else the first that matches.
DecidedBy(g) ==
    \/ \E i \in DOMAIN Listing : /\ g = Listing[i]
                                 /\ Usable(g)
                                 /\ \A j \in 1..(i - 1) : ~Usable(Listing[j])
    \/ /\ \A i \in DOMAIN Listing : ~Usable(Listing[i])
       /\ g = IF Listing = <<>> THEN None ELSE Listing[1]

\* Row and advisory locks: both are held to the end of the transaction, and the
\* last thing before the commit is the append under the advisory lock.
HoldsRow(a, g) == /\ pc[a] \in {"audit", "commit"}
                  /\ plan[a].consumed
                  /\ plan[a].grant = g
Unlocked(g)    == \A a \in Action : ~HoldsRow(a, g)

ChainLocked(a) == \E b \in Action \ {a} : pc[b] = "commit"

------------------------------------------------------------------------------
Init ==
    /\ grants = [g \in Grant |-> [revoked |-> FALSE, expired |-> FALSE,
                                  signed |-> TRUE, uses |-> 0]]
    /\ challenges = [c \in Challenge |-> [used |-> FALSE, expired |-> FALSE]]
    /\ executions = [a \in Action |-> None]
    /\ failures = {}
    /\ events = {}
    /\ pc = [a \in Action |-> "idle"]
    /\ plan = [a \in Action |-> NoPlan]

\* A call comes in.  Without a challenge where one is required, it is denied
\* at once.
Start(a, c) ==
    /\ pc[a] = "idle"
    /\ plan' = [plan EXCEPT ![a] =
          [NoPlan EXCEPT !.challenge = c,
                         !.barred = {g \in Grant : grants[g].revoked},
                         !.burned = c # None /\ challenges[c].used]]
    /\ pc' = [pc EXCEPT ![a] = IF RequireChallenge /\ c = None THEN "audit" ELSE "list"]
    /\ UNCHANGED <<grants, challenges, executions, failures, events>>

\* list_grants, evaluate_access and the check of the signature.
Evaluate(a) ==
    /\ pc[a] = "list"
    /\ \E g \in Grant \cup {None} :
          LET approved == g # None /\ Usable(g) /\ grants[g].signed
          IN  /\ DecidedBy(g)
              /\ plan' = [plan EXCEPT ![a].grant = g, ![a].approved = approved]
              /\ pc' = [pc EXCEPT ![a] = IF plan[a].challenge # None THEN "challenge"
                                         ELSE IF approved THEN "consume" ELSE "audit"]
    /\ UNCHANGED <<grants, challenges, executions, failures, events>>

\* Mutant: the time to live is checked, but not whether it was used.
ReadChallengeTtlOnly(a) ==
    LET fresh == ~challenges[plan[a].challenge].expired
    IN  /\ pc[a] = "challenge"
        /\ plan' = [plan EXCEPT ![a].approved = @ /\ fresh]
        /\ pc' = [pc EXCEPT ![a] = IF fresh THEN "mark" ELSE "audit"]
        /\ UNCHANGED <<grants, challenges, executions, failures, events>>

\* validate_challenge reads the challenge ...
ReadChallenge(a) ==
    LET c == challenges[plan[a].challenge]
        fresh == ~c.used /\ ~c.expired
    IN  /\ pc[a] = "challenge"
        /\ plan' = [plan EXCEPT ![a].approved = @ /\ fresh]
        /\ pc' = [pc EXCEPT ![a] = IF fresh THEN "mark" ELSE "audit"]
        /\ UNCHANGED <<grants, challenges, executions, failures, events>>

\* ... and mark_used writes it, whatever it is by now, and commits.
MarkUsed(a) ==
    /\ pc[a] = "mark"
    /\ challenges' = [challenges EXCEPT ![plan[a].challenge].used = TRUE]
    /\ pc' = [pc EXCEPT ![a] = IF plan[a].approved THEN "consume" ELSE "audit"]
    /\ UNCHANGED <<grants, executions, failures, events, plan>>

\* Mutant: the use is consumed in a transaction of its own.
ConsumeAtOnce(a) ==
    LET g == plan[a].grant
        left == ~Exhausted(g, grants[g].uses)
    IN  /\ pc[a] = "consume"
        /\ grants' = IF left THEN [grants EXCEPT ![g].uses = @ + 1] ELSE grants
        /\ plan' = [plan EXCEPT ![a].approved = left]
        /\ pc' = [pc EXCEPT ![a] = "audit"]
        /\ UNCHANGED <<challenges, executions, failures, events>>

\* try_consume_use: UPDATE ... SET use_count = use_count + 1 WHERE use_count <
\* max_uses, once the row is free.
Consume(a) ==
    LET g == plan[a].grant
        left == ~Exhausted(g, grants[g].uses)
    IN  /\ pc[a] = "consume"
        /\ Unlocked(g)
        /\ plan' = [plan EXCEPT ![a].consumed = left, ![a].approved = left]
        /\ pc' = [pc EXCEPT ![a] = "audit"]
        /\ UNCHANGED <<grants, challenges, executions, failures, events>>

\* The execution is stored, the audit event appended under the advisory lock,
\* and the two are linked.
AppendDecision(a) ==
    /\ pc[a] = "audit"
    /\ ~ChainLocked(a)
    /\ pc' = [pc EXCEPT ![a] = "commit"]
    /\ UNCHANGED <<grants, challenges, executions, failures, events, plan>>

\* The server commits; the caller may see an exception all the same, when the answer is
\* lost on its way.
CommitDecision(a) ==
    LET p == plan[a]
    IN  /\ pc[a] = "commit"
        /\ grants' = IF p.consumed THEN [grants EXCEPT ![p.grant].uses = @ + 1] ELSE grants
        /\ executions' = [executions EXCEPT ![a] =
              [result |-> IF p.approved THEN "succeeded" ELSE "denied",
               grant |-> p.grant, challenge |-> p.challenge]]
        /\ events' = events \cup {[by |-> a, approved |-> p.approved, grant |-> p.grant]}
        /\ \E step \in {"done", "failing"} : pc' = [pc EXCEPT ![a] = step]
        /\ UNCHANGED <<challenges, failures, plan>>

\* An exception before the server commits: the decision is rolled back ...
Fail(a) ==
    /\ pc[a] \in {"list", "challenge", "mark", "consume", "audit", "commit"}
    /\ pc' = [pc EXCEPT ![a] = "failing"]
    /\ UNCHANGED <<grants, challenges, executions, failures, events, plan>>

\* Mutant: the failure is stored as a denial.
RecordFailureAsDenied(a) ==
    /\ pc[a] = "failing"
    /\ executions' = [executions EXCEPT ![a] =
          [result |-> "denied", grant |-> plan[a].grant, challenge |-> plan[a].challenge]]
    /\ pc' = [pc EXCEPT ![a] = "done"]
    /\ UNCHANGED <<grants, challenges, failures, events, plan>>

\* ... and a row of the failure is stored on its own, without an event.
RecordFailure(a) ==
    /\ pc[a] = "failing"
    /\ failures' = failures \cup {a}
    /\ pc' = [pc EXCEPT ![a] = "done"]
    /\ UNCHANGED <<grants, challenges, executions, events, plan>>

\* The process dies, or the row of the failure cannot be stored either.
Crash(a) ==
    /\ pc[a] \notin {"idle", "done"}
    /\ pc' = [pc EXCEPT ![a] = "done"]
    /\ UNCHANGED <<grants, challenges, executions, failures, events, plan>>

\* UPDATE grants SET revoked = 1 WHERE revoked = 0, with its audit event.
RevokeGrant(g) ==
    /\ ~grants[g].revoked
    /\ Unlocked(g)
    /\ grants' = [grants EXCEPT ![g].revoked = TRUE]
    /\ UNCHANGED <<challenges, executions, failures, events, pc, plan>>

\* renew_grant signs the row as it is for a later date.
RenewGrant(g) ==
    /\ ~grants[g].revoked
    /\ Unlocked(g)
    /\ grants' = [grants EXCEPT ![g].expired = FALSE, ![g].signed = TRUE]
    /\ UNCHANGED <<challenges, executions, failures, events, pc, plan>>

\* POST /demo/tamper-grant changes a signed field.
TamperGrant(g) ==
    /\ Unlocked(g)
    /\ grants' = [grants EXCEPT ![g].signed = FALSE]
    /\ UNCHANGED <<challenges, executions, failures, events, pc, plan>>

\* The time that the grant is valid for, or the five minutes of the challenge,
\* are over.
GrantExpires(g) ==
    /\ grants' = [grants EXCEPT ![g].expired = TRUE]
    /\ UNCHANGED <<challenges, executions, failures, events, pc, plan>>

ChallengeExpires(c) ==
    /\ challenges' = [challenges EXCEPT ![c].expired = TRUE]
    /\ UNCHANGED <<grants, executions, failures, events, pc, plan>>

Progress(a) == \/ Evaluate(a) \/ ReadChallenge(a) \/ MarkUsed(a) \/ Consume(a)
               \/ AppendDecision(a) \/ CommitDecision(a) \/ RecordFailure(a)

Next ==
    \/ \E a \in Action :
          \/ \E c \in Challenge \cup {None} : Start(a, c)
          \/ Progress(a)
          \/ Fail(a)
          \/ Crash(a)
    \/ \E g \in Grant : RevokeGrant(g) \/ RenewGrant(g) \/ TamperGrant(g) \/ GrantExpires(g)
    \/ \E c \in Challenge : ChallengeExpires(c)

Spec == Init /\ [][Next]_vars

------------------------------------------------------------------------------
\* Every variable has its type: rows of the four tables, and a plan per attempt.
TypeOK ==
    /\ grants \in [Grant -> [revoked : BOOLEAN, expired : BOOLEAN, signed : BOOLEAN,
                             uses : Nat]]
    /\ challenges \in [Challenge -> [used : BOOLEAN, expired : BOOLEAN]]
    /\ executions \in [Action -> Execution \cup {None}]
    /\ failures \subseteq Action
    /\ events \subseteq Event
    /\ pc \in [Action -> Step]
    /\ plan \in [Action -> Plan]

Succeeded(a) == executions[a] # None /\ executions[a].result = "succeeded"

\* Decisions and audit events go together: what was decided has the event that
\* says so, and every event has its execution, although the row of a failure may
\* stand beside both when only the answer to the commit was lost.
DecisionsWitnessed ==
    /\ \A a \in Action :
          executions[a] # None =>
             [by |-> a, approved |-> Succeeded(a), grant |-> executions[a].grant] \in events
    /\ \A e \in events :
          /\ executions[e.by] # None
          /\ executions[e.by].result = IF e.approved THEN "succeeded" ELSE "denied"

\* What makes the usage limits hold: an attempt has no decision before it commits; in
\* the deciding transaction approval and consumption agree; and the row that one
\* attempt has locked still has a use left and is locked by no other attempt.
LedgerInv ==
    /\ TypeOK
    /\ \A a \in Action :
          /\ pc[a] \notin {"failing", "done"} => executions[a] = None
          /\ plan[a].approved => plan[a].grant \in Grant
          /\ pc[a] = "consume" => plan[a].grant \in Grant
          /\ pc[a] \in {"idle", "list", "challenge", "mark", "consume"} => ~plan[a].consumed
          /\ pc[a] \in {"audit", "commit"} => (plan[a].approved <=> plan[a].consumed)
    /\ \A a \in Action, g \in Grant : HoldsRow(a, g) =>
          /\ ~Exhausted(g, grants[g].uses)
          /\ \A b \in Action \ {a} : ~HoldsRow(b, g)

\* "subsequent checks are denied": an attempt that began when the grant was
\* revoked never succeeds by it, whatever the attempts before it are still doing.
RevocationHolds ==
    \A a \in Action : Succeeded(a) => executions[a].grant \notin plan[a].barred

\* validate_challenge: a challenge that was used before the attempt began never
\* serves it.
ReplayBlocked ==
    \A a \in Action : Succeeded(a) => ~plan[a].burned

\* Why the two hold (Usable and ReadChallenge look at rows that may be old by the
\* time of the commit): grants stay revoked and challenges stay used, so an attempt
\* that saw an old one is not approved by it when it comes to its transaction.
HistoryInv ==
    /\ TypeOK
    /\ \A a \in Action :
          /\ \A g \in plan[a].barred : grants[g].revoked
          /\ pc[a] = "consume" => plan[a].approved
          /\ plan[a].approved => plan[a].grant \notin plan[a].barred
          /\ plan[a].burned => /\ plan[a].challenge \in Challenge
                               /\ challenges[plan[a].challenge].used
          /\ plan[a].burned /\ pc[a] \in {"mark", "consume", "audit", "commit"}
                => ~plan[a].approved
          /\ Succeeded(a) => /\ pc[a] \in {"failing", "done"}
                             /\ executions[a].grant \notin plan[a].barred
                             /\ ~plan[a].burned

\* The outcome of an attempt as the ledger sees it.
Outcome(a) == IF executions[a] = None THEN {}
              ELSE IF Succeeded(a) THEN {executions[a].grant} ELSE {"refused"}

Ledger == INSTANCE UsageLedger WITH
              uses <- [g \in Grant |-> grants[g].uses],
              outcome <- [a \in Action |-> Outcome(a)]

\* try_consume_use counts the uses of grants as the ledger promises: the use and
\* the outcome of the attempt appear in one step, and no grant is used too often.
ImplementsLedger == Ledger!Spec

\* security_boundaries.md: "Used challenges are permanently blocked"; the docs
\* call them one-time.
ChallengeUsedOnce ==
    \A a, b \in Action : a # b /\ Succeeded(a) /\ Succeeded(b) =>
        \/ executions[a].challenge # executions[b].challenge
        \/ executions[a].challenge = None

\* demo_action.py:265: everything that was tried "was rolled back", so that the row of a
\* failure cannot "contradict" a decision: what failed has no execution.  A commit of
\* which only the answer was lost has one.
FailuresAreAlone == \A a \in failures : executions[a] = None
==============================================================================
