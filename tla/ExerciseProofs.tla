---------------------------- MODULE ExerciseProofs ---------------------------
(***************************************************************************)
(* Theorems about Exercise, for any attempts, grants, limits and           *)
(* challenges.                                                             *)
(***************************************************************************)
EXTENDS Exercise, TLAPS

-----------------------------------------------------------------------------
\* The variables of handle_demo_action's model have their types in every
\* reachable state.
THEOREM TypeCorrect == Spec => []TypeOK
<1>1. Init => TypeOK
  BY NoneAssumption DEF Init, TypeOK, Step, Plan, NoPlan
<1>2. TypeOK /\ [Next]_vars => TypeOK'
  <2> SUFFICES ASSUME TypeOK, [Next]_vars PROVE TypeOK'
    OBVIOUS
  <2> USE DEF TypeOK
  <2>1. ASSUME NEW a \in Action, NEW c \in Challenge \cup {None}, Start(a, c)
        PROVE  TypeOK'
    <3>1. (c # None /\ challenges[c].used) \in BOOLEAN
      OBVIOUS
    <3>2. plan' \in [Action -> Plan]
      BY <2>1, <3>1 DEF Start, Plan, NoPlan
    <3> QED
      BY <2>1, <3>2 DEF Start, Step
  <2>2. ASSUME NEW a \in Action, Evaluate(a)
        PROVE  TypeOK'
    <3> DEFINE ok(g) == g # None /\ Usable(g) /\ grants[g].signed
    <3>1. PICK g \in Grant \cup {None} :
             /\ plan' = [plan EXCEPT ![a].grant = g, ![a].approved = ok(g)]
             /\ pc' = [pc EXCEPT ![a] = IF plan[a].challenge # None THEN "challenge"
                                        ELSE IF ok(g) THEN "consume" ELSE "audit"]
      BY <2>2 DEF Evaluate
    <3>2. ok(g) \in BOOLEAN
      OBVIOUS
    <3> HIDE DEF ok
    <3>3. plan' \in [Action -> Plan]
      <4>1. [plan[a] EXCEPT !.grant = g, !.approved = ok(g)] \in Plan
        BY <3>2, ZenonT(60) DEF Plan
      <4>2. plan' = [plan EXCEPT ![a] = [plan[a] EXCEPT !.grant = g, !.approved = ok(g)]]
        BY <3>1
      <4> QED
        BY <4>1, <4>2
    <3>4. pc' \in [Action -> Step]
      BY <3>1 DEF Step
    <3> QED
      BY <2>2, <3>3, <3>4 DEF Evaluate
  <2>3. ASSUME NEW a \in Action, ReadChallenge(a)
        PROVE  TypeOK'
    <3> DEFINE ok == /\ plan[a].approved
                     /\ ~challenges[plan[a].challenge].used
                     /\ ~challenges[plan[a].challenge].expired
    <3>1. plan' = [plan EXCEPT ![a].approved = ok]
      BY <2>3 DEF ReadChallenge
    <3>2. ok \in BOOLEAN
      OBVIOUS
    <3> HIDE DEF ok
    <3>3. plan' \in [Action -> Plan]
      BY <3>1, <3>2, ZenonT(60) DEF Plan
    <3> QED
      BY <2>3, <3>3 DEF ReadChallenge, Step
  <2>4. ASSUME NEW a \in Action, MarkUsed(a)
        PROVE  TypeOK'
    BY <2>4 DEF MarkUsed, Step
  <2>5. ASSUME NEW a \in Action, Consume(a)
        PROVE  TypeOK'
    <3> DEFINE left == ~Exhausted(plan[a].grant, grants[plan[a].grant].uses)
    <3>1. plan' = [plan EXCEPT ![a].consumed = left, ![a].approved = left]
      BY <2>5 DEF Consume
    <3>2. left \in BOOLEAN
      BY DEF Exhausted
    <3> HIDE DEF left
    <3>3. plan' \in [Action -> Plan]
      <4>1. [plan[a] EXCEPT !.consumed = left, !.approved = left] \in Plan
        BY <3>2 DEF Plan
      <4>2. plan' = [plan EXCEPT ![a] = [plan[a] EXCEPT !.consumed = left, !.approved = left]]
        BY <3>1
      <4> QED
        BY <4>1, <4>2
    <3> QED
      BY <2>5, <3>3 DEF Consume, Step
  <2>6. ASSUME NEW a \in Action, AppendDecision(a)
        PROVE  TypeOK'
    BY <2>6 DEF AppendDecision, Step
  <2>7. ASSUME NEW a \in Action, CommitDecision(a)
        PROVE  TypeOK'
    <3>1. plan[a] \in Plan
      OBVIOUS
    <3>2. executions' \in [Action -> Execution \cup {None}]
      BY <2>7, <3>1 DEF CommitDecision, Plan, Execution
    <3>3. events' \subseteq Event
      BY <2>7, <3>1 DEF CommitDecision, Plan, Event
    <3>4. grants' \in [Grant -> [revoked : BOOLEAN, expired : BOOLEAN, signed : BOOLEAN,
                                 uses : Nat]]
      <4>1. CASE plan[a].consumed /\ plan[a].grant \in Grant
        <5> DEFINE g == plan[a].grant
        <5>1. [grants[g] EXCEPT !.uses = @ + 1] \in
                 [revoked : BOOLEAN, expired : BOOLEAN, signed : BOOLEAN, uses : Nat]
          BY <4>1
        <5>2. grants' = [grants EXCEPT ![g] = [grants[g] EXCEPT !.uses = @ + 1]]
          BY <2>7, <4>1 DEF CommitDecision
        <5> QED
          BY <5>1, <5>2
      <4>2. CASE ~(plan[a].consumed /\ plan[a].grant \in Grant)
        BY <2>7, <4>2 DEF CommitDecision
      <4> QED
        BY <4>1, <4>2
    <3> QED
      BY <2>7, <3>2, <3>3, <3>4 DEF CommitDecision, Step
  <2>8. ASSUME NEW a \in Action, Fail(a)
        PROVE  TypeOK'
    BY <2>8 DEF Fail, Step
  <2>9. ASSUME NEW a \in Action, RecordFailure(a)
        PROVE  TypeOK'
    BY <2>9 DEF RecordFailure, Plan, Step, Execution
  <2>10. ASSUME NEW a \in Action, Crash(a)
        PROVE  TypeOK'
    BY <2>10 DEF Crash, Step
  <2>11. ASSUME NEW g \in Grant,
                RevokeGrant(g) \/ RenewGrant(g) \/ TamperGrant(g) \/ GrantExpires(g)
        PROVE  TypeOK'
    <3>1. grants' \in [Grant -> [revoked : BOOLEAN, expired : BOOLEAN, signed : BOOLEAN,
                                 uses : Nat]]
      <4>1. CASE RevokeGrant(g)
        BY <4>1 DEF RevokeGrant
      <4>2. CASE RenewGrant(g)
        <5>1. grants' = [grants EXCEPT ![g] =
                            [grants[g] EXCEPT !.expired = FALSE, !.signed = TRUE]]
          BY <4>2 DEF RenewGrant
        <5> QED
          BY <5>1
      <4>3. CASE TamperGrant(g)
        BY <4>3 DEF TamperGrant
      <4>4. CASE GrantExpires(g)
        BY <4>4 DEF GrantExpires
      <4> QED
        BY <2>11, <4>1, <4>2, <4>3, <4>4
    <3> QED
      BY <2>11, <3>1 DEF RevokeGrant, RenewGrant, TamperGrant, GrantExpires
  <2>12. ASSUME NEW c \in Challenge, ChallengeExpires(c)
        PROVE  TypeOK'
    BY <2>12 DEF ChallengeExpires
  <2>13. CASE UNCHANGED vars
    BY <2>13 DEF vars
  <2> QED
    BY <2>1, <2>2, <2>3, <2>4, <2>5, <2>6, <2>7, <2>8, <2>9, <2>10, <2>11, <2>12, <2>13
       DEF Next, Progress
<1> QED
  BY <1>1, <1>2, PTL DEF Spec

------------------------------------------------------------------------------
\* The rows that are locked after a step that changes neither plans nor pcs in
\* a way that adds a lock were locked before.
LEMMA LocksKept ==
    ASSUME NEW a \in Action, LedgerInv, TypeOK',
           \A b \in Action \ {a} : pc'[b] = pc[b] /\ plan'[b] = plan[b],
           \A g \in Grant : HoldsRow(a, g)' => HoldsRow(a, g),
           \A g \in Grant : grants'[g].uses = grants[g].uses
    PROVE  \A b \in Action, g \in Grant : HoldsRow(b, g)' =>
              /\ ~Exhausted(g, grants'[g].uses)
              /\ \A d \in Action \ {b} : ~HoldsRow(d, g)'
<1>1. \A b \in Action, g \in Grant : HoldsRow(b, g)' => HoldsRow(b, g)
  BY DEF HoldsRow
<1> QED
  BY <1>1 DEF LedgerInv

\* The invariant that the usage limits rest on holds in every reachable state.
THEOREM LedgerInvariant == Spec => []LedgerInv
<1>1. Init => LedgerInv
  <2> SUFFICES ASSUME Init PROVE LedgerInv
    OBVIOUS
  <2>1. TypeOK
    BY NoneAssumption DEF Init, TypeOK, Step, Plan, NoPlan
  <2> QED
    BY <2>1 DEF Init, LedgerInv, HoldsRow, NoPlan
<1>2. LedgerInv /\ TypeOK' /\ [Next]_vars => LedgerInv'
  <2> SUFFICES ASSUME LedgerInv, TypeOK', [Next]_vars PROVE LedgerInv'
    OBVIOUS
  <2> TypeOK
    BY DEF LedgerInv
  <2> DEFINE Local(b) ==
         /\ pc[b] \notin {"failing", "done"} => executions[b] = None
         /\ plan[b].approved => plan[b].grant \in Grant
         /\ pc[b] = "consume" => plan[b].grant \in Grant
         /\ pc[b] \in {"idle", "list", "challenge", "mark", "consume"} => ~plan[b].consumed
         /\ pc[b] \in {"audit", "commit"} => (plan[b].approved <=> plan[b].consumed)
  <2> DEFINE Locks ==
         \A b \in Action, g \in Grant : HoldsRow(b, g) =>
            /\ ~Exhausted(g, grants[g].uses)
            /\ \A d \in Action \ {b} : ~HoldsRow(d, g)
  <2>0. (\A b \in Action : Local(b)) /\ Locks
    BY DEF LedgerInv
  <2> SUFFICES (\A b \in Action : Local(b)') /\ Locks'
    BY DEF LedgerInv
  <2> HIDE DEF Local, Locks
  <2>1. ASSUME NEW a \in Action, NEW c \in Challenge \cup {None}, Start(a, c)
        PROVE  (\A b \in Action : Local(b)') /\ Locks'
    <3>1. \A b \in Action \ {a} : pc'[b] = pc[b] /\ plan'[b] = plan[b]
      BY <2>1 DEF Start, TypeOK
    <3>2. ~plan'[a].approved /\ ~plan'[a].consumed
      BY <2>1 DEF Start, TypeOK, NoPlan
    <3>3. pc'[a] \in {"audit", "list"} /\ UNCHANGED <<grants, executions>> /\ pc[a] = "idle"
      BY <2>1 DEF Start, TypeOK
    <3>4. \A b \in Action : Local(b)'
      BY <3>1, <3>2, <3>3, <2>0 DEF Local
    <3>5. Locks'
      BY <3>1, <3>2, <3>3, LocksKept DEF HoldsRow, Locks
    <3> QED
      BY <3>4, <3>5
  <2>2. ASSUME NEW a \in Action, Evaluate(a)
        PROVE  (\A b \in Action : Local(b)') /\ Locks'
    <3> DEFINE ok(g) == g # None /\ Usable(g) /\ grants[g].signed
    <3>1. PICK g \in Grant \cup {None} :
             /\ plan' = [plan EXCEPT ![a].grant = g, ![a].approved = ok(g)]
             /\ pc' = [pc EXCEPT ![a] = IF plan[a].challenge # None THEN "challenge"
                                        ELSE IF ok(g) THEN "consume" ELSE "audit"]
      BY <2>2 DEF Evaluate
    <3>2. ok(g) => g \in Grant
      BY DEF ok
    <3> HIDE DEF ok
    <3>3. /\ \A b \in Action \ {a} : pc'[b] = pc[b] /\ plan'[b] = plan[b]
          /\ plan'[a].grant = g
          /\ plan'[a].approved = ok(g)
          /\ plan'[a].consumed = plan[a].consumed
      BY <3>1 DEF TypeOK, Plan
    <3>4. pc'[a] \in {"challenge", "consume", "audit"} /\ (pc'[a] = "consume" => ok(g))
      BY <3>1 DEF TypeOK
    <3>5. pc'[a] = "audit" => ~ok(g)
      BY <3>1 DEF TypeOK
    <3>6. pc[a] = "list" /\ UNCHANGED <<grants, executions>>
      BY <2>2 DEF Evaluate
    <3>7. ~plan'[a].consumed
      BY <3>3, <3>6, <2>0 DEF Local
    <3>8. Local(a)'
      BY <3>2, <3>3, <3>4, <3>5, <3>6, <3>7, <2>0 DEF Local
    <3>9. \A b \in Action : Local(b)'
      BY <3>3, <3>6, <3>8, <2>0 DEF Local
    <3>10. Locks'
      BY <3>3, <3>6, <3>7, LocksKept DEF HoldsRow, Locks
    <3> QED
      BY <3>9, <3>10
  <2>3. ASSUME NEW a \in Action, ReadChallenge(a)
        PROVE  (\A b \in Action : Local(b)') /\ Locks'
    <3> DEFINE fresh == /\ ~challenges[plan[a].challenge].used
                        /\ ~challenges[plan[a].challenge].expired
    <3>1. /\ plan' = [plan EXCEPT ![a].approved = @ /\ fresh]
          /\ pc' = [pc EXCEPT ![a] = IF fresh THEN "mark" ELSE "audit"]
          /\ pc[a] = "challenge" /\ UNCHANGED <<grants, executions>>
      BY <2>3 DEF ReadChallenge
    <3> HIDE DEF fresh
    <3>2. /\ \A b \in Action \ {a} : pc'[b] = pc[b] /\ plan'[b] = plan[b]
          /\ plan'[a].grant = plan[a].grant
          /\ plan'[a].approved = (plan[a].approved /\ fresh)
          /\ plan'[a].consumed = plan[a].consumed
          /\ pc'[a] = IF fresh THEN "mark" ELSE "audit"
      BY <3>1 DEF TypeOK, Plan
    <3>3. ~plan'[a].consumed
      BY <3>1, <3>2, <2>0 DEF Local
    <3>4. Local(a)'
      <4>1. (plan'[a].approved => plan[a].approved) /\ (~fresh => ~plan'[a].approved)
        BY <3>2, Zenon
      <4>2. (plan[a].approved => plan[a].grant \in Grant) /\ executions'[a] = None
        BY <3>1, <2>0 DEF Local
      <4>3. plan'[a].grant = plan[a].grant /\ (pc'[a] = "mark" \/ (pc'[a] = "audit" /\ ~fresh))
        BY <3>2
      <4> QED
        BY <4>1, <4>2, <4>3, <3>3 DEF Local
    <3>5. \A b \in Action \ {a} : Local(b)'
      BY <3>1, <3>2, <2>0 DEF Local
    <3>6. Locks'
      BY <3>1, <3>2, <3>3, LocksKept DEF HoldsRow, Locks
    <3> QED
      BY <3>4, <3>5, <3>6
  <2>4. ASSUME NEW a \in Action, MarkUsed(a)
        PROVE  (\A b \in Action : Local(b)') /\ Locks'
    <3>1. /\ \A b \in Action \ {a} : pc'[b] = pc[b]
          /\ UNCHANGED <<plan, grants, executions>>
          /\ pc[a] = "mark"
          /\ pc'[a] = IF plan[a].approved THEN "consume" ELSE "audit"
      BY <2>4 DEF MarkUsed, TypeOK
    <3>2. ~plan[a].consumed
      BY <3>1, <2>0 DEF Local
    <3>3. \A b \in Action : Local(b)'
      BY <3>1, <3>2, <2>0 DEF Local
    <3>4. Locks'
      BY <3>1, <3>2, LocksKept DEF HoldsRow, Locks
    <3> QED
      BY <3>3, <3>4
  <2>5. ASSUME NEW a \in Action, Consume(a)
        PROVE  (\A b \in Action : Local(b)') /\ Locks'
    <3> DEFINE h == plan[a].grant
    <3> DEFINE left == ~Exhausted(h, grants[h].uses)
    <3>1. /\ pc[a] = "consume" /\ Unlocked(h) /\ UNCHANGED <<grants, executions>>
          /\ plan' = [plan EXCEPT ![a].consumed = left, ![a].approved = left]
          /\ pc' = [pc EXCEPT ![a] = "audit"]
      BY <2>5 DEF Consume
    <3>2. h \in Grant
      BY <3>1, <2>0 DEF Local
    <3> HIDE DEF left
    <3>3. /\ \A b \in Action \ {a} : pc'[b] = pc[b] /\ plan'[b] = plan[b]
          /\ plan'[a].grant = h
          /\ plan'[a].approved = left
          /\ plan'[a].consumed = left
          /\ pc'[a] = "audit"
      BY <3>1 DEF TypeOK, Plan
    <3>4. \A b \in Action : Local(b)'
      BY <3>1, <3>2, <3>3, <2>0 DEF Local
    <3>5. \A b \in Action, g \in Grant :
             HoldsRow(b, g)' => HoldsRow(b, g) \/ (b = a /\ g = h /\ left)
      BY <3>3 DEF HoldsRow
    <3>6. \A b \in Action : ~HoldsRow(b, h)
      BY <3>1 DEF Unlocked
    <3>7. left => ~Exhausted(h, grants[h].uses)
      BY DEF left
    <3>8. \A g \in Grant : ~HoldsRow(a, g)
      BY <3>1 DEF HoldsRow
    <3> HIDE DEF h
    <3>9. Locks'
      <4> SUFFICES ASSUME NEW b \in Action, NEW g \in Grant, HoldsRow(b, g)'
                   PROVE  /\ ~Exhausted(g, grants'[g].uses)
                          /\ \A d \in Action \ {b} : ~HoldsRow(d, g)'
        BY DEF Locks
      <4>1. CASE b = a
        BY <3>1, <3>5, <3>6, <3>7, <3>8, <4>1
      <4>2. CASE b # a
        <5>1. HoldsRow(b, g) /\ g # h
          BY <3>5, <3>6, <4>2
        <5> QED
          BY <5>1, <3>1, <3>5, <2>0 DEF Locks
      <4> QED
        BY <4>1, <4>2
    <3> QED
      BY <3>4, <3>9
  <2>6. ASSUME NEW a \in Action, AppendDecision(a)
        PROVE  (\A b \in Action : Local(b)') /\ Locks'
    <3>1. /\ \A b \in Action \ {a} : pc'[b] = pc[b]
          /\ UNCHANGED <<plan, grants, executions>>
          /\ pc[a] = "audit" /\ pc'[a] = "commit"
      BY <2>6 DEF AppendDecision, TypeOK
    <3>2. \A b \in Action : Local(b)'
      BY <3>1, <2>0 DEF Local
    <3>3. Locks'
      BY <3>1, LocksKept DEF HoldsRow, Locks
    <3> QED
      BY <3>2, <3>3
  <2>7. ASSUME NEW a \in Action, CommitDecision(a)
        PROVE  (\A b \in Action : Local(b)') /\ Locks'
    <3> DEFINE h == plan[a].grant
    <3>1. /\ \A b \in Action \ {a} : pc'[b] = pc[b] /\ executions'[b] = executions[b]
          /\ UNCHANGED plan
          /\ pc[a] = "commit" /\ pc'[a] \in {"failing", "done"}
          /\ grants' = IF plan[a].consumed THEN [grants EXCEPT ![h].uses = @ + 1] ELSE grants
      BY <2>7 DEF CommitDecision, TypeOK
    <3>2. \A b \in Action : Local(b)'
      BY <3>1, <2>0 DEF Local
    <3>3. \A b \in Action, g \in Grant : HoldsRow(b, g)' => b # a /\ HoldsRow(b, g)
      BY <3>1 DEF HoldsRow
    <3>4. plan[a].consumed /\ h \in Grant => HoldsRow(a, h)
      BY <3>1 DEF HoldsRow
    <3>5. \A g \in Grant : g # h \/ ~plan[a].consumed => grants'[g] = grants[g]
      BY <3>1 DEF TypeOK
    <3> HIDE DEF h
    <3>6. Locks'
      <4> SUFFICES ASSUME NEW b \in Action, NEW g \in Grant, HoldsRow(b, g)'
                   PROVE  /\ ~Exhausted(g, grants'[g].uses)
                          /\ \A d \in Action \ {b} : ~HoldsRow(d, g)'
        BY DEF Locks
      <4>1. g # h \/ ~plan[a].consumed
        BY <3>3, <3>4, <2>0 DEF Locks
      <4> QED
        BY <4>1, <3>3, <3>5, <2>0 DEF Locks
    <3> QED
      BY <3>2, <3>6
  <2>8. ASSUME NEW a \in Action, Fail(a)
        PROVE  (\A b \in Action : Local(b)') /\ Locks'
    <3>1. /\ \A b \in Action \ {a} : pc'[b] = pc[b]
          /\ UNCHANGED <<plan, grants, executions>>
          /\ pc[a] \notin {"failing", "done"} /\ pc'[a] = "failing"
      BY <2>8 DEF Fail, TypeOK
    <3>2. \A b \in Action : Local(b)'
      BY <3>1, <2>0 DEF Local
    <3>3. Locks'
      BY <3>1, LocksKept DEF HoldsRow, Locks
    <3> QED
      BY <3>2, <3>3
  <2>9. ASSUME NEW a \in Action, RecordFailure(a) \/ Crash(a)
        PROVE  (\A b \in Action : Local(b)') /\ Locks'
    <3>1. /\ \A b \in Action \ {a} : pc'[b] = pc[b] /\ executions'[b] = executions[b]
          /\ UNCHANGED <<plan, grants>>
          /\ pc'[a] = "done"
      BY <2>9 DEF RecordFailure, Crash, TypeOK
    <3>2. \A b \in Action : Local(b)'
      BY <3>1, <2>0 DEF Local
    <3>3. Locks'
      BY <3>1, LocksKept DEF HoldsRow, Locks
    <3> QED
      BY <3>2, <3>3
  <2>10. ASSUME NEW g \in Grant,
                RevokeGrant(g) \/ RenewGrant(g) \/ TamperGrant(g) \/ GrantExpires(g)
        PROVE  (\A b \in Action : Local(b)') /\ Locks'
    <3>1. /\ UNCHANGED <<plan, executions, pc>>
          /\ \A h \in Grant : grants'[h].uses = grants[h].uses
      BY <2>10 DEF RevokeGrant, RenewGrant, TamperGrant, GrantExpires, TypeOK
    <3>2. \A b \in Action : Local(b)'
      BY <3>1, <2>0 DEF Local
    <3>3. Locks'
      BY <3>1, <2>0 DEF HoldsRow, Locks
    <3> QED
      BY <3>2, <3>3
  <2>11. ASSUME NEW c \in Challenge, ChallengeExpires(c)
        PROVE  (\A b \in Action : Local(b)') /\ Locks'
    BY <2>11, <2>0 DEF ChallengeExpires, Local, Locks, HoldsRow
  <2>12. CASE UNCHANGED vars
    BY <2>12, <2>0 DEF vars, Local, Locks, HoldsRow
  <2> QED
    BY <2>1, <2>2, <2>3, <2>4, <2>5, <2>6, <2>7, <2>8, <2>9, <2>10, <2>11, <2>12
       DEF Next, Progress
<1> QED
  BY <1>1, <1>2, TypeCorrect, PTL DEF Spec

------------------------------------------------------------------------------
\* Every attempt uses at most one use of one grant, in the step that its outcome
\* appears in, and no grant is used beyond its limit: Exercise implements the
\* ledger.
THEOREM LedgerImplemented == Spec => ImplementsLedger
<1>1. Init => Ledger!Init
  BY DEF Init, Ledger!Init, Outcome
<1>2. LedgerInv /\ TypeOK' /\ [Next]_vars => [Ledger!Next]_<<
          [g \in Grant |-> grants[g].uses], [a \in Action |-> Outcome(a)]>>
  <2> SUFFICES ASSUME LedgerInv, TypeOK', [Next]_vars
               PROVE  Ledger!Next \/
                        /\ \A g \in Grant : grants'[g].uses = grants[g].uses
                        /\ \A a \in Action : Outcome(a)' = Outcome(a)
    OBVIOUS
  <2> TypeOK
    BY DEF LedgerInv
  <2>1. ASSUME UNCHANGED <<grants, executions>>
        PROVE  /\ \A g \in Grant : grants'[g].uses = grants[g].uses
               /\ \A a \in Action : Outcome(a)' = Outcome(a)
    BY <2>1 DEF Outcome, Succeeded
  <2>2. ASSUME NEW a \in Action, executions[a] = None,
               NEW e \in Execution, executions' = [executions EXCEPT ![a] = e]
        PROVE  /\ Outcome(a) = {}
               /\ [b \in Action |-> Outcome(b)]' = [[b \in Action |-> Outcome(b)] EXCEPT ![a] =
                     IF e.result = "succeeded" THEN {e.grant} ELSE {"refused"}]
    <3>1. e # None
      BY ExecutionAssumption
    <3> QED
      BY <2>2, <3>1 DEF Outcome, Succeeded, TypeOK
  <2>3. ASSUME NEW a \in Action, CommitDecision(a)
        PROVE  Ledger!Next
    <3> DEFINE p == plan[a]
    <3> DEFINE e == [result |-> IF p.approved THEN "succeeded" ELSE "denied",
                     grant |-> p.grant, challenge |-> p.challenge]
    <3>1. e \in Execution
      BY DEF TypeOK, Plan, Execution
    <3>2. executions' = [executions EXCEPT ![a] = e] /\ executions[a] = None
      BY <2>3 DEF CommitDecision, LedgerInv
    <3>3. /\ p.approved => p.grant \in Grant
          /\ p.approved <=> p.consumed
          /\ p.consumed => ~Exhausted(p.grant, grants[p.grant].uses)
      BY <2>3 DEF CommitDecision, LedgerInv, HoldsRow
    <3>4. grants' = IF p.consumed THEN [grants EXCEPT ![p.grant].uses = @ + 1] ELSE grants
      BY <2>3 DEF CommitDecision
    <3> HIDE DEF p
    <3>5. CASE p.approved
      <4>1. [g \in Grant |-> grants[g].uses]' =
               [[g \in Grant |-> grants[g].uses] EXCEPT ![p.grant] = @ + 1]
        BY <3>3, <3>4, <3>5 DEF TypeOK
      <4>2. PICK g \in Grant : g = p.grant
        BY <3>3, <3>5
      <4>3. Ledger!Use(a, g)
        BY <2>2, <3>1, <3>2, <3>3, <3>5, <4>1, <4>2
           DEF Ledger!Use, Ledger!Exhausted, Exhausted
      <4> QED
        BY <4>3 DEF Ledger!Next
    <3>6. CASE ~p.approved
      <4>1. UNCHANGED grants
        BY <3>3, <3>4, <3>6
      <4>2. Ledger!RefuseAttempt(a)
        BY <2>2, <3>1, <3>2, <3>6, <4>1 DEF Ledger!RefuseAttempt
      <4> QED
        BY <4>2 DEF Ledger!Next
    <3> QED
      BY <3>5, <3>6
  <2>4. ASSUME NEW a \in Action, RecordFailure(a)
        PROVE  UNCHANGED <<grants, executions>>
    BY <2>4 DEF RecordFailure
  <2>5. ASSUME NEW g \in Grant,
               RevokeGrant(g) \/ RenewGrant(g) \/ TamperGrant(g) \/ GrantExpires(g)
        PROVE  /\ \A h \in Grant : grants'[h].uses = grants[h].uses
               /\ \A a \in Action : Outcome(a)' = Outcome(a)
    <3>1. /\ UNCHANGED executions
          /\ \A h \in Grant : grants'[h].uses = grants[h].uses
      <4>1. CASE RevokeGrant(g)
        BY <4>1 DEF RevokeGrant, TypeOK
      <4>2. CASE RenewGrant(g)
        BY <4>2 DEF RenewGrant, TypeOK
      <4>3. CASE TamperGrant(g) \/ GrantExpires(g)
        BY <4>3 DEF TamperGrant, GrantExpires, TypeOK
      <4> QED
        BY <2>5, <4>1, <4>2, <4>3
    <3> QED
      BY <3>1 DEF Outcome, Succeeded
  <2>6. ASSUME NEW a \in Action,
               \/ \E c \in Challenge \cup {None} : Start(a, c)
               \/ Evaluate(a) \/ ReadChallenge(a) \/ MarkUsed(a) \/ Consume(a)
               \/ AppendDecision(a) \/ Fail(a) \/ Crash(a)
        PROVE  UNCHANGED <<grants, executions>>
    BY <2>6 DEF Start, Evaluate, ReadChallenge, MarkUsed, Consume, AppendDecision, Fail, Crash
  <2>7. ASSUME NEW c \in Challenge, ChallengeExpires(c)
        PROVE  UNCHANGED <<grants, executions>>
    BY <2>7 DEF ChallengeExpires
  <2>8. CASE UNCHANGED vars
    BY <2>8, <2>1 DEF vars
  <2> QED
    BY <2>1, <2>3, <2>4, <2>5, <2>6, <2>7, <2>8 DEF Next, Progress
<1> QED
  BY <1>1, <1>2, TypeCorrect, LedgerInvariant, PTL
     DEF Spec, ImplementsLedger, Ledger!Spec

------------------------------------------------------------------------------
\* What attempts remember of the time before them stays true.
THEOREM HistoryInvariant == Spec => []HistoryInv
<1>1. Init => HistoryInv
  <2> SUFFICES ASSUME Init PROVE HistoryInv
    OBVIOUS
  <2>1. TypeOK
    BY NoneAssumption DEF Init, TypeOK, Step, Plan, NoPlan
  <2> QED
    BY <2>1 DEF Init, HistoryInv, NoPlan, Succeeded
<1>2. HistoryInv /\ TypeOK' /\ [Next]_vars => HistoryInv'
  <2> SUFFICES ASSUME HistoryInv, TypeOK', [Next]_vars PROVE HistoryInv'
    OBVIOUS
  <2> TypeOK
    BY DEF HistoryInv
  <2> DEFINE Inv(b) ==
         /\ \A g \in plan[b].barred : grants[g].revoked
         /\ pc[b] = "consume" => plan[b].approved
         /\ plan[b].approved => plan[b].grant \notin plan[b].barred
         /\ plan[b].burned => /\ plan[b].challenge \in Challenge
                              /\ challenges[plan[b].challenge].used
         /\ plan[b].burned /\ pc[b] \in {"mark", "consume", "audit", "commit"}
               => ~plan[b].approved
         /\ Succeeded(b) => /\ pc[b] \in {"failing", "done"}
                            /\ executions[b].grant \notin plan[b].barred
                            /\ ~plan[b].burned
  <2>0. \A b \in Action : Inv(b)
    BY DEF HistoryInv
  <2> SUFFICES ASSUME NEW b \in Action PROVE Inv(b)'
    BY DEF HistoryInv
  <2> HIDE DEF Inv
  <2>1. ASSUME NEW a \in Action, NEW c \in Challenge \cup {None}, Start(a, c)
        PROVE  Inv(b)'
    <3>1. UNCHANGED <<grants, challenges, executions>> /\ pc[a] = "idle"
      BY <2>1 DEF Start
    <3>2. CASE b = a
      <4>1. /\ ~plan'[a].approved
            /\ plan'[a].barred = {g \in Grant : grants[g].revoked}
            /\ plan'[a].challenge = c
            /\ pc'[a] \in {"audit", "list"}
        BY <2>1 DEF Start, TypeOK, NoPlan
      <4>2. plan'[a].burned = (c # None /\ challenges[c].used)
        BY <2>1 DEF Start, TypeOK, NoPlan
      <4>3. plan'[a].burned => c \in Challenge /\ challenges[c].used
        BY <4>2, Zenon
      <4>4. ~Succeeded(a)'
        BY <3>1, <2>0 DEF Inv, Succeeded
      <4> QED
        BY <3>1, <3>2, <4>1, <4>3, <4>4 DEF Inv
    <3>3. CASE b # a
      <4>1. plan'[b] = plan[b] /\ pc'[b] = pc[b]
        BY <2>1, <3>3 DEF Start, TypeOK
      <4> QED
        BY <3>1, <4>1, <2>0 DEF Inv, Succeeded
    <3> QED
      BY <3>2, <3>3
  <2>2. ASSUME NEW a \in Action, Evaluate(a)
        PROVE  Inv(b)'
    <3> DEFINE ok(g) == g # None /\ Usable(g) /\ grants[g].signed
    <3>1. PICK g \in Grant \cup {None} :
             /\ plan' = [plan EXCEPT ![a].grant = g, ![a].approved = ok(g)]
             /\ pc' = [pc EXCEPT ![a] = IF plan[a].challenge # None THEN "challenge"
                                        ELSE IF ok(g) THEN "consume" ELSE "audit"]
      BY <2>2 DEF Evaluate
    <3>2. ok(g) => ~grants[g].revoked
      BY DEF ok, Usable
    <3> HIDE DEF ok
    <3>3. UNCHANGED <<grants, challenges, executions>> /\ pc[a] = "list"
      BY <2>2 DEF Evaluate
    <3>4. CASE b = a
      <4>1. /\ plan'[a].grant = g /\ plan'[a].approved = ok(g)
            /\ plan'[a].barred = plan[a].barred /\ plan'[a].burned = plan[a].burned
            /\ plan'[a].challenge = plan[a].challenge
        BY <3>1 DEF TypeOK, Plan
      <4>2. /\ plan[a].challenge # None => pc'[a] = "challenge"
            /\ pc'[a] = "consume" => ok(g)
        BY <3>1 DEF TypeOK
      <4>3. ~Succeeded(a)'
        BY <3>3, <2>0 DEF Inv, Succeeded
      <4> QED
        BY <3>2, <3>3, <3>4, <4>1, <4>2, <4>3, <2>0, NoneAssumption DEF Inv
    <3>5. CASE b # a
      <4>1. plan'[b] = plan[b] /\ pc'[b] = pc[b]
        BY <3>1, <3>5 DEF TypeOK
      <4> QED
        BY <3>3, <4>1, <2>0 DEF Inv, Succeeded
    <3> QED
      BY <3>4, <3>5
  <2>3. ASSUME NEW a \in Action, ReadChallenge(a)
        PROVE  Inv(b)'
    <3> DEFINE fresh == /\ ~challenges[plan[a].challenge].used
                        /\ ~challenges[plan[a].challenge].expired
    <3>1. /\ plan' = [plan EXCEPT ![a].approved = @ /\ fresh]
          /\ \A d \in Action \ {a} : pc'[d] = pc[d]
          /\ pc'[a] \in {"mark", "audit"}
          /\ pc[a] = "challenge" /\ UNCHANGED <<grants, challenges, executions>>
      BY <2>3 DEF ReadChallenge, TypeOK
    <3>2. fresh => ~challenges[plan[a].challenge].used
      OBVIOUS
    <3> HIDE DEF fresh
    <3>3. CASE b = a
      <4>1. /\ plan'[a].grant = plan[a].grant
            /\ plan'[a].approved = (plan[a].approved /\ fresh)
            /\ plan'[a].barred = plan[a].barred /\ plan'[a].burned = plan[a].burned
            /\ plan'[a].challenge = plan[a].challenge
        BY <3>1 DEF TypeOK, Plan
      <4>2. plan'[a].approved => plan[a].approved /\ fresh
        BY <4>1, Zenon
      <4>3. ~Succeeded(a)'
        BY <3>1, <2>0 DEF Inv, Succeeded
      <4>4. /\ plan'[a].grant = plan[a].grant
            /\ plan'[a].barred = plan[a].barred /\ plan'[a].burned = plan[a].burned
            /\ plan'[a].challenge = plan[a].challenge
        BY <4>1
      <4> HIDE <4>1
      <4> QED
        BY <3>1, <3>2, <3>3, <4>2, <4>3, <4>4, <2>0 DEF Inv
    <3>4. CASE b # a
      <4>1. plan'[b] = plan[b] /\ pc'[b] = pc[b]
        BY <3>1, <3>4 DEF TypeOK
      <4> QED
        BY <3>1, <4>1, <2>0 DEF Inv, Succeeded
    <3> QED
      BY <3>3, <3>4
  <2>4. ASSUME NEW a \in Action, MarkUsed(a)
        PROVE  Inv(b)'
    <3>1. /\ UNCHANGED <<plan, grants, executions>> /\ pc[a] = "mark"
          /\ \A d \in Action \ {a} : pc'[d] = pc[d]
          /\ \A c \in Challenge : challenges[c].used => challenges'[c].used
          /\ pc'[a] \in {"consume", "audit"} /\ (pc'[a] = "consume" => plan[a].approved)
      BY <2>4 DEF MarkUsed, TypeOK
    <3>2. ~Succeeded(a)'
      BY <3>1, <2>0 DEF Inv, Succeeded
    <3> QED
      BY <3>1, <3>2, <2>0 DEF Inv, Succeeded
  <2>5. ASSUME NEW a \in Action, Consume(a)
        PROVE  Inv(b)'
    <3> DEFINE left == ~Exhausted(plan[a].grant, grants[plan[a].grant].uses)
    <3>1. /\ pc[a] = "consume" /\ UNCHANGED <<grants, challenges, executions>>
          /\ plan' = [plan EXCEPT ![a].consumed = left, ![a].approved = left]
          /\ pc' = [pc EXCEPT ![a] = "audit"] /\ pc'[a] = "audit"
      BY <2>5 DEF Consume, TypeOK
    <3> HIDE DEF left
    <3>2. CASE b = a
      <4>1. /\ plan'[a].grant = plan[a].grant
            /\ plan'[a].barred = plan[a].barred /\ plan'[a].burned = plan[a].burned
            /\ plan'[a].challenge = plan[a].challenge
        BY <3>1 DEF TypeOK, Plan
      <4>2. ~Succeeded(a)'
        BY <3>1, <2>0 DEF Inv, Succeeded
      <4> QED
        BY <3>1, <3>2, <4>1, <4>2, <2>0 DEF Inv
    <3>3. CASE b # a
      <4>1. plan'[b] = plan[b] /\ pc'[b] = pc[b]
        BY <3>1, <3>3 DEF TypeOK
      <4> QED
        BY <3>1, <4>1, <2>0 DEF Inv, Succeeded
    <3> QED
      BY <3>2, <3>3
  <2>6. ASSUME NEW a \in Action, AppendDecision(a)
        PROVE  Inv(b)'
    <3>1. /\ UNCHANGED <<plan, grants, challenges, executions>> /\ pc[a] = "audit"
          /\ \A d \in Action \ {a} : pc'[d] = pc[d]
          /\ pc'[a] = "commit"
      BY <2>6 DEF AppendDecision, TypeOK
    <3> QED
      BY <3>1, <2>0 DEF Inv, Succeeded
  <2>7. ASSUME NEW a \in Action, CommitDecision(a)
        PROVE  Inv(b)'
    <3>1. /\ UNCHANGED <<plan, challenges>> /\ pc[a] = "commit"
          /\ pc'[a] \in {"failing", "done"}
          /\ \A d \in Action \ {a} : pc'[d] = pc[d] /\ executions'[d] = executions[d]
          /\ executions'[a] = [result |-> IF plan[a].approved THEN "succeeded" ELSE "denied",
                                grant |-> plan[a].grant, challenge |-> plan[a].challenge]
      BY <2>7 DEF CommitDecision, TypeOK
    <3>2. \A g \in Grant : grants[g].revoked => grants'[g].revoked
      BY <2>7 DEF CommitDecision, TypeOK
    <3>3. \A d \in Action : plan[d].barred \subseteq Grant
      BY DEF TypeOK, Plan
    <3>4. Succeeded(a)' => plan[a].approved /\ executions'[a].grant = plan[a].grant
      BY <3>1 DEF Succeeded
    <3>5. CASE b = a
      BY <3>1, <3>2, <3>3, <3>4, <3>5, <2>0 DEF Inv
    <3>6. CASE b # a
      BY <3>1, <3>2, <3>3, <3>6, <2>0 DEF Inv, Succeeded
    <3> QED
      BY <3>5, <3>6
  <2>8. ASSUME NEW a \in Action, Fail(a)
        PROVE  Inv(b)'
    <3>1. /\ UNCHANGED <<plan, grants, challenges, executions>>
          /\ pc[a] \notin {"failing", "done"}
          /\ \A d \in Action \ {a} : pc'[d] = pc[d]
          /\ pc'[a] = "failing"
      BY <2>8 DEF Fail, TypeOK
    <3> QED
      BY <3>1, <2>0 DEF Inv, Succeeded
  <2>9. ASSUME NEW a \in Action, RecordFailure(a)
        PROVE  Inv(b)'
    <3>1. /\ UNCHANGED <<plan, grants, challenges, executions>> /\ pc'[a] = "done"
          /\ \A d \in Action \ {a} : pc'[d] = pc[d]
      BY <2>9 DEF RecordFailure, TypeOK
    <3> QED
      BY <3>1, <2>0 DEF Inv, Succeeded
  <2>10. ASSUME NEW a \in Action, Crash(a)
        PROVE  Inv(b)'
    <3>1. /\ UNCHANGED <<plan, grants, challenges, executions>>
          /\ \A d \in Action \ {a} : pc'[d] = pc[d]
          /\ pc'[a] = "done"
      BY <2>10 DEF Crash, TypeOK
    <3> QED
      BY <3>1, <2>0 DEF Inv, Succeeded
  <2>11. ASSUME NEW g \in Grant,
                RevokeGrant(g) \/ RenewGrant(g) \/ TamperGrant(g) \/ GrantExpires(g)
        PROVE  Inv(b)'
    <3>1. \A h \in Grant : grants[h].revoked => grants'[h].revoked
      BY <2>11 DEF RevokeGrant, RenewGrant, TamperGrant, GrantExpires, TypeOK
    <3>2. UNCHANGED <<plan, pc, challenges, executions>>
      BY <2>11 DEF RevokeGrant, RenewGrant, TamperGrant, GrantExpires
    <3>3. plan[b].barred \subseteq Grant
      BY DEF TypeOK, Plan
    <3> QED
      BY <3>1, <3>2, <3>3, <2>0 DEF Inv, Succeeded
  <2>12. ASSUME NEW c \in Challenge, ChallengeExpires(c)
        PROVE  Inv(b)'
    <3>1. UNCHANGED <<plan, pc, grants, executions>>
      BY <2>12 DEF ChallengeExpires
    <3>2. \A d \in Challenge : challenges[d].used => challenges'[d].used
      BY <2>12 DEF ChallengeExpires, TypeOK
    <3> QED
      BY <3>1, <3>2, <2>0 DEF Inv, Succeeded
  <2>13. CASE UNCHANGED vars
    BY <2>13, <2>0 DEF vars, Inv, Succeeded
  <2> QED
    BY <2>1, <2>2, <2>3, <2>4, <2>5, <2>6, <2>7, <2>8, <2>9, <2>10, <2>11, <2>12, <2>13
       DEF Next, Progress
<1> QED
  BY <1>1, <1>2, TypeCorrect, PTL DEF Spec

\* An attempt that begins after the revocation of a grant never succeeds by it.
THEOREM RevocationCorrect == Spec => []RevocationHolds
<1>1. HistoryInv => RevocationHolds
  BY DEF HistoryInv, RevocationHolds
<1> QED
  BY <1>1, HistoryInvariant, PTL

\* An attempt with a challenge that was used before it began never succeeds.
THEOREM ReplayCorrect == Spec => []ReplayBlocked
<1>1. HistoryInv => ReplayBlocked
  BY DEF HistoryInv, ReplayBlocked
<1> QED
  BY <1>1, HistoryInvariant, PTL

------------------------------------------------------------------------------
\* Whatever commits, fails, crashes or is revoked meanwhile, what was decided and the
\* audit events go together, because an attempt has no execution before it commits.
THEOREM WitnessesCorrect == Spec => []DecisionsWitnessed
<1>1. Init => DecisionsWitnessed
  BY DEF Init, DecisionsWitnessed
<1>2. LedgerInv /\ DecisionsWitnessed /\ [Next]_vars => DecisionsWitnessed'
  <2> SUFFICES ASSUME LedgerInv, DecisionsWitnessed, [Next]_vars PROVE DecisionsWitnessed'
    OBVIOUS
  <2> TypeOK
    BY DEF LedgerInv
  <2>1. UNCHANGED <<executions, events>> => DecisionsWitnessed'
    BY DEF DecisionsWitnessed, Succeeded
  <2>2. \A e \in events : e.by \in Action /\ e.approved \in BOOLEAN
    BY DEF TypeOK, Event
  <2>3. ASSUME NEW a \in Action, executions[a] = None
        PROVE  \A e \in events : e.by # a
    BY <2>3 DEF DecisionsWitnessed
  <2>4. ASSUME NEW a \in Action, CommitDecision(a)
        PROVE  DecisionsWitnessed'
    <3> DEFINE p == plan[a]
               x == [result |-> IF p.approved THEN "succeeded" ELSE "denied",
                     grant |-> p.grant, challenge |-> p.challenge]
               e == [by |-> a, approved |-> p.approved, grant |-> p.grant]
    <3>1. /\ executions' = [executions EXCEPT ![a] = x] /\ events' = events \cup {e}
          /\ executions[a] = None
      BY <2>4 DEF CommitDecision, LedgerInv
    <3>2. x \in Execution /\ e \in Event /\ e.by = a /\ e.grant = x.grant
          /\ x.result = IF e.approved THEN "succeeded" ELSE "denied"
      BY DEF TypeOK, Plan, Execution, Event
    <3>3. x # None
      BY <3>2, ExecutionAssumption
    <3> HIDE DEF x, p
    <3>4. /\ executions'[a] = x /\ \A b \in Action \ {a} : executions'[b] = executions[b]
      BY <3>1 DEF TypeOK
    <3>5. e = [by |-> a, approved |-> Succeeded(a)', grant |-> x.grant]
      <4>1. e.approved \in BOOLEAN /\ e.approved = p.approved
        BY <3>2 DEF Event
      <4>2. Succeeded(a)' <=> e.approved
        BY <3>2, <3>3, <3>4 DEF Succeeded
      <4>3. Succeeded(a)' \in BOOLEAN
        BY DEF Succeeded
      <4>4. Succeeded(a)' = p.approved /\ x.grant = p.grant
        BY <3>2, <4>1, <4>2, <4>3
      <4> QED
        BY <4>4, Zenon
    <3> HIDE DEF e
    <3>6. ASSUME NEW b \in Action, executions'[b] # None
          PROVE  [by |-> b, approved |-> Succeeded(b)', grant |-> executions'[b].grant] \in events'
      <4>1. CASE b = a
        BY <3>1, <3>4, <3>5, <4>1
      <4>2. CASE b # a
        BY <3>1, <3>4, <3>6, <4>2 DEF DecisionsWitnessed, Succeeded
      <4> QED
        BY <4>1, <4>2
    <3>7. ASSUME NEW d \in events'
          PROVE  /\ executions'[d.by] # None
                 /\ executions'[d.by].result = IF d.approved THEN "succeeded" ELSE "denied"
      <4>1. CASE d = e
        BY <3>2, <3>3, <3>4, <4>1
      <4>2. CASE d \in events
        <5>1. d.by \in Action \ {a}
          BY <2>2, <2>3, <3>1, <4>2
        <5> QED
          BY <3>4, <4>2, <5>1 DEF DecisionsWitnessed
      <4> QED
        BY <3>1, <4>1, <4>2
    <3> QED
      BY <3>6, <3>7 DEF DecisionsWitnessed
  <2>5. ASSUME NEW a \in Action, RecordFailure(a)
        PROVE  UNCHANGED <<executions, events>>
    BY <2>5 DEF RecordFailure
  <2>6. ASSUME NEW a \in Action,
               \/ \E c \in Challenge \cup {None} : Start(a, c)
               \/ Evaluate(a) \/ ReadChallenge(a) \/ MarkUsed(a) \/ Consume(a)
               \/ AppendDecision(a) \/ Fail(a) \/ Crash(a)
        PROVE  UNCHANGED <<executions, events>>
    BY <2>6 DEF Start, Evaluate, ReadChallenge, MarkUsed, Consume, AppendDecision, Fail, Crash
  <2>7. ASSUME NEW g \in Grant,
               RevokeGrant(g) \/ RenewGrant(g) \/ TamperGrant(g) \/ GrantExpires(g)
        PROVE  UNCHANGED <<executions, events>>
    BY <2>7 DEF RevokeGrant, RenewGrant, TamperGrant, GrantExpires
  <2>8. ASSUME NEW c \in Challenge, ChallengeExpires(c)
        PROVE  UNCHANGED <<executions, events>>
    BY <2>8 DEF ChallengeExpires
  <2>9. CASE UNCHANGED vars
    BY <2>9, <2>1 DEF vars
  <2> QED
    BY <2>1, <2>4, <2>5, <2>6, <2>7, <2>8, <2>9 DEF Next, Progress
<1> QED
  BY <1>1, <1>2, LedgerInvariant, PTL DEF Spec
==============================================================================
