------------------------- MODULE AnchorSigningProofs -------------------------
(***************************************************************************)
(* Theorems about AnchorJob and GrantSigning, for every set of runs,       *)
(* calls, key pairs and dates, every limit of the grant and every minimum  *)
(* of the chain: what the anchoring job pays for is authorised, witnessed  *)
(* and recorded, and a day is paid for twice only in the two ways that     *)
(* DoublePaymentExplained names; the last event about a grant tells its    *)
(* state and its date, and a grant that nobody altered verifies but while  *)
(* a file of its key is being written, or after such a write was broken    *)
(* off.                                                                    *)
(***************************************************************************)
EXTENDS AnchorJob, GrantSigning, FiniteSetTheorems, TLAPS

------------------------------------------------------------------------------
(* The anchoring job                                                        *)

\* The variables have their types in every reachable state.  Confirm and
\* MarkFailed keep the type of the row that WriteRecord left.
THEOREM TypeCorrect == Spec => []TypeOK
<1> DEFINE HasRow == \A r \in Run : pc[r] \in {"submit", "confirm", "fail"} =>
                                      records[r] # NoRecord
<1> DEFINE Inv == TypeOK /\ HasRow
<1>1. Init => Inv
  BY DEF Init, TypeOK, Step, Ended, Local
<1>2. Inv /\ [Next]_vars => Inv'
  <2> SUFFICES ASSUME Inv, [Next]_vars
               PROVE  Inv'
    OBVIOUS
  <2> USE DEF TypeOK
  <2>1. CASE Tick
    BY <2>1 DEF Tick
  <2>2. CASE OtherEvent
    BY <2>2 DEF OtherEvent
  <2>3. ASSUME NEW r \in Run, Start(r)
        PROVE  Inv'
    BY <2>3 DEF Start, Step, Local
  <2>4. ASSUME NEW r \in Run, Skip(r) \/ Denied(r) \/ Refuse(r) \/ Crash(r)
        PROVE  Inv'
    BY <2>4 DEF Skip, Denied, Refuse, Crash, Step, Ended
  <2>5. ASSUME NEW r \in Run, PassGuard(r)
        PROVE  Inv'
    BY <2>5, ZenonT(60) DEF PassGuard, Rivals, Step, Local
  <2>6. ASSUME NEW r \in Run, ExerciseGrant(r)
        PROVE  Inv'
    BY <2>6 DEF ExerciseGrant, Step, Local
  <2>7. ASSUME NEW r \in Run, ReadHead(r)
        PROVE  Inv'
    BY <2>7 DEF ReadHead, Step, Local
  <2>8. ASSUME NEW r \in Run, WriteRecord(r)
        PROVE  Inv'
    <3>1. [day |-> local[r].day, entry_count |-> local[r].head, status |-> "submitted"]
             \in Record
      BY DEF Record, Local
    <3> QED
      BY <2>8, <3>1, NoRecordAssumption DEF WriteRecord, Step
  <2>9. ASSUME NEW r \in Run, Submit(r)
        PROVE  Inv'
    BY <2>9 DEF Submit, Step, Local, Tx
  <2>10. ASSUME NEW r \in Run, Confirm(r) \/ MarkFailed(r)
         PROVE  Inv'
    <3>1. records[r] \in Record
      BY <2>10 DEF Confirm, MarkFailed
    <3>2. records'[r] \in Record /\ \A o \in Run \ {r} : records'[o] = records[o]
      BY <2>10, <3>1 DEF Confirm, MarkFailed, Record
    <3>3. records' \in [Run -> Record \cup {NoRecord}]
      BY <2>10, <3>2 DEF Confirm, MarkFailed
    <3> QED
      BY <2>10, <3>2, <3>3, NoRecordAssumption DEF Confirm, MarkFailed, Step, Ended
  <2>11. CASE UNCHANGED vars
    BY <2>11 DEF vars
  <2> QED
    BY <2>1, <2>2, <2>3, <2>4, <2>5, <2>6, <2>7, <2>8, <2>9, <2>10, <2>11 DEF Next
<1>3. Inv => TypeOK
  OBVIOUS
<1> QED
  BY <1>1, <1>2, <1>3, PTL DEF Spec

------------------------------------------------------------------------------
\* A run that enters or leaves the entitled ones changes their number by one.
LEMMA EntitledCount ==
    ASSUME NEW S, IsFiniteSet(S), NEW r
    PROVE  /\ IsFiniteSet(S \cup {r}) /\ Cardinality(S \cup {r}) <= Cardinality(S) + 1
           /\ IsFiniteSet(S \ {r}) /\ Cardinality(S \ {r}) <= Cardinality(S)
           /\ r \in S => Cardinality(S \ {r}) = Cardinality(S) - 1
           /\ Cardinality(S) \in Nat
BY FS_AddElement, FS_RemoveElement, FS_CardinalityType

\* The uses of the grant cover what was paid and what may still be.
THEOREM UsesInvariant == Spec => []UsesHeld
<1>1. Init => UsesHeld
  <2> SUFFICES ASSUME Init PROVE UsesHeld
    OBVIOUS
  <2>1. Entitled = {} /\ paid = {} /\ uses = 0
    BY DEF Init, Entitled
  <2> QED
    BY <2>1, FS_EmptySet, LimitAssumption DEF UsesHeld
<1>2. TypeOK /\ TypeOK' /\ UsesHeld /\ [Next]_vars => UsesHeld'
  <2> SUFFICES ASSUME TypeOK, TypeOK', UsesHeld, [Next]_vars
               PROVE  UsesHeld'
    OBVIOUS
  <2> USE DEF TypeOK
  <2>0. Cardinality(Entitled) \in Nat /\ Cardinality(paid) \in Nat
    BY FS_CardinalityType DEF UsesHeld
  <2>1. CASE Tick \/ UNCHANGED vars
    BY <2>1 DEF Tick, vars, UsesHeld, Entitled
  <2>2. CASE OtherEvent
    <3>1. Entitled' = Entitled /\ paid' = paid
      BY <2>2 DEF OtherEvent, Entitled
    <3>2. uses' = uses \/ (~Exhausted /\ uses' = uses + 1)
      BY <2>2 DEF OtherEvent
    <3> QED
      BY <3>1, <3>2, <2>0, LimitAssumption DEF UsesHeld, Exhausted
  <2>3. ASSUME NEW r \in Run,
               \/ Start(r) \/ Skip(r) \/ PassGuard(r) \/ Denied(r) \/ ReadHead(r)
               \/ WriteRecord(r) \/ Confirm(r) \/ MarkFailed(r)
        PROVE  UsesHeld'
    <3>1. Entitled' = Entitled
      BY <2>3 DEF Start, Skip, PassGuard, Denied, ReadHead, WriteRecord, Confirm,
                  MarkFailed, Entitled
    <3>2. paid' = paid /\ uses' = uses
      BY <2>3 DEF Start, Skip, PassGuard, Denied, ReadHead, WriteRecord, Confirm,
                  MarkFailed
    <3> QED
      BY <3>1, <3>2 DEF UsesHeld
  <2>4. ASSUME NEW r \in Run, ExerciseGrant(r)
        PROVE  UsesHeld'
    <3>1. Entitled' = Entitled \cup {r}
      BY <2>4 DEF ExerciseGrant, Entitled
    <3>2. paid' = paid /\ uses' = uses + 1 /\ ~Exhausted
      BY <2>4 DEF ExerciseGrant
    <3>3. IsFiniteSet(Entitled') /\ Cardinality(Entitled') <= Cardinality(Entitled) + 1
          /\ Cardinality(Entitled') \in Nat
      BY <3>1, EntitledCount DEF UsesHeld
    <3> QED
      BY <3>2, <3>3, <2>0, LimitAssumption DEF UsesHeld, Exhausted
  <2>5. ASSUME NEW r \in Run, Refuse(r) \/ Crash(r)
        PROVE  UsesHeld'
    <3>1. Entitled' = Entitled \ {r}
      BY <2>5 DEF Refuse, Crash, Entitled
    <3>2. paid' = paid /\ uses' = uses
      BY <2>5 DEF Refuse, Crash
    <3>3. IsFiniteSet(Entitled') /\ Cardinality(Entitled') <= Cardinality(Entitled)
          /\ Cardinality(Entitled') \in Nat
      BY <3>1, EntitledCount DEF UsesHeld
    <3> QED
      BY <3>2, <3>3, <2>0 DEF UsesHeld
  <2>6. ASSUME NEW r \in Run, Submit(r)
        PROVE  UsesHeld'
    <3>1. Entitled' = Entitled \ {r} /\ r \in Entitled
      BY <2>6 DEF Submit, Entitled
    <3>2. PICK t : paid' = paid \/ paid' = paid \cup {t}
      BY <2>6 DEF Submit
    <3>3. IsFiniteSet(paid') /\ Cardinality(paid') <= Cardinality(paid) + 1
          /\ Cardinality(paid') \in Nat
      <4>1. IsFiniteSet(paid)
        BY DEF UsesHeld
      <4>2. /\ IsFiniteSet(paid \cup {t}) /\ Cardinality(paid \cup {t}) \in Nat
            /\ Cardinality(paid \cup {t}) <= Cardinality(paid) + 1
        BY <4>1, EntitledCount, FS_CardinalityType
      <4>3. CASE paid' = paid
        <5>1. Cardinality(paid') = Cardinality(paid)
          BY <4>3
        <5> QED
          BY <4>1, <4>3, <5>1, <2>0
      <4>4. CASE paid' = paid \cup {t}
        <5>1. Cardinality(paid') = Cardinality(paid \cup {t})
          BY <4>4
        <5> QED
          BY <4>2, <4>4, <5>1
      <4> QED
        BY <3>2, <4>3, <4>4
    <3>4. IsFiniteSet(Entitled') /\ Cardinality(Entitled') = Cardinality(Entitled) - 1
          /\ Cardinality(Entitled') \in Nat
      BY <3>1, EntitledCount DEF UsesHeld
    <3>5. uses' = uses
      BY <2>6 DEF Submit
    <3> QED
      BY <3>3, <3>4, <3>5, <2>0 DEF UsesHeld
  <2> QED
    BY <2>1, <2>2, <2>3, <2>4, <2>5, <2>6 DEF Next
<1> QED
  BY <1>1, <1>2, TypeCorrect, PTL DEF Spec

\* The job never pays more often than its grant was used and allows.
THEOREM PaymentsAuthorised == Spec => []PaidWithinGrant
<1>1. TypeOK /\ UsesHeld => PaidWithinGrant
  <2> SUFFICES ASSUME TypeOK, UsesHeld PROVE PaidWithinGrant
    OBVIOUS
  <2>1. Cardinality(Entitled) \in Nat /\ Cardinality(paid) \in Nat
    BY FS_CardinalityType DEF UsesHeld
  <2> QED
    BY <2>1 DEF UsesHeld, PaidWithinGrant, TypeOK
<1> QED
  BY <1>1, TypeCorrect, UsesInvariant, PTL

------------------------------------------------------------------------------
\* Records and ranges are what the runs' next steps take them for.
THEOREM RunInvariant == Spec => []RunInv
<1>1. Init => RunInv
  BY DEF Init, RunInv, PaidIsWitnessed, PaidIsRecorded
<1>2. TypeOK /\ TypeOK' /\ RunInv /\ [Next]_vars => RunInv'
  <2> SUFFICES ASSUME TypeOK, TypeOK', RunInv, [Next]_vars
               PROVE  RunInv'
    OBVIOUS
  <2> USE DEF TypeOK, RunInv, PaidIsWitnessed, PaidIsRecorded
  <2>0. \A r \in Run : local[r] \in Local /\ local[r].witness \in Nat /\ local[r].head \in Nat
    BY DEF Local
  <2>a. \A t \in paid : t.run \in Run /\ t.entry_count \in Nat
    BY DEF Tx
  <2>1. CASE Tick \/ UNCHANGED vars
    BY <2>1 DEF Tick, vars
  <2>2. CASE OtherEvent
    BY <2>2, <2>0, <2>a DEF OtherEvent
  <2>3. ASSUME NEW r \in Run, Start(r) \/ PassGuard(r)
        PROVE  RunInv'
    <3>1. /\ events' = events /\ records' = records /\ paid' = paid
          /\ pc[r] \in {"idle", "guard"} /\ pc'[r] \in {"guard", "exercise"}
          /\ \A o \in Run \ {r} : pc'[o] = pc[o] /\ local'[o] = local[o]
      BY <2>3 DEF Start, PassGuard
    <3>2. \A t \in paid : t.run # r
      BY <3>1
    <3> QED
      BY <3>1, <3>2, <2>a
  <2>4. ASSUME NEW r \in Run, Skip(r) \/ Refuse(r) \/ Crash(r)
        PROVE  RunInv'
    BY <2>4, <2>0, <2>a DEF Skip, Refuse, Crash, Running, Step, Ended
  <2>5. ASSUME NEW r \in Run, ExerciseGrant(r)
        PROVE  RunInv'
    BY <2>5, <2>0, <2>a DEF ExerciseGrant, Local
  <2>6. ASSUME NEW r \in Run, Denied(r)
        PROVE  RunInv'
    BY <2>6, <2>0, <2>a DEF Denied
  <2>7. ASSUME NEW r \in Run, ReadHead(r)
        PROVE  RunInv'
    BY <2>7, <2>0, <2>a DEF ReadHead, Local
  <2>8. ASSUME NEW r \in Run, WriteRecord(r)
        PROVE  RunInv'
    BY <2>8, <2>0, <2>a, NoRecordAssumption DEF WriteRecord, Local, Record
  <2>9. ASSUME NEW r \in Run, Submit(r)
        PROVE  RunInv'
    <3> DEFINE tx == [run |-> r, entry_count |-> local[r].head]
    <3>1. /\ pc[r] = "submit" /\ pc'[r] \in {"confirm", "fail"}
          /\ events' = events /\ records' = records /\ local' = local
          /\ \A o \in Run \ {r} : pc'[o] = pc[o]
          /\ paid' = paid \/ paid' = paid \cup {tx}
          /\ pc'[r] = "confirm" => tx \in paid'
      BY <2>9 DEF Submit
    <3>2. tx.run = r /\ tx.entry_count = local[r].head
      OBVIOUS
    <3> HIDE DEF tx
    <3>3. \A o \in Run : pc'[o] = "confirm" => \E t \in paid' : t.run = o
      BY <3>1, <3>2
    <3>4. \A t \in paid' : pc'[t.run] \in {"confirm", "fail", "confirmed", "failed", "lost"}
      BY <3>1, <3>2, <2>a
    <3>5. PaidIsWitnessed'
      BY <3>1, <3>2, <2>0
    <3>6. PaidIsRecorded'
      BY <3>1, <3>2
    <3> QED
      BY <3>1, <3>3, <3>4, <3>5, <3>6
  <2>10. ASSUME NEW r \in Run, Confirm(r) \/ MarkFailed(r)
         PROVE  RunInv'
    <3>1. /\ pc[r] \in {"confirm", "fail"} /\ pc'[r] \in {"confirmed", "failed"}
          /\ events' = events /\ paid' = paid /\ local' = local
          /\ \A o \in Run \ {r} : pc'[o] = pc[o] /\ records'[o] = records[o]
          /\ pc'[r] = "confirmed" => pc[r] = "confirm"
          /\ records' = [records EXCEPT ![r].status = pc'[r]]
      BY <2>10 DEF Confirm, MarkFailed
    <3>2. records[r] \in Record
      BY <3>1
    <3>3. /\ records'[r] # NoRecord /\ records'[r].status = pc'[r]
          /\ records'[r].entry_count = records[r].entry_count
      BY <3>1, <3>2, NoRecordAssumption DEF Record
    <3>4. PaidIsRecorded'
      BY <3>1, <3>3, <2>a
    <3> QED
      BY <3>1, <3>3, <3>4, <2>a
  <2> QED
    BY <2>1, <2>2, <2>3, <2>4, <2>5, <2>6, <2>7, <2>8, <2>9, <2>10 DEF Next
<1> QED
  BY <1>1, <1>2, TypeCorrect, PTL DEF Spec

\* Every transaction that the network took covers the event of its exercise.
THEOREM AnchorsWitnessed == Spec => []PaidIsWitnessed
<1>1. RunInv => PaidIsWitnessed
  BY DEF RunInv
<1> QED
  BY <1>1, RunInvariant, PTL

\* Every transaction that the network took is on record, and confirmed is true.
THEOREM AnchorsRecorded == Spec => []PaidIsRecorded
<1>1. RunInv => PaidIsRecorded
  BY DEF RunInv
<1> QED
  BY <1>1, RunInvariant, PTL

------------------------------------------------------------------------------
\* Runs of one day that passed the guard were rivals, or one of them is out.
THEOREM GuardInvariant == Spec => []GuardInv
<1>1. Init => GuardInv
  BY DEF Init, GuardInv
<1>2. TypeOK /\ TypeOK' /\ RunInv /\ GuardInv /\ [Next]_vars => GuardInv'
  <2> SUFFICES ASSUME TypeOK, TypeOK', RunInv, GuardInv, [Next]_vars
               PROVE  GuardInv'
    OBVIOUS
  <2> USE DEF TypeOK, GuardInv
  <2>1. CASE Tick \/ OtherEvent \/ UNCHANGED vars
    BY <2>1 DEF Tick, OtherEvent, vars, Out
  <2>2. ASSUME NEW r \in Run, Start(r)
        PROVE  GuardInv'
    BY <2>2 DEF Start, RunInv, Local, Out
  <2>3. ASSUME NEW r \in Run, PassGuard(r)
        PROVE  GuardInv'
    <3>1. \A o \in Run \ {r} : local[o].passed /\ local[o].day = local[r].day =>
             o \in Rivals(r) \/ Out(o)
      BY <2>3 DEF PassGuard, Anchored, Rivals, Out, Record
    <3> QED
      BY <2>3, <3>1 DEF PassGuard, RunInv, Local, Out
  <2>4. ASSUME NEW r \in Run, Skip(r) \/ Refuse(r) \/ Crash(r) \/ Denied(r)
        PROVE  GuardInv'
    BY <2>4 DEF Skip, Refuse, Crash, Denied, Running, Step, Ended, Out
  <2>5. ASSUME NEW r \in Run, ExerciseGrant(r) \/ ReadHead(r)
        PROVE  GuardInv'
    <3>1. /\ pc[r] \in {"exercise", "head"} /\ pc'[r] \in {"head", "record"}
          /\ records' = records
          /\ \A o \in Run \ {r} : pc'[o] = pc[o] /\ local'[o] = local[o]
          /\ \E n \in Nat : \/ local' = [local EXCEPT ![r].witness = n]
                            \/ local' = [local EXCEPT ![r].head = n]
      BY <2>5 DEF ExerciseGrant, ReadHead
    <3>2. /\ local'[r].day = local[r].day /\ local'[r].passed = local[r].passed
          /\ local'[r].rivals = local[r].rivals
      BY <3>1 DEF Local
    <3>3. \A o \in Run : Out(o) => Out(o)'
      BY <3>1 DEF Out
    <3> QED
      BY <3>1, <3>2, <3>3
  <2>6. ASSUME NEW r \in Run, WriteRecord(r)
        PROVE  GuardInv'
    <3> DEFINE row == [day |-> local[r].day, entry_count |-> local[r].head,
                       status |-> "submitted"]
    <3>1. /\ pc[r] = "record" /\ pc'[r] = "submit" /\ local' = local
          /\ \A o \in Run \ {r} : pc'[o] = pc[o] /\ records'[o] = records[o]
          /\ records'[r] = row
      BY <2>6 DEF WriteRecord
    <3>2. row \in Record /\ row.day = local[r].day
      BY DEF Record, Local
    <3>3. records[r] = NoRecord
      BY <3>1 DEF RunInv
    <3>4. \A o \in Run : Out(o) => Out(o)'
      BY <3>1, <3>3 DEF Out
    <3> HIDE DEF row
    <3> QED
      BY <3>1, <3>2, <3>3, <3>4, NoRecordAssumption
  <2>7. ASSUME NEW r \in Run, Submit(r)
        PROVE  GuardInv'
    <3>1. /\ pc[r] = "submit" /\ pc'[r] \in {"confirm", "fail"}
          /\ records' = records /\ local' = local
          /\ \A o \in Run \ {r} : pc'[o] = pc[o]
      BY <2>7 DEF Submit
    <3>2. records[r] # NoRecord
      BY <3>1 DEF RunInv
    <3>3. \A o \in Run : Out(o) => Out(o)'
      BY <3>1, <3>2 DEF Out
    <3> QED
      BY <3>1, <3>2, <3>3
  <2>8. ASSUME NEW r \in Run, Confirm(r) \/ MarkFailed(r)
        PROVE  GuardInv'
    <3>1. /\ pc[r] \in {"confirm", "fail"} /\ local' = local
          /\ pc'[r] \in {"confirmed", "failed"}
          /\ \A o \in Run \ {r} : pc'[o] = pc[o] /\ records'[o] = records[o]
          /\ \E s \in {"confirmed", "failed"} : records' = [records EXCEPT ![r].status = s]
      BY <2>8 DEF Confirm, MarkFailed
    <3>2. records[r] \in Record /\ records[r].status = "submitted"
      BY <3>1 DEF RunInv
    <3>3. records'[r] # NoRecord /\ records'[r].day = records[r].day
      BY <3>1, <3>2, NoRecordAssumption DEF Record
    <3>4. \A o \in Run : Out(o) => Out(o)'
      BY <3>1, <3>2, <3>3, NoRecordAssumption DEF Out, Record
    <3> QED
      BY <3>1, <3>2, <3>3, <3>4, NoRecordAssumption
  <2> QED
    BY <2>1, <2>2, <2>3, <2>4, <2>5, <2>6, <2>7, <2>8 DEF Next
<1> QED
  BY <1>1, <1>2, TypeCorrect, RunInvariant, PTL DEF Spec

\* The inductive invariant of the job.
THEOREM AnchorInvariant == Spec => []AnchorInv
<1>1. TypeOK /\ UsesHeld /\ RunInv /\ GuardInv => AnchorInv
  BY DEF AnchorInv
<1> QED
  BY <1>1, TypeCorrect, UsesInvariant, RunInvariant, GuardInvariant, PTL

\* Two transactions of one day come from runs that overlapped between guard and
\* record, or from a run that reports a failure.
THEOREM DoublePayments == Spec => []DoublePaymentExplained
<1>1. TypeOK /\ RunInv /\ GuardInv => DoublePaymentExplained
  <2> SUFFICES ASSUME TypeOK, RunInv, GuardInv,
                      NEW t \in paid, NEW u \in paid, SameDay(t, u)
               PROVE  \/ t.run \in local[u.run].rivals
                      \/ u.run \in local[t.run].rivals
                      \/ records[t.run].status = "failed"
                      \/ records[u.run].status = "failed"
    BY DEF DoublePaymentExplained
  <2>1. t \in Tx /\ u \in Tx
    BY DEF TypeOK
  <2>2. /\ records[t.run] # NoRecord /\ records[t.run].entry_count = t.entry_count
        /\ records[u.run] # NoRecord /\ records[u.run].entry_count = u.entry_count
    BY DEF RunInv, PaidIsRecorded
  <2>3. t.run # u.run
    BY <2>1, <2>2 DEF SameDay, Tx
  <2>4. local[t.run].passed /\ local[u.run].passed
    BY <2>1, <2>2 DEF GuardInv, Tx
  <2> QED
    BY <2>1, <2>2, <2>3, <2>4 DEF GuardInv, SameDay, Out, Tx
<1> QED
  BY <1>1, TypeCorrect, RunInvariant, GuardInvariant, PTL

------------------------------------------------------------------------------
(* Signing                                                                  *)

\* A file of the keyring holds the pair it is named for, and a file without contents is
\* one that somebody has opened, or had when it died.
FilesHold ==
    /\ \A p \in Pair : store[p] \in {Absent, Torn, p}
    /\ \A f \in File : store[f] = Torn =>
          damaged \/ \E r \in Signer : work[r].open /\ work[r].pc = f

\* A call writes its pair under its own id, and what it has signed can be looked up.
CallHolds(r) ==
    /\ work[r].pc \in File \cup {"alias"} => work[r].pair \in Pair
    /\ work[r].pc \in Pair => work[r].pair = work[r].pc
    /\ work[r].open => work[r].pc \in File
    /\ work[r].pc = "land" => work[r].sig # NoSig
    /\ work[r].sig # NoSig => /\ work[r].sig.id = work[r].sig.pair
                              /\ store[work[r].sig.id] # Absent
                              /\ work[r].sig.terms = work[r].terms
    /\ work[r].terms = "altered" => work[r].kind = "renew" /\ grant.terms = "altered"

CallsHold == \A r \in Signer : CallHolds(r)

\* The signature of the row is about the row, unless the row was altered, and is by a
\* key that is in the keyring or by the key of the legacy id.
GrantHolds ==
    /\ grant.state = "none" => grant = NoGrant
    /\ grant.state # "none" => /\ grant.sig # NoSig
                               /\ grant.sig.until = grant.until
                               /\ grant.sig.terms = "altered" => grant.terms = "altered"
    /\ grant.sig # NoSig /\ grant.sig.id # "legacy" =>
          grant.sig.id = grant.sig.pair /\ store[grant.sig.id] # Absent

\* As long as the grant carries the legacy id, that id is for its key or is not in the
\* keyring yet; then the two files are there, nobody generates another pair, and it is
\* this pair that every call takes to the keyring.
OldKeyHolds ==
    grant.sig # NoSig /\ grant.sig.id = "legacy" =>
        /\ store["legacy"] \in {Absent, Torn, grant.sig.pair}
        /\ \A r \in Signer : work[r].pc = "legacy" => work[r].pair = grant.sig.pair
        /\ store["legacy"] = Absent =>
              /\ store["public"] = grant.sig.pair /\ store["private"] # Absent
              /\ \A r \in Signer : /\ work[r].pc \notin {"private", "public"}
                                   /\ work[r].pair \in {Absent, grant.sig.pair}

SigningInv == SigningTypeOK /\ FilesHold /\ CallsHold /\ GrantHolds /\ OldKeyHolds

------------------------------------------------------------------------------
\* The names of files, stages and pairs are different.
LEMMA NamesDiffer ==
    /\ Pair \cap {Absent, Torn, "legacy", "private", "public"} = {}
    /\ Stage \cap File = {}
    /\ Absent # Torn /\ NoSig \notin Signature
    /\ File = Pair \cup {"legacy", "private", "public"}
BY FileAssumption, NoSigAssumption DEF Stage, File, KeyId, Pair

\* What Goto does to the call, and that it does nothing to others.
LEMMA GotoDoes ==
    ASSUME SigningTypeOK, NEW r \in Signer, NEW to \in Stage \cup File,
           NEW p \in Pair \cup {Absent}, Goto(r, to, p)
    PROVE  /\ work' \in [Signer -> Work]
           /\ work'[r].pc = to /\ work'[r].pair = p /\ ~work'[r].open
           /\ work'[r].kind = work[r].kind /\ work'[r].terms = work[r].terms
           /\ work'[r].sig = work[r].sig
           /\ \A o \in Signer \ {r} : work'[o] = work[o]
<1>1. work \in [Signer -> Work] /\ work[r] \in Work
  BY DEF SigningTypeOK
<1>2. work' = [work EXCEPT ![r] = [work[r] EXCEPT !.pc = to, !.pair = p, !.open = FALSE]]
  BY <1>1 DEF Goto, Work
<1>3. [work[r] EXCEPT !.pc = to, !.pair = p, !.open = FALSE] \in Work
  BY <1>1 DEF Work
<1>4. /\ work'[r] = [work[r] EXCEPT !.pc = to, !.pair = p, !.open = FALSE]
      /\ \A o \in Signer \ {r} : work'[o] = work[o]
      /\ work' \in [Signer -> Work]
  BY <1>1, <1>2, <1>3
<1> QED
  BY <1>1, <1>4 DEF Work

\* A step of one call that takes no file away and alters no grant back keeps what
\* holds of the others.
LEMMA OthersHold ==
    ASSUME SigningTypeOK, CallsHold, NEW r \in Signer, CallHolds(r)',
           \A o \in Signer \ {r} : work'[o] = work[o],
           \A f \in File : store[f] # Absent => store'[f] # Absent,
           grant.terms = "altered" => grant'.terms = "altered"
    PROVE  CallsHold'
<1> SUFFICES ASSUME NEW o \in Signer \ {r} PROVE CallHolds(o)'
  BY DEF CallsHold
<1>1. CallHolds(o) /\ work'[o] = work[o] /\ work[o] \in Work
  BY DEF CallsHold, SigningTypeOK
<1>2. work[o].sig # NoSig => work[o].sig.id \in File
  BY <1>1 DEF Work, Signature, File
<1> QED
  BY <1>1, <1>2 DEF CallHolds

\* A step of a call that has no file open, and that writes none, keeps the files.
LEMMA FilesStay ==
    ASSUME FilesHold, NEW r \in Signer, ~work[r].open, store' = store,
           damaged' = damaged, \A o \in Signer \ {r} : work'[o] = work[o]
    PROVE  FilesHold'
BY DEF FilesHold

\* A row that stays keeps what is known of it, unless a file is taken away.
LEMMA GrantStays ==
    ASSUME SigningTypeOK, GrantHolds, grant' = grant,
           \A f \in File : store[f] # Absent => store'[f] # Absent
    PROVE  GrantHolds'
<1>1. grant.sig # NoSig => grant.sig.id \in File
  BY DEF SigningTypeOK, Row, Signature, File
<1> QED
  BY <1>1 DEF GrantHolds

------------------------------------------------------------------------------
\* Making the key pair and registering it.
LEMMA KeyringSteps ==
    ASSUME SigningInv, NEW r \in Signer,
           EnsurePair(r) \/ LoadPublic(r) \/ RegisterAlias(r)
    PROVE  SigningInv'
<1> USE DEF SigningInv
<1>0. work[r] \in Work /\ CallHolds(r) /\ ~work[r].open
  BY NamesDiffer DEF SigningTypeOK, CallsHold, CallHolds, EnsurePair, LoadPublic,
                     RegisterAlias, Register, Stage
<1>1. /\ store' = store /\ grant' = grant /\ trail' = trail /\ damaged' = damaged
      /\ configured' = configured
  BY DEF EnsurePair, LoadPublic, RegisterAlias, Register
<1> DEFINE Target(to, p) ==
              /\ Goto(r, to, p)
              /\ to \in {"private", "alias", "legacy"} => p \in Pair
              /\ to \in Pair => p = to
              /\ to = "private" => Absent \in {store["private"], store["public"]}
              /\ to = "legacy" => store["legacy"] = Absent
              /\ p # Absent /\ to # "private" => p = store["public"] \/ p = work[r].pair
           Places == {"load", "private", "alias", "legacy", "sign"} \cup Pair
<1>2. \E to \in Places, p \in Pair \cup {Absent} : Target(to, p)
  <2>1. CASE EnsurePair(r)
    <3>1. CASE Absent \notin {store["private"], store["public"]}
      <4>1. Goto(r, "load", Absent)
        BY <2>1, <3>1 DEF EnsurePair
      <4>2. Target("load", Absent)
        BY <4>1, FileAssumption DEF Stage
      <4> QED
        BY <4>2
    <3>2. CASE Absent \in {store["private"], store["public"]}
      <4>1. PICK p \in DemoPair : Goto(r, "private", p)
        BY <2>1, <3>2 DEF EnsurePair
      <4>2. Target("private", p) /\ p \in Pair
        BY <3>2, <4>1, NamesDiffer DEF Pair
      <4> QED
        BY <4>2
    <3> QED
      BY <3>1, <3>2
  <2>2. CASE LoadPublic(r)
    <3>1. PICK p \in Pair : p = store["public"]
      BY <2>2 DEF LoadPublic
    <3>2. PICK to \in {p, "alias"} : Goto(r, to, p)
      BY <2>2, <3>1 DEF LoadPublic
    <3>3. Target(to, p) /\ to \in Places
      BY <3>1, <3>2, NamesDiffer, FileAssumption DEF Stage
    <3> HIDE DEF Target
    <3> QED
      BY <3>3
  <2>3. CASE RegisterAlias(r)
    <3>1. work[r].pair \in Pair
      BY <1>0, <2>3 DEF RegisterAlias, Register, CallHolds
    <3>2. CASE store["legacy"] = Absent
      <4>1. Target("legacy", work[r].pair)
        BY <2>3, <3>1, <3>2, NamesDiffer DEF RegisterAlias, Register
      <4> QED
        BY <3>1, <4>1
    <3>3. CASE store["legacy"] # Absent
      <4>1. Target("sign", Absent)
        BY <2>3, <3>3, FileAssumption DEF RegisterAlias, Register, Stage
      <4> QED
        BY <4>1
    <3> QED
      BY <3>2, <3>3
  <2> QED
    BY <2>1, <2>2, <2>3
<1>3. PICK to \in Places, p \in Pair \cup {Absent} : Target(to, p)
  BY <1>2
<1>4. /\ work' \in [Signer -> Work]
      /\ work'[r].pc = to /\ work'[r].pair = p /\ ~work'[r].open
      /\ work'[r].kind = work[r].kind /\ work'[r].terms = work[r].terms
      /\ work'[r].sig = work[r].sig
      /\ \A o \in Signer \ {r} : work'[o] = work[o]
  <2>1. to \in Stage \cup File
    BY NamesDiffer DEF Stage
  <2> QED
    BY <1>3, <2>1, GotoDoes
<1>5. SigningTypeOK'
  BY <1>1, <1>4 DEF SigningTypeOK
<1>6. FilesHold'
  BY <1>0, <1>1, <1>4, FilesStay
<1>7. CallsHold'
  <2>1. to # "land" /\ (to \in File \cup {"alias"} => p \in Pair)
    BY <1>3, FileAssumption, NamesDiffer DEF Stage
  <2>2. CallHolds(r)'
    BY <1>0, <1>1, <1>3, <1>4, <2>1 DEF CallHolds
  <2> QED
    BY <1>1, <1>4, <2>2, OthersHold
<1>8. GrantHolds'
  BY <1>1, GrantStays
<1>9. OldKeyHolds'
  <2> SUFFICES ASSUME grant.sig # NoSig, grant.sig.id = "legacy"
               PROVE  /\ store["legacy"] \in {Absent, Torn, grant.sig.pair}
                      /\ \A o \in Signer : work'[o].pc = "legacy" =>
                                              work'[o].pair = grant.sig.pair
                      /\ store["legacy"] = Absent =>
                            /\ store["public"] = grant.sig.pair /\ store["private"] # Absent
                            /\ \A o \in Signer : /\ work'[o].pc \notin {"private", "public"}
                                                 /\ work'[o].pair \in {Absent, grant.sig.pair}
    BY <1>1 DEF OldKeyHolds
  <2>1. grant.sig.pair \in Pair
    BY DEF SigningTypeOK, Row, Signature
  <2>2. store["legacy"] = Absent => to # "private" /\ p \in {Absent, grant.sig.pair}
    BY <1>3, <2>1, NamesDiffer DEF OldKeyHolds
  <2>3. to = "legacy" => p = grant.sig.pair
    BY <1>3, <2>2, NamesDiffer
  <2>4. to # "public"
    BY NamesDiffer
  <2> QED
    BY <1>4, <2>2, <2>3, <2>4 DEF OldKeyHolds
<1> QED
  BY <1>5, <1>6, <1>7, <1>8, <1>9

\* Opening a file empties it, which its reader will wait for.
LEMMA OpenStep ==
    ASSUME SigningInv, NEW r \in Signer, OpenFile(r)
    PROVE  SigningInv'
<1> USE DEF SigningInv
<1>0. work[r] \in Work /\ CallHolds(r) /\ work \in [Signer -> Work]
      /\ store \in [File -> Pair \cup {Absent, Torn}]
  BY DEF SigningTypeOK, CallsHold
<1>1. /\ grant' = grant /\ trail' = trail /\ damaged' = damaged
      /\ configured' = configured
      /\ work[r].pc \in File /\ store' = [store EXCEPT ![work[r].pc] = Torn]
      /\ work' = [work EXCEPT ![r].open = TRUE]
  BY DEF OpenFile
<1>2. /\ work' \in [Signer -> Work] /\ work'[r] = [work[r] EXCEPT !.open = TRUE]
      /\ \A o \in Signer \ {r} : work'[o] = work[o]
  BY <1>0, <1>1 DEF Work
<1>3. /\ work'[r].pc = work[r].pc /\ work'[r].pair = work[r].pair /\ work'[r].open
      /\ work'[r].kind = work[r].kind /\ work'[r].terms = work[r].terms
      /\ work'[r].sig = work[r].sig
  BY <1>0, <1>2 DEF Work
<1>4. /\ store'[work[r].pc] = Torn /\ store' \in [File -> Pair \cup {Absent, Torn}]
      /\ \A f \in File \ {work[r].pc} : store'[f] = store[f]
      /\ \A f \in File : store[f] # Absent => store'[f] # Absent
  BY <1>0, <1>1, NamesDiffer
<1>5. SigningTypeOK'
  BY <1>1, <1>2, <1>4 DEF SigningTypeOK
<1>6. FilesHold'
  <2>1. \A p \in Pair : store'[p] \in {Absent, Torn, p}
    BY <1>4, NamesDiffer DEF FilesHold
  <2>2. \A f \in File : store'[f] = Torn =>
            damaged' \/ \E o \in Signer : work'[o].open /\ work'[o].pc = f
    BY <1>1, <1>2, <1>3, <1>4 DEF FilesHold
  <2> QED
    BY <2>1, <2>2 DEF FilesHold
<1>7. CallsHold'
  <2>1. work[r].sig # NoSig => work[r].sig.id \in File
    BY <1>0 DEF Work, Signature, File
  <2>2. CallHolds(r)'
    BY <1>0, <1>1, <1>3, <1>4, <2>1 DEF CallHolds
  <2> QED
    BY <1>1, <1>2, <1>4, <2>2, OthersHold
<1>8. GrantHolds'
  BY <1>1, <1>4, GrantStays
<1>9. OldKeyHolds'
  <2>1. "legacy" \in File /\ "public" \in File /\ "private" \in File
    BY DEF File, KeyId
  <2>2. \A o \in Signer : work'[o].pc = work[o].pc /\ work'[o].pair = work[o].pair
    BY <1>2, <1>3
  <2>3. store'["legacy"] \in {store["legacy"], Torn}
        /\ (store'["legacy"] = Absent => store["legacy"] = Absent)
    BY <1>4, <2>1, NamesDiffer
  <2>4. store'["legacy"] = Absent /\ grant.sig # NoSig /\ grant.sig.id = "legacy" =>
           store'["public"] = store["public"] /\ store'["private"] = store["private"]
    BY <1>4, <2>1, <2>3 DEF OldKeyHolds
  <2> QED
    BY <1>1, <2>2, <2>3, <2>4 DEF OldKeyHolds
<1> QED
  BY <1>5, <1>6, <1>7, <1>8, <1>9

\* Writing it gives it the pair that the call took there.
LEMMA WriteStep ==
    ASSUME SigningInv, NEW r \in Signer, WriteFile(r)
    PROVE  SigningInv'
<1> USE DEF SigningInv
<1>0. /\ work[r] \in Work /\ CallHolds(r) /\ store \in [File -> Pair \cup {Absent, Torn}]
      /\ work[r].pc \in File /\ work[r].pair \in Pair
  BY DEF SigningTypeOK, CallsHold, CallHolds, WriteFile
<1> DEFINE next == AfterFile(work[r].pc)
           pair == IF work[r].pc \in {"public", "legacy"} THEN Absent ELSE work[r].pair
<1>1. /\ grant' = grant /\ trail' = trail /\ damaged' = damaged
      /\ configured' = configured
      /\ store' = [store EXCEPT ![work[r].pc] = work[r].pair] /\ Goto(r, next, pair)
  BY DEF WriteFile
<1>2. /\ next \in {"public", "load", "sign", "alias"} /\ next \in Stage \cup File
      /\ next = "public" => work[r].pc = "private"
      /\ pair \in Pair \cup {Absent}
      /\ next \in {"public", "alias"} => pair \in Pair
      /\ pair \in {Absent, work[r].pair}
  BY <1>0, NamesDiffer DEF AfterFile, Stage, File, KeyId
<1>3. /\ work' \in [Signer -> Work]
      /\ work'[r].pc = next /\ work'[r].pair = pair /\ ~work'[r].open
      /\ work'[r].kind = work[r].kind /\ work'[r].terms = work[r].terms
      /\ work'[r].sig = work[r].sig
      /\ \A o \in Signer \ {r} : work'[o] = work[o]
  <2> HIDE DEF next, pair
  <2> QED
    BY <1>1, <1>2, GotoDoes
<1> HIDE DEF next, pair
<1>4. /\ store'[work[r].pc] = work[r].pair /\ store' \in [File -> Pair \cup {Absent, Torn}]
      /\ \A f \in File \ {work[r].pc} : store'[f] = store[f]
      /\ \A f \in File : store[f] # Absent => store'[f] # Absent
  BY <1>0, <1>1, NamesDiffer
<1>5. SigningTypeOK'
  BY <1>1, <1>3, <1>4 DEF SigningTypeOK
<1>6. FilesHold'
  <2>1. \A p \in Pair : store'[p] \in {Absent, Torn, p}
    BY <1>0, <1>4, NamesDiffer DEF FilesHold, CallHolds
  <2>2. \A f \in File : store'[f] = Torn =>
            damaged' \/ \E o \in Signer : work'[o].open /\ work'[o].pc = f
    BY <1>0, <1>1, <1>3, <1>4, NamesDiffer DEF FilesHold
  <2> QED
    BY <2>1, <2>2 DEF FilesHold
<1>7. CallsHold'
  <2>1. work[r].sig # NoSig => work[r].sig.id \in File
    BY <1>0 DEF Work, Signature, File
  <2>2. next # "land" /\ next \notin Pair
    BY <1>2, NamesDiffer, FileAssumption DEF Stage
  <2>3. next \in File \cup {"alias"} => pair \in Pair
    BY <1>2, NamesDiffer DEF Stage
  <2>4. CallHolds(r)'
    BY <1>0, <1>1, <1>3, <1>4, <2>1, <2>2, <2>3 DEF CallHolds
  <2> QED
    BY <1>1, <1>3, <1>4, <2>4, OthersHold
<1>8. GrantHolds'
  BY <1>1, <1>4, GrantStays
<1>9. OldKeyHolds'
  <2>1. "legacy" \in File /\ "public" \in File /\ "private" \in File
    BY DEF File, KeyId
  <2> SUFFICES ASSUME grant.sig # NoSig, grant.sig.id = "legacy"
               PROVE  /\ store'["legacy"] \in {Absent, Torn, grant.sig.pair}
                      /\ \A o \in Signer : work'[o].pc = "legacy" =>
                                              work'[o].pair = grant.sig.pair
                      /\ store'["legacy"] = Absent =>
                            /\ store'["public"] = grant.sig.pair /\ store'["private"] # Absent
                            /\ \A o \in Signer : /\ work'[o].pc \notin {"private", "public"}
                                                 /\ work'[o].pair \in {Absent, grant.sig.pair}
    BY <1>1 DEF OldKeyHolds
  <2>2. store'["legacy"] \in {Absent, Torn, grant.sig.pair}
    BY <1>4, <2>1 DEF OldKeyHolds
  <2>3. \A o \in Signer : work'[o].pc = "legacy" => work'[o].pair = grant.sig.pair
    BY <1>2, <1>3 DEF OldKeyHolds
  <2>4. store'["legacy"] = Absent => store["legacy"] = Absent /\ work[r].pc # "legacy"
    BY <1>0, <1>4, <2>1, NamesDiffer
  <2>5. ASSUME store'["legacy"] = Absent
        PROVE  /\ store'["public"] = grant.sig.pair /\ store'["private"] # Absent
               /\ \A o \in Signer : /\ work'[o].pc \notin {"private", "public"}
                                    /\ work'[o].pair \in {Absent, grant.sig.pair}
    BY <1>2, <1>3, <1>4, <2>1, <2>4, <2>5 DEF OldKeyHolds
  <2> QED
    BY <2>2, <2>3, <2>5
<1> QED
  BY <1>5, <1>6, <1>7, <1>8, <1>9

\* Signing: what is signed can be looked up, because the keyring holds a file of the
\* key whose contents are that key or are being written.
LEMMA SignStep ==
    ASSUME SigningInv, NEW r \in Signer, NEW d \in Date, SignGrant(r, d)
    PROVE  SigningInv'
<1> USE DEF SigningInv
<1> DEFINE sig == Signed(work[r].terms, d, PrivateKey, PrivateKey)
<1>0. work[r] \in Work /\ CallHolds(r) /\ work \in [Signer -> Work] /\ ~work[r].open
  BY NamesDiffer DEF SigningTypeOK, CallsHold, CallHolds, SignGrant, Stage
<1>1. /\ store' = store /\ grant' = grant /\ trail' = trail /\ damaged' = damaged
      /\ configured' = configured
      /\ PrivateKey \in Pair /\ store[PrivateKey] # Absent
      /\ work[r].pc = "sign"
      /\ work' = [work EXCEPT ![r].pc = "land", ![r].sig = sig]
  BY NamesDiffer DEF SignGrant
<1>2. /\ sig \in Signature /\ sig # NoSig /\ sig.id = PrivateKey /\ sig.pair = PrivateKey
      /\ sig.terms = work[r].terms
  BY <1>0, <1>1, NamesDiffer DEF Signed, Signature, Work, KeyId
<1> HIDE DEF sig
<1>3. /\ work' \in [Signer -> Work]
      /\ work'[r] = [work[r] EXCEPT !.pc = "land", !.sig = sig]
      /\ \A o \in Signer \ {r} : work'[o] = work[o]
  BY <1>0, <1>1, <1>2 DEF Work, Stage
<1>4. /\ work'[r].pc = "land" /\ work'[r].pair = work[r].pair /\ ~work'[r].open
      /\ work'[r].kind = work[r].kind /\ work'[r].terms = work[r].terms
      /\ work'[r].sig = sig
  BY <1>0, <1>3 DEF Work
<1>5. SigningTypeOK'
  BY <1>1, <1>3 DEF SigningTypeOK
<1>6. FilesHold'
  BY <1>0, <1>1, <1>3, FilesStay
<1>7. CallsHold'
  <2>1. "land" \notin File \cup {"alias"} /\ "land" \notin Pair
    BY NamesDiffer DEF Stage
  <2>2. CallHolds(r)'
    BY <1>0, <1>1, <1>2, <1>4, <2>1 DEF CallHolds
  <2> QED
    BY <1>1, <1>3, <2>2, OthersHold
<1>8. GrantHolds'
  BY <1>1, GrantStays
<1>9. OldKeyHolds'
  BY <1>1, <1>3, <1>4 DEF OldKeyHolds
<1> QED
  BY <1>5, <1>6, <1>7, <1>8, <1>9

\* A call that begins or ends, with the row or without: what its record says then.
LEMMA CallSteps ==
    ASSUME SigningInv, NEW r \in Signer,
           StartCreate(r) \/ StartRenew(r) \/ StartVerify(r) \/ EndVerify(r)
    PROVE  SigningInv'
<1> USE DEF SigningInv
<1>0. work[r] \in Work /\ CallHolds(r) /\ work \in [Signer -> Work] /\ ~work[r].open
  BY NamesDiffer DEF SigningTypeOK, CallsHold, CallHolds, StartCreate, StartRenew, StartVerify,
                     StartWork, EndVerify, Stage
<1>1. /\ store' = store /\ grant' = grant /\ trail' = trail /\ damaged' = damaged
      /\ configured' = configured
  BY DEF StartCreate, StartRenew, StartVerify, StartWork, EndVerify
<1>2. PICK w : /\ work' = [work EXCEPT ![r] = w]
               /\ w \in Work /\ w.pc \in {"idle", "ensure"} /\ w.pair = Absent /\ ~w.open
               /\ w.sig = NoSig
               /\ w.terms = "altered" => w.kind = "renew" /\ grant.terms = "altered"
  <2>1. /\ NoWork \in Work /\ NoWork.pc = "idle" /\ NoWork.pair = Absent /\ ~NoWork.open
        /\ NoWork.sig = NoSig /\ NoWork.terms = "created"
    BY DEF NoWork, Work, Stage, Terms
  <2>2. CASE EndVerify(r)
    BY <2>1, <2>2 DEF EndVerify
  <2>3. ASSUME NEW kind \in {"create", "renew", "verify"}, NEW terms \in Terms,
               NEW was \in Date \cup {NoSig}, StartWork(r, kind, terms, was),
               terms = "altered" => kind = "renew" /\ grant.terms = "altered"
        PROVE  \E w : /\ work' = [work EXCEPT ![r] = w]
                      /\ w \in Work /\ w.pc \in {"idle", "ensure"} /\ w.pair = Absent
                      /\ ~w.open /\ w.sig = NoSig
                      /\ w.terms = "altered" => w.kind = "renew" /\ grant.terms = "altered"
    <3> DEFINE begun == [NoWork EXCEPT !.pc = "ensure", !.kind = kind]
               w     == [begun EXCEPT !.terms = terms, !.was = was]
    <3>1. work' = [work EXCEPT ![r] = w]
      BY <2>3 DEF StartWork
    <3>2. /\ begun \in Work /\ begun.pc = "ensure" /\ begun.kind = kind
          /\ begun.pair = Absent /\ ~begun.open /\ begun.sig = NoSig
      BY <2>1 DEF Work, Stage
    <3> HIDE DEF begun
    <3>3. /\ w \in Work /\ w.pc = "ensure" /\ w.pair = Absent /\ ~w.open /\ w.sig = NoSig
          /\ w.terms = terms /\ w.kind = kind
      BY <3>2 DEF Work
    <3> HIDE DEF w
    <3> QED
      BY <2>3, <3>1, <3>3
  <2>4. grant.terms \in Terms /\ grant.until \in Date \cup {NoSig}
    BY DEF SigningTypeOK, Row
  <2> QED
    BY <2>2, <2>3, <2>4 DEF StartCreate, StartRenew, StartVerify, Terms
<1>3. /\ work' \in [Signer -> Work] /\ work'[r] = w
      /\ \A o \in Signer \ {r} : work'[o] = work[o]
  BY <1>0, <1>2
<1>4. SigningTypeOK'
  BY <1>1, <1>3 DEF SigningTypeOK
<1>5. FilesHold'
  BY <1>0, <1>1, <1>3, FilesStay
<1>6. CallsHold'
  <2>1. w.pc \notin File \cup {"alias", "land"} /\ w.pc \notin Pair
    BY <1>2, NamesDiffer DEF Stage
  <2>2. CallHolds(r)'
    BY <1>1, <1>2, <1>3, <2>1 DEF CallHolds
  <2> QED
    BY <1>1, <1>3, <2>2, OthersHold
<1>7. GrantHolds'
  BY <1>1, GrantStays
<1>8. OldKeyHolds'
  BY <1>1, <1>2, <1>3 DEF OldKeyHolds
<1> QED
  BY <1>4, <1>5, <1>6, <1>7, <1>8

\* A call that has ended says nothing.
LEMMA EndSteps ==
    ASSUME SigningInv, NEW r \in Signer, work' = [work EXCEPT ![r] = NoWork]
    PROVE  /\ work' \in [Signer -> Work]
           /\ work'[r].pc = "idle" /\ work'[r].pair = Absent /\ ~work'[r].open
           /\ work'[r].terms = "created" /\ work'[r].sig = NoSig
           /\ \A o \in Signer \ {r} : work'[o] = work[o]
           /\ CallHolds(r)'
<1>1. /\ NoWork \in Work /\ NoWork.pc = "idle" /\ NoWork.pair = Absent /\ ~NoWork.open
      /\ NoWork.sig = NoSig /\ NoWork.terms = "created"
  BY DEF NoWork, Work, Stage, Terms
<1>2. "idle" \notin File \cup Pair
  BY NamesDiffer DEF Stage
<1>3. /\ work' \in [Signer -> Work] /\ work'[r] = NoWork
      /\ \A o \in Signer \ {r} : work'[o] = work[o]
  BY <1>1 DEF SigningInv, SigningTypeOK
<1> QED
  BY <1>1, <1>2, <1>3 DEF CallHolds

\* A signature lands in the row: it is by a key of the keyring, and about the row as it
\* was read, which can only have been altered since.
LEMMA LandSteps ==
    ASSUME SigningInv, NEW r \in Signer, LandCreate(r) \/ LandRenewal(r)
    PROVE  SigningInv'
<1> USE DEF SigningInv
<1>0. /\ work[r] \in Work /\ CallHolds(r) /\ work[r].pc = "land" /\ grant \in Row
  BY DEF SigningTypeOK, CallsHold, LandCreate, LandRenewal, Land
<1>1. /\ store' = store /\ configured' = configured /\ damaged' = damaged
      /\ work' = [work EXCEPT ![r] = NoWork]
  BY DEF LandCreate, LandRenewal, Land
<1>2. /\ work[r].sig \in Signature /\ work[r].sig # NoSig /\ work[r].sig.id # "legacy"
      /\ work[r].sig.id = work[r].sig.pair /\ store[work[r].sig.id] # Absent
      /\ work[r].sig.terms = work[r].terms /\ work[r].sig.until \in Date /\ ~work[r].open
  <2>1. work[r].sig \in Signature /\ work[r].sig # NoSig
    BY <1>0 DEF CallHolds, Work
  <2>2. work[r].sig.pair \in Pair /\ work[r].sig.until \in Date
    BY <2>1 DEF Signature
  <2>3. ~work[r].open
    BY <1>0, NamesDiffer DEF CallHolds, Stage
  <2> QED
    BY <1>0, <2>1, <2>2, <2>3, NamesDiffer DEF CallHolds
<1>3. /\ work' \in [Signer -> Work]
      /\ \A o \in Signer \ {r} : work'[o] = work[o]
      /\ CallHolds(r)'
  BY <1>1, EndSteps
<1>4. /\ grant' \in Row /\ grant'.state # "none" /\ grant'.until = work[r].sig.until
      /\ grant'.sig = work[r].sig /\ grant'.terms = grant.terms
      /\ work[r].terms = "altered" => grant.terms = "altered"
      /\ trail' \in [kind : {"none", "created", "renewed", "revoked"}, to : Date \cup {NoSig}]
  <2>1. CASE LandCreate(r)
    <3>1. grant.terms = "created"
      BY <2>1 DEF LandCreate, GrantHolds, NoGrant
    <3> QED
      BY <1>0, <1>2, <2>1, <3>1 DEF LandCreate, Row, Terms, Recorded, CallHolds
  <2>2. CASE LandRenewal(r)
    BY <1>0, <1>2, <2>2 DEF LandRenewal, Land, Row, Recorded, CallHolds
  <2> QED
    BY <2>1, <2>2
<1>5. SigningTypeOK'
  BY <1>1, <1>3, <1>4 DEF SigningTypeOK
<1>6. FilesHold'
  BY <1>1, <1>2, <1>3, FilesStay
<1>7. CallsHold'
  BY <1>1, <1>3, <1>4, OthersHold
<1>8. GrantHolds'
  BY <1>1, <1>2, <1>4 DEF GrantHolds
<1>9. OldKeyHolds'
  BY <1>2, <1>4 DEF OldKeyHolds
<1> QED
  BY <1>5, <1>6, <1>7, <1>8, <1>9

\* A call that dies of its step leaves the file that it had open, which is remembered.
LEMMA AbandonStep ==
    ASSUME SigningInv, NEW r \in Signer, Abandon(r)
    PROVE  SigningInv'
<1> USE DEF SigningInv
<1>1. /\ store' = store /\ configured' = configured /\ grant' = grant /\ trail' = trail
      /\ work' = [work EXCEPT ![r] = NoWork] /\ damaged' = (damaged \/ work[r].open)
  BY DEF Abandon
<1>2. /\ work' \in [Signer -> Work] /\ work'[r].pc = "idle" /\ work'[r].pair = Absent
      /\ \A o \in Signer \ {r} : work'[o] = work[o]
      /\ CallHolds(r)'
  BY <1>1, EndSteps
<1>3. SigningTypeOK'
  BY <1>1, <1>2 DEF SigningTypeOK
<1>4. FilesHold'
  BY <1>1, <1>2 DEF FilesHold
<1>5. CallsHold'
  BY <1>1, <1>2, OthersHold
<1>6. GrantHolds'
  BY <1>1, GrantStays
<1>7. OldKeyHolds'
  BY <1>1, <1>2 DEF OldKeyHolds
<1> QED
  BY <1>3, <1>4, <1>5, <1>6, <1>7

\* What else happens to the row, and to the configuration.
LEMMA OutsideSteps ==
    ASSUME SigningInv,
           RevokeGrant \/ AlterTerms \/ RegisterLivePair \/ ConfigureLivePair
    PROVE  SigningInv'
<1> USE DEF SigningInv
<1>0. /\ grant \in Row /\ store \in [File -> Pair \cup {Absent, Torn}] /\ LivePair \in File
      /\ LivePair \in Pair /\ {"legacy", "private", "public"} \subseteq File \ {LivePair}
  BY NamesDiffer DEF SigningTypeOK, File, KeyId, Pair
<1>1. work' = work /\ damaged' = damaged
  BY DEF RevokeGrant, AlterTerms, RegisterLivePair, ConfigureLivePair
<1>2. /\ store' \in [File -> Pair \cup {Absent, Torn}]
      /\ \A f \in File \ {LivePair} : store'[f] = store[f]
      /\ store'[LivePair] \in {store[LivePair], LivePair}
      /\ \A f \in File : store[f] # Absent => store'[f] # Absent
  BY <1>0, NamesDiffer DEF RevokeGrant, AlterTerms, RegisterLivePair, ConfigureLivePair
<1>3. /\ grant' \in Row /\ grant'.sig = grant.sig /\ grant'.until = grant.until
      /\ grant'.state = "none" <=> grant.state = "none"
      /\ grant'.state = "none" => grant' = grant
      /\ grant'.terms \in {grant.terms, "altered"}
  BY <1>0 DEF RevokeGrant, AlterTerms, RegisterLivePair, ConfigureLivePair, Row, Terms
<1>4. SigningTypeOK'
  BY <1>1, <1>2, <1>3 DEF SigningTypeOK, RevokeGrant, AlterTerms, RegisterLivePair,
                          ConfigureLivePair, Recorded
<1>5. FilesHold'
  <2>1. \A p \in Pair : store'[p] \in {Absent, Torn, p}
    BY <1>0, <1>2, NamesDiffer DEF FilesHold
  <2>2. \A f \in File : store'[f] = Torn => store[f] = Torn
    BY <1>0, <1>2, NamesDiffer
  <2> QED
    BY <1>1, <2>1, <2>2 DEF FilesHold
<1>6. CallsHold'
  <2> SUFFICES ASSUME NEW r \in Signer PROVE CallHolds(r)'
    BY DEF CallsHold
  <2>1. CallHolds(r) /\ work[r] \in Work
    BY DEF CallsHold, SigningTypeOK
  <2>2. work[r].sig # NoSig => work[r].sig.id \in File
    BY <2>1 DEF Work, Signature, File
  <2> QED
    BY <1>1, <1>2, <1>3, <2>1, <2>2 DEF CallHolds
<1>7. GrantHolds'
  <2>1. grant.sig # NoSig => grant.sig.id \in File
    BY <1>0 DEF Row, Signature, File
  <2> QED
    BY <1>2, <1>3, <2>1 DEF GrantHolds
<1>8. OldKeyHolds'
  BY <1>0, <1>1, <1>2, <1>3 DEF OldKeyHolds
<1> QED
  BY <1>4, <1>5, <1>6, <1>7, <1>8

------------------------------------------------------------------------------
\* Files, calls and the row hold together in every reachable state.
THEOREM SigningInvariant == SigningSpec => []SigningInv
<1>1. SigningInit => SigningInv
  <2> SUFFICES ASSUME SigningInit PROVE SigningInv
    OBVIOUS
  <2>1. PICK kind \in {"new", "demo", "production"}, p \in DemoPair, d \in Date :
          /\ configured = IF kind = "production" THEN LivePair ELSE Absent
          /\ store = [f \in File |->
                IF kind = "production" /\ f \in {"legacy", LivePair} THEN LivePair
                ELSE IF kind = "demo" /\ f \in {"private", "public"} THEN p
                ELSE Absent]
          /\ grant = CASE kind = "new" -> NoGrant
                       [] kind = "demo" -> OldGrant(p, d)
                       [] OTHER -> OldGrant(LivePair, d)
          /\ trail = Recorded(IF kind = "new" THEN "none" ELSE "created", grant.until)
    BY FileAssumption, NoSigAssumption, ZenonT(60) DEF SigningInit
  <2>2. /\ NoWork \in Work /\ NoWork.pc = "idle" /\ NoWork.pair = Absent /\ ~NoWork.open
        /\ NoWork.sig = NoSig /\ NoWork.terms = "created"
    BY DEF NoWork, Work, Stage, Terms
  <2>3. \A r \in Signer : work[r] = NoWork
    BY DEF SigningInit
  <2>4. p \in Pair /\ LivePair \in Pair
    BY DEF Pair
  <2>5. \A q \in Pair : OldGrant(q, d) \in Row /\ OldGrant(q, d).state = "live"
                         /\ OldGrant(q, d).sig # NoSig /\ OldGrant(q, d).sig.id = "legacy"
                         /\ OldGrant(q, d).sig.pair = q /\ OldGrant(q, d).until = d
                         /\ OldGrant(q, d).sig.until = d
                         /\ OldGrant(q, d).sig.terms = "created"
    BY NamesDiffer DEF OldGrant, Row, Signed, Signature, Terms, KeyId
  <2>6. NoGrant \in Row /\ NoGrant.state = "none" /\ NoGrant.sig = NoSig
        /\ NoGrant.until = NoSig /\ NoGrant.terms = "created"
    BY DEF NoGrant, Row, Terms
  <2>7. SigningTypeOK
    BY <2>1, <2>2, <2>4, <2>5, <2>6, NamesDiffer, ZenonT(60)
       DEF SigningInit, SigningTypeOK, Recorded
  <2>8. FilesHold
    BY <2>1, <2>4, NamesDiffer DEF FilesHold
  <2>9. CallsHold
    <3>1. "idle" \notin File \cup Pair
      BY NamesDiffer DEF Stage
    <3> QED
      BY <2>2, <2>3, <3>1 DEF CallsHold, CallHolds
  <2>10. GrantHolds
    BY <2>1, <2>4, <2>5, <2>6 DEF GrantHolds
  <2>11. OldKeyHolds
    <3>1. {"legacy", "private", "public"} \subseteq File
      BY DEF File, KeyId
    <3> QED
      BY <2>1, <2>2, <2>3, <2>4, <2>5, <2>6, <3>1, NamesDiffer DEF OldKeyHolds
  <2> QED
    BY <2>7, <2>8, <2>9, <2>10, <2>11 DEF SigningInv
<1>2. SigningInv /\ [SigningNext]_signingVars => SigningInv'
  <2> SUFFICES ASSUME SigningInv, [SigningNext]_signingVars PROVE SigningInv'
    OBVIOUS
  <2>1. ASSUME NEW r \in Signer, EnsurePair(r) \/ LoadPublic(r) \/ RegisterAlias(r)
        PROVE  SigningInv'
    BY <2>1, KeyringSteps
  <2>2. ASSUME NEW r \in Signer, OpenFile(r) PROVE SigningInv'
    BY <2>2, OpenStep
  <2>3. ASSUME NEW r \in Signer, WriteFile(r) PROVE SigningInv'
    BY <2>3, WriteStep
  <2>4. ASSUME NEW r \in Signer, NEW d \in Date, SignGrant(r, d) PROVE SigningInv'
    BY <2>4, SignStep
  <2>5. ASSUME NEW r \in Signer,
               StartCreate(r) \/ StartRenew(r) \/ StartVerify(r) \/ EndVerify(r)
        PROVE  SigningInv'
    BY <2>5, CallSteps
  <2>6. ASSUME NEW r \in Signer, LandCreate(r) \/ LandRenewal(r) PROVE SigningInv'
    BY <2>6, LandSteps
  <2>7. ASSUME NEW r \in Signer, Abandon(r) PROVE SigningInv'
    BY <2>7, AbandonStep
  <2>8. CASE RevokeGrant \/ AlterTerms \/ RegisterLivePair \/ ConfigureLivePair
    BY <2>8, OutsideSteps
  <2>9. CASE UNCHANGED signingVars
    BY <2>9 DEF signingVars, SigningInv, SigningTypeOK, FilesHold, CallsHold, CallHolds,
                GrantHolds, OldKeyHolds
  <2> QED
    BY <2>1, <2>2, <2>3, <2>4, <2>5, <2>6, <2>7, <2>8, <2>9 DEF SigningNext
<1> QED
  BY <1>1, <1>2, PTL DEF SigningSpec

\* The variables have their types.
THEOREM SigningTypeCorrect == SigningSpec => []SigningTypeOK
<1>1. SigningInv => SigningTypeOK
  BY DEF SigningInv
<1> QED
  BY <1>1, SigningInvariant, PTL

\* A grant that nobody altered verifies, whatever pairs were made, whatever is configured
\* meanwhile and whatever is renewed at once, but while a file of the keyring is being
\* written or after such a write was broken off (sign_grant, verify_grant_signature).
THEOREM HonestGrantsVerify == SigningSpec => []HonestGrantVerifies
<1>1. SigningInv => HonestGrantVerifies
  <2> SUFFICES ASSUME SigningInv, grant.state # "none", grant.terms = "created"
               PROVE  \/ Verdict(grant) = "valid"
                      \/ /\ Verdict(grant) = "unknown_key"
                         /\ damaged \/ \E r \in Signer : work[r].open
    BY DEF HonestGrantVerifies
  <2> DEFINE id == grant.sig.id
  <2>1. /\ grant.sig # NoSig /\ grant.sig \in Signature
        /\ grant.sig.until = grant.until /\ grant.sig.terms = "created"
    BY DEF SigningInv, GrantHolds, SigningTypeOK, Row, Signature, Terms
  <2>2. id \in KeyId /\ grant.sig.pair \in Pair /\ id \in File
    BY <2>1 DEF Signature, File
  <2>3. PublicKey(id) \in {Torn, grant.sig.pair}
    <3>1. CASE id = "legacy"
      BY <2>1, <2>2, <3>1 DEF SigningInv, OldKeyHolds, PublicKey
    <3>2. CASE id # "legacy"
      BY <2>1, <2>2, <3>2 DEF SigningInv, GrantHolds, FilesHold, PublicKey
    <3> QED
      BY <3>1, <3>2
  <2>4. PublicKey(id) = Torn => damaged \/ \E r \in Signer : work[r].open
    <3>1. CASE id = "legacy" /\ store["legacy"] = Absent
      BY <2>1, <2>2, <3>1, NamesDiffer DEF SigningInv, OldKeyHolds, PublicKey
    <3>2. CASE ~(id = "legacy" /\ store["legacy"] = Absent)
      BY <2>2, <3>2 DEF SigningInv, FilesHold, PublicKey
    <3> QED
      BY <3>1, <3>2
  <2> QED
    BY <2>1, <2>2, <2>3, <2>4, NamesDiffer DEF Verdict
<1> QED
  BY <1>1, SigningInvariant, PTL

\* The last event about the grant tells its state and its date: it is written with the
\* row, under the guard of the row (renew_grant, revoke_grant).
THEOREM AuthorityHasWitness == SigningSpec => []AuthorityIsWitnessed
<1>1. SigningInit => AuthorityIsWitnessed
  BY DEF SigningInit, AuthorityIsWitnessed, NoGrant, OldGrant, Recorded
<1>2. SigningTypeOK /\ AuthorityIsWitnessed /\ [SigningNext]_signingVars
         => AuthorityIsWitnessed'
  <2> SUFFICES ASSUME SigningTypeOK, AuthorityIsWitnessed, [SigningNext]_signingVars
               PROVE  AuthorityIsWitnessed'
    OBVIOUS
  <2>0. grant \in Row
    BY DEF SigningTypeOK
  <2>1. ASSUME NEW r \in Signer, LandCreate(r) PROVE AuthorityIsWitnessed'
    BY <2>1 DEF LandCreate, Recorded, AuthorityIsWitnessed
  <2>2. ASSUME NEW r \in Signer, LandRenewal(r) PROVE AuthorityIsWitnessed'
    BY <2>0, <2>2 DEF LandRenewal, Land, Recorded, AuthorityIsWitnessed, Row
  <2>3. CASE RevokeGrant
    BY <2>0, <2>3 DEF RevokeGrant, Recorded, AuthorityIsWitnessed, Row
  <2>4. CASE AlterTerms
    BY <2>0, <2>4 DEF AlterTerms, AuthorityIsWitnessed, Row
  <2>5. CASE grant' = grant /\ trail' = trail
    BY <2>5 DEF AuthorityIsWitnessed
  <2>6. ASSUME NEW r \in Signer,
               \/ EnsurePair(r) \/ LoadPublic(r) \/ RegisterAlias(r) \/ OpenFile(r)
               \/ WriteFile(r) \/ StartCreate(r) \/ StartRenew(r) \/ StartVerify(r)
               \/ EndVerify(r) \/ Abandon(r) \/ \E d \in Date : SignGrant(r, d)
        PROVE  grant' = grant /\ trail' = trail
    BY <2>6 DEF EnsurePair, LoadPublic, RegisterAlias, Register, OpenFile, WriteFile,
                StartCreate, StartRenew, StartVerify, StartWork, EndVerify, Abandon, SignGrant
  <2>7. CASE RegisterLivePair \/ ConfigureLivePair \/ UNCHANGED signingVars
    BY <2>5, <2>7 DEF RegisterLivePair, ConfigureLivePair, signingVars
  <2> QED
    BY <2>1, <2>2, <2>3, <2>4, <2>5, <2>6, <2>7 DEF SigningNext
<1> QED
  BY <1>1, <1>2, SigningTypeCorrect, PTL DEF SigningSpec
==============================================================================
