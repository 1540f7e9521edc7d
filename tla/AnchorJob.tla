------------------------------ MODULE AnchorJob ------------------------------
(***************************************************************************)
(* The job that anchors the audit chain of one workspace on Cardano, once  *)
(* per UTC day: _anchor_audit_chain_sync.  A run looks for a record of the *)
(* day, exercises the grant of the anchor writer, reads the head of the    *)
(* chain, writes a record, pays for a transaction and updates the record,  *)
(* each in a transaction of its own.                                       *)
(*                                                                         *)
(* Runs overlap: the body is in a thread that is not stopped when the job  *)
(* is cancelled and run again, and nothing keeps a second worker or a call *)
(* by hand away.  Everything is kept by workspace, so the model has one.   *)
(*                                                                         *)
(* The exercise is one step here, as UsageLedger has it; module Exercise   *)
(* implements that ledger, and shows that the outcome has its audit event. *)
(***************************************************************************)
EXTENDS Naturals, FiniteSets

CONSTANTS Run,        \* runs of the job
          MaxUses,    \* max_uses of the grant, or Unlimited
          Unlimited,
          MinEvents,  \* config.effective_min_anchor_events
          NoRecord,   \* a run without a row in anchor_records
          MaxDay,     \* bound: last day
          MaxEvents   \* bound: audit events after which only the job adds more

ASSUME LimitAssumption == MaxUses \in Nat \cup {Unlimited} /\ Unlimited \notin Nat
ASSUME MinEventsAssumption == MinEvents \in Nat \ {0}
ASSUME BoundsAssumption == MaxDay \in Nat /\ MaxEvents \in Nat

VARIABLES day,      \* the UTC day
          events,   \* number of committed audit events of the workspace
          uses,     \* use_count of the grant
          records,  \* records[r]: r's row of anchor_records
          paid,     \* transactions that the network took
          pc,       \* pc[r]: what r does next, or how it ended
          local     \* local[r]: local variables of r

vars == <<day, events, uses, records, paid, pc, local>>

Ended   == {"skipped", "refused", "failed", "confirmed", "lost"}
Step    == {"idle", "guard", "exercise", "head", "record", "submit", "confirm",
            "fail"} \cup Ended
Running == Step \ (Ended \cup {"idle"})

Record == [day : Nat, entry_count : Nat, status : {"submitted", "confirmed", "failed"}]
Tx     == [run : Run, entry_count : Nat]

ASSUME NoRecordAssumption == NoRecord \notin Record

\* witness is the number of the audit event of r's exercise.  passed and rivals
\* are history: r passed the guard, while the rivals were between their own
\* guard and their record.
Local == [day : Nat, witness : Nat, head : Nat, passed : BOOLEAN, rivals : SUBSET Run]

Exhausted == MaxUses # Unlimited /\ uses >= MaxUses

------------------------------------------------------------------------------
Init ==
    /\ day = 0
    /\ events = 0
    /\ uses = 0
    /\ records = [r \in Run |-> NoRecord]
    /\ paid = {}
    /\ pc = [r \in Run |-> "idle"]
    /\ local = [r \in Run |-> [day |-> 0, witness |-> 0, head |-> 0,
                               passed |-> FALSE, rivals |-> {}]]

Tick ==
    /\ day < MaxDay
    /\ day' = day + 1
    /\ UNCHANGED <<events, uses, records, paid, pc, local>>

\* Somebody else's decision is appended to the chain of the workspace; it may be
\* an exercise of the same grant.
OtherEvent ==
    /\ events < MaxEvents
    /\ events' = events + 1
    /\ uses' = uses \/ (~Exhausted /\ uses' = uses + 1)
    /\ UNCHANGED <<day, records, paid, pc, local>>

\* The configuration is complete; now is read once.
Start(r) ==
    /\ pc[r] = "idle"
    /\ local' = [local EXCEPT ![r].day = day]
    /\ pc' = [pc EXCEPT ![r] = "guard"]
    /\ UNCHANGED <<day, events, uses, records, paid>>

\* A record of the day d that the guard counts.
Anchored(d) == \E o \in Run : /\ records[o] # NoRecord
                              /\ records[o].day = d
                              /\ records[o].status \in {"submitted", "confirmed"}

Skip(r) ==
    /\ pc[r] = "guard"
    /\ Anchored(local[r].day)
    /\ pc' = [pc EXCEPT ![r] = "skipped"]
    /\ UNCHANGED <<day, events, uses, records, paid, local>>

Rivals(r) == {o \in Run \ {r} : pc[o] \in {"exercise", "head", "record"}}

\* Mutant: the guard looks for confirmed records only.
PassGuardConfirmedOnly(r) ==
    /\ pc[r] = "guard"
    /\ ~ \E o \in Run : /\ records[o] # NoRecord
                        /\ records[o].day = local[r].day
                        /\ records[o].status = "confirmed"
    /\ local' = [local EXCEPT ![r].passed = TRUE, ![r].rivals = Rivals(r)]
    /\ pc' = [pc EXCEPT ![r] = "exercise"]
    /\ UNCHANGED <<day, events, uses, records, paid>>

PassGuard(r) ==
    /\ pc[r] = "guard"
    /\ ~Anchored(local[r].day)
    /\ local' = [local EXCEPT ![r].passed = TRUE, ![r].rivals = Rivals(r)]
    /\ pc' = [pc EXCEPT ![r] = "exercise"]
    /\ UNCHANGED <<day, events, uses, records, paid>>

\* Mutant: the event is left to a later transaction, after the head was read.
ExerciseWithoutEvent(r) ==
    /\ pc[r] = "exercise"
    /\ ~Exhausted
    /\ uses' = uses + 1
    /\ local' = [local EXCEPT ![r].witness = events + 1]
    /\ pc' = [pc EXCEPT ![r] = "head"]
    /\ UNCHANGED <<day, events, records, paid>>

\* _exercise_anchor_grant approves: a use is consumed and the event appended.
ExerciseGrant(r) ==
    /\ pc[r] = "exercise"
    /\ ~Exhausted
    /\ uses' = uses + 1
    /\ events' = events + 1
    /\ local' = [local EXCEPT ![r].witness = events + 1]
    /\ pc' = [pc EXCEPT ![r] = "head"]
    /\ UNCHANGED <<day, records, paid>>

\* Mutant: a denial is logged, and the run goes on.
DeniedGoesOn(r) ==
    /\ pc[r] = "exercise"
    /\ events' = events + 1
    /\ local' = [local EXCEPT ![r].witness = events + 1]
    /\ pc' = [pc EXCEPT ![r] = "head"]
    /\ UNCHANGED <<day, uses, records, paid>>

\* It denies, which is an event as well, and the run refuses.
Denied(r) ==
    /\ pc[r] = "exercise"
    /\ events' = events + 1
    /\ pc' = [pc EXCEPT ![r] = "refused"]
    /\ UNCHANGED <<day, uses, records, paid, local>>

\* anchor_head, and assert_chain_anchorable.
ReadHead(r) ==
    /\ pc[r] = "head"
    /\ events >= MinEvents
    /\ local' = [local EXCEPT ![r].head = events]
    /\ pc' = [pc EXCEPT ![r] = "record"]
    /\ UNCHANGED <<day, events, uses, records, paid>>

\* A gate fails before the record is written: configuration, decision path,
\* head, length of the chain, reachability, balance of the wallet.
Refuse(r) ==
    /\ pc[r] \in {"guard", "exercise", "head", "record"}
    /\ pc' = [pc EXCEPT ![r] = "refused"]
    /\ UNCHANGED <<day, events, uses, records, paid, local>>

\* The row is committed before the submission.
WriteRecord(r) ==
    /\ pc[r] = "record"
    /\ records' = [records EXCEPT ![r] =
          [day |-> local[r].day, entry_count |-> local[r].head, status |-> "submitted"]]
    /\ pc' = [pc EXCEPT ![r] = "submit"]
    /\ UNCHANGED <<day, events, uses, paid, local>>

\* Mutant: an exception of the submission is taken for an acknowledgement.
SubmitAlwaysConfirms(r) ==
    /\ pc[r] = "submit"
    /\ \E taken \in BOOLEAN :
          paid' = IF taken THEN paid \cup {[run |-> r, entry_count |-> local[r].head]}
                           ELSE paid
    /\ pc' = [pc EXCEPT ![r] = "confirm"]
    /\ UNCHANGED <<day, events, uses, records, local>>

\* submit_anchor builds, signs and submits.  The network may take the transaction
\* or not, and the acknowledgement of one that it took may not arrive.
Submit(r) ==
    /\ pc[r] = "submit"
    /\ \E taken, acknowledged \in BOOLEAN :
          /\ acknowledged => taken
          /\ paid' = IF taken THEN paid \cup {[run |-> r, entry_count |-> local[r].head]}
                              ELSE paid
          /\ pc' = [pc EXCEPT ![r] = IF acknowledged THEN "confirm" ELSE "fail"]
    /\ UNCHANGED <<day, events, uses, records, local>>

Confirm(r) ==
    /\ pc[r] = "confirm"
    /\ records' = [records EXCEPT ![r].status = "confirmed"]
    /\ pc' = [pc EXCEPT ![r] = "confirmed"]
    /\ UNCHANGED <<day, events, uses, paid, local>>

\* submit_anchor raised, whatever the network did.
MarkFailed(r) ==
    /\ pc[r] = "fail"
    /\ records' = [records EXCEPT ![r].status = "failed"]
    /\ pc' = [pc EXCEPT ![r] = "failed"]
    /\ UNCHANGED <<day, events, uses, paid, local>>

\* The process dies, or the database fails at the run's commit.
Crash(r) ==
    /\ pc[r] \in Running
    /\ pc' = [pc EXCEPT ![r] = "lost"]
    /\ UNCHANGED <<day, events, uses, records, paid, local>>

Next ==
    \/ Tick
    \/ OtherEvent
    \/ \E r \in Run :
          \/ Start(r) \/ Skip(r) \/ PassGuard(r) \/ ExerciseGrant(r) \/ Denied(r)
          \/ ReadHead(r) \/ Refuse(r) \/ WriteRecord(r) \/ Submit(r) \/ Confirm(r)
          \/ MarkFailed(r) \/ Crash(r)

Spec == Init /\ [][Next]_vars

------------------------------------------------------------------------------
\* Every variable has its type: records and transactions are of their shapes.
TypeOK ==
    /\ day \in Nat
    /\ events \in Nat
    /\ uses \in Nat
    /\ records \in [Run -> Record \cup {NoRecord}]
    /\ paid \subseteq Tx
    /\ pc \in [Run -> Step]
    /\ local \in [Run -> Local]

\* SPECIFICATION.md: "every anchor covers the exercise event that authorized it":
\* the range of a transaction that the network took holds the event of its run's
\* exercise, and no event that is not committed (the head is read after the
\* exercise, and both in transactions that runs share with nobody).
PaidIsWitnessed ==
    \A t \in paid : /\ local[t.run].witness > 0
                    /\ local[t.run].witness <= t.entry_count
                    /\ t.entry_count <= events

\* The runs never pay more often than the grant of the anchor writer was used, and
\* so never more often than it allows, however they overlap, fail and crash.
PaidWithinGrant ==
    /\ Cardinality(paid) <= uses
    /\ MaxUses # Unlimited => uses <= MaxUses

\* A transaction that the network took is on record, with its range, whatever
\* happens to the run (the row is written before the submission); and a record
\* that says confirmed is true.
PaidIsRecorded ==
    /\ \A t \in paid : /\ records[t.run] # NoRecord
                       /\ records[t.run].entry_count = t.entry_count
    /\ \A r \in Run : records[r] # NoRecord /\ records[r].status = "confirmed" =>
          \E t \in paid : t.run = r

SameDay(t, u) == t # u /\ local[t.run].day = local[u.run].day

\* What can go wrong with the guard of the day, and nothing else: two transactions
\* of one day are paid only if their runs were both between guard and record at
\* one time, or if one was paid although its run reports a failure.
DoublePaymentExplained ==
    \A t, u \in paid : SameDay(t, u) =>
        \/ t.run \in local[u.run].rivals
        \/ u.run \in local[t.run].rivals
        \/ records[t.run].status = "failed"
        \/ records[u.run].status = "failed"

\* The runs that have used the grant and may still pay, and those that can no
\* longer be paid for, or say so.
Entitled == {r \in Run : pc[r] \in {"head", "record", "submit"}}
Out(r)   == IF records[r] = NoRecord THEN pc[r] \in {"refused", "lost"}
                                     ELSE records[r].status = "failed"

\* Each use of the grant is held by one run until it is paid for or given up.
UsesHeld ==
    /\ IsFiniteSet(Entitled) /\ IsFiniteSet(paid)
    /\ Cardinality(Entitled) + Cardinality(paid) <= uses
    /\ MaxUses # Unlimited => uses <= MaxUses

\* A range is read above its exercise and does not change; a record is there from
\* before the submission on, with the status of its run.
RunInv ==
    /\ \A r \in Run :
          /\ pc[r] \in {"head", "record", "submit"} =>
                0 < local[r].witness /\ local[r].witness <= events
          /\ pc[r] \in {"record", "submit"} =>
                local[r].witness <= local[r].head /\ local[r].head <= events
          /\ pc[r] \in {"idle", "guard", "exercise", "head", "record", "skipped"} =>
                records[r] = NoRecord
          /\ pc[r] \in {"submit", "confirm", "fail"} =>
                /\ records[r] # NoRecord
                /\ records[r].entry_count = local[r].head
                /\ records[r].status = "submitted"
          /\ pc[r] = "confirm" => \E t \in paid : t.run = r
    /\ \A t \in paid : pc[t.run] \in {"confirm", "fail", "confirmed", "failed", "lost"}
    /\ PaidIsWitnessed
    /\ PaidIsRecorded

\* Of two runs of a day that passed the guard, one did while the other was its
\* rival, or one is out.
GuardInv ==
    /\ \A r \in Run :
          /\ pc[r] \in {"idle", "guard", "skipped"} => ~local[r].passed
          /\ pc[r] \in {"exercise", "head", "record"} => local[r].passed
          /\ records[r] # NoRecord => records[r].day = local[r].day /\ local[r].passed
          /\ local[r].passed /\ records[r] = NoRecord =>
                pc[r] \in {"exercise", "head", "record", "refused", "lost"}
    /\ \A r, o \in Run :
          r # o /\ local[r].passed /\ local[o].passed /\ local[r].day = local[o].day =>
             r \in local[o].rivals \/ o \in local[r].rivals \/ Out(r) \/ Out(o)

\* Why the properties above hold: the inductive invariant of the job.
AnchorInv == TypeOK /\ UsesHeld /\ RunInv /\ GuardInv

\* jobs.py: "Idempotency guard - one anchor per (workspace, UTC day)."
OneAnchorPerDay == \A t, u \in paid : ~SameDay(t, u)
==============================================================================
