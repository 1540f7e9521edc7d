---------------------------- MODULE ServiceProofs ----------------------------
(***************************************************************************)
(* Theorems about the services around the decisions, Migrations,           *)
(* WebhookDelivery, WorkerJobs and RateLimiter: what schema_migrations can *)
(* be trusted for, for any list of migrations of which no two have a step  *)
(* in common and any number of processes that start, each with any         *)
(* release; what receivers are sent, for any number of retries; what jobs  *)
(* have done, for any number of tries; and what the rate limiter admits,   *)
(* for any window, limits and workers.                                     *)
(***************************************************************************)
EXTENDS Migrations, WebhookDelivery, WorkerJobs, RateLimiter,
        FiniteSetTheorems, Induction, TLAPS

------------------------------------------------------------------------------
(* Starts and migrations                                                    *)

\* What a process that starts has found and marked, whatever the others do.
TrackHolds(s) ==
    /\ starter[s].at <= release[s]
    /\ starter[s].pc = "off" => starter[s].at = 0
    /\ starter[s].pc \in {"apply", "mark", "adopt"} => starter[s].at < release[s]
    /\ starter[s].pc = "detect" => starter[s].at = 0
    /\ starter[s].pc = "apply" => starter[s].step >= 1
    /\ starter[s].seen \subseteq db.marked
    /\ 1..starter[s].at \subseteq db.marked
    /\ starter[s].pc = "up" /\ db.origin # "alembic" => 1..release[s] \subseteq db.marked

\* No two processes start at the same time.
Alone == \A s, t \in Starter : Starting(s) /\ Starting(t) => s = t

\* How far a process that is alone on a database that was fresh is.
Orderly(s) ==
    /\ starter[s].pc # "adopt"
    /\ starter[s].pc = "detect" /\ starter[s].seen = {} => db.effects = {}
    /\ starter[s].pc = "mark" => StepsOf(Current(s)) \subseteq db.effects
    /\ starter[s].pc = "apply" =>
          \A i \in DOMAIN Steps(Current(s)) :
             i < starter[s].step => Steps(Current(s))[i] \in db.effects

\* A migration that returns early is executed as a whole, unless a process is executing it.
Whole(v) == Shipped[v].once /\ StepsOf(v) \cap db.effects # {} =>
    \/ StepsOf(v) \subseteq db.effects
    \/ \E s \in Starter : starter[s].pc = "apply" /\ Current(s) = v

\* A database that was fresh and has anything has a version in its table, or a process
\* that is about to mark the first one.
Begun == db.effects # {} =>
    db.marked # {} \/ \E s \in Starter : starter[s].pc \in {"apply", "mark"}

Undisturbed ==
    /\ Alone
    /\ db.origin = "fresh" => /\ MarkedMeansExecuted /\ Begun
                              /\ \A s \in Starter : Orderly(s)
                              /\ \A v \in Version : Whole(v)

StartInv == /\ MigrationTypeOK /\ (\A s \in Starter : TrackHolds(s))
            /\ ~disturbed => Undisturbed

------------------------------------------------------------------------------
\* What the lists of migrations and of their steps are.
LEMMA Lists ==
    /\ Len(Shipped) \in Nat /\ Version = 1..Len(Shipped) /\ 1 \in Version
    /\ \A v \in Version : /\ Shipped[v].once \in BOOLEAN /\ Len(Steps(v)) \in Nat
                          /\ DOMAIN Steps(v) = 1..Len(Steps(v))
                          /\ Steps(v)[1] \in StepsOf(v)
    /\ "grants" \in StepsOf(1)
<1> DEFINE Migration == [steps : Seq(STRING) \ {<<>>}, once : BOOLEAN, edits : BOOLEAN]
<1>1. Shipped \in Seq(Migration) /\ Shipped # <<>> /\ Shipped[1] = Baseline
  BY ShippedAssumption
<1>2. ASSUME NEW x \in Migration
      PROVE  /\ x.once \in BOOLEAN /\ Len(x.steps) \in Nat
             /\ DOMAIN x.steps = 1..Len(x.steps) /\ 1 \in DOMAIN x.steps
  OBVIOUS
<1> HIDE DEF Migration
<1>3. /\ Len(Shipped) \in Nat /\ Version = 1..Len(Shipped) /\ 1 \in Version
      /\ \A v \in Version : Shipped[v] \in Migration
  BY <1>1 DEF Version
<1>4. Steps(1)[1] = "grants"
  <2>1. Baseline.steps = <<"grants", "baseline tables">>
    BY Zenon DEF Baseline, Checked
  <2>2. Steps(1) = <<"grants", "baseline tables">>
    BY <1>1, <2>1 DEF Steps
  <2>3. <<"grants", "baseline tables">>[1] = "grants"
    OBVIOUS
  <2> QED
    BY <2>2, <2>3, Zenon
<1> QED
  BY <1>2, <1>3, <1>4 DEF Steps, StepsOf

\* A process whose fields change, and the others as they were.
LEMMA ProgressOf ==
    ASSUME MigrationTypeOK, NEW s \in Starter, NEW new \in Progress,
           starter' = [starter EXCEPT ![s] = new]
    PROVE  /\ starter' \in [Starter -> Progress] /\ starter'[s] = new
           /\ \A t \in Starter \ {s} : starter'[t] = starter[t]
BY DEF MigrationTypeOK

\* What holds of the other processes, as long as no version loses its mark.
LEMMA OthersTrack ==
    ASSUME StartInv, NEW s \in Starter, TrackHolds(s)', release' = release,
           \A t \in Starter \ {s} : starter'[t] = starter[t],
           db.marked \subseteq db'.marked, db'.origin = db.origin
    PROVE  \A t \in Starter : TrackHolds(t)'
BY DEF StartInv, TrackHolds

\* A start that fails is remembered.
LEMMA FailStep ==
    ASSUME StartInv, NEW s \in Starter, FailStart(s)
    PROVE  StartInv'
<1>1. /\ starter' = [starter EXCEPT ![s] = Off] /\ disturbed' /\ disturbed' \in BOOLEAN
      /\ release' = release /\ db' = db /\ MigrationTypeOK
  BY DEF FailStart, StartInv
<1>2. Off \in Progress /\ Off.pc = "off" /\ Off.at = 0 /\ Off.seen = {}
  BY DEF Off, Progress
<1>3. /\ starter' \in [Starter -> Progress] /\ starter'[s] = Off
      /\ \A t \in Starter \ {s} : starter'[t] = starter[t]
  BY <1>1, <1>2, ProgressOf
<1>4. TrackHolds(s)'
  BY <1>1, <1>2, <1>3, Lists DEF TrackHolds, MigrationTypeOK
<1>5. MigrationTypeOK'
  BY <1>1, <1>3 DEF MigrationTypeOK
<1> QED
  BY <1>1, <1>3, <1>4, <1>5, OthersTrack DEF StartInv

\* While a process starts alone, the others are off or serve.
LEMMA OthersIdle ==
    ASSUME StartInv, Alone, NEW s \in Starter, Starting(s)
    PROVE  \A t \in Starter \ {s} : starter[t].pc \in {"off", "up"}
BY DEF Alone, Starting

\* A step of a process that starts, which writes nothing.
LEMMA QuietStep ==
    ASSUME StartInv, NEW s \in Starter, Starting(s), NEW new \in Progress,
           starter' = [starter EXCEPT ![s] = new], UNCHANGED <<release, db, disturbed>>,
           TrackHolds(s)',
           ~disturbed /\ Undisturbed /\ db.origin = "fresh" =>
              Orderly(s)' /\ Begun' /\ \A v \in Version : Whole(v)'
    PROVE  StartInv'
<1>1. /\ starter' \in [Starter -> Progress] /\ starter'[s] = new
      /\ \A t \in Starter \ {s} : starter'[t] = starter[t]
  BY ProgressOf DEF StartInv
<1>2. MigrationTypeOK'
  BY <1>1 DEF StartInv, MigrationTypeOK
<1>3. \A t \in Starter : TrackHolds(t)'
  BY <1>1, OthersTrack
<1>4. ASSUME ~disturbed' PROVE Undisturbed'
  <2>1. Undisturbed /\ ~disturbed
    BY <1>4 DEF StartInv
  <2>2. \A t \in Starter \ {s} : starter[t].pc \in {"off", "up"}
    BY <2>1, OthersIdle DEF Undisturbed
  <2>3. Alone'
    BY <1>1, <2>2 DEF Alone, Starting
  <2>4. db.origin = "fresh" => MarkedMeansExecuted'
    BY <2>1 DEF Undisturbed, MarkedMeansExecuted
  <2>5. \A t \in Starter \ {s} : Orderly(t)'
    BY <1>1, <2>2 DEF Orderly
  <2>6. Version' = Version
    BY DEF Version
  <2> QED
    BY <2>1, <2>3, <2>4, <2>5 DEF Undisturbed
<1> QED
  BY <1>2, <1>3, <1>4 DEF StartInv

------------------------------------------------------------------------------
(* init_db, run_migrations                                                  *)

\* A process that is alone on a fresh database and finds an empty table finds nothing.
LEMMA ReadTrackerStep ==
    ASSUME StartInv, NEW s \in Starter, ReadTracker(s)
    PROVE  StartInv'
<1>1. /\ MigrationTypeOK /\ starter[s].pc = "off" /\ release' = release /\ db' = db
      /\ disturbed' = (disturbed \/ \E t \in Starter : Starting(t)) /\ TrackHolds(s)
  BY DEF ReadTracker, StartInv
<1>2. /\ starter \in [Starter -> Progress] /\ release[s] \in Nat /\ release[s] # 0
      /\ db \in Database /\ disturbed \in BOOLEAN
  BY <1>1, Lists DEF MigrationTypeOK
<1>3. PICK new \in Progress :
         /\ starter' = [starter EXCEPT ![s] = new]
         /\ \/ db.origin = "alembic" /\ new.pc = "up" /\ new.at = starter[s].at
               /\ new.seen = starter[s].seen
            \/ db.origin # "alembic" /\ new.pc = "detect" /\ new.at = 0
               /\ new.seen = db.marked
  <2>1. CASE db.origin = "alembic"
    <3>1. starter' = [starter EXCEPT ![s] = [starter[s] EXCEPT !.pc = "up"]]
      BY <1>2, <2>1 DEF ReadTracker, Goto, Progress
    <3>2. /\ [starter[s] EXCEPT !.pc = "up"] \in Progress
          /\ [starter[s] EXCEPT !.pc = "up"].pc = "up"
          /\ [starter[s] EXCEPT !.pc = "up"].at = starter[s].at
          /\ [starter[s] EXCEPT !.pc = "up"].seen = starter[s].seen
      BY <1>2 DEF Progress
    <3> QED
      BY <2>1, <3>1, <3>2
  <2>2. CASE db.origin # "alembic"
    <3> DEFINE new == [Off EXCEPT !.pc = "detect", !.seen = db.marked]
    <3>1. starter' = [starter EXCEPT ![s] = new]
      BY <2>2 DEF ReadTracker
    <3>2. new \in Progress /\ new.pc = "detect" /\ new.at = 0 /\ new.seen = db.marked
      BY <1>2 DEF Off, Progress, Database
    <3> QED
      BY <2>2, <3>1, <3>2
  <2> QED
    BY <2>1, <2>2
<1>4. /\ starter' \in [Starter -> Progress] /\ starter'[s] = new
      /\ \A t \in Starter \ {s} : starter'[t] = starter[t]
  BY <1>1, <1>3, ProgressOf
<1>5. TrackHolds(s)'
  BY <1>1, <1>2, <1>3, <1>4 DEF TrackHolds
<1>6. \A t \in Starter : TrackHolds(t)'
  BY <1>1, <1>4, <1>5, OthersTrack
<1>7. disturbed' \in BOOLEAN
  BY <1>1
<1>8. MigrationTypeOK'
  BY <1>1, <1>2, <1>4, <1>7 DEF MigrationTypeOK
<1>9. ASSUME ~disturbed' PROVE Undisturbed'
  <2>1. ~disturbed /\ \A t \in Starter : ~Starting(t)
    BY <1>1, <1>9
  <2>2. Undisturbed
    BY <2>1 DEF StartInv
  <2>3. \A t \in Starter \ {s} : ~Starting(t)'
    BY <1>4, <2>1 DEF Starting
  <2>4. Alone'
    BY <2>3 DEF Alone
  <2>5. ASSUME db.origin = "fresh"
        PROVE  /\ MarkedMeansExecuted' /\ Begun' /\ (\A t \in Starter : Orderly(t)')
               /\ \A v \in Version : Whole(v)'
    <3>1. /\ MarkedMeansExecuted /\ Begun /\ (\A v \in Version : Whole(v))
      BY <2>2, <2>5 DEF Undisturbed
    <3>2. \A t \in Starter : starter[t].pc \in {"off", "up"}
      BY <1>2, <2>1 DEF Starting
    <3>3. db.marked = {} => db.effects = {}
      BY <3>1, <3>2 DEF Begun
    <3>4. \A v \in Version : Shipped[v].once /\ StepsOf(v) \cap db.effects # {} =>
                               StepsOf(v) \subseteq db.effects
      BY <3>1, <3>2 DEF Whole
    <3>5. \A t \in Starter : Orderly(t)'
      BY <1>1, <1>3, <1>4, <2>5, <3>2, <3>3 DEF Orderly
    <3>6. MarkedMeansExecuted' /\ Begun'
      BY <1>1, <3>1, <3>3 DEF MarkedMeansExecuted, Begun
    <3>7. \A v \in Version : Whole(v)'
      BY <1>1, <3>4 DEF Whole
    <3> QED
      BY <3>5, <3>6, <3>7
  <2> QED
    BY <1>1, <2>4, <2>5 DEF Undisturbed, Version
<1> QED
  BY <1>6, <1>8, <1>9 DEF StartInv

\* The tables of an older program are taken for the baseline; a fresh database has none.
LEMMA DetectStep ==
    ASSUME StartInv, NEW s \in Starter, Detect(s)
    PROVE  StartInv'
<1>1. /\ MigrationTypeOK /\ starter[s].pc = "detect" /\ UNCHANGED <<release, db, disturbed>>
      /\ starter' = [starter EXCEPT ![s].pc = IF LooksOlder(s) THEN "adopt" ELSE "next"]
      /\ TrackHolds(s)
  BY DEF Detect, StartInv, Goto
<1>2. starter \in [Starter -> Progress] /\ release[s] \in Nat /\ release[s] # 0
  BY <1>1, Lists DEF MigrationTypeOK
<1>3. PICK new \in Progress :
         /\ starter' = [starter EXCEPT ![s] = new]
         /\ new.pc = IF LooksOlder(s) THEN "adopt" ELSE "next"
         /\ new.at = starter[s].at /\ new.seen = starter[s].seen
  <2> DEFINE pc == IF LooksOlder(s) THEN "adopt" ELSE "next"
  <2>1. pc \in {"adopt", "next"} /\ starter' = [starter EXCEPT ![s].pc = pc]
    BY <1>1
  <2> HIDE DEF pc
  <2>2. starter' = [starter EXCEPT ![s] = [starter[s] EXCEPT !.pc = pc]]
    BY <1>2, <2>1 DEF Progress
  <2>3. /\ [starter[s] EXCEPT !.pc = pc] \in Progress
        /\ [starter[s] EXCEPT !.pc = pc].pc = pc
        /\ [starter[s] EXCEPT !.pc = pc].at = starter[s].at
        /\ [starter[s] EXCEPT !.pc = pc].seen = starter[s].seen
    BY <1>2, <2>1 DEF Progress
  <2> QED
    BY <2>2, <2>3 DEF pc
<1>4. /\ starter'[s] = new /\ \A t \in Starter \ {s} : starter'[t] = starter[t]
  BY <1>1, <1>3, ProgressOf
<1>5. TrackHolds(s)'
  BY <1>1, <1>2, <1>3, <1>4 DEF TrackHolds
<1>6. ASSUME ~disturbed, Undisturbed, db.origin = "fresh"
      PROVE  Orderly(s)' /\ Begun' /\ \A v \in Version : Whole(v)'
  <2>1. Orderly(s) /\ Begun /\ \A v \in Version : Whole(v)
    BY <1>6 DEF Undisturbed
  <2>2. ~LooksOlder(s)
    BY <1>1, <2>1 DEF LooksOlder, Orderly
  <2>3. Orderly(s)'
    BY <1>3, <1>4, <2>2 DEF Orderly
  <2>4. \A t \in Starter : starter[t].pc \in {"apply", "mark"} => starter'[t] = starter[t]
    BY <1>1, <1>4
  <2>5. Begun'
    BY <1>1, <2>1, <2>4 DEF Begun
  <2>6. \A v \in Version : Whole(v)'
    BY <1>1, <2>1, <2>4 DEF Whole, Current
  <2> QED
    BY <2>3, <2>5, <2>6
<1> QED
  BY <1>1, <1>3, <1>5, <1>6, QuietStep DEF Starting

\* The fields of a process that takes its next migration.
LEMMA Moved ==
    ASSUME NEW old \in Progress, NEW v \in Nat
    PROVE  /\ [old EXCEPT !.at = v] \in Progress
           /\ [old EXCEPT !.at = v].pc = old.pc /\ [old EXCEPT !.at = v].at = v
           /\ [old EXCEPT !.at = v].seen = old.seen
           /\ \A x \in {"up", "mark"} :
                 /\ [old EXCEPT !.pc = x] \in Progress
                 /\ [old EXCEPT !.pc = x].pc = x /\ [old EXCEPT !.pc = x].at = old.at
                 /\ [old EXCEPT !.pc = x].seen = old.seen
           /\ [old EXCEPT !.pc = "apply", !.step = 1] \in Progress
           /\ [old EXCEPT !.pc = "apply", !.step = 1].pc = "apply"
           /\ [old EXCEPT !.pc = "apply", !.step = 1].at = old.at
           /\ [old EXCEPT !.pc = "apply", !.step = 1].seen = old.seen
           /\ [old EXCEPT !.pc = "apply", !.step = 1].step = 1
BY DEF Progress

\* The next migration is one that is marked, one that finds its work done, or one that is
\* executed from its first step on.
LEMMA NextMigrationStep ==
    ASSUME StartInv, NEW s \in Starter, NextMigration(s)
    PROVE  StartInv'
<1> DEFINE v == Current(s)
           old == starter[s]
<1>1. /\ MigrationTypeOK /\ old.pc = "next" /\ UNCHANGED <<release, db, disturbed>>
      /\ TrackHolds(s)
      /\ starter' = [starter EXCEPT ![s] =
            IF old.at = release[s] THEN [old EXCEPT !.pc = "up"]
            ELSE IF Skips(v, s) THEN [old EXCEPT !.at = v]
            ELSE IF Returns(v) THEN [old EXCEPT !.pc = "mark"]
            ELSE [old EXCEPT !.pc = "apply", !.step = 1]]
  BY DEF NextMigration, StartInv
<1>0. /\ old.pc = "next" /\ UNCHANGED <<release, db, disturbed>> /\ TrackHolds(s)
  BY <1>1
<1>2. /\ old \in Progress /\ release[s] \in 1..Len(Shipped) /\ Len(Shipped) \in Nat
      /\ old.at \in Nat /\ v = old.at + 1 /\ old.at <= release[s]
      /\ old.at # release[s] => v \in Version
  <2>1. /\ old \in Progress /\ release[s] \in 1..Len(Shipped) /\ Len(Shipped) \in Nat
        /\ Version = 1..Len(Shipped) /\ old.at <= release[s]
    BY <1>1, Lists DEF MigrationTypeOK, TrackHolds
  <2> QED
    BY <2>1 DEF Progress, Current
<1>3. PICK new \in Progress :
         /\ starter' = [starter EXCEPT ![s] = new] /\ new.seen = old.seen
         /\ \/ old.at = release[s] /\ new.pc = "up" /\ new.at = old.at
            \/ old.at # release[s] /\ v \in old.seen /\ new.pc = "next" /\ new.at = v
            \/ old.at # release[s] /\ Returns(v) /\ new.pc = "mark" /\ new.at = old.at
            \/ old.at # release[s] /\ new.pc = "apply" /\ new.at = old.at /\ new.step = 1
  <2>1. CASE old.at = release[s]
    <3>1. starter' = [starter EXCEPT ![s] = [old EXCEPT !.pc = "up"]]
      BY <1>1, <2>1
    <3> QED
      BY <1>2, <2>1, <3>1, Moved
  <2>2. CASE old.at # release[s] /\ Skips(v, s)
    <3>1. starter' = [starter EXCEPT ![s] = [old EXCEPT !.at = v]]
      BY <1>1, <2>2
    <3>2. v \in Nat /\ v \in old.seen
      BY <1>2, <2>2 DEF Skips
    <3> DEFINE n == [old EXCEPT !.at = v]
    <3>3. n \in Progress /\ n.pc = old.pc /\ n.at = v /\ n.seen = old.seen
      <4>1. old \in Progress /\ v \in Nat
        BY <1>2, <3>2
      <4> HIDE DEF old, v
      <4> QED
        BY <4>1 DEF Progress
    <3>4. starter' = [starter EXCEPT ![s] = n]
      BY <3>1
    <3> HIDE DEF n, v, old
    <3> QED
      BY <1>0, <2>2, <3>2, <3>3, <3>4
  <2>3. CASE old.at # release[s] /\ ~Skips(v, s) /\ Returns(v)
    <3>1. starter' = [starter EXCEPT ![s] = [old EXCEPT !.pc = "mark"]]
      BY <1>1, <2>3
    <3> QED
      BY <1>2, <2>3, <3>1, Moved
  <2>4. CASE old.at # release[s] /\ ~Skips(v, s) /\ ~Returns(v)
    <3>1. starter' = [starter EXCEPT ![s] = [old EXCEPT !.pc = "apply", !.step = 1]]
      BY <1>1, <2>4
    <3> QED
      BY <1>2, <2>4, <3>1, Moved
  <2> QED
    BY <2>1, <2>2, <2>3, <2>4
<1>4. /\ starter'[s] = new /\ \A t \in Starter \ {s} : starter'[t] = starter[t]
  BY <1>1, <1>3, ProgressOf
<1>5. TrackHolds(s)'
  <2>1. old.seen \subseteq db.marked /\ 1..old.at \subseteq db.marked
    BY <1>1 DEF TrackHolds
  <2>2. v \in old.seen => 1..v \subseteq db.marked
    BY <1>2, <2>1
  <2>3. /\ new.at <= release[s] /\ (new.pc = "mark" \/ new.pc = "apply" => new.at < release[s])
        /\ new.pc \notin {"off", "adopt", "detect"} /\ (new.pc = "apply" => new.step >= 1)
        /\ new.pc = "up" => new.at = release[s]
        /\ 1..new.at \subseteq db.marked /\ new.seen \subseteq db.marked
    <3> HIDE DEF v, old
    <3> QED
      BY <1>2, <1>3, <2>1, <2>2
  <2> QED
    BY <1>0, <1>4, <2>3 DEF TrackHolds
<1>6. ASSUME ~disturbed, Undisturbed, db.origin = "fresh"
      PROVE  Orderly(s)' /\ Begun' /\ \A w \in Version : Whole(w)'
  <2>1. Alone /\ Begun /\ \A w \in Version : Whole(w)
    BY <1>6 DEF Undisturbed
  <2>2. \A t \in Starter : starter[t].pc \in {"apply", "mark"} => starter'[t] = starter[t]
    BY <1>1, <1>4
  <2>3. \A t \in Starter : starter[t].pc # "apply"
    BY <1>1, <2>1, OthersIdle DEF Starting
  <2>4. old.at # release[s] /\ Returns(v) => StepsOf(v) \subseteq db.effects
    <3> SUFFICES ASSUME old.at # release[s], Returns(v) PROVE StepsOf(v) \subseteq db.effects
      OBVIOUS
    <3>1. /\ Steps(v)[1] \in db.effects /\ Steps(v)[1] \in StepsOf(v) /\ v \in Version
          /\ Shipped[v].once
      BY <1>2, Lists DEF Returns
    <3> QED
      BY <2>1, <2>3, <3>1 DEF Whole
  <2>5. new.at = old.at => Current(s)' = v
    BY <1>4 DEF Current
  <2>6. old.at # release[s] =>
           \A i \in DOMAIN Steps(v) : i >= 1
    BY <1>2, Lists
  <2>7. Orderly(s)'
    <3>1. /\ new.pc \notin {"adopt", "detect"}
          /\ new.pc = "mark" => new.at = old.at /\ StepsOf(v) \subseteq db.effects
          /\ new.pc = "apply" => /\ new.at = old.at /\ new.step = 1
                                 /\ \A i \in DOMAIN Steps(v) : i >= 1 /\ i \in Nat
      <4>1. old.at # release[s] => \A i \in DOMAIN Steps(v) : i \in Nat
        BY <1>2, Lists
      <4> HIDE DEF v, old
      <4> QED
        BY <1>3, <2>4, <2>6, <4>1
    <3> HIDE DEF v, old
    <3> QED
      BY <1>0, <1>4, <2>5, <3>1 DEF Orderly
  <2>8. Begun'
    BY <1>1, <2>1, <2>2 DEF Begun
  <2>9. \A w \in Version : Whole(w)'
    BY <1>1, <2>1, <2>2 DEF Whole, Current
  <2> QED
    BY <2>7, <2>8, <2>9
<1> QED
  BY <1>1, <1>3, <1>5, <1>6, QuietStep DEF Starting

\* A step of a migration, which is of no other one.
LEMMA ApplyStepStep ==
    ASSUME StartInv, NEW s \in Starter, ApplyStep(s)
    PROVE  StartInv'
<1> DEFINE v == Current(s)
           old == starter[s]
           e == Steps(v)[old.step]
<1>1. /\ MigrationTypeOK /\ old.pc = "apply" /\ ~(old.step > Len(Steps(v)))
      /\ UNCHANGED <<release, disturbed>> /\ TrackHolds(s)
      /\ db' = [db EXCEPT !.effects = @ \cup Made(e)]
      /\ starter' = [starter EXCEPT ![s].step = @ + 1]
  BY DEF ApplyStep, Applied, StartInv
<1>2. /\ old \in Progress /\ starter \in [Starter -> Progress] /\ db \in Database
      /\ v \in Version /\ old.at \in Nat /\ v = old.at + 1
      /\ old.step \in DOMAIN Steps(v) /\ old.step \in Nat
  <2>1. /\ old \in Progress /\ starter \in [Starter -> Progress] /\ db \in Database
        /\ release[s] \in 1..Len(Shipped) /\ Len(Shipped) \in Nat
        /\ Version = 1..Len(Shipped) /\ old.at < release[s] /\ old.step >= 1
    BY <1>1, Lists DEF MigrationTypeOK, TrackHolds
  <2>2. v \in Version /\ old.at \in Nat /\ old.step \in Nat /\ v = old.at + 1
    BY <2>1 DEF Progress, Current
  <2>3. DOMAIN Steps(v) = 1..Len(Steps(v)) /\ Len(Steps(v)) \in Nat
    BY <2>2, Lists
  <2> QED
    BY <1>1, <2>1, <2>2, <2>3
<1>3. /\ e \in StepsOf(v) /\ e \in Made(e) /\ Made(e) \subseteq Effects
      /\ Made(e) \subseteq {e} \cup MadeEarly
  <2>1. e \in StepsOf(v) /\ e \in Effects
    BY <1>2 DEF StepsOf, Effects
  <2> HIDE DEF e
  <2> QED
    BY <2>1 DEF Made
<1> HIDE DEF e
<1>4. /\ db' \in Database /\ db'.effects = db.effects \cup Made(e)
      /\ db'.marked = db.marked /\ db'.origin = db.origin
  BY <1>1, <1>2, <1>3 DEF Database
<1>5. PICK new \in Progress :
         /\ starter' = [starter EXCEPT ![s] = new] /\ new.pc = "apply" /\ new.at = old.at
         /\ new.seen = old.seen /\ new.step = old.step + 1
  <2>1. starter' = [starter EXCEPT ![s] = [old EXCEPT !.step = old.step + 1]]
    BY <1>1, <1>2 DEF Progress
  <2>2. /\ [old EXCEPT !.step = old.step + 1] \in Progress
        /\ [old EXCEPT !.step = old.step + 1].pc = old.pc
        /\ [old EXCEPT !.step = old.step + 1].at = old.at
        /\ [old EXCEPT !.step = old.step + 1].seen = old.seen
        /\ [old EXCEPT !.step = old.step + 1].step = old.step + 1
    BY <1>2 DEF Progress
  <2> QED
    BY <1>1, <2>1, <2>2
<1>6. /\ starter' \in [Starter -> Progress] /\ starter'[s] = new
      /\ \A t \in Starter \ {s} : starter'[t] = starter[t]
  BY <1>1, <1>5, ProgressOf
<1>7. TrackHolds(s)'
  BY <1>1, <1>2, <1>4, <1>5, <1>6 DEF TrackHolds
<1>8. \A t \in Starter : TrackHolds(t)'
  BY <1>1, <1>4, <1>6, <1>7, OthersTrack
<1>9. MigrationTypeOK'
  BY <1>1, <1>4, <1>6 DEF MigrationTypeOK
<1>10. \A t \in Starter : starter'[t].pc = starter[t].pc /\ Current(t)' = Current(t)
  BY <1>1, <1>5, <1>6 DEF Current
<1>11. ASSUME ~disturbed' PROVE Undisturbed'
  <2>1. Undisturbed
    BY <1>1, <1>11 DEF StartInv
  <2>2. \A t \in Starter \ {s} : starter[t].pc \in {"off", "up"}
    BY <1>1, <2>1, OthersIdle DEF Undisturbed, Starting
  <2>3. Alone'
    BY <1>10, <2>1 DEF Undisturbed, Alone, Starting
  <2>4. ASSUME db.origin = "fresh"
        PROVE  /\ MarkedMeansExecuted' /\ Begun' /\ (\A t \in Starter : Orderly(t)')
               /\ \A w \in Version : Whole(w)'
    <3>1. /\ MarkedMeansExecuted /\ Orderly(s) /\ \A w \in Version : Whole(w)
      BY <2>1, <2>4 DEF Undisturbed
    <3>2. MarkedMeansExecuted' /\ Begun'
      BY <1>1, <1>4, <1>10, <3>1 DEF MarkedMeansExecuted, Begun
    <3>3. Orderly(s)'
      <4>1. \A i \in DOMAIN Steps(v) : i < old.step + 1 => Steps(v)[i] \in db'.effects
        <5> SUFFICES ASSUME NEW i \in DOMAIN Steps(v), i < old.step + 1
                     PROVE  Steps(v)[i] \in db'.effects
          OBVIOUS
        <5>1. i \in Nat
          BY <1>2, Lists
        <5>2. CASE i < old.step
          BY <1>1, <1>4, <3>1, <5>2 DEF Orderly
        <5>3. CASE i = old.step
          BY <1>3, <1>4, <5>3 DEF e
        <5> QED
          BY <1>2, <5>1, <5>2, <5>3
      <4>2. Current(s)' = v
        BY <1>10
      <4> HIDE DEF v, old
      <4> QED
        BY <1>5, <1>6, <4>1, <4>2 DEF Orderly
    <3>4. \A t \in Starter \ {s} : Orderly(t)'
      BY <1>10, <2>2 DEF Orderly
    <3>5. ASSUME NEW w \in Version PROVE Whole(w)'
      <4>1. CASE w = v
        BY <1>1, <1>10, <4>1 DEF Whole
      <4>2. CASE w # v
        <5>1. Shipped[w].once => Made(e) \cap StepsOf(w) = {}
          BY <1>2, <1>3, <4>2, EffectsAssumption
        <5> QED
          BY <1>4, <1>10, <3>1, <5>1 DEF Whole
      <4> QED
        BY <4>1, <4>2
    <3> QED
      BY <3>2, <3>3, <3>4, <3>5
  <2> QED
    BY <1>4, <2>3, <2>4 DEF Undisturbed, Version
<1> QED
  BY <1>8, <1>9, <1>11 DEF StartInv

\* A migration of which every step is done is executed.
LEMMA ApplyEndsStep ==
    ASSUME StartInv, NEW s \in Starter, ApplyEnds(s)
    PROVE  StartInv'
<1> DEFINE v == Current(s)
           old == starter[s]
<1>1. /\ MigrationTypeOK /\ old.pc = "apply" /\ old.step > Len(Steps(v))
      /\ UNCHANGED <<release, db, disturbed>> /\ TrackHolds(s)
      /\ starter' = [starter EXCEPT ![s].pc = "mark", ![s].step = 0]
  BY DEF ApplyEnds, Applied, StartInv
<1>2. /\ old \in Progress /\ starter \in [Starter -> Progress] /\ v \in Version
      /\ DOMAIN Steps(v) = 1..Len(Steps(v)) /\ Len(Steps(v)) \in Nat /\ old.step \in Nat
  <2>1. /\ old \in Progress /\ starter \in [Starter -> Progress]
        /\ release[s] \in 1..Len(Shipped) /\ Len(Shipped) \in Nat
        /\ Version = 1..Len(Shipped) /\ old.at < release[s]
    BY <1>1, Lists DEF MigrationTypeOK, TrackHolds
  <2>2. v \in Version /\ old.step \in Nat
    BY <2>1 DEF Progress, Current
  <2> QED
    BY <2>1, <2>2, Lists
<1>3. PICK new \in Progress :
         /\ starter' = [starter EXCEPT ![s] = new] /\ new.pc = "mark" /\ new.at = old.at
         /\ new.seen = old.seen
  <2>1. starter' = [starter EXCEPT ![s] = [old EXCEPT !.pc = "mark", !.step = 0]]
    BY <1>1, <1>2 DEF Progress
  <2>2. /\ [old EXCEPT !.pc = "mark", !.step = 0] \in Progress
        /\ [old EXCEPT !.pc = "mark", !.step = 0].pc = "mark"
        /\ [old EXCEPT !.pc = "mark", !.step = 0].at = old.at
        /\ [old EXCEPT !.pc = "mark", !.step = 0].seen = old.seen
    BY <1>2 DEF Progress
  <2> QED
    BY <2>1, <2>2
<1>4. /\ starter'[s] = new /\ \A t \in Starter \ {s} : starter'[t] = starter[t]
  BY <1>1, <1>3, ProgressOf
<1>5. TrackHolds(s)'
  BY <1>1, <1>3, <1>4 DEF TrackHolds
<1>6. ASSUME ~disturbed, Undisturbed, db.origin = "fresh"
      PROVE  Orderly(s)' /\ Begun' /\ \A w \in Version : Whole(w)'
  <2>1. /\ Alone /\ Orderly(s) /\ \A w \in Version : Whole(w)
    BY <1>6 DEF Undisturbed
  <2>2. StepsOf(v) \subseteq db.effects
    <3> SUFFICES ASSUME NEW i \in DOMAIN Steps(v) PROVE Steps(v)[i] \in db.effects
      BY DEF StepsOf
    <3>1. i < old.step
      BY <1>1, <1>2
    <3> QED
      BY <1>1, <2>1, <3>1 DEF Orderly
  <2>3. Current(s)' = v
    BY <1>3, <1>4 DEF Current
  <2>4. Orderly(s)' /\ Begun'
    <3> HIDE DEF v, old
    <3> QED
      BY <1>1, <1>3, <1>4, <2>2, <2>3 DEF Orderly, Begun
  <2>5. ASSUME NEW w \in Version PROVE Whole(w)'
    <3>1. \A t \in Starter : starter[t].pc = "apply" => t = s
      BY <1>1, <2>1, OthersIdle DEF Starting
    <3>2. Shipped[w].once /\ StepsOf(w) \cap db.effects # {} => StepsOf(w) \subseteq db.effects
      BY <2>1, <2>2, <3>1 DEF Whole
    <3> QED
      BY <1>1, <3>2 DEF Whole
  <2> QED
    BY <2>4, <2>5
<1> QED
  BY <1>1, <1>3, <1>5, <1>6, QuietStep DEF Starting

\* A version is marked when it was executed, or with all others when tables are adopted.
LEMMA MarkStep ==
    ASSUME StartInv, NEW s \in Starter, NEW pc \in {"next", "adopt", "up"}, MarkApplied(s, pc),
           \/ starter[s].pc = "mark" /\ pc = "next"
           \/ starter[s].pc = "adopt" /\ pc = (IF Current(s) = release[s] THEN "up" ELSE "adopt")
    PROVE  StartInv'
<1> DEFINE v == Current(s)
           old == starter[s]
<1>1. /\ MigrationTypeOK /\ UNCHANGED <<release, disturbed>> /\ TrackHolds(s)
      /\ db' = [db EXCEPT !.marked = @ \cup {v}]
      /\ starter' = [starter EXCEPT ![s].pc = pc, ![s].at = v]
      /\ Starting(s)
  BY DEF MarkApplied, StartInv, Starting
<1>2. /\ old \in Progress /\ starter \in [Starter -> Progress] /\ db \in Database
      /\ release[s] \in 1..Len(Shipped) /\ Len(Shipped) \in Nat /\ old.at \in Nat
      /\ v = old.at + 1 /\ v \in Version /\ v \in Nat /\ v <= release[s]
  <2>1. /\ old \in Progress /\ starter \in [Starter -> Progress] /\ db \in Database
        /\ release[s] \in 1..Len(Shipped) /\ Len(Shipped) \in Nat
        /\ Version = 1..Len(Shipped) /\ old.at < release[s]
    BY <1>1, Lists DEF MigrationTypeOK, TrackHolds
  <2> QED
    BY <2>1 DEF Progress, Current
<1>3. /\ db' \in Database /\ db'.effects = db.effects /\ db'.marked = db.marked \cup {v}
      /\ db'.origin = db.origin
  BY <1>1, <1>2 DEF Database
<1>4. PICK new \in Progress :
         /\ starter' = [starter EXCEPT ![s] = new] /\ new.pc = pc /\ new.at = v
         /\ new.seen = old.seen
  <2> HIDE DEF v
  <2>1. starter' = [starter EXCEPT ![s] = [old EXCEPT !.pc = pc, !.at = v]]
    BY <1>1, <1>2 DEF Progress
  <2>2. /\ [old EXCEPT !.pc = pc, !.at = v] \in Progress
        /\ [old EXCEPT !.pc = pc, !.at = v].pc = pc
        /\ [old EXCEPT !.pc = pc, !.at = v].at = v
        /\ [old EXCEPT !.pc = pc, !.at = v].seen = old.seen
    BY <1>2 DEF Progress
  <2> QED
    BY <2>1, <2>2
<1>5. /\ starter' \in [Starter -> Progress] /\ starter'[s] = new
      /\ \A t \in Starter \ {s} : starter'[t] = starter[t]
  BY <1>1, <1>4, ProgressOf
<1>6. TrackHolds(s)'
  <2>1. old.seen \subseteq db'.marked /\ 1..v \subseteq db'.marked
    BY <1>1, <1>2, <1>3 DEF TrackHolds
  <2>2. (pc = "up" => v = release[s]) /\ (pc = "adopt" => v < release[s])
    BY <1>2
  <2> HIDE DEF v, old
  <2> QED
    BY <1>1, <1>2, <1>4, <1>5, <2>1, <2>2 DEF TrackHolds
<1>7. \A t \in Starter : TrackHolds(t)'
  BY <1>1, <1>3, <1>5, <1>6, OthersTrack
<1>8. MigrationTypeOK'
  BY <1>1, <1>3, <1>5 DEF MigrationTypeOK
<1>9. ASSUME ~disturbed' PROVE Undisturbed'
  <2>1. Undisturbed
    BY <1>1, <1>9 DEF StartInv
  <2>2. \A t \in Starter \ {s} : starter[t].pc \in {"off", "up"}
    BY <1>1, <2>1, OthersIdle DEF Undisturbed
  <2>3. Alone'
    BY <1>5, <2>2 DEF Alone, Starting
  <2>4. ASSUME db.origin = "fresh"
        PROVE  /\ MarkedMeansExecuted' /\ Begun' /\ (\A t \in Starter : Orderly(t)')
               /\ \A w \in Version : Whole(w)'
    <3>1. MarkedMeansExecuted /\ Orderly(s) /\ \A w \in Version : Whole(w)
      BY <2>1, <2>4 DEF Undisturbed
    <3>2. old.pc = "mark" /\ pc = "next" /\ StepsOf(v) \subseteq db.effects
      BY <3>1 DEF Orderly
    <3>3. MarkedMeansExecuted' /\ Begun'
      BY <1>3, <3>1, <3>2 DEF MarkedMeansExecuted, Begun
    <3>4. \A t \in Starter : Orderly(t)'
      BY <1>4, <1>5, <2>2, <3>2 DEF Orderly
    <3>5. \A w \in Version : Whole(w)'
      BY <1>3, <2>2, <3>1, <3>2 DEF Whole
    <3> QED
      BY <3>3, <3>4, <3>5
  <2> QED
    BY <1>3, <2>3, <2>4 DEF Undisturbed, Version
<1> QED
  BY <1>7, <1>8, <1>9 DEF StartInv

------------------------------------------------------------------------------
(* Around a start                                                           *)

\* A process that ends while it starts is remembered.
LEMMA StopStep ==
    ASSUME StartInv, NEW s \in Starter, Stop(s)
    PROVE  StartInv'
<1>1. /\ MigrationTypeOK /\ starter' = [starter EXCEPT ![s] = Off] /\ release' = release
      /\ db' = db /\ disturbed' = (disturbed \/ Starting(s)) /\ starter[s].pc # "off"
  BY DEF Stop, StartInv
<1>2. Off \in Progress /\ Off.pc = "off" /\ Off.at = 0 /\ Off.seen = {}
  BY DEF Off, Progress
<1>3. /\ starter' \in [Starter -> Progress] /\ starter'[s] = Off
      /\ \A t \in Starter \ {s} : starter'[t] = starter[t]
  BY <1>1, <1>2, ProgressOf
<1>4. TrackHolds(s)'
  BY <1>1, <1>2, <1>3, Lists DEF TrackHolds, MigrationTypeOK
<1>5. \A t \in Starter : TrackHolds(t)'
  BY <1>1, <1>3, <1>4, OthersTrack
<1>6. disturbed' \in BOOLEAN
  BY <1>1
<1>7. MigrationTypeOK'
  BY <1>1, <1>3, <1>6 DEF MigrationTypeOK
<1>8. ASSUME ~disturbed' PROVE Undisturbed'
  <2>1. ~disturbed /\ ~Starting(s)
    BY <1>1, <1>8
  <2>2. Undisturbed /\ starter[s].pc \notin {"apply", "mark"}
    BY <2>1 DEF StartInv, Starting
  <2>3. Alone'
    BY <1>2, <1>3, <2>2 DEF Undisturbed, Alone, Starting
  <2>4. \A t \in Starter : Orderly(t) => Orderly(t)'
    BY <1>1, <1>2, <1>3 DEF Orderly, Current
  <2>5. \A t \in Starter : starter[t].pc \in {"apply", "mark"} => starter'[t] = starter[t]
    BY <1>3, <2>2
  <2>6. Begun => Begun'
    BY <1>1, <2>5 DEF Begun
  <2>7. \A v \in Version : Whole(v) => Whole(v)'
    BY <1>1, <2>5 DEF Whole, Current
  <2> QED
    BY <1>1, <2>2, <2>3, <2>4, <2>6, <2>7 DEF Undisturbed, MarkedMeansExecuted, Version
<1> QED
  BY <1>5, <1>7, <1>8 DEF StartInv

\* Neither the events of a process that serves nor a new release change what was executed.
LEMMA AroundStep ==
    ASSUME StartInv,
           \/ \E s \in Starter : Serve(s) \/ Deploy(s)
           \/ UNCHANGED migrationVars
    PROVE  StartInv'
<1>1. /\ MigrationTypeOK /\ UNCHANGED <<starter, disturbed>> /\ db' \in Database
      /\ db'.effects = db.effects /\ db'.marked = db.marked /\ db'.origin = db.origin
      /\ release' \in [Starter -> Version]
      /\ \A s \in Starter : release'[s] = release[s] \/ starter[s].pc = "off"
  <2>1. MigrationTypeOK /\ db \in Database /\ release \in [Starter -> Version]
    BY Lists DEF StartInv, MigrationTypeOK
  <2>2. CASE \E s \in Starter : Serve(s)
    <3>1. UNCHANGED <<starter, disturbed, release>>
      BY <2>2 DEF Serve
    <3>2. db' = [db EXCEPT !.events = TRUE]
      BY <2>2 DEF Serve
    <3>3. PICK events \in BOOLEAN : db' = [db EXCEPT !.events = events]
      BY <3>2, Zenon
    <3>4. /\ db' \in Database /\ db'.effects = db.effects
          /\ db'.marked = db.marked /\ db'.origin = db.origin
      BY <2>1, <3>3 DEF Database
    <3> QED
      BY <2>1, <3>1, <3>4 DEF MigrationTypeOK
  <2>3. CASE (\E s \in Starter : Deploy(s)) \/ UNCHANGED migrationVars
    BY <2>1, <2>3 DEF Deploy, migrationVars, MigrationTypeOK
  <2> QED
    BY <2>2, <2>3
<1>2. \A s \in Starter : TrackHolds(s)'
  <2> SUFFICES ASSUME NEW s \in Starter PROVE TrackHolds(s)'
    OBVIOUS
  <2>1. /\ TrackHolds(s) /\ starter[s].at \in Nat /\ release[s] \in Nat
        /\ release'[s] \in Nat
    BY <1>1, Lists DEF StartInv, MigrationTypeOK, Progress
  <2> QED
    BY <1>1, <2>1 DEF TrackHolds
<1>3. MigrationTypeOK'
  BY <1>1 DEF MigrationTypeOK
<1>4. Undisturbed => Undisturbed'
  BY <1>1 DEF Undisturbed, Alone, Starting, MarkedMeansExecuted, Begun, Orderly, Whole,
              Current, Version
<1> QED
  BY <1>1, <1>2, <1>3, <1>4 DEF StartInv

------------------------------------------------------------------------------
(* The specification                                                        *)

\* A database from before the runner has the tables of the baseline, and a fresh one has
\* nothing.
LEMMA InitHolds == MigrationInit => StartInv
<1> SUFFICES ASSUME MigrationInit PROVE StartInv
  OBVIOUS
<1>1. PICK origin \in {"fresh", "older", "alembic"}, events \in BOOLEAN,
           columns \in {{}, MadeEarly \cap Effects} :
         db = [origin |-> origin, marked |-> {}, events |-> events,
               effects |-> IF origin = "fresh" THEN {} ELSE StepsOf(1) \cup columns]
  BY DEF MigrationInit
<1>2. /\ release \in [Starter -> Version] /\ starter = [s \in Starter |-> Off]
      /\ ~disturbed /\ disturbed \in BOOLEAN
  BY DEF MigrationInit
<1>3. StepsOf(1) \subseteq Effects
  BY Lists DEF Effects
<1>4. /\ db \in Database /\ db.marked = {} /\ (db.origin = "fresh" => db.effects = {})
  BY <1>1, <1>3 DEF Database
<1>5. /\ Off \in Progress /\ Off.pc = "off" /\ Off.at = 0 /\ Off.seen = {}
      /\ \A s \in Starter : starter[s] = Off
  BY <1>2 DEF Off, Progress
<1>6. MigrationTypeOK
  <2>1. starter \in [Starter -> Progress]
    <3> [s \in Starter |-> Off] \in [Starter -> Progress]
      BY <1>5
    <3> QED
      BY <1>2
  <2>2. release \in [Starter -> Version] /\ disturbed \in BOOLEAN
    BY <1>2
  <2>3. db \in Database
    BY <1>4
  <2> QED
    BY <2>1, <2>2, <2>3 DEF MigrationTypeOK
<1>7. \A s \in Starter : TrackHolds(s)
  <2> SUFFICES ASSUME NEW s \in Starter PROVE TrackHolds(s)
    OBVIOUS
  <2>1. /\ starter[s].pc = "off" /\ starter[s].at = 0 /\ starter[s].seen = {}
        /\ release[s] \in Nat
    BY <1>2, <1>5, Lists
  <2> QED
    BY <2>1 DEF TrackHolds
<1>8. Undisturbed
  BY <1>4, <1>5 DEF Undisturbed, Alone, Starting, MarkedMeansExecuted, Begun, Orderly, Whole
<1> QED
  BY <1>6, <1>7, <1>8 DEF StartInv

\* What starts have found, executed and marked agrees in every reachable state.
THEOREM StartInvariant == MigrationSpec => []StartInv
<1>1. StartInv /\ [MigrationNext]_migrationVars => StartInv'
  <2> SUFFICES ASSUME StartInv, [MigrationNext]_migrationVars PROVE StartInv'
    OBVIOUS
  <2>1. ASSUME NEW s \in Starter,
               \/ ReadTracker(s) \/ Detect(s) \/ Refused(s) \/ NextMigration(s)
               \/ ApplyStep(s) \/ ApplyEnds(s) \/ ApplyFails(s) \/ Mark(s) \/ Adopt(s)
               \/ MarkFails(s) \/ StatementFails(s) \/ Stop(s)
        PROVE  StartInv'
    <3>1. CASE Refused(s) \/ ApplyFails(s) \/ MarkFails(s) \/ StatementFails(s)
      <4>1. FailStart(s)
        BY <3>1 DEF Refused, ApplyFails, MarkFails, StatementFails
      <4> QED
        BY <4>1, FailStep
    <3>2. CASE Mark(s)
      BY <3>2, MarkStep DEF Mark
    <3>3. CASE Adopt(s)
      <4>1. (IF Current(s) = release[s] THEN "up" ELSE "adopt") \in {"next", "adopt", "up"}
        OBVIOUS
      <4> QED
        BY <3>3, <4>1, MarkStep DEF Adopt
    <3> QED
      BY <2>1, <3>1, <3>2, <3>3, ReadTrackerStep, DetectStep, NextMigrationStep,
         ApplyStepStep, ApplyEndsStep, StopStep
  <2>2. CASE \/ \E s \in Starter : Serve(s) \/ Deploy(s)
            \/ UNCHANGED migrationVars
    BY <2>2, AroundStep
  <2> QED
    BY <2>1, <2>2 DEF MigrationNext
<1> QED
  BY <1>1, InitHolds, PTL DEF MigrationSpec

\* The variables of the runner have their types: what is marked is shipped, and what the
\* database has is of a migration.
THEOREM MigrationsTypeCorrect == MigrationSpec => []MigrationTypeOK
<1>1. StartInv => MigrationTypeOK
  BY DEF StartInv
<1> QED
  BY <1>1, StartInvariant, PTL

\* A fresh database whose starts ended and were alone has executed what it has marked,
\* and a process that serves has every migration of its release marked.
THEOREM StartsTrustworthy == MigrationSpec => []StartIsTrustworthy
<1>1. StartInv => StartIsTrustworthy
  BY DEF StartInv, Undisturbed, StartIsTrustworthy, TrackHolds, MarkedMeansExecuted
<1> QED
  BY <1>1, StartInvariant, PTL

------------------------------------------------------------------------------
(* Webhooks                                                                 *)

\* What a task has counted, by where it is: an attempt that waits for its answer has been
\* counted by the receiver and not yet as missed.
Counts(t) ==
    /\ t.pc = "none" => t = NoTask
    /\ t.attempt < MaxRetries
    /\ t.pc = "sleeping" => t.attempt + 1 < MaxRetries
    /\ t.accepted <= IF t.pc = "posting" THEN t.attempt ELSE t.attempt + 1
    /\ t.accepted <= IF t.pc \in {"accepted", "delivered", "lost"} THEN t.missed + 1
                                                                  ELSE t.missed
    /\ t.missed <= IF t.pc \in {"sleeping", "failed", "lost"} THEN t.attempt + 1
                                                              ELSE t.attempt

TasksCount == \A r \in Request, h \in Hook : Counts(task[r][h])

\* A subscription that is deleted stays so, and a request that has not come to its event
\* has no task.
DeletionsHold == \A r \in Request : \A h \in closed[r] : hook[h] = "inactive"
NoneBefore ==
    \A r \in Request, h \in Hook : request[r] \in {"new", "working"} => task[r][h] = NoTask

HookInv == HookTypeOK /\ DeletionsHold /\ NoneBefore /\ NothingAfterDeletion /\ TasksCount

\* A step that only moves one task on keeps the invariant if the task counts.
LEMMA OneTaskMoves ==
    ASSUME HookInv, NEW r \in Request, NEW h \in Hook, NEW t \in Task, Counts(t),
           task[r][h].pc # "none",
           task' = [task EXCEPT ![r] = [@ EXCEPT ![h] = t]],
           UNCHANGED <<hook, test, request, closed>>
    PROVE  HookInv'
<1>1. /\ task'[r][h] = t
      /\ \A q \in Request, g \in Hook : q # r \/ g # h => task'[q][g] = task[q][g]
      /\ task' \in [Request -> [Hook -> Task]]
  BY DEF HookInv, HookTypeOK
<1>2. task[r][h] # NoTask
  BY DEF NoTask
<1>3. HookTypeOK'
  BY <1>1 DEF HookInv, HookTypeOK
<1>4. DeletionsHold' /\ TasksCount'
  BY <1>1 DEF HookInv, DeletionsHold, TasksCount
<1>5. NoneBefore' /\ NothingAfterDeletion'
  BY <1>1, <1>2 DEF HookInv, HookTypeOK, NoneBefore, NothingAfterDeletion
<1>6. QED
  BY <1>3, <1>4, <1>5 DEF HookInv

\* Each move of a task counts what it must: the bound on the tally is not reached.
LEMMA CountsMove ==
    ASSUME NEW t \in Task, Counts(t)
    PROVE  /\ t.pc = "posting" =>
                [t EXCEPT !.pc = "accepted", !.accepted = Tally(@)] \in {u \in Task : Counts(u)}
           /\ t.pc \in {"posting", "accepted", "refused", "error"} =>
                [t EXCEPT !.pc = AfterFailure(t.attempt),
                          !.missed = IF t.pc = "accepted" THEN Tally(@) ELSE @]
                   \in {u \in Task : Counts(u)}
           /\ t.pc = "sleeping" =>
                [t EXCEPT !.pc = "posting", !.attempt = Tally(@)] \in {u \in Task : Counts(u)}
<1>1. /\ MaxRetries \in Nat \ {0} /\ t.pc \in TaskPc
      /\ t.attempt \in Nat /\ t.accepted \in Nat /\ t.missed \in Nat
  BY RetriesAssumption DEF Task
<1>2. /\ Tally(t.accepted) \in Nat /\ Tally(t.missed) \in Nat /\ Tally(t.attempt) \in Nat
      /\ t.pc = "posting" => Tally(t.accepted) = t.accepted + 1
      /\ t.pc = "accepted" => Tally(t.missed) = t.missed + 1
      /\ t.pc = "sleeping" => Tally(t.attempt) = t.attempt + 1
      /\ AfterFailure(t.attempt) \in {"sleeping", "failed"}
      /\ AfterFailure(t.attempt) = "sleeping" => t.attempt + 1 < MaxRetries
  BY <1>1 DEF Tally, Counts, AfterFailure
<1>3. ASSUME t.pc = "posting"
      PROVE  [t EXCEPT !.pc = "accepted", !.accepted = Tally(@)]
                \in {u \in Task : Counts(u)}
  <2> DEFINE u == [t EXCEPT !.pc = "accepted", !.accepted = Tally(@)]
  <2>1. u \in Task
    BY <1>1, <1>2, <1>3 DEF Task, TaskPc, Settled
  <2>2. /\ u.pc = "accepted" /\ u.accepted = Tally(t.accepted)
        /\ u.attempt = t.attempt /\ u.missed = t.missed
    BY <1>1, <1>2, <1>3 DEF Task
  <2>3. Counts(u)
    <3> HIDE DEF u
    <3> QED BY <1>1, <1>2, <1>3, <2>2 DEF Counts
  <2>4. QED
    BY <2>1, <2>3
<1>4. ASSUME t.pc \in {"posting", "accepted", "refused", "error"}
      PROVE  [t EXCEPT !.pc = AfterFailure(t.attempt),
                       !.missed = IF t.pc = "accepted" THEN Tally(@) ELSE @]
                \in {u \in Task : Counts(u)}
  <2> DEFINE u == [t EXCEPT !.pc = AfterFailure(t.attempt),
                       !.missed = IF t.pc = "accepted" THEN Tally(@) ELSE @]
  <2>1. u \in Task
    BY <1>1, <1>2, <1>4 DEF Task, TaskPc, Settled
  <2>2. /\ u.pc = AfterFailure(t.attempt) /\ u.accepted = t.accepted
        /\ u.attempt = t.attempt
        /\ u.missed = IF t.pc = "accepted" THEN Tally(t.missed) ELSE t.missed
    BY <1>1, <1>2, <1>4 DEF Task
  <2>3. Counts(u)
    <3> HIDE DEF u
    <3> QED BY <1>1, <1>2, <1>4, <2>2 DEF Counts
  <2>4. QED
    BY <2>1, <2>3
<1>5. ASSUME t.pc = "sleeping"
      PROVE  [t EXCEPT !.pc = "posting", !.attempt = Tally(@)]
                \in {u \in Task : Counts(u)}
  <2> DEFINE u == [t EXCEPT !.pc = "posting", !.attempt = Tally(@)]
  <2>1. u \in Task
    BY <1>1, <1>2, <1>5 DEF Task, TaskPc, Settled
  <2>2. /\ u.pc = "posting" /\ u.accepted = t.accepted
        /\ u.attempt = Tally(t.attempt) /\ u.missed = t.missed
    BY <1>1, <1>2, <1>5 DEF Task
  <2>3. Counts(u)
    <3> HIDE DEF u
    <3> QED BY <1>1, <1>2, <1>5, <2>2 DEF Counts
  <2>4. QED
    BY <2>1, <2>3
<1>6. QED
  BY <1>3, <1>4, <1>5

\* Every step of an attempt, its answers, its timeouts and its pauses counts what it must
\* (_deliver_with_retry).
LEMMA AttemptsCount ==
    ASSUME HookInv, NEW r \in Request, NEW h \in Hook, Attempt(r, h)
    PROVE  HookInv'
<1> DEFINE t == task[r][h]
<1>1. t \in Task /\ Counts(t)
  BY DEF HookInv, HookTypeOK, TasksCount
<1>2. MaxRetries \in Nat \ {0}
  BY RetriesAssumption
<1>3. ASSUME NEW u, task' = [task EXCEPT ![r] = [@ EXCEPT ![h] = u]], u \in Task, Counts(u),
             t.pc # "none", UNCHANGED <<hook, test, request, closed>>
      PROVE  HookInv'
  BY <1>3, OneTaskMoves
<1>4. CASE Receive(r, h)
  <2>1. CASE task' = [task EXCEPT ![r][h].pc = "accepted", ![r][h].accepted = Tally(@)]
    <3> DEFINE u == [t EXCEPT !.pc = "accepted", !.accepted = Tally(@)]
    <3>1. u \in Task /\ Counts(u)
      BY <1>1, <1>4, CountsMove DEF Receive
    <3>2. task' = [task EXCEPT ![r] = [@ EXCEPT ![h] = u]]
      BY <2>1 DEF HookInv, HookTypeOK
    <3>3. QED
      BY <1>3, <1>4, <3>1, <3>2 DEF Receive
  <2>2. ASSUME NEW answer \in {"refused", "error"}, task' = [task EXCEPT ![r][h].pc = answer]
        PROVE  HookInv'
    <3> DEFINE u == [t EXCEPT !.pc = answer]
    <3>1. u \in Task /\ Counts(u)
      BY <1>1, <1>2, <1>4 DEF Receive, Task, TaskPc, Counts
    <3>2. task' = [task EXCEPT ![r] = [@ EXCEPT ![h] = u]]
      BY <2>2 DEF HookInv, HookTypeOK
    <3>3. QED
      BY <1>3, <1>4, <3>1, <3>2 DEF Receive
  <2>3. QED
    BY <1>4, <2>1, <2>2 DEF Receive
<1>5. CASE Deliver(r, h)
  <2> DEFINE u == [t EXCEPT !.pc = "delivered"]
  <2>1. u \in Task /\ Counts(u)
    BY <1>1, <1>2, <1>5 DEF Deliver, Task, TaskPc, Settled, Counts
  <2>2. task' = [task EXCEPT ![r] = [@ EXCEPT ![h] = u]]
    BY <1>5 DEF Deliver, HookInv, HookTypeOK
  <2>3. QED
    BY <1>3, <1>5, <2>1, <2>2 DEF Deliver
<1>6. CASE FailAttempt(r, h)
  <2> DEFINE u == [t EXCEPT !.pc = AfterFailure(t.attempt),
                            !.missed = IF t.pc = "accepted" THEN Tally(@) ELSE @]
  <2>1. u \in Task /\ Counts(u)
    BY <1>1, <1>6, CountsMove DEF FailAttempt
  <2>2. task' = [task EXCEPT ![r] = [@ EXCEPT ![h] = u]]
    BY <1>6 DEF FailAttempt, HookInv, HookTypeOK
  <2>3. QED
    BY <1>3, <1>6, <2>1, <2>2 DEF FailAttempt
<1>7. CASE Retry(r, h)
  <2> DEFINE u == [t EXCEPT !.pc = "posting", !.attempt = Tally(@)]
  <2>1. u \in Task /\ Counts(u)
    BY <1>1, <1>7, CountsMove DEF Retry
  <2>2. task' = [task EXCEPT ![r] = [@ EXCEPT ![h] = u]]
    BY <1>7 DEF Retry, HookInv, HookTypeOK
  <2>3. QED
    BY <1>3, <1>7, <2>1, <2>2 DEF Retry
<1>8. QED
  BY <1>4, <1>5, <1>6, <1>7 DEF Attempt

\* Whatever receivers answer, however often the program is killed and subscriptions are
\* deleted meanwhile: a task counts what the receiver accepted and what the sender missed,
\* and a task exists only of a request that has come to its event (dispatch, _deliver_with_retry).
THEOREM WebhooksInvariant == HookSpec => []HookInv
<1>1. HookInit => HookInv
  BY RetriesAssumption
     DEF HookInit, HookInv, HookTypeOK, DeletionsHold, NoneBefore, NothingAfterDeletion,
         TasksCount, Counts, NoTask, NoTest, Tests, Task, TaskPc, Stage
<1>2. HookInv /\ [HookNext]_hookVars => HookInv'
  <2> SUFFICES ASSUME HookInv, [HookNext]_hookVars
               PROVE  HookInv'
    OBVIOUS
  <2> USE DEF HookInv, DeletionsHold, NoneBefore, NothingAfterDeletion
  <2>1. ASSUME NEW h \in Hook, CreateHook(h) \/ DeleteHook(h)
        PROVE  HookInv'
    BY <2>1, ZenonT(60) DEF CreateHook, DeleteHook, HookTypeOK, TasksCount
  <2>2. ASSUME NEW h \in Hook, PostTest(h) \/ RecordTest(h)
        PROVE  HookInv'
    BY <2>2 DEF PostTest, RecordTest, HookTypeOK, Tests, NoTest, TasksCount
  <2>3. ASSUME NEW r \in Request, Begin(r)
        PROVE  HookInv'
    BY <2>3 DEF Begin, HookTypeOK, Stage, TasksCount
  <2>4. ASSUME NEW r \in Request, Announce(r)
        PROVE  HookInv'
    <3> DEFINE new == [NoTask EXCEPT !.pc = "posting"]
    <3>1. new \in Task /\ Counts(new)
      BY RetriesAssumption DEF NoTask, Task, TaskPc, Counts
    <3>2. PICK hs \in SUBSET {h \in Hook : Matches(r, h)} :
              task' = [task EXCEPT ![r] = Started(r, hs)]
      BY <2>4 DEF Announce
    <3>3. /\ \A h \in Hook : task'[r][h] = IF h \in hs THEN new ELSE NoTask
          /\ \A q \in Request : q # r => task'[q] = task[q]
          /\ task' \in [Request -> [Hook -> Task]]
      <4> HIDE DEF new
      <4>1. Started(r, hs) = [h \in Hook |-> IF h \in hs THEN new ELSE NoTask]
        BY <2>4 DEF Started, new, Announce
      <4>2. NoTask \in Task
        BY DEF NoTask, Task, TaskPc
      <4>3. QED
        BY <3>1, <3>2, <4>1, <4>2 DEF HookTypeOK
    <3>4. request' = [request EXCEPT ![r] = "announced"] /\ UNCHANGED <<hook, test, closed>>
      BY <2>4 DEF Announce
    <3> HIDE DEF new
    <3>5. HookTypeOK'
      BY <3>3, <3>4 DEF HookTypeOK, Stage
    <3>6. NothingAfterDeletion'
      <4>1. \A h \in closed[r] : h \notin hs
        BY DEF Matches
      <4>2. QED
        BY <3>3, <3>4, <4>1 DEF HookTypeOK
    <3>7. TasksCount'
      <4>1. Counts(NoTask)
        BY RetriesAssumption DEF NoTask, Counts
      <4>2. QED
        BY <3>1, <3>3, <4>1 DEF TasksCount
    <3>8. DeletionsHold' /\ NoneBefore'
      BY <3>3, <3>4 DEF HookTypeOK
    <3>9. QED
      BY <3>5, <3>6, <3>7, <3>8
  <2>5. ASSUME NEW r \in Request, Commit(r) \/ Rollback(r)
        PROVE  HookInv'
    BY <2>5 DEF Commit, Rollback, HookTypeOK, Stage, TasksCount
  <2>6. ASSUME NEW r \in Request, NEW h \in Hook, Attempt(r, h)
        PROVE  HookInv'
    BY <2>6, AttemptsCount
  <2>7. CASE Crash
    <3>1. ASSUME NEW r \in Request, NEW h \in Hook
          PROVE  /\ task'[r][h] \in Task /\ Counts(task'[r][h])
                 /\ task[r][h].pc = "none" => task'[r][h] = task[r][h]
      <4>1. task[r][h] \in Task /\ Counts(task[r][h])
        BY DEF HookTypeOK, TasksCount
      <4>2. task'[r][h] = IF task[r][h].pc \in {"none"} \cup Settled THEN task[r][h]
                          ELSE [task[r][h] EXCEPT !.pc = "lost"]
        BY <2>7 DEF Crash
      <4>3. QED
        BY <4>1, <4>2 DEF Task, TaskPc, Settled, Counts
    <3>2. HookTypeOK'
      <4>1. task' \in [Request -> [Hook -> Task]]
        BY <2>7, <3>1 DEF Crash
      <4>2. QED
        BY <2>7, <4>1 DEF Crash, HookTypeOK, Stage, Tests, NoTest
    <3>3. \A r \in Request : request'[r] \in {"new", "working"} => request[r] = "new"
      BY <2>7 DEF Crash
    <3>4. NoTask.pc = "none"
      BY DEF NoTask
    <3>5. UNCHANGED <<hook, closed>>
      BY <2>7 DEF Crash
    <3>6. TasksCount'
      BY <3>1 DEF TasksCount
    <3>7. QED
      BY <3>1, <3>2, <3>3, <3>4, <3>5, <3>6 DEF HookTypeOK
  <2>8. CASE UNCHANGED hookVars
    BY <2>8 DEF hookVars, HookTypeOK, TasksCount
  <2>9. QED
    BY <2>1, <2>2, <2>3, <2>4, <2>5, <2>6, <2>7, <2>8 DEF HookNext
<1>3. QED
  BY <1>1, <1>2, PTL DEF HookSpec

\* A subscription that was deleted before a request came to its event is sent nothing of it
\* (_load_subscriptions reads the active rows at the event).
THEOREM DeletedGetNothing == HookSpec => []NothingAfterDeletion
BY WebhooksInvariant, PTL DEF HookInv

\* For every number of retries, a receiver accepts an event once more for every answer that
\* the sender did not see, and never more often than there are attempts.
THEOREM DuplicatesAreExplained == HookSpec => []DuplicatesExplained
<1>1. HookInv => DuplicatesExplained
  <2> SUFFICES ASSUME HookInv, NEW r \in Request, NEW h \in Hook
               PROVE  /\ task[r][h].accepted <= task[r][h].missed + 1
                      /\ task[r][h].accepted <= MaxRetries
    BY DEF DuplicatesExplained
  <2>1. task[r][h] \in Task /\ Counts(task[r][h])
    BY DEF HookInv, HookTypeOK, TasksCount
  <2>2. QED
    BY <2>1, RetriesAssumption DEF Task, Counts
<1>2. QED
  BY <1>1, WebhooksInvariant, PTL

------------------------------------------------------------------------------
(* Background jobs                                                          *)

\* What a job has done, by where it is: while nothing is returned yet, every effect was
\* followed by the end of a worker, and the try under way has none.
Accounts(i) ==
    /\ i.state \in {"new", "dropped", "queued"} => i.returned = "none"
    /\ i.effects <= IF /\ i.state \in {"new", "dropped", "queued", "running"}
                       /\ i.returned = "none"
                    THEN i.interrupted ELSE i.interrupted + 1
    /\ i.effects <= i.tries /\ i.interrupted <= i.tries
    /\ i.state = "running" => /\ i.interrupted < i.tries
                              /\ i.returned = "none" => i.effects < i.tries

JobInv == JobTypeOK /\ \A j \in Job : Accounts(job[j])

\* A step changes one job to another that accounts for its effects.
LEMMA OneJobMoves ==
    ASSUME JobInv, NEW j \in Job, NEW i \in Record, Accounts(i),
           job' = [job EXCEPT ![j] = i], UNCHANGED queueUp
    PROVE  JobInv'
BY DEF JobInv, JobTypeOK

\* Every number of effects and interruptions is explained, in every reachable state.
THEOREM JobsInvariant == JobSpec => []JobInv
<1>1. JobInit => JobInv
  BY TriesAssumption DEF JobInit, NewJob, JobInv, JobTypeOK, Record, JobState, Return, Accounts
<1>2. JobInv /\ [JobNext]_jobVars => JobInv'
  <2> SUFFICES ASSUME JobInv, [JobNext]_jobVars
               PROVE  JobInv'
    OBVIOUS
  <2>1. MaxTries \in Nat \ {0}
    BY TriesAssumption
  <2>2. \A j \in Job : job[j] \in Record /\ Accounts(job[j])
    BY DEF JobInv, JobTypeOK
  <2>3. ASSUME NEW j \in Job, Enqueue(j)
        PROVE  JobInv'
    <3> DEFINE i == [job[j] EXCEPT !.state = IF queueUp THEN "queued" ELSE "dropped"]
    <3>1. i \in Record /\ Accounts(i)
      BY <2>1, <2>2, <2>3 DEF Enqueue, Record, JobState, Accounts
    <3>2. job' = [job EXCEPT ![j] = i] /\ UNCHANGED queueUp
      BY <2>3 DEF Enqueue
    <3>3. QED
      BY <3>1, <3>2, OneJobMoves
  <2>4. ASSUME NEW j \in Job, Take(j)
        PROVE  JobInv'
    <3>1. CASE job[j].tries < MaxTries
      <4> DEFINE i == [job[j] EXCEPT !.state = "running", !.tries = @ + 1]
      <4>1. i \in Record /\ Accounts(i)
        <5>1. /\ job[j].tries + 1 \in 0..MaxTries /\ job[j].state = "queued"
              /\ job[j].tries \in Nat /\ job[j].effects \in Nat /\ job[j].interrupted \in Nat
          BY <2>1, <2>2, <2>4, <3>1 DEF Take, Record
        <5>2. /\ i \in Record /\ i.state = "running" /\ i.tries = job[j].tries + 1
              /\ i.returned = job[j].returned /\ i.effects = job[j].effects
              /\ i.interrupted = job[j].interrupted
          BY <2>2, <5>1 DEF Record, JobState
        <5> HIDE DEF i
        <5>3. QED
          BY <2>2, <5>1, <5>2 DEF Accounts
      <4>2. job' = [job EXCEPT ![j] = i] /\ UNCHANGED queueUp
        BY <2>4, <3>1 DEF Take, JobInv, JobTypeOK
      <4>3. QED
        BY <4>1, <4>2, OneJobMoves
    <3>2. CASE ~(job[j].tries < MaxTries)
      <4> DEFINE i == [job[j] EXCEPT !.state = "failed"]
      <4>1. i \in Record /\ Accounts(i)
        BY <2>1, <2>2, <2>4 DEF Take, Record, JobState, Accounts
      <4>2. job' = [job EXCEPT ![j] = i] /\ UNCHANGED queueUp
        BY <2>4, <3>2 DEF Take
      <4>3. QED
        BY <4>1, <4>2, OneJobMoves
    <3>3. QED
      BY <3>1, <3>2
  <2>5. ASSUME NEW j \in Job, DoWork(j)
        PROVE  JobInv'
    <3>0. PICK n \in 0..1 :
             job' = [job EXCEPT ![j].effects = @ + n,
                                ![j].returned = IF KindOf[j] = "email" THEN "sent"
                                                                       ELSE "exported"]
      BY <2>5 DEF DoWork
    <3> DEFINE i == [job[j] EXCEPT !.effects = @ + n,
                                   !.returned = IF KindOf[j] = "email" THEN "sent"
                                                                       ELSE "exported"]
    <3>1. i \in Record /\ Accounts(i)
      <4>1. /\ job[j].state = "running" /\ job[j].returned = "none"
            /\ job[j].tries \in 0..MaxTries /\ job[j].effects \in Nat
            /\ job[j].interrupted \in Nat
        BY <2>1, <2>2, <2>5 DEF DoWork, Record
      <4>2. job[j].effects + n \in 0..MaxTries
        BY <2>1, <2>2, <4>1 DEF Accounts
      <4>3. /\ i \in Record /\ i.state = "running" /\ i.tries = job[j].tries
            /\ i.returned \in {"sent", "exported"} /\ i.effects = job[j].effects + n
            /\ i.interrupted = job[j].interrupted
        BY <2>2, <4>1, <4>2 DEF Record, Return
      <4> HIDE DEF i
      <4>4. QED
        BY <2>2, <4>1, <4>3 DEF Accounts
    <3>2. job' = [job EXCEPT ![j] = i] /\ UNCHANGED queueUp
      BY <2>5, <3>0 DEF DoWork, JobInv, JobTypeOK
    <3>3. QED
      BY <3>1, <3>2, OneJobMoves
  <2>6. ASSUME NEW j \in Job, NEW state \in {"complete", "failed"}, NEW returned \in Return,
               Finish(j, state, returned), job[j].state = "running"
        PROVE  JobInv'
    <3> DEFINE i == [job[j] EXCEPT !.state = state, !.returned = returned]
    <3>1. i \in Record /\ Accounts(i)
      <4>1. /\ job[j].tries \in Nat /\ job[j].effects \in Nat
            /\ job[j].interrupted \in Nat
        BY <2>1, <2>2 DEF Record
      <4>2. /\ i \in Record /\ i.state = state /\ i.tries = job[j].tries
            /\ i.returned = returned /\ i.effects = job[j].effects
            /\ i.interrupted = job[j].interrupted
        BY <2>2 DEF Record, JobState
      <4> HIDE DEF i
      <4>3. QED
        BY <2>2, <2>6, <4>1, <4>2 DEF Accounts
    <3>2. job' = [job EXCEPT ![j] = i] /\ UNCHANGED queueUp
      BY <2>6 DEF Finish, JobInv, JobTypeOK
    <3>3. QED
      BY <3>1, <3>2, OneJobMoves
  <2>7. ASSUME NEW j \in Job, SkipWebhook(j) \/ Fail(j)
        PROVE  JobInv'
    <3>1. ASSUME NEW n \in 0..1, job[j].state = "running", job[j].returned = "none",
                 job' = [job EXCEPT ![j].state = "complete", ![j].returned = "error",
                                    ![j].effects = @ + n],
                 UNCHANGED queueUp
          PROVE  JobInv'
      <4> DEFINE i == [job[j] EXCEPT !.state = "complete", !.returned = "error",
                                     !.effects = @ + n]
      <4>1. i \in Record /\ Accounts(i)
        <5>1. /\ job[j].tries \in 0..MaxTries /\ job[j].effects \in Nat
              /\ job[j].interrupted \in Nat
          BY <2>1, <2>2 DEF Record
        <5>2. job[j].effects + n \in 0..MaxTries
          BY <2>1, <2>2, <3>1, <5>1 DEF Accounts
        <5>3. /\ i \in Record /\ i.state = "complete" /\ i.tries = job[j].tries
              /\ i.returned = "error" /\ i.effects = job[j].effects + n
              /\ i.interrupted = job[j].interrupted
          BY <2>2, <5>2 DEF Record, JobState, Return
        <5> HIDE DEF i
        <5>4. QED
          BY <2>2, <3>1, <5>1, <5>3 DEF Accounts
      <4>2. job' = [job EXCEPT ![j] = i]
        BY <3>1 DEF JobInv, JobTypeOK
      <4>3. QED
        BY <3>1, <4>1, <4>2, OneJobMoves
    <3>2. CASE SkipWebhook(j) \/ Finish(j, "failed", "none")
      BY <2>6, <2>7, <3>2 DEF SkipWebhook, Fail, Return
    <3>3. QED
      BY <2>7, <3>1, <3>2 DEF Fail
  <2>8. ASSUME NEW j \in Job, Succeed(j)
        PROVE  JobInv'
    <3>1. job[j].returned \in Return
      BY <2>2 DEF Record
    <3>2. QED
      BY <2>6, <2>8, <3>1 DEF Succeed
  <2>9. CASE WorkerEnds
    <3>1. ASSUME NEW j \in Job
          PROVE  job'[j] \in Record /\ Accounts(job'[j])
      <4> DEFINE i == [job[j] EXCEPT !.state = "queued", !.returned = "none",
                                     !.interrupted = @ + 1]
      <4>1. ASSUME job[j].state = "running"
            PROVE  i \in Record /\ Accounts(i)
        <5>1. /\ job[j].tries \in 0..MaxTries /\ job[j].effects \in Nat
              /\ job[j].interrupted \in Nat
          BY <2>1, <2>2 DEF Record
        <5>2. job[j].interrupted + 1 \in 0..MaxTries
          BY <2>1, <2>2, <4>1, <5>1 DEF Accounts
        <5>3. /\ i \in Record /\ i.state = "queued" /\ i.tries = job[j].tries
              /\ i.returned = "none" /\ i.effects = job[j].effects
              /\ i.interrupted = job[j].interrupted + 1
          BY <2>2, <5>2 DEF Record, JobState, Return
        <5> HIDE DEF i
        <5>4. QED
          BY <2>2, <4>1, <5>1, <5>3 DEF Accounts
      <4>2. job'[j] = IF job[j].state = "running" THEN i ELSE job[j]
        BY <2>9 DEF WorkerEnds
      <4>3. QED
        BY <2>2, <4>1, <4>2
    <3>2. job' = [j \in Job |-> job'[j]] /\ queueUp' = queueUp
      BY <2>9 DEF WorkerEnds
    <3>3. QED
      BY <3>1, <3>2 DEF JobInv, JobTypeOK
  <2>10. CASE QueueFails \/ QueueRecovers \/ UNCHANGED jobVars
    BY <2>10 DEF QueueFails, QueueRecovers, jobVars, JobInv, JobTypeOK
  <2>11. QED
    BY <2>3, <2>4, <2>5, <2>7, <2>8, <2>9, <2>10 DEF JobNext, Work
<1>3. QED
  BY <1>1, <1>2, PTL DEF JobSpec

\* A job has its effect at most once more for every worker that was killed in it, and never
\* more often than there are tries, for any number of jobs and tries (jobs.py,
\* WorkerSettings).
THEOREM EffectsAreExplained == JobSpec => []EffectsExplained
<1>1. JobInv => EffectsExplained
  <2> SUFFICES ASSUME JobInv, NEW j \in Job
               PROVE  /\ job[j].effects <= job[j].interrupted + 1
                      /\ job[j].effects <= MaxTries
    BY DEF EffectsExplained
  <2>1. job[j] \in Record /\ Accounts(job[j])
    BY DEF JobInv, JobTypeOK
  <2>2. QED
    BY <2>1, TriesAssumption DEF Record, Accounts
<1>2. QED
  BY <1>1, JobsInvariant, PTL

------------------------------------------------------------------------------
(* The rate limiter                                                         *)

\* The sums over the ages are the ones that the recursion says, and numbers.
LEMMA RunningSums ==
    ASSUME NEW N \in Nat, NEW counts \in [0..N -> Nat]
    PROVE  /\ Running(counts) \in [0..N -> Nat]
           /\ \A n \in 0..N : Running(counts)[n] =
                 counts[n] + (IF n = 0 THEN 0 ELSE Running(counts)[n - 1])
<1> DEFINE below == [n \in 0..N |-> IF n = 0 THEN 0 ELSE n - 1]
           step  == [n \in 0..N |-> [v \in Nat |-> counts[n] + v]]
           Sums(f) == f = [n \in 0..N |-> counts[n] + (IF n = 0 THEN 0 ELSE f[n - 1])]
<1>1. /\ below \in [0..N -> 0..N] /\ step \in [0..N -> [Nat -> Nat]]
      /\ {0} \in SUBSET (0..N) /\ \A n \in (0..N) \ {0} : below[n] < n
  OBVIOUS
<1>2. PICK f \in [0..N -> Nat] : \A n \in 0..N :
          f[n] = IF n \in {0} THEN counts[n] ELSE step[n][f[below[n]]]
  <2>1. IsRecursion(N, Nat, {0}, counts, below, step)
    <3> HIDE DEF below, step
    <3> QED BY <1>1 DEF IsRecursion
  <2>2. HasSolution(N, Nat, {0}, counts, below, step)
    BY <2>1, RecursionExists
  <2>3. QED
    BY <2>2 DEF HasSolution
<1>3. ASSUME NEW n \in 0..N
      PROVE  f[n] = counts[n] + (IF n = 0 THEN 0 ELSE f[n - 1])
  <2>1. CASE n = 0
    <3> HIDE DEF below, step
    <3> QED BY <1>2, <2>1
  <2>2. CASE n # 0
    <3>1. below[n] = n - 1 /\ n - 1 \in 0..N
      BY <2>2
    <3>2. f[n - 1] \in Nat
      BY <3>1
    <3>3. step[n][f[n - 1]] = counts[n] + f[n - 1]
      BY <3>2
    <3> HIDE DEF below, step
    <3>4. QED
      BY <1>2, <2>2, <3>1, <3>3
  <2>3. QED
    BY <2>1, <2>2
<1>4. Sums(f)
  BY <1>3
<1>5. Running(counts) = CHOOSE g : Sums(g)
  BY DEF Running
<1>6. Sums(Running(counts))
  <2> HIDE DEF Sums
  <2> QED BY <1>4, <1>5
<1>7. \A n \in 0..N : Running(counts)[n] =
          counts[n] + (IF n = 0 THEN 0 ELSE Running(counts)[n - 1])
  <2> DEFINE body(n) == counts[n] + (IF n = 0 THEN 0 ELSE Running(counts)[n - 1])
  <2>1. Running(counts) = [n \in 0..N |-> body(n)]
    BY <1>6
  <2> HIDE DEF body
  <2>2. \A n \in 0..N : Running(counts)[n] = body(n)
    BY <2>1
  <2>3. QED
    BY <2>2 DEF body
<1>8. Running(counts) \in [0..N -> Nat]
  <2> DEFINE S == {n \in 0..N : Running(counts)[n] \in Nat}
  <2>1. 0 \in S
    BY <1>7
  <2>2. ASSUME NEW n \in 0..N, n < N, n \in S
        PROVE  n + 1 \in S
    <3>1. n + 1 \in 0..N /\ n + 1 # 0 /\ (n + 1) - 1 = n
      BY <2>2
    <3>2. Running(counts)[n + 1] = counts[n + 1] + Running(counts)[n]
      BY <1>7, <3>1
    <3>3. QED
      BY <2>2, <3>1, <3>2
  <2>4. 0..N \subseteq S
    <3> HIDE DEF S
    <3> QED BY <2>1, <2>2, UpTo
  <2>3. Running(counts) = [n \in 0..N |-> Running(counts)[n]]
    BY <1>6
  <2>5. QED
    BY <2>3, <2>4
<1>9. QED
  BY <1>7, <1>8

\* The total is the last of the sums, and a number.
LEMMA TotalIsLast ==
    ASSUME NEW N \in Nat, NEW counts \in [0..N -> Nat]
    PROVE  Total(counts) = Running(counts)[N] /\ Total(counts) \in Nat
<1>1. Cardinality(0..N) = N + 1
  BY FS_Interval
<1>2. DOMAIN counts = 0..N
  OBVIOUS
<1>3. Running(counts)[N] \in Nat
  BY RunningSums
<1>4. QED
  BY <1>1, <1>2, <1>3 DEF Total

\* Where no age has more, the total is not higher.
LEMMA TotalIsMonotonic ==
    ASSUME NEW N \in Nat, NEW c \in [0..N -> Nat], NEW d \in [0..N -> Nat],
           \A n \in 0..N : c[n] <= d[n]
    PROVE  Total(c) <= Total(d)
<1> DEFINE S == {n \in 0..N : Running(c)[n] <= Running(d)[n]}
<1>1. /\ Running(c) \in [0..N -> Nat] /\ Running(d) \in [0..N -> Nat]
      /\ \A n \in 0..N : Running(c)[n] = c[n] + (IF n = 0 THEN 0 ELSE Running(c)[n - 1])
      /\ \A n \in 0..N : Running(d)[n] = d[n] + (IF n = 0 THEN 0 ELSE Running(d)[n - 1])
  BY RunningSums
<1>2. 0 \in S
  BY <1>1
<1>3. ASSUME NEW n \in 0..N, n < N, n \in S
      PROVE  n + 1 \in S
  <2>1. /\ n + 1 \in 0..N /\ n + 1 # 0 /\ (n + 1) - 1 = n
        /\ c[n + 1] <= d[n + 1] /\ c[n + 1] \in Nat /\ d[n + 1] \in Nat
    BY <1>3
  <2>2. /\ Running(c)[n + 1] = c[n + 1] + Running(c)[n]
        /\ Running(d)[n + 1] = d[n + 1] + Running(d)[n]
    BY <1>1, <2>1
  <2>3. /\ Running(c)[n] \in Nat /\ Running(d)[n] \in Nat
        /\ Running(c)[n] <= Running(d)[n]
    BY <1>1, <1>3
  <2>4. Running(c)[n + 1] <= Running(d)[n + 1]
    BY <2>1, <2>2, <2>3
  <2>5. QED
    BY <2>1, <2>4
<1>4. 0..N \subseteq S
  <2> HIDE DEF S
  <2> QED BY <1>2, <1>3, UpTo
<1>5. QED
  BY <1>4, TotalIsLast

\* Nothing adds up to nothing.
LEMMA TotalOfNone ==
    ASSUME NEW N \in Nat
    PROVE  Total([n \in 0..N |-> 0]) = 0
<1> DEFINE z == [n \in 0..N |-> 0]
           S == {n \in 0..N : Running(z)[n] = 0}
<1>1. z \in [0..N -> Nat] /\ \A n \in 0..N : z[n] = 0
  OBVIOUS
<1>2. /\ Running(z) \in [0..N -> Nat]
      /\ \A n \in 0..N : Running(z)[n] = z[n] + (IF n = 0 THEN 0 ELSE Running(z)[n - 1])
  <2> HIDE DEF z
  <2> QED BY <1>1, RunningSums
<1> HIDE DEF z
<1>3. 0 \in S
  BY <1>1, <1>2
<1>4. ASSUME NEW n \in 0..N, n < N, n \in S
      PROVE  n + 1 \in S
  <2>1. n + 1 \in 0..N /\ n + 1 # 0 /\ (n + 1) - 1 = n
    BY <1>4
  <2>2. QED
    BY <1>1, <1>2, <1>4, <2>1
<1>5. 0..N \subseteq S
  <2> HIDE DEF S
  <2> QED BY <1>3, <1>4, UpTo
<1>6. QED
  BY <1>1, <1>5, TotalIsLast DEF z

\* One admission more, whatever its age, is one more in all.
LEMMA TotalOfOneMore ==
    ASSUME NEW N \in Nat, NEW c \in [0..N -> Nat]
    PROVE  LET d == [c EXCEPT ![0] = @ + 1]
           IN  d \in [0..N -> Nat] /\ Total(d) = Total(c) + 1
<1> DEFINE d == [c EXCEPT ![0] = @ + 1]
           S == {n \in 0..N : Running(d)[n] = Running(c)[n] + 1}
<1>1. /\ d \in [0..N -> Nat] /\ d[0] = c[0] + 1
      /\ \A n \in 0..N : n # 0 => d[n] = c[n]
  OBVIOUS
<1> HIDE DEF d
<1>2. /\ Running(c) \in [0..N -> Nat]
      /\ \A n \in 0..N : Running(c)[n] = c[n] + (IF n = 0 THEN 0 ELSE Running(c)[n - 1])
      /\ \A n \in 0..N : Running(d)[n] = d[n] + (IF n = 0 THEN 0 ELSE Running(d)[n - 1])
  BY <1>1, RunningSums
<1>3. 0 \in S
  BY <1>1, <1>2
<1>4. ASSUME NEW n \in 0..N, n < N, n \in S
      PROVE  n + 1 \in S
  <2>1. n + 1 \in 0..N /\ n + 1 # 0 /\ (n + 1) - 1 = n
    BY <1>4
  <2>2. /\ Running(c)[n + 1] = c[n + 1] + Running(c)[n]
        /\ Running(d)[n + 1] = c[n + 1] + Running(d)[n]
    BY <1>1, <1>2, <2>1
  <2>3. QED
    BY <1>2, <1>4, <2>1, <2>2
<1>5. 0..N \subseteq S
  <2> HIDE DEF S
  <2> QED BY <1>3, <1>4, UpTo
<1>6. Running(d)[N] = Running(c)[N] + 1
  BY <1>5
<1>7. Total(d) = Running(d)[N] /\ Total(c) = Running(c)[N]
  <2> HIDE DEF S
  <2> QED BY <1>1, TotalIsLast
<1>8. QED
  BY <1>1, <1>6, <1>7 DEF d

\* What grows older is lost at the end of the window, and never counted twice.
LEMMA TotalOfOlder ==
    ASSUME NEW N \in Nat, NEW c \in [0..N -> Nat]
    PROVE  Older(c) \in [0..N -> Nat] /\ Total(Older(c)) <= Total(c)
<1> DEFINE d == Older(c)
           S == {n \in 0..N : Running(d)[n] <= Running(c)[n]}
           before(n) == IF n = 0 THEN 0 ELSE Running(c)[n - 1]
           T == {n \in 0..N : Running(d)[n] = before(n)}
<1>1. /\ d \in [0..N -> Nat] /\ d[0] = 0
      /\ \A n \in 0..N : n # 0 => d[n] = c[n - 1]
  BY DEF Older
<1> HIDE DEF d
<1>2. /\ Running(c) \in [0..N -> Nat] /\ Running(d) \in [0..N -> Nat]
      /\ \A n \in 0..N : Running(c)[n] = c[n] + (IF n = 0 THEN 0 ELSE Running(c)[n - 1])
      /\ \A n \in 0..N : Running(d)[n] = d[n] + (IF n = 0 THEN 0 ELSE Running(d)[n - 1])
  BY <1>1, RunningSums
<1>3. 0 \in T
  BY <1>1, <1>2
<1>4. ASSUME NEW n \in 0..N, n < N, n \in T
      PROVE  n + 1 \in T
  <2>1. n + 1 \in 0..N /\ n + 1 # 0 /\ (n + 1) - 1 = n
    BY <1>4
  <2>2. d[n + 1] = c[n] /\ before(n + 1) = Running(c)[n]
    BY <1>1, <2>1
  <2>3. Running(d)[n + 1] = c[n] + Running(d)[n] /\ Running(c)[n] = c[n] + before(n)
    BY <1>2, <2>1, <2>2
  <2>4. QED
    BY <1>4, <2>1, <2>2, <2>3
<1>5. 0..N \subseteq T
  <2> HIDE DEF T
  <2> QED BY <1>3, <1>4, UpTo
<1>6. Running(d)[N] = before(N) /\ Running(c)[N] = c[N] + before(N)
  BY <1>2, <1>5
<1>7. before(N) <= Running(c)[N]
  BY <1>2, <1>6
<1>8. QED
  BY <1>1, <1>6, <1>7, TotalIsLast DEF d

------------------------------------------------------------------------------
\* What Redis holds of a plan is within the plan, and as long as it serves every worker all
\* that was admitted is among it.
SharedWithinPlan == \A t \in Tier : LimitOf[t] # Unlimited => Total(shared[t]) <= LimitOf[t]
CalmIsServed     == calm > 0 => Serving
CalmIsCounted    == \A a \in SharedAge : a < calm => granted[a] <= shared[tier][a]

LimiterInv == LimiterTypeOK /\ SharedWithinPlan /\ CalmIsServed /\ CalmIsCounted

\* One admission more that the script allows keeps a plan within its limit.
LEMMA AdmissionWithinPlan ==
    ASSUME LimiterInv, Limited, Total(shared[tier]) < LimitOf[tier],
           shared' = [shared EXCEPT ![tier][0] = @ + 1]
    PROVE  /\ shared' \in [Tier -> [SharedAge -> Nat]] /\ SharedWithinPlan'
           /\ shared'[tier][0] = shared[tier][0] + 1
           /\ \A a \in SharedAge : a # 0 => shared'[tier][a] = shared[tier][a]
<1> DEFINE c == shared[tier]
           d == [c EXCEPT ![0] = @ + 1]
<1>1. Window - 1 \in Nat /\ SharedAge = 0..(Window - 1)
  BY WindowAssumption DEF SharedAge
<1>2. tier \in Tier /\ c \in [0..(Window - 1) -> Nat] /\ shared \in [Tier -> [SharedAge -> Nat]]
  BY <1>1 DEF LimiterInv, LimiterTypeOK
<1>3. d \in [0..(Window - 1) -> Nat] /\ Total(d) = Total(c) + 1 /\ Total(c) \in Nat
  BY <1>1, <1>2, TotalOfOneMore, TotalIsLast
<1>4. shared' = [shared EXCEPT ![tier] = d]
  OBVIOUS
<1>5. LimitOf[tier] \in Nat
  BY <1>2, LimitAssumption DEF Limited
<1>6. d[0] = c[0] + 1 /\ \A a \in SharedAge : a # 0 => d[a] = c[a]
  BY <1>1, <1>2
<1> HIDE DEF d
<1>7. \A t \in Tier : shared'[t] = IF t = tier THEN d ELSE shared[t]
  BY <1>2, <1>4
<1>8. SharedWithinPlan'
  BY <1>3, <1>5, <1>7 DEF LimiterInv, SharedWithinPlan
<1>9. QED
  BY <1>1, <1>2, <1>3, <1>4, <1>6, <1>7, <1>8

\* The fallback in the process counts numbers.
LEMMA AdmitOrRefuseType ==
    ASSUME LimiterTypeOK, NEW w \in Worker, AdmitOrRefuse(w)
    PROVE  local' \in [Worker -> [LocalAge -> Nat]] /\ granted' \in [SharedAge -> Nat]
<1>1. 0 \in LocalAge /\ 0 \in SharedAge
  BY WindowAssumption DEF LocalAge, SharedAge
<1>2. CASE UNCHANGED <<local, granted>>
  BY <1>2 DEF LimiterTypeOK
<1>3. CASE /\ local' = [local EXCEPT ![w][0] = @ + 1]
           /\ granted' = [granted EXCEPT ![0] = Counted(@)]
  <2>1. local[w][0] + 1 \in Nat /\ Counted(granted[0]) \in Nat
    BY <1>1, WindowAssumption DEF LimiterTypeOK, Counted
  <2>2. QED
    BY <1>1, <1>3, <2>1 DEF LimiterTypeOK
<1>4. QED
  BY <1>2, <1>3 DEF AdmitOrRefuse

\* Whatever fails, restarts or changes plan, the window in Redis holds no more than the plan
\* allows, and what it has granted since the last disturbance is counted in it
\* (_LUA_SLIDING_WINDOW, RedisRateLimiter.check).
THEOREM LimiterInvariant == LimiterSpec => []LimiterInv
<1>0. /\ Window \in Nat \ {0} /\ Window - 1 \in Nat /\ SharedAge = 0..(Window - 1)
      /\ LocalAge = 0..Window /\ 0 \in SharedAge
  BY WindowAssumption DEF SharedAge, LocalAge
<1>0a. 0 \in 0..Window
  BY <1>0
<1>0b. NoEntries \in [Tier -> [SharedAge -> Nat]] /\ \A t \in Tier : Total(NoEntries[t]) = 0
  <2>1. \A t \in Tier : NoEntries[t] = [a \in 0..(Window - 1) |-> 0]
    BY <1>0 DEF NoEntries
  <2>2. QED
    BY <1>0, <2>1, TotalOfNone DEF NoEntries
<1>0c. ASSUME NEW t \in Tier, LimitOf[t] # Unlimited
      PROVE  LimitOf[t] \in Nat
  BY <1>0c, LimitAssumption
<1>1. LimiterInit => LimiterInv
  <2> SUFFICES ASSUME LimiterInit PROVE LimiterInv
    OBVIOUS
  <2>1. LimiterTypeOK
    BY <1>0, <1>0b DEF LimiterInit, LimiterTypeOK
  <2>2. SharedWithinPlan
    BY <1>0b, <1>0c DEF LimiterInit, SharedWithinPlan
  <2>3. CalmIsServed
    BY DEF LimiterInit, CalmIsServed, Serving
  <2>4. CalmIsCounted
    BY <1>0 DEF LimiterInit, CalmIsCounted, NoEntries
  <2>5. QED
    BY <2>1, <2>2, <2>3, <2>4 DEF LimiterInv
<1>2. LimiterInv /\ [LimiterNext]_limiterVars => LimiterInv'
  <2> SUFFICES ASSUME LimiterInv, [LimiterNext]_limiterVars
               PROVE  LimiterInv'
    OBVIOUS
  <2> DEFINE Kept == calm' = IF Serving /\ Serving' /\ tier' = tier THEN calm ELSE 0
  <2>1. ASSUME NEW w \in Worker, AdmitShared(w), Kept
        PROVE  LimiterInv'
    <3>1. /\ shared' = [shared EXCEPT ![tier][0] = @ + 1] /\ Limited
          /\ Total(shared[tier]) < LimitOf[tier]
          /\ granted' = [granted EXCEPT ![0] = Counted(@)]
          /\ UNCHANGED <<redisUp, held, tier, local>>
      BY <2>1 DEF AdmitShared
    <3>2. /\ shared' \in [Tier -> [SharedAge -> Nat]] /\ SharedWithinPlan'
          /\ shared'[tier][0] = shared[tier][0] + 1
          /\ \A a \in SharedAge : a # 0 => shared'[tier][a] = shared[tier][a]
      BY <3>1, AdmissionWithinPlan
    <3>3. /\ granted'[0] = Counted(granted[0]) /\ granted'[0] \in Nat
          /\ granted'[0] <= granted[0] + 1
          /\ \A a \in SharedAge : a # 0 => granted'[a] = granted[a]
          /\ granted' \in [SharedAge -> Nat]
      <4>1. granted[0] \in Nat
        BY <1>0 DEF LimiterInv, LimiterTypeOK
      <4>2. Counted(granted[0]) \in Nat /\ Counted(granted[0]) <= granted[0] + 1
        BY <4>1, WindowAssumption DEF Counted
      <4>3. QED
        BY <1>0, <3>1, <4>2 DEF LimiterInv, LimiterTypeOK
    <3>4. Serving' <=> Serving
      BY <3>1 DEF Serving
    <3>5. calm' \in 0..Window /\ calm' <= calm /\ (calm' > 0 => Serving)
      BY <1>0, <2>1, <3>4 DEF LimiterInv, LimiterTypeOK
    <3>6. LimiterTypeOK'
      BY <3>1, <3>2, <3>3, <3>5 DEF LimiterInv, LimiterTypeOK
    <3>7. CalmIsCounted'
      <4> SUFFICES ASSUME NEW a \in SharedAge, a < calm'
                   PROVE  granted'[a] <= shared'[tier][a]
        BY <3>1 DEF CalmIsCounted
      <4>1. /\ a < calm /\ granted[a] <= shared[tier][a]
            /\ granted[a] \in Nat /\ shared[tier][a] \in Nat
        BY <1>0, <3>5 DEF LimiterInv, LimiterTypeOK, CalmIsCounted
      <4>2. QED
        BY <3>2, <3>3, <4>1
    <3>8. QED
      BY <3>2, <3>4, <3>5, <3>6, <3>7 DEF LimiterInv, CalmIsServed
  <2>2. ASSUME LimiterTypeOK', SharedWithinPlan', calm' = 0
        PROVE  LimiterInv'
    BY <1>0, <2>2 DEF LimiterInv, CalmIsServed, CalmIsCounted
  <2>3. ASSUME NEW w \in Worker, FailOver(w), Kept
        PROVE  LimiterInv'
    <3>1. /\ held' = [held EXCEPT ![w] = FALSE] /\ AdmitOrRefuse(w)
          /\ UNCHANGED <<redisUp, tier>> /\ Limited
          /\ \/ UNCHANGED shared
             \/ /\ redisUp /\ Total(shared[tier]) < LimitOf[tier]
                /\ shared' = [shared EXCEPT ![tier][0] = @ + 1]
      BY <2>3 DEF FailOver
    <3>2. ~Serving'
      BY <3>1 DEF Serving, LimiterInv, LimiterTypeOK
    <3>3. shared' \in [Tier -> [SharedAge -> Nat]] /\ SharedWithinPlan'
      BY <3>1, AdmissionWithinPlan DEF LimiterInv, LimiterTypeOK, SharedWithinPlan
    <3>4. calm' = 0
      BY <2>3, <3>2
    <3>5. LimiterTypeOK'
      <4>1. local' \in [Worker -> [LocalAge -> Nat]] /\ granted' \in [SharedAge -> Nat]
        BY <3>1, AdmitOrRefuseType DEF LimiterInv
      <4>2. QED
        BY <1>0a, <3>1, <3>3, <3>4, <4>1 DEF LimiterInv, LimiterTypeOK
    <3>6. QED
      BY <2>2, <3>3, <3>4, <3>5
  <2>4. ASSUME NEW w \in Worker, AdmitLocal(w), Kept
        PROVE  LimiterInv'
    <3>1. ~held[w] /\ AdmitOrRefuse(w) /\ UNCHANGED <<redisUp, held, tier, shared>>
      BY <2>4 DEF AdmitLocal
    <3>2. calm' = 0
      BY <2>4, <3>1 DEF Serving
    <3>3. LimiterTypeOK' /\ SharedWithinPlan'
      <4>1. local' \in [Worker -> [LocalAge -> Nat]] /\ granted' \in [SharedAge -> Nat]
        BY <3>1, AdmitOrRefuseType DEF LimiterInv
      <4>2. QED
        BY <1>0a, <3>1, <3>2, <4>1 DEF LimiterInv, LimiterTypeOK, SharedWithinPlan
    <3>4. QED
      BY <2>2, <3>2, <3>3
  <2>5. ASSUME UNCHANGED <<tier, shared, local, granted>>, redisUp' \in BOOLEAN,
               held' \in [Worker -> BOOLEAN], Kept
        PROVE  LimiterInv'
    <3>1. LimiterTypeOK' /\ SharedWithinPlan'
      BY <1>0, <2>5 DEF LimiterInv, LimiterTypeOK, SharedWithinPlan
    <3>2. CASE calm' = 0
      BY <2>2, <3>1, <3>2
    <3>3. CASE calm' # 0
      BY <2>5, <3>1, <3>3 DEF LimiterInv, CalmIsServed, CalmIsCounted
    <3>4. QED
      BY <3>2, <3>3
  <2>6. ASSUME NEW w \in Worker, Probe(w), Kept
        PROVE  LimiterInv'
    <3>1. redisUp' \in BOOLEAN /\ held' \in [Worker -> BOOLEAN]
      BY <2>6 DEF Probe, LimiterInv, LimiterTypeOK
    <3>2. QED
      BY <2>5, <2>6, <3>1 DEF Probe
  <2>7. CASE RedisFails /\ Kept
    <3>1. redisUp' \in BOOLEAN /\ held' \in [Worker -> BOOLEAN]
      BY <2>7 DEF RedisFails, LimiterInv, LimiterTypeOK
    <3>2. QED
      BY <2>5, <2>7, <3>1 DEF RedisFails
  <2>8. CASE RedisRecovers /\ Kept
    <3>1. ~redisUp /\ redisUp' = TRUE /\ shared' \in {shared, NoEntries}
          /\ UNCHANGED <<held, tier, local, granted>>
      BY <2>8 DEF RedisRecovers
    <3>2. calm' = 0
      BY <2>8, <3>1 DEF Serving
    <3>3. SharedWithinPlan'
      BY <1>0b, <1>0c, <3>1 DEF LimiterInv, SharedWithinPlan
    <3>4. LimiterTypeOK'
      <4>1. shared' \in [Tier -> [SharedAge -> Nat]] /\ calm' \in 0..Window
        BY <1>0a, <1>0b, <3>1, <3>2 DEF LimiterInv, LimiterTypeOK
      <4>2. QED
        BY <3>1, <4>1 DEF LimiterInv, LimiterTypeOK
    <3>5. QED
      BY <2>2, <3>2, <3>3, <3>4
  <2>9. ASSUME NEW t \in Tier, ChangePlan(t), Kept
        PROVE  LimiterInv'
    <3>1. calm' = 0
      BY <2>9 DEF ChangePlan
    <3>2. LimiterTypeOK' /\ SharedWithinPlan'
      BY <1>0a, <2>9, <3>1 DEF ChangePlan, LimiterInv, LimiterTypeOK, SharedWithinPlan
    <3>3. QED
      BY <2>2, <3>1, <3>2
  <2>10. CASE Tick /\ calm' = IF Serving /\ calm < Window THEN calm + 1 ELSE calm
    <3>1. /\ \A t \in Tier : shared'[t] = Older(shared[t])
          /\ granted' = Older(granted) /\ UNCHANGED <<redisUp, held, tier>>
          /\ shared' = [t \in Tier |-> Older(shared[t])]
          /\ local' = [w \in Worker |-> Older(local[w])]
      BY <2>10 DEF Tick
    <3>2. /\ \A t \in Tier : shared[t] \in [0..(Window - 1) -> Nat]
          /\ granted \in [0..(Window - 1) -> Nat]
          /\ \A w \in Worker : local[w] \in [0..Window -> Nat]
          /\ calm \in 0..Window /\ tier \in Tier
      BY <1>0 DEF LimiterInv, LimiterTypeOK
    <3>3. \A t \in Tier : /\ Older(shared[t]) \in [0..(Window - 1) -> Nat]
                          /\ Total(Older(shared[t])) <= Total(shared[t])
                          /\ Total(shared[t]) \in Nat /\ Total(Older(shared[t])) \in Nat
      BY <1>0, <3>2, TotalOfOlder, TotalIsLast
    <3>4. /\ Older(granted) \in [0..(Window - 1) -> Nat]
          /\ \A w \in Worker : Older(local[w]) \in [0..Window -> Nat]
      BY <1>0, <3>2, TotalOfOlder
    <3>5. calm' \in 0..Window /\ (calm' > 0 => calm > 0 \/ Serving) /\ calm' <= calm + 1
      BY <1>0, <2>10, <3>2
    <3>6. LimiterTypeOK'
      BY <1>0, <3>1, <3>3, <3>4, <3>5 DEF LimiterInv, LimiterTypeOK
    <3>7. SharedWithinPlan'
      BY <1>0c, <3>1, <3>3 DEF LimiterInv, SharedWithinPlan
    <3>8. CalmIsServed'
      BY <3>1, <3>5 DEF LimiterInv, CalmIsServed, Serving
    <3>9. CalmIsCounted'
      <4> SUFFICES ASSUME NEW a \in SharedAge, a < calm'
                   PROVE  granted'[a] <= shared'[tier][a]
        BY <3>1 DEF CalmIsCounted
      <4>1. /\ granted'[a] = IF a = 0 THEN 0 ELSE granted[a - 1]
            /\ shared'[tier][a] = IF a = 0 THEN 0 ELSE shared[tier][a - 1]
        BY <1>0, <3>1, <3>2 DEF Older
      <4>2. a # 0 => a - 1 \in SharedAge /\ a - 1 < calm
        BY <1>0, <3>2, <3>5
      <4>3. QED
        BY <4>1, <4>2 DEF LimiterInv, CalmIsCounted
    <3>10. QED
      BY <3>6, <3>7, <3>8, <3>9 DEF LimiterInv
  <2>11. CASE UNCHANGED limiterVars
    BY <2>11 DEF limiterVars, LimiterInv, LimiterTypeOK, SharedWithinPlan, CalmIsServed,
                 CalmIsCounted, Serving
  <2>12. QED
    BY <2>1, <2>3, <2>4, <2>6, <2>7, <2>8, <2>9, <2>10, <2>11 DEF LimiterNext
<1>3. QED
  BY <1>1, <1>2, PTL DEF LimiterSpec

\* For every window and every limit: once a whole window has passed without a disturbance,
\* all workers together have admitted within it no more than the plan allows.
THEOREM WindowsHold == LimiterSpec => []WindowHolds
<1>1. LimiterInv => WindowHolds
  <2> SUFFICES ASSUME LimiterInv, calm = Window, Limited
               PROVE  Total(granted) <= LimitOf[tier]
    BY DEF WindowHolds
  <2>1. Window - 1 \in Nat /\ SharedAge = 0..(Window - 1)
    BY WindowAssumption DEF SharedAge
  <2>2. /\ tier \in Tier /\ granted \in [0..(Window - 1) -> Nat]
        /\ shared[tier] \in [0..(Window - 1) -> Nat]
    <3>1. tier \in Tier /\ granted \in [SharedAge -> Nat] /\ shared[tier] \in [SharedAge -> Nat]
      BY DEF LimiterInv, LimiterTypeOK
    <3>2. QED
      BY <2>1, <3>1
  <2>3. \A a \in 0..(Window - 1) : granted[a] <= shared[tier][a]
    <3>1. \A a \in 0..(Window - 1) : a < calm
      BY WindowAssumption
    <3>2. QED
      BY <2>1, <3>1 DEF LimiterInv, CalmIsCounted
  <2>4. Total(granted) <= Total(shared[tier])
    BY <2>1, <2>2, <2>3, TotalIsMonotonic
  <2>5. Total(granted) \in Nat /\ Total(shared[tier]) \in Nat
    BY <2>1, <2>2, TotalIsLast
  <2>6. LimitOf[tier] \in Nat /\ Total(shared[tier]) <= LimitOf[tier]
    BY <2>2, LimitAssumption DEF Limited, LimiterInv, SharedWithinPlan
  <2>7. QED
    BY <2>4, <2>5, <2>6
<1>2. QED
  BY <1>1, LimiterInvariant, PTL
==============================================================================
