---------------------------- MODULE PolicyEngine ----------------------------
(***************************************************************************)
(* evaluate_access, the ladder that decides a request by the grants of a   *)
(* workspace, and the operations that put rows on that list: creation and  *)
(* renewal with their validation, revocation and consumption.  The         *)
(* evaluation works on a copy of the rows and at one instant, so nothing   *)
(* else happens here while it runs; Exercise has what happens in between.  *)
(*                                                                         *)
(* A rung of the ladder stands for its reason code; the rungs "fee" and    *)
(* "balance" for their limit being malformed, undeclared or exceeded.      *)
(***************************************************************************)
EXTENDS Integers, Sequences

CONSTANTS GrantSubject, GrantRole, GrantAction, GrantResource,
          Wildcard,        \* "*"
          Absent,          \* no limit of that type, or an attempt that declares nothing
          Malformed,       \* a limit that is not a number from 0
          NoLimit,         \* max_uses is None
          GivenGrants,     \* what POST /grants is called with
          GivenUntils,     \* what renewals are called with
          GivenQuestions,  \* what is asked
          Inherited,       \* the tables that other builds may have left
          MaxTable, LastMoment, MaxCounted  \* bounds: rows, the clock, uses

Stamp == [at : Int, kind : {"aware", "naive", "malformed"}]

GrantLimits == [form : {"none", "garbage", "unknown", "typed"},
                fee : Nat \cup {Absent, Malformed}, balance : Nat \cup {Absent, Malformed}]

GrantRow == [subject : GrantSubject, role : GrantRole,
             action : GrantAction \cup {Wildcard}, resource : GrantResource \cup {Wildcard},
             from : Stamp, until : Stamp, revoked : BOOLEAN,
             uses : Nat, maxUses : Nat \cup {NoLimit}, limits : GrantLimits]

Question == [subject : GrantSubject, role : GrantRole,
             action : GrantAction \cup {Wildcard}, resource : GrantResource \cup {Wildcard},
             fee : Nat \cup {Absent}, balance : Nat \cup {Absent}]

ASSUME EngineAssumption ==
    /\ {Absent, Malformed, NoLimit} \cap Nat = {} /\ Absent # Malformed
    /\ GivenGrants \subseteq GrantRow /\ GivenUntils \subseteq Stamp
    /\ GivenQuestions \subseteq Question
    /\ Inherited \subseteq Seq(GrantRow)
    /\ LastMoment \in Nat

VARIABLES table,     \* the grants of the workspace, the newest first
          moment,    \* the clock
          question,
          pos,       \* the next grant that is looked at, or 0
          refusal,   \* best_denial
          answer

engineVars == <<table, moment, question, pos, refusal, answer>>

Ladder == <<"grant_not_yet_valid", "grant_expired", "grant_revoked", "grant_usage_exhausted",
            "constraint_invalid", "constraint_unknown", "fee", "balance">>

Ruling(kind, grant, rung) == [kind |-> kind, grant |-> grant, rung |-> rung]

NoRuling == Ruling("none", 0, 0)

Rulings == [kind : {"none", "approved", "denied", "failed"}, grant : Nat,
             rung : 0..Len(Ladder)]

EngineTypeOK ==
    /\ table \in Seq(GrantRow) /\ moment \in 0..LastMoment
    /\ pos \in 0..Len(table) + 1
    /\ pos # 0 => question \in Question
    /\ refusal \in Rulings /\ answer \in Rulings
    /\ answer.kind # "none" => question \in Question /\ pos = 0

EngineInit ==
    /\ table \in Inherited /\ moment = 0 /\ question = Absent /\ pos = 0
    /\ refusal = NoRuling /\ answer = NoRuling

------------------------------------------------------------------------------
(* evaluate_access                                                          *)

Relevant(g, q) ==
    /\ g.subject = q.subject /\ g.role = q.role
    /\ g.action \in {q.action, Wildcard} /\ g.resource \in {q.resource, Wildcard}

\* Rows whose timestamps do not parse are passed over.
Readable(g) == g.from.kind # "malformed" /\ g.until.kind # "malformed"

\* A timestamp without an offset cannot be compared with the clock, and nothing catches
\* that.  The end is compared after the beginning.
Raises(g, now) ==
    \/ g.from.kind = "naive"
    \/ g.until.kind = "naive" /\ g.from.at <= now

\* check_constraints: the value that is declared against the limit of the grant.
Violates(declared, limit) ==
    limit # Absent /\ (limit = Malformed \/ declared = Absent \/ declared > limit)

Empty(l) == l.form = "typed" /\ l.fee = Absent /\ l.balance = Absent

UsedUp(g) == g.maxUses # NoLimit /\ g.uses >= g.maxUses

\* What every rung of the ladder asks, in its order.
Bars(rung, g, q, now) ==
    CASE rung = 1 -> now < g.from.at
      [] rung = 2 -> now > g.until.at
      [] rung = 3 -> g.revoked
      [] rung = 4 -> UsedUp(g)
      [] rung = 5 -> g.limits.form = "garbage" \/ Empty(g.limits)
      [] rung = 6 -> g.limits.form = "unknown"
      [] rung = 7 -> g.limits.form = "typed" /\ Violates(q.fee, g.limits.fee)
      [] rung = 8 -> g.limits.form = "typed" /\ Violates(q.balance, g.limits.balance)

Barring(g, q, now) == {rung \in DOMAIN Ladder : Bars(rung, g, q, now)}

\* The rung that the climb ends at, if any.
Stops(g, q, now) ==
    {rung \in Barring(g, q, now) : \A r \in Barring(g, q, now) : rung <= r}

Ask(q) ==
    /\ pos = 0 /\ answer = NoRuling
    /\ question' = q /\ pos' = 1 /\ refusal' = NoRuling
    /\ UNCHANGED <<table, moment, answer>>

Looking == pos \in DOMAIN table

PassOver ==
    /\ Looking
    /\ ~Relevant(table[pos], question) \/ ~Readable(table[pos])
    /\ pos' = pos + 1
    /\ UNCHANGED <<table, moment, question, refusal, answer>>

\* The ladder is climbed.
Climbing == Looking /\ Relevant(table[pos], question) /\ Readable(table[pos])

AnswerWith(v) ==
    /\ answer' = v /\ pos' = 0 /\ refusal' = NoRuling
    /\ UNCHANGED <<table, moment, question>>

\* handle_demo_action takes the exception for a failure of its own.
Raise == Climbing /\ Raises(table[pos], moment) /\ AnswerWith(Ruling("failed", pos, 0))

\* Mutant: the first refusal is the answer.
RefuseAtOnce ==
    /\ Climbing /\ ~Raises(table[pos], moment)
    /\ \E rung \in Stops(table[pos], question, moment) :
          AnswerWith(Ruling("denied", pos, rung))

\* The first refusal is kept, and the next grant is looked at.
RefuseGrant ==
    /\ Climbing /\ ~Raises(table[pos], moment)
    /\ \E rung \in Stops(table[pos], question, moment) :
          refusal' = IF refusal = NoRuling THEN Ruling("denied", pos, rung) ELSE refusal
    /\ pos' = pos + 1
    /\ UNCHANGED <<table, moment, question, answer>>

ApproveByGrant ==
    /\ Climbing /\ ~Raises(table[pos], moment)
    /\ Barring(table[pos], question, moment) = {}
    /\ AnswerWith(Ruling("approved", pos, 0))

Conclude ==
    /\ pos = Len(table) + 1
    /\ AnswerWith(IF refusal = NoRuling THEN Ruling("denied", 0, 0) ELSE refusal)

------------------------------------------------------------------------------
(* The rows                                                                 *)

\* No evaluation is under way, and the last answer is given.
Forgotten ==
    /\ pos = 0
    /\ question' = Absent /\ pos' = 0 /\ refusal' = NoRuling /\ answer' = NoRuling

\* _validate_grant_dates and _validate_constraints.  Comparing a timestamp with an
\* offset and one without fails, and creates nothing either.
Creatable(g) ==
    /\ Readable(g) /\ g.from.kind = g.until.kind /\ g.from.at < g.until.at
    /\ g.limits.form \in {"none", "typed"} /\ ~Empty(g.limits)
    /\ Malformed \notin {g.limits.fee, g.limits.balance}

CreateGrant(g) ==
    /\ Forgotten
    /\ Len(table) < MaxTable
    /\ Creatable(g)
    /\ table' = <<[g EXCEPT !.revoked = FALSE, !.uses = 0]>> \o table
    /\ UNCHANGED moment

\* renew_grant_endpoint takes a timestamp without an offset for UTC.
Renew(i, until) ==
    /\ Forgotten
    /\ i \in DOMAIN table /\ ~table[i].revoked
    /\ until.kind # "malformed" /\ table[i].from.kind # "malformed"
    /\ until.at > moment /\ until.at >= table[i].from.at
    /\ table' = [table EXCEPT ![i].until = until]
    /\ UNCHANGED moment

RevokeRow(i) ==
    /\ Forgotten
    /\ i \in DOMAIN table /\ ~table[i].revoked
    /\ table' = [table EXCEPT ![i].revoked = TRUE]
    /\ UNCHANGED moment

\* try_consume_grant_use for the answer that was given.
ConsumeUse ==
    /\ Forgotten
    /\ answer.kind = "approved"
    /\ ~UsedUp(table[answer.grant]) /\ table[answer.grant].uses < MaxCounted
    /\ table' = [table EXCEPT ![answer.grant].uses = @ + 1]
    /\ UNCHANGED moment

TimeGoesOn ==
    /\ Forgotten
    /\ moment < LastMoment
    /\ moment' = moment + 1
    /\ UNCHANGED table

------------------------------------------------------------------------------
LookOn == PassOver \/ Raise \/ RefuseGrant \/ ApproveByGrant \/ Conclude

EngineNext ==
    \/ \E q \in GivenQuestions : Ask(q)
    \/ LookOn
    \/ \E g \in GivenGrants : CreateGrant(g)
    \/ \E i \in 1..MaxTable :
          RevokeRow(i) \/ \E until \in GivenUntils : Renew(i, until)
    \/ ConsumeUse
    \/ TimeGoesOn

EngineSpec == EngineInit /\ [][EngineNext]_engineVars

------------------------------------------------------------------------------
(* Properties                                                               *)

\* What the limits of a grant permit, said without the ladder: none that this program
\* does not know, and every amount that is limited declared and within its limit.
Permits(l, q) ==
    \/ l.form = "none"
    \/ /\ l.form = "typed" /\ ~Empty(l)
       /\ l.fee = Absent \/ (l.fee \in Nat /\ q.fee \in 0..l.fee)
       /\ l.balance = Absent \/ (l.balance \in Nat /\ q.balance \in 0..l.balance)

\* The grant authorises the request by itself.
Authorises(g, q, now) ==
    /\ Relevant(g, q)
    /\ g.from.kind = "aware" /\ g.until.kind = "aware" /\ now \in g.from.at..g.until.at
    /\ ~g.revoked /\ (g.maxUses = NoLimit \/ g.uses < g.maxUses)
    /\ Permits(g.limits, q)

\* The grants that authorise the request, those that break its evaluation, and all those
\* that are about it.
Authorising == {i \in DOMAIN table : Authorises(table[i], question, moment)}
Concerned   == {i \in DOMAIN table : Relevant(table[i], question) /\ Readable(table[i])}
Breaking    == {i \in Concerned : Raises(table[i], moment)}

First(i, among) == i \in among /\ \A j \in among : i <= j

\* A request is approved by the first grant that authorises it by itself, unless a row
\* before it breaks the evaluation.  It fails by the first row that does.  Otherwise no
\* grant of the list authorises it, and the denial names the first grant that is about it
\* with a reason that is true of that grant (evaluate_access: "a later valid grant can
\* still approve access").
AnsweredByTheGrants ==
    /\ answer.kind = "approved" =>
          answer.grant \in Authorising /\ First(answer.grant, Authorising \cup Breaking)
    /\ answer.kind = "failed" =>
          answer.grant \in Breaking /\ First(answer.grant, Authorising \cup Breaking)
    /\ answer.kind = "denied" =>
          /\ Authorising = {} /\ Breaking = {}
          /\ \/ answer.grant = 0 /\ Concerned = {}
             \/ /\ First(answer.grant, Concerned)
                /\ answer.rung \in Barring(table[answer.grant], question, moment)

\* evaluate_access: "If the first candidate is expired/revoked/exhausted the engine
\* continues to the next candidate -- a later valid grant can still approve access."  A
\* grant whose timestamps have no offset, which creation and renewal accept, ends it.
LaterGrantStillApproves ==
    answer.kind # "none" /\ Authorising # {} => answer.kind = "approved"
=============================================================================
