----------------------------- MODULE PolicyPack -----------------------------
(***************************************************************************)
(* The rules of a policy pack against a subject: evaluate_required_evidence*)
(* and its siblings, which evaluate_policy_requirements combines.  Nothing *)
(* is stored: a caller evaluates the same pack again and again while the   *)
(* subject is amended and deadlines pass.                                  *)
(***************************************************************************)
EXTENDS Naturals, FiniteSets

CONSTANTS Item,        \* evidence types, which double as exclusion codes
          Currency,
          Considering, \* the packs that are considered: a subset of Packs
          LastInstant  \* bound on the clock

ASSUME InstantAssumption == LastInstant \in Nat

Instant == 0..LastInstant

\* due: the deadline, if any, with an offset or without ("naive"); an amount limit has a
\* maximum, which is a number or not, and may name a currency.
Packs == [evidence : [Item -> {"unlisted", "optional", "required"}],
          exclusion : [Item -> {"unlisted", "warning", "blocking"}],
          due : [kind : {"none", "dated", "naive", "malformed"}, required : BOOLEAN, at : Instant],
          limit : {"none", "number", "malformed"},
          currency : Currency \cup {"any"}]

ASSUME ConsideringAssumption == Considering \subseteq Packs

\* Against the maximum of the pack.
Amounts == {"absent", "malformed", "within", "above", "nan"}

Subjects == [evidence : SUBSET Item, codes : SUBSET Item, amount : Amounts,
             currency : Currency \cup {"any"}]

VARIABLES pack, subject, clock,
          judged   \* the last evaluation of this pack and this subject

packVars == <<pack, subject, clock, judged>>

Nobody == [evidence |-> {}, codes |-> {}, amount |-> "absent", currency |-> "any"]

PackTypeOK ==
    /\ pack \in Packs /\ subject \in Subjects /\ clock \in Instant
    /\ judged \in {"none", "passed", "needs_review", "blocked"}

PackInit == pack \in Considering /\ subject = Nobody /\ clock = 0 /\ judged = "none"

------------------------------------------------------------------------------
MissingEvidence(p, s, status) == {i \in Item : p.evidence[i] = status /\ i \notin s.evidence}

Violations(p, s, severity) == {i \in s.codes : p.exclusion[i] = severity}

\* Mutant: an instant that was due is reported at that instant only.
MissedAtOnce(p, t) == p.due.kind = "malformed" \/ (p.due.kind = "dated" /\ t = p.due.at + 1)

Missed(p, t) == p.due.kind = "malformed" \/ (p.due.kind = "dated" /\ t > p.due.at)

CurrencyDiffers(p, s) == "any" \notin {p.currency, s.currency} /\ p.currency # s.currency

\* Two currencies that differ end the comparison with a warning, an amount that is
\* absent ends it without one, and "nan" is above no maximum.
Limited(p, s) == (p.limit # "none" \/ p.currency # "any") /\ s.amount # "absent"

AmountBlocks(p, s) ==
    /\ Limited(p, s) /\ ~CurrencyDiffers(p, s)
    /\ p.limit = "number" /\ s.amount = "above"

AmountWarns(p, s) ==
    Limited(p, s) /\ (CurrencyDiffers(p, s) \/ "malformed" \in {p.limit, s.amount})

Blocks(p, s, t) ==
    \/ MissingEvidence(p, s, "required") # {} \/ Violations(p, s, "blocking") # {}
    \/ Missed(p, t) /\ p.due.required
    \/ AmountBlocks(p, s)

Warns(p, s, t) ==
    \/ MissingEvidence(p, s, "optional") # {} \/ Violations(p, s, "warning") # {}
    \/ Missed(p, t) /\ ~p.due.required
    \/ AmountWarns(p, s)

Judgement(p, s, t) ==
    CASE Blocks(p, s, t)                      -> "blocked"
      [] ~Blocks(p, s, t) /\ Warns(p, s, t)   -> "needs_review"
      [] OTHER                                -> "passed"

------------------------------------------------------------------------------
\* The caller presents another subject, which differs in one respect.
Amend ==
    /\ \/ \E e \in SUBSET Item : subject' = [subject EXCEPT !.evidence = e]
       \/ \E c \in SUBSET Item : subject' = [subject EXCEPT !.codes = c]
       \/ \E a \in Amounts, c \in Currency \cup {"any"} :
            subject' = [subject EXCEPT !.amount = a, !.currency = c]
    /\ subject' # subject
    /\ judged' = "none"
    /\ UNCHANGED <<pack, clock>>

\* The comparison of now with a deadline that has no offset raises: there is no answer.
Judge ==
    /\ pack.due.kind # "naive"
    /\ judged' = Judgement(pack, subject, clock)
    /\ UNCHANGED <<pack, subject, clock>>

TimePasses ==
    /\ clock < LastInstant
    /\ clock' = clock + 1
    /\ UNCHANGED <<pack, subject, judged>>

PackNext == Amend \/ Judge \/ TimePasses

PackSpec == PackInit /\ [][PackNext]_packVars

------------------------------------------------------------------------------
(* Properties                                                               *)

Rank(j) == CASE j = "blocked" -> 3 [] j = "needs_review" -> 2 [] j = "passed" -> 1 [] OTHER -> 0

\* Waiting never helps: whoever evaluates the same subject later gets no better answer,
\* whatever the kind of the deadline and the other rules (evaluate_deadlines,
\* evaluate_policy_requirements).
NeverBetterByWaiting ==
    [][subject' = subject => Rank(judged') >= Rank(judged)]_packVars

\* A pack that states a maximum blocks an amount above it.  It does not when the
\* amount is stated in another currency (policy_requirements.py:286).
AboveLimitBlocks ==
    (judged # "none" /\ pack.limit = "number" /\ subject.amount = "above") =>
        judged = "blocked"
==============================================================================
