---------------------------- MODULE GrantSigning ----------------------------
(***************************************************************************)
(* Signing, renewing and revoking a grant, and the files of keys that      *)
(* every signing and every verification looks after: the demo key pair,    *)
(* generated at first use, and the keyring of public keys by id.  Requests *)
(* run in any number of processes over the same files and the same row.    *)
(* A file is opened, which empties it, and then written; a look at a file  *)
(* and the opening of it are steps of their own.                           *)
(***************************************************************************)
EXTENDS FiniteSets

CONSTANTS Signer,       \* calls that are under way at once
          DemoPair,     \* key pairs that ensure_demo_keypair may generate
          LivePair,     \* the key pair of production, which is configured by hand
          Absent, Torn, \* a file that is not there, and one without its contents
          NoSig,
          Date          \* values of validUntil

Pair   == DemoPair \cup {LivePair}

\* The fingerprint of a pair stands for its id, and for its file in the keyring.
KeyId == Pair \cup {"legacy"}
File  == KeyId \cup {"private", "public"}

\* Where a call is, but for the files that it is about to write.
Stage == {"idle", "ensure", "load", "alias", "sign", "land"}

ASSUME FileAssumption ==
    /\ DemoPair # {} /\ LivePair \notin DemoPair /\ Absent # Torn
    /\ ({Absent, Torn, "legacy", "private", "public"} \cup Stage) \cap Pair = {}

VARIABLES store,       \* store[f]: what file f holds
          configured,  \* GRANTLAYER_SIGNING_PRIVATE_KEY, or Absent
          grant,       \* the row of the grant
          trail,       \* the last audit event about the grant
          work,        \* work[r]: a call that signs or verifies
          damaged      \* a write of a file was broken off (history)

signingVars == <<store, configured, grant, trail, work, damaged>>

\* terms: the eight signed fields other than validUntil.
Terms == {"created", "altered"}

Signature == [terms : Terms, until : Date, id : KeyId, pair : Pair]

ASSUME NoSigAssumption == NoSig \notin Signature \cup Date /\ Date # {}

NoGrant == [state |-> "none", terms |-> "created", until |-> NoSig, sig |-> NoSig]

\* kind, terms, was: what is asked for, and the terms and the date that were read.
NoWork == [pc |-> "idle", kind |-> "verify", pair |-> Absent, open |-> FALSE,
           terms |-> "created", was |-> NoSig, sig |-> NoSig]

Work == [pc : Stage \cup File, kind : {"create", "renew", "verify"},
         pair : Pair \cup {Absent}, open : BOOLEAN, terms : Terms,
         was : Date \cup {NoSig}, sig : Signature \cup {NoSig}]

Row == [state : {"none", "live", "revoked"}, terms : Terms,
        until : Date \cup {NoSig}, sig : Signature \cup {NoSig}]

SigningTypeOK ==
    /\ store \in [File -> Pair \cup {Absent, Torn}]
    /\ configured \in {Absent, LivePair}
    /\ grant \in Row
    /\ trail \in [kind : {"none", "created", "renewed", "revoked"},
                  to : Date \cup {NoSig}]
    /\ work \in [Signer -> Work]
    /\ damaged \in BOOLEAN

Recorded(kind, to) == [kind |-> kind, to |-> to]

Signed(terms, until, id, pair) == [terms |-> terms, until |-> until, id |-> id, pair |-> pair]

\* A row from before fingerprints carries the legacy id, signed with p.
OldGrant(p, d) == [state |-> "live", terms |-> "created", until |-> d,
                   sig |-> Signed("created", d, "legacy", p)]

\* A new installation; one of the demo, of before the keyring; and one of production whose
\* key was registered under the legacy id.
SigningInit ==
    /\ \E kind \in {"new", "demo", "production"} :
          LET p == CHOOSE q \in DemoPair : TRUE
              d == CHOOSE e \in Date : TRUE
          IN
          /\ configured = IF kind = "production" THEN LivePair ELSE Absent
          /\ store = [f \in File |->
                IF kind = "production" /\ f \in {"legacy", LivePair} THEN LivePair
                ELSE IF kind = "demo" /\ f \in {"private", "public"} THEN p
                ELSE Absent]
          /\ grant = CASE kind = "new" -> NoGrant
                       [] kind = "demo" -> OldGrant(p, d)
                       [] OTHER -> OldGrant(LivePair, d)
          /\ trail = Recorded(IF kind = "new" THEN "none" ELSE "created", grant.until)
    /\ work = [r \in Signer |-> NoWork]
    /\ damaged = FALSE

------------------------------------------------------------------------------
(* _ensure_keyring_baseline                                                 *)

\* On to pc, with pair p to be written.
Goto(r, pc, p) == work' = [work EXCEPT ![r].pc = pc, ![r].pair = p, ![r].open = FALSE]

Known(p) ==
    \/ \E f \in File : store[f] = p
    \/ \E r \in Signer : work[r].pair = p
    \/ grant.sig # NoSig /\ grant.sig.pair = p

\* A generated pair is new; which of the new ones makes no difference.
FreshPair(p) == ~Known(p) /\ p = CHOOSE q \in DemoPair : ~Known(q)

EnsurePair(r) ==
    /\ work[r].pc = "ensure"
    /\ IF Absent \notin {store["private"], store["public"]} THEN Goto(r, "load", Absent)
       ELSE \E p \in DemoPair : FreshPair(p) /\ Goto(r, "private", p)
    /\ UNCHANGED <<store, configured, grant, trail, damaged>>

\* register_public_key, if the file is not there: under the fingerprint, and then under
\* the legacy id.
LoadPublic(r) ==
    /\ work[r].pc = "load" /\ store["public"] \in Pair
    /\ LET p == store["public"] IN Goto(r, IF store[p] = Absent THEN p ELSE "alias", p)
    /\ UNCHANGED <<store, configured, grant, trail, damaged>>

Register(r, needed) ==
    /\ work[r].pc = "alias"
    /\ IF needed THEN Goto(r, "legacy", work[r].pair) ELSE Goto(r, "sign", Absent)
    /\ UNCHANGED <<store, configured, grant, trail, damaged>>

\* Mutant: a legacy id that holds another key is registered again.
RegisterAliasAnyway(r) == Register(r, store["legacy"] # work[r].pair)

RegisterAlias(r) == Register(r, store["legacy"] = Absent)

AfterFile(f) == CASE f = "private" -> "public" [] f = "public" -> "load"
                  [] f = "legacy" -> "sign" [] OTHER -> "alias"

OpenFile(r) ==
    /\ work[r].pc \in File /\ ~work[r].open
    /\ store' = [store EXCEPT ![work[r].pc] = Torn]
    /\ work' = [work EXCEPT ![r].open = TRUE]
    /\ UNCHANGED <<configured, grant, trail, damaged>>

WriteFile(r) ==
    /\ work[r].open
    /\ store' = [store EXCEPT ![work[r].pc] = work[r].pair]
    /\ Goto(r, AfterFile(work[r].pc),
            IF work[r].pc \in {"public", "legacy"} THEN Absent ELSE work[r].pair)
    /\ UNCHANGED <<configured, grant, trail, damaged>>

------------------------------------------------------------------------------
(* sign_grant, verify_grant_signature                                       *)

PrivateKey == IF configured # Absent THEN configured ELSE store["private"]

\* The date is what the caller asks for.  Refused while the public key of the pair is not
\* in the keyring.
SignGrant(r, d) ==
    /\ work[r].pc = "sign" /\ work[r].kind # "verify"
    /\ PrivateKey \in Pair /\ store[PrivateKey] \in Pair
    /\ work' = [work EXCEPT ![r].pc = "land",
                      ![r].sig = Signed(work[r].terms, d, PrivateKey, PrivateKey)]
    /\ UNCHANGED <<store, configured, grant, trail, damaged>>

\* What load_public_key_by_id returns after the baseline, which registers the demo key.
PublicKey(id) ==
    IF id = "legacy" /\ store["legacy"] = Absent THEN store["public"] ELSE store[id]

Verdict(g) ==
    IF g.sig = NoSig THEN "missing"
    ELSE IF <<g.sig.terms, g.sig.until>> # <<g.terms, g.until>> THEN "hash_mismatch"
    ELSE IF PublicKey(g.sig.id) \notin Pair THEN "unknown_key"
    ELSE IF PublicKey(g.sig.id) # g.sig.pair THEN "invalid"
    ELSE "valid"

------------------------------------------------------------------------------
(* Requests                                                                 *)

StartWork(r, kind, terms, was) ==
    /\ work[r].pc = "idle"
    /\ LET begun == [NoWork EXCEPT !.pc = "ensure", !.kind = kind] IN
       work' = [work EXCEPT ![r] = [begun EXCEPT !.terms = terms, !.was = was]]
    /\ UNCHANGED <<store, configured, grant, trail, damaged>>

\* A renewal signs the row as it reads it, with a new date.
StartCreate(r) == grant.state = "none" /\ StartWork(r, "create", "created", NoSig)
StartRenew(r)  == grant.state = "live" /\ StartWork(r, "renew", grant.terms, grant.until)
StartVerify(r) == grant.state # "none" /\ StartWork(r, "verify", "created", NoSig)

EndVerify(r) ==
    /\ work[r].pc = "sign" /\ work[r].kind = "verify"
    /\ work' = [work EXCEPT ![r] = NoWork]
    /\ UNCHANGED <<store, configured, grant, trail, damaged>>

\* The row and its event are of one transaction.
LandCreate(r) ==
    /\ work[r].pc = "land" /\ work[r].kind = "create" /\ grant.state = "none"
    /\ grant' = [state |-> "live", terms |-> "created", until |-> work[r].sig.until,
                 sig |-> work[r].sig]
    /\ trail' = Recorded("created", work[r].sig.until)
    /\ work' = [work EXCEPT ![r] = NoWork]
    /\ UNCHANGED <<store, configured, damaged>>

Land(r, states) ==
    /\ work[r].pc = "land" /\ work[r].kind = "renew" /\ grant.state \in states
    /\ grant' = [grant EXCEPT !.until = work[r].sig.until, !.sig = work[r].sig]
    /\ trail' = Recorded("renewed", work[r].sig.until)
    /\ work' = [work EXCEPT ![r] = NoWork]
    /\ UNCHANGED <<store, configured, damaged>>

\* Mutant: the update does not ask for revoked = 0.
LandAfterRevoke(r) == Land(r, {"live", "revoked"})

\* One guarded UPDATE, and the event; the event names the date that was read as the old one.
LandRenewal(r) == Land(r, {"live"})

\* An exception, a row that was revoked meanwhile, a rollback, or the end of the process.
Abandon(r) ==
    /\ work[r].pc # "idle"
    /\ work' = [work EXCEPT ![r] = NoWork]
    /\ damaged' = (damaged \/ work[r].open)
    /\ UNCHANGED <<store, configured, grant, trail>>

RevokeGrant ==
    /\ grant.state = "live"
    /\ grant' = [grant EXCEPT !.state = "revoked"]
    /\ trail' = Recorded("revoked", NoSig)
    /\ UNCHANGED <<store, configured, work, damaged>>

\* tamper_grant, which is an endpoint of the demo only.
AlterTerms ==
    /\ configured = Absent /\ grant.state # "none" /\ grant.terms = "created"
    /\ grant' = [grant EXCEPT !.terms = "altered"]
    /\ UNCHANGED <<store, configured, trail, work, damaged>>

\* From the demo pair to that of production: the key is registered before it is used.
RegisterLivePair ==
    /\ store[LivePair] = Absent
    /\ store' = [store EXCEPT ![LivePair] = LivePair]
    /\ UNCHANGED <<configured, grant, trail, work, damaged>>

ConfigureLivePair ==
    /\ configured = Absent /\ \A r \in Signer : work[r].pc = "idle"
    /\ configured' = LivePair
    /\ UNCHANGED <<store, grant, trail, work, damaged>>

SigningNext ==
    \/ \E r \in Signer :
          \/ EnsurePair(r) \/ LoadPublic(r) \/ RegisterAlias(r) \/ OpenFile(r) \/ WriteFile(r)
          \/ StartCreate(r) \/ StartRenew(r) \/ StartVerify(r)
          \/ \E d \in Date : SignGrant(r, d)
          \/ LandCreate(r) \/ LandRenewal(r) \/ EndVerify(r) \/ Abandon(r)
    \/ RevokeGrant \/ AlterTerms \/ RegisterLivePair \/ ConfigureLivePair

SigningSpec == SigningInit /\ [][SigningNext]_signingVars

------------------------------------------------------------------------------
(* Properties                                                               *)

\* A grant whose terms nobody altered verifies, through renewals at once, the change of
\* keys and the first start of several processes, and whatever id it carries; the one
\* exception is that its key is not found while a process writes the keyring or after one
\* died of it (sign_grant: "never mint a grant whose key cannot later verify").
HonestGrantVerifies ==
    grant.state # "none" /\ grant.terms = "created" =>
        \/ Verdict(grant) = "valid"
        \/ /\ Verdict(grant) = "unknown_key"
           /\ damaged \/ \E r \in Signer : work[r].open

\* The last event about the grant tells its state and its date: no renewal overtakes a
\* revocation, and nothing is extended or removed without a witness (renew_grant).
AuthorityIsWitnessed ==
    /\ grant.state = "none" <=> trail.kind = "none"
    /\ grant.state = "live" => trail.kind \in {"created", "renewed"} /\ trail.to = grant.until
    /\ grant.state = "revoked" <=> trail.kind = "revoked"

\* The events of renewals tell "from and to when" (_grant_renewed_event).  Two renewals
\* at once both tell the date that they read.
RenewalsAreLinked ==
    [][\A r \in Signer : LandRenewal(r) => work[r].was = grant.until]_signingVars

\* An altered grant does not verify (tamper_grant: "Signature should now fail").  A
\* renewal signs what it reads.
AlteredNeverVerifies ==
    grant.terms = "altered" => Verdict(grant) # "valid"

\* Once nobody generates a pair, the two files are of one pair (ensure_demo_keypair:
\* "Idempotent"); two that generate at once may leave one file each.
FilesArePair ==
    \/ damaged \/ \E r \in Signer : work[r].pc \in {"private", "public"}
    \/ store["private"] = store["public"]
=============================================================================
