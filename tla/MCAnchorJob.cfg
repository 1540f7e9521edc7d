CONSTANTS
    Run = {r1, r2, r3}
    MaxUses = 2
    Unlimited = unlimited
    MinEvents = 2
    NoRecord = none
    MaxDay = 1
    MaxEvents = 2
    Signer = {s1, s2}
    DemoPair = {d1, d2}
    LivePair = live
    Absent = absent
    Torn = torn
    NoSig = none
    Date = {t1, t2}
SPECIFICATION MCSpec
SYMMETRY Symmetry
INVARIANTS
    PaidIsWitnessed
    PaidWithinGrant
    PaidIsRecorded
    DoublePaymentExplained
    HonestGrantVerifies
    AuthorityIsWitnessed
CHECK_DEADLOCK FALSE
