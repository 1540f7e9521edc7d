CONSTANTS
    Run = {r1, r2}
    MaxUses = unlimited
    Unlimited = unlimited
    MinEvents = 1
    NoRecord = none
    MaxDay = 0
    MaxEvents = 0
    Signer = {s1}
    DemoPair = {d1}
    LivePair = live
    Absent = absent
    Torn = torn
    NoSig = none
    Date = {t1}
SPECIFICATION MCSpec
INVARIANTS
    OneAnchorPerDay
CHECK_DEADLOCK FALSE
