CONSTANTS
    g1 = g1
    g2 = g2
    Action = {a1, a2}
    Listing <- TwoGrants
    MaxUses <- OneOrAny
    Unlimited = unlimited
    Challenge = {c1}
    None = none
    RequireChallenge = TRUE
SPECIFICATION Spec
INVARIANTS
    ChallengeUsedOnce
CHECK_DEADLOCK FALSE
