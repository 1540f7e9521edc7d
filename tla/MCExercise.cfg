CONSTANTS
    g1 = g1
    g2 = g2
    Action = {a1, a2, a3}
    Listing <- OneGrant
    MaxUses <- OneUse
    Unlimited = unlimited
    Challenge = {c1}
    None = none
    RequireChallenge = FALSE
SPECIFICATION Spec
SYMMETRY Symmetry
INVARIANTS
    DecisionsWitnessed
    RevocationHolds
    ReplayBlocked
PROPERTIES
    ImplementsLedger
CHECK_DEADLOCK FALSE
