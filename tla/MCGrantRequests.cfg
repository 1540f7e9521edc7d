CONSTANTS
    Call = {c1, c2, c3, c4}
    Request = {r1}
    Operator = {alice, bob}
    Nobody = nobody
    Ops = {"approve", "deny", "revoke", "expire", "revoke_grant"}
    BulkSizes = {}
SPECIFICATION Spec
SYMMETRY Symmetry
INVARIANTS
    DecisionsWitnessed
    DecidedOnceIsConsistent
    CyclesNeedMany
PROPERTIES
    DecisionsAreFinal
CHECK_DEADLOCK FALSE
