CONSTANTS
    Call = {c1, c2}
    Request = {r1, r2}
    Operator = {alice, bob}
    Nobody = nobody
    Ops = {"approve", "expire", "revoke_grant"}
    BulkSizes = {2}
SPECIFICATION Spec
PROPERTIES
    BulkIsWhole
CHECK_DEADLOCK FALSE
