CONSTANTS
    Call = {c1, c2}
    Request = {r1, r2}
    Operator = {alice, bob}
    Nobody = nobody
    Ops = {"approve", "deny"}
    BulkSizes = {}
SPECIFICATION Spec
INVARIANTS
    RequesterNeverDenies
CHECK_DEADLOCK FALSE
