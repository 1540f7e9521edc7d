CONSTANTS
    c1 = c1
    c2 = c2
    a1 = a1
    a2 = a2
    p1 = p1
    p2 = p2
    r1 = r1
    r2 = r2
    alice = alice
    bob = bob
    Call = {c1, c2}
    Attempt = {a1, a2}
    Process = {p1, p2}
    Supervised = {p1}
    HomeOf <- Home
    Free = free
    Request = {r1, r2}
    Operator = {alice, bob}
    Nobody = nobody
    Ops = {"approve", "revoke_grant"}
    BulkSizes = {2}
SPECIFICATION MCSpec
INVARIANTS
    AttemptsKeepOrder
PROPERTIES
    CallsFinish
    AttemptsFinish
CHECK_DEADLOCK FALSE
