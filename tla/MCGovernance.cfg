CONSTANTS
    Role <- AllRoles
    GrantAdmin = "grant_admin"
    Owner = "owner"
    Person = {p1, p2}
    Considered <- ConsideredSignals
    Verifier = {v1, v2}
    SpoiledBy = {"revoked"}
    Item = {"evaluation"}
    Currency = {"EUR", "USD"}
    Considering <- SomePacks
    LastInstant = 2
    Gap <- Gaps3
    Requirement = {"four_eyes_required", "blocked"}
    Lifecycle = {"pending", "approved", "rejected", "blocked"}
    Collected <- Collected5
    c1 = c1
    c2 = c2
    u1 = u1
    u2 = u2
    t1 = t1
    w1 = w1
    w2 = w2
    w3 = w3
    MaxKeys = 3
    Call = {c1, c2}
    User = {u1, u2}
    Workspace = {t1}
    Subject = {x1}
    NoOne = NoOne
    RoleOf <- Roles
    UserTenant <- UserTenants
    HomeTenant <- Homes
    Entitled <- Entitlement
    GivenScope = {"read_only", "read_write", "admin"}
    GivenSubject = {x1}
    Operator = {o1}
    Worker = {v1, v2}
    Kid = {i1, i2}
    MaxVersion = 1
    MaxTokens = 2
    TokenTtl = 2
    CacheTtl = 2
    Principal = {p1}
    Space = {w1, w2, w3}
    Tenant = {"demo", "acme"}
    DemoTenant = "demo"
    DemoSpace = w1
    SpaceTenant <- Tenants
    SlugOf <- Slugs
    NoSpace = "no_space"
    GivenRole = {"workspace_owner", "workspace_readonly"}
    NoPrincipal = NoPrincipal
    s1 = s1
    absent = absent
    GrantSubject = {s1}
    GrantRole = {"deployer"}
    GrantAction = {"read", "write"}
    GrantResource = {"db", "log"}
    Wildcard = "*"
    Absent = absent
    Malformed = malformed
    NoLimit = none
    GivenGrants <- Grants
    GivenUntils <- Untils
    GivenQuestions <- Questions
    Inherited <- Tables
    MaxTable = 2
    LastMoment = 2
    MaxCounted = 1
SPECIFICATION Spec
SYMMETRY Symmetry
INVARIANTS
    ApprovedByAllRoles
    ClearMeansClean
    ValidIsExplained
    NoCauseIsLost
    KeysAreEarned
    StaleWithinTtl
    AutoIsWhatHeaderGives
    AnsweredByTheGrants
PROPERTIES
    NeverBetterByWaiting
CHECK_DEADLOCK FALSE
