SPECIFICATION AdaptersSpec
SYMMETRY Symmetry
CHECK_DEADLOCK FALSE
CONSTANTS
    l1 = l1
    l2 = l2
    l3 = l3
    m1 = m1
    m2 = m2
    Mocks = {m1, m2}
    Leases = {l1, l2, l3}
    OwnerOf <- TwoAndOne
    Wrappers = {w1}
    Requests = {r1}
    Given <- GivenEach
    p1 = p1
    p2 = p2
    a1 = a1
    r1 = r1
    Providers = {p1, p2}
    Apps = {a1}
    UserCode = "user"
    Casts <- MCCasts
    Offered = {"passthrough", "exclude"}
INVARIANTS
    NoLeaseForgotten
    LeasesFollowOwners
