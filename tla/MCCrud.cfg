SPECIFICATION HeadersSpec
SYMMETRY Symmetry
CHECK_DEADLOCK FALSE
CONSTANTS
    Requests = {r1, r2, r3}
    Loaded = Loaded
    SeedIds = {1, 3}
    PreloadedIds = {2}
    Targets = {3, 4}
    MaxResets = 1
    StaticRequests = {s1}
    Installations <- MCInstallations
INVARIANTS
    UniqueIds
    RejectedLeavesNoTrace
    HeadersReplay
PROPERTIES
    WritesStay
