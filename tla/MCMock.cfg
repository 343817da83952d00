SPECIFICATION Spec
CONSTANTS
    Keys = {k1}
    Plugins = {p1, p2}
    Installers = {p1}
    Listeners = {}
    Requests = {r1, r2}
    MaxHistory = 1
    CallbackOps = {"reset", "handle", "pipe"}
    MaxGen = 1
    MaxBarriers = 0
    MaxDepth = 2
SYMMETRY Symmetry
INVARIANTS
    AdmissionCount
    NoUseAfterUninstall
    RetiredIsHeld
    EventProtocol
CHECK_DEADLOCK FALSE
