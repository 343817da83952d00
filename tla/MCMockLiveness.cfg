SPECIFICATION FairSpec
CONSTANTS
    Keys = {k1}
    Plugins = {p1}
    Installers = {}
    Listeners = {l1}
    Requests = {r1}
    MaxHistory = 1
    CallbackOps = {}
    MaxGen = 1
    MaxBarriers = 2
    MaxDepth = 1
INVARIANTS
    HistoryBarrier
PROPERTIES
    RetiredUninstalled
CHECK_DEADLOCK FALSE
