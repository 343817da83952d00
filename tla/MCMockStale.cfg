SPECIFICATION Spec
CONSTANTS
    Keys = {k1}
    Plugins = {}
    Installers = {}
    Listeners = {l1, l2}
    Requests = {r1}
    MaxHistory = 1
    CallbackOps = {"reset"}
    MaxGen = 1
    MaxBarriers = 0
    MaxDepth = 2
PROPERTIES
    NoStaleDelivery
CHECK_DEADLOCK FALSE
