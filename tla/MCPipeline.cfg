SPECIFICATION HooksSpec
CONSTANTS
    N = 3
    Followed <- MCFollowed
    Rejections <- MCRejections
INVARIANTS
    HooksInOrder
    RejectionsPassOnce
    SlotsKeepApart
PROPERTIES
    AbortSettles
CHECK_DEADLOCK FALSE
