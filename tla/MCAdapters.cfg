SPECIFICATION FairSpec
CONSTANTS
    Limit = 2
    Idle = 2
    Grace = 5
    Plain = {"a", "p", ":id"}
    Unsafe = {"e"}
    Talks <- MCTalks
INVARIANTS
    OneAnswer
    FormatterGetsFailures
    LingerIsExact
    AdminStaysPrivate
    MessageSurvives
PROPERTIES
    LeavingReleases
CHECK_DEADLOCK FALSE
