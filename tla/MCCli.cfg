SPECIFICATION FairProcessSpec
CHECK_DEADLOCK FALSE
CONSTANTS
    Requests = {r1, r2}
    Valid = {0, 2, 3}
    MaxWrites = 3
    Commands <- MCCommands
    Saves <- MCSaves
    Uuids <- MCUuids
    Links <- MCLinks
    Files <- MCFiles
    Contents <- MCContents
    Resources <- MCResources
    MaxManifest = 8
    MaxFile = 8
    MaxItems = 3
    MaxItemsTotal = 3
    MaxNodes = 5
INVARIANTS
    NeverOlder
    InFlightKeepsItsMock
    CommandIsHonoured
PROPERTIES
    ShutdownIsWhole
    WrittenIsServed
