SPECIFICATION ProcessSpec
CHECK_DEADLOCK FALSE
CONSTANTS
    Requests = {}
    Valid = {0, 1}
    MaxWrites = 1
    Commands <- WatchingOnly
    Saves <- MCSaves
    Uuids <- MCUuids
    Links <- MCLinks
    Files <- MCFiles
    Contents <- MCContents
    Resources <- MCResources
    MaxManifest = 8
    MaxFile = 8
    MaxItems = 3
    MaxItemsTotal = 3
    MaxNodes = 5
PROPERTIES
    NoSwapAfterShutdown
