SPECIFICATION SpecPathSpec
CHECK_DEADLOCK FALSE
CONSTANTS
    Scenarios <- MCScenarios
    UserValues <- Values
    DefaultLimit = 5
    MaxLimit = 2
    Surfaces <- MCSurfaces
    NameTokens <- Names
    Captured <- MCCaptured
    Unrouted = "unrouted"
    Probe <- MCProbe
    PlainGraph <- MCPlainGraph
    Graphs <- MCGraphs
    Counts <- MCCounts
    MaxNodes = 4
    MaxDepth = 2
    MaxFrames = 1
    DeepThreshold = 1
    LargeArray = 3
    MaxArray = 4
    MaxGenerated = 9
    DefaultCount = 3
    RefPolicies <- MCPolicies
    RefUrls <- MCUrls
    RootRefs <- MCRoots
    PrivateHosts <- MCPrivateHosts
    Sizes <- MCSizes
    SchemaGraphs <- MCSchemaGraphs
    RootDocument = "root"
    Specs <- MCSpecs
    JsonSubtypes <- MCJsonSubtypes
    JsonSuffixed <- MCJsonSuffixed
    SchemaOverrides <- MCSchemaOverrides
    FakerGraphs <- MCFields
    FieldMappings <- MCMappings
    Generatable = {"uuid", "date", "email"}
    Options <- MCOptions
    Contexts <- MCContexts
    Dangerous <- MCDangerous
    LongStrings <- MCLongStrings
    MaxValueNodes = 8
    MaxArraySize = 3
    MaxFields = 2
    DefaultLength = 2
    NamedGraphs <- MCNamedGraphs
    Keywords <- MCKeywords
    FakerMethods <- MCFakerMethods
    MaxString = 2
    MaxItems = 2
    MaxProperties = 2
    PlainPolicy <- MCPlainPolicy
    PlainNodes <- MCPlainNodes
    PlainSpec <- MCPlainSpec
    PlainNamed <- MCPlainNamed
    PlainOwn <- MCPlainOwn
    LongOwn <- MCLongOwn
    PlainFields <- MCPlainFields
    PlainOptions <- MCPlainOptions
    PlainOp <- MCPlainOp
    PlainRequest <- MCPlainRequest
INVARIANTS
    OneResponse
    AcceptableOrRefused
    PagesCoverTheList
    DeclaredIsServed
    OrderIsTopological
    SchemaIsJudged
    SpecIsRead
    ContractIsHanded
    ValueIsConfigured
