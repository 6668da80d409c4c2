SPECIFICATION FrontEndSpec
CONSTANTS
    Paths <- MCPaths
    Targets <- MCTargets
    Handlers <- MCHandlers
    Roots <- MCRoots
    Spelled <- MCSpelled
    ConfigFiles <- MCConfigFiles
    Sendings <- MCSendings
    Garbled <- MCGarbled
    Stale <- MCStale
INVARIANTS
    DispatcherTypeOK
    LongestMatch
    ExactLocationWins
    ParsedAsWritten
    NothingLost
    PortAsWritten
    LocationsAsWritten
    RequestAsSent
    ServedAsFound
PROPERTIES
    StartupEnds
CHECK_DEADLOCK FALSE
