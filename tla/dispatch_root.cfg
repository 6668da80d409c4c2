SPECIFICATION DispatcherSpec
CONSTANTS
    Paths <- MCPaths
    Targets <- MCTargets
    Handlers <- MCHandlers
    Roots <- MCRoots
INVARIANTS
    RootFound
CHECK_DEADLOCK FALSE
