\* Two threads that add, refresh and chat, on the clients five environments make.
\* The callers stop at MaxCalls.
CHECK_DEADLOCK FALSE
SPECIFICATION Spec
CONSTANTS
    Unset = Unset
    None = None
    Noise = Noise
    PatternsIn <- MCPatternsIn
    PartsOf <- MCPartsOf
    Threads = {t1, t2}
    Starts <- MCStarts
    MoreProviders <- MCMoreProviders
    NoAddress <- MCNoAddress
    Listings <- MCListings
    Wishes <- MCWishes
    NewPolicies <- MCNewPolicies
    MaxCalls = 4
SYMMETRY Interchangeable
INVARIANTS TypeOK PairsUnique PlannerFollowsList LoneRefreshSucceeds AvailableHaveAdapters
PROPERTIES NothingForgotten ListedIsPlanned GoodPluginsLoaded
