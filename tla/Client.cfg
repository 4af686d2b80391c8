\* Two concurrent requests, one provider to begin with and one to be added; two
\* failures in a row condemn a provider and open its breaker.
SPECIFICATION Spec
CONSTANTS
    Unset = None
    Latency = 100
    Asked = {1, 2}
    None = None
    Requests = {r1, r2}
    Kinds <- MCKinds
    FirstProviders <- MCOnlyOne
    MoreProviders <- MCMore
    Additions = {a1}
    NoAddress <- MCNoAddress
    Categories = {"server"}
    HooksRaise = TRUE
    MayEscape = TRUE
    FailureThreshold = 2
    CooldownMs = 0
    HalfOpenMaxCalls = 1
    Window = 1
    DegradeAt = 1
    CondemnAt = 2
SYMMETRY Interchangeable
INVARIANTS TypeOK AlonePlansHealthy UsageMatchesAnswers TrackersKeepApart RequestedModelFirst
PROPERTIES PlansAreRankings
