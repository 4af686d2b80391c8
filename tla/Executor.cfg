\* Two concurrent requests; two failures open a breaker, one tick ends its cooldown,
\* one retry per candidate.
SPECIFICATION FairSpec
CONSTANTS
    None = None
    Requests = {r1, r2}
    Providers = {"p1", "p2", "p3"}
    Adapters = {"p1", "p2"}
    Plans <- MCPlans
    Errors <- MCErrors
    MayEscape = TRUE
    MaxRetries = 1
    FailureThreshold = 2
    CooldownMs = 0
    HalfOpenMaxCalls = 1
    Window = 1
    DegradeAt = 2
    CondemnAt = 3
INVARIANTS AttemptsFollowPlan FailsOnlyWhenExhausted OutcomeMatchesAttempts ServedOnce
PROPERTIES ImplementsFallback ImplementsLifecycle EveryRequestEnds
