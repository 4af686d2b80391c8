\* One request after the other over one provider; adapters raise ExecutionErrors only.
SPECIFICATION Spec
CONSTANTS
    None = None
    Requests = {r1, r2}
    Providers = {"p1", "p2", "p3"}
    Adapters = {"p1", "p2"}
    Plans <- MCPlans
    Errors <- MCErrors
    MayEscape = FALSE
    MaxRetries = 1
    FailureThreshold = 2
    CooldownMs = 0
    HalfOpenMaxCalls = 1
    Window = 1
    DegradeAt = 2
    CondemnAt = 3
INVARIANTS AlwaysReturns
