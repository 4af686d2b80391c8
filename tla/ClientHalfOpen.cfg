\* Requests over two providers that fail or answer; nothing is added, no hook raises.
SPECIFICATION Spec
CONSTANTS
    Unset = None
    Latency = 100
    Asked = {1, 2}
    None = None
    Requests = {r1, r2, r3}
    Kinds <- MCPlain
    FirstProviders <- MCFirst
    MoreProviders = {}
    Additions = {}
    NoAddress = {}
    Categories = {"server"}
    HooksRaise = FALSE
    MayEscape = FALSE
    FailureThreshold = 2
    CooldownMs = 0
    HalfOpenMaxCalls = 1
    Window = 1
    DegradeAt = 1
    CondemnAt = 2
PROPERTIES HalfOpenAfterCooldown
