\* Calls may end without a report.
SPECIFICATION FairSpec
CONSTANTS
    None = None
    Callers = {c1, c2}
    Silent = {c1, c2}
    Preempted = {}
    FailureThreshold = 2
    CooldownMs = 1
    HalfOpenMaxCalls = 1
PROPERTIES HalfOpenEnds
