\* Two requests that report about one provider, five reports and the one that may
\* then be under way: what it takes to condemn and to heal it, and more than it
\* takes to overflow a window of two samples.  The reports end.
CHECK_DEADLOCK FALSE
SPECIFICATION Spec
CONSTANTS
    Reporters = {r1, r2}
    Providers = {p1}
    Latencies = {1, 2}
    Categories = {"rate_limit", "server"}
    MaxReports = 5
    Window = 2
    DegradeAt = 2
    CondemnAt = 3
INVARIANTS StreaksExact UnhealthyExactly TwoSuccessesHeal SamplesAreRecent
SYMMETRY Symmetry
