\* One line is enough: the connection breaks before it.
SPECIFICATION StreamSpec
CONSTANTS
    StreamProviders = {"p1", "p2", "p3"}
    StreamPlans <- MCPlans
    StreamAdapters = {"p1", "p2"}
    MaxLines = 1
INVARIANT EmptyMeansEmpty
CHECK_DEADLOCK FALSE
