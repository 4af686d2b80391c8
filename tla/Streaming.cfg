\* Plans of up to three candidates, p3 without an adapter; three lines each.
SPECIFICATION FairStreamSpec
CONSTANTS
    StreamProviders = {"p1", "p2", "p3"}
    StreamPlans <- MCPlans
    StreamAdapters = {"p1", "p2"}
    MaxLines = 3
INVARIANTS OneVoice NothingGivenUpEarly
PROPERTY EveryStreamEnds
CHECK_DEADLOCK FALSE
