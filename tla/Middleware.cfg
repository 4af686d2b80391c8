\* Two callers change the chain of two extensions while a request goes through its hooks.
\* The requests end and the changes stop at MaxChanges.
CHECK_DEADLOCK FALSE
SPECIFICATION Spec
CONSTANTS
    None = None
    a = a
    b = b
    Requests = {r1}
    Callers = {c1, c2}
    Extensions = {a, b}
    Initial <- MCInitial
    MaxChanges = 3
SYMMETRY Interchangeable
INVARIANTS WalkIsFaithful FatalSurfaces ChainIsAsRegistered
