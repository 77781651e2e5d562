SPECIFICATION Spec
CONSTANTS
    Nil = Nil
    s1 = s1
    s2 = s2
    s3 = s3
    Server = {s1, s2}
    Command = {}
    LogCap = 4
    MaxTerm = 3
    MaxRestarts = 0
    MaxCalls = 1
    MaxElections = 3
SYMMETRY Symmetry
ACTION_CONSTRAINTS
    Eager
INVARIANTS
    CommittedOnMajority
\* MaxTerm ends every behaviour: the bounds stop the system, it does not.
CHECK_DEADLOCK FALSE
