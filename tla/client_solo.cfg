SPECIFICATION FairClientSpec
CONSTANTS
    Nil = Nil
    s1 = s1
    s2 = s2
    s3 = s3
    Server = {s1}
    Client = {k1, k2, k3}
    k1 = k1
    k2 = k2
    k3 = k3
    c1 = c1
    c2 = c2
    c3 = c3
    c4 = c4
    c5 = c5
    Call = {c1, c2, c3}
    Command <- MCCommand
    Request <- MCRequest
    LogCap = 7
    MaxTerm = 2
    MaxRestarts = 1
    MaxCalls = 0
INVARIANTS
    AckedDurable
PROPERTIES
    AckedIsApplied
    RegisteredAnswered
    SoloServes
\* The bounds stop the system, it does not.
CHECK_DEADLOCK FALSE
