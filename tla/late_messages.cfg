SPECIFICATION Spec
CONSTANTS
    Nil = Nil
    Me = Me
    L1 = L1
    L2 = L2
    v1 = v1
    v2 = v2
    v3 = v3
    v4 = v4
    v5 = v5
    Server = {Me, L1, L2}
    Command = {v1, v2, v3, v4, v5}
    Old <- MCOld
    New <- MCNew
    Committed = 2
    LogCap = 4
INVARIANT AppliesCommitted
PROPERTY NeverBack
