SPECIFICATION Spec
CONSTANTS
    Nil = Nil
    s1 = s1
    s2 = s2
    s3 = s3
    Server = {s1, s2, s3}
    Command = {}
    LogCap = 4
    MaxTerm = 2
    MaxRestarts = 1
    MaxCalls = 1
    MaxElections = 2
SYMMETRY Symmetry
ACTION_CONSTRAINTS
    ConnectFirst
    Eager
    FewElections
INVARIANTS
    TypeOK
    VotesAreVoters
    LogWellFormed
    VoteOnce
    VoteDurable
    ElectedOnce
PROPERTIES
    VoteStable
    ImplementsVoting
\* MaxTerm ends every behaviour: the bounds stop the system, it does not.
CHECK_DEADLOCK FALSE
