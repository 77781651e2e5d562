SPECIFICATION FairSpec
CONSTANTS
    Nil = Nil
    s1 = s1
    s2 = s2
    s3 = s3
    s4 = s4
    q1 = q1
    q2 = q2
    q3 = q3
    Server = {s1, s2, s4}
    Command = {}
    Self = s1
    Peer = {s2}
    Request = {q1, q2}
    Change <- MCChange
    Others <- MCOthers
    LogCap = 6
    MaxTerm = 3
CONSTRAINT Relevant
INVARIANTS OneChange ConfigTracksLog AnsweredApplied
PROPERTY JoinerVotes
\* The leadership may end with the node a follower, and all calls answered.
CHECK_DEADLOCK FALSE
