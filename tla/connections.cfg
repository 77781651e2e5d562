SPECIFICATION Spec
CONSTANTS
    Nil = Nil
    Peer = {p1, p2}
    Caller = {c1, c2}
    MaxDowns = 2
    MaxAdds = 1
PROPERTY StartsUp
\* A stopped node is at rest.
CHECK_DEADLOCK FALSE
