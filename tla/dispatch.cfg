SPECIFICATION Spec
CONSTANTS
    r1 = r1
    r2 = r2
    r3 = r3
    c1 = c1
    Rpc = {r1, r2, r3}
    KindOf <- MCKindOf
    Client = {c1}
    Nil = Nil
INVARIANTS OwnAnswer SnapshotForAsker
PROPERTIES RpcAnswered LockReleased 
\* A stopped node is at rest.
CHECK_DEADLOCK FALSE
