\* One shard, two replicas, every sequence of five entries.
CONSTANTS
    x = x
    y = y
    z = z
    k0 = k0
    k1 = k1
    k2 = k2
    t1 = t1
    t2 = t2
    s1 = s1
    s2 = s2
    r1 = r1
    r2 = r2
    noon = noon
    NoKey = NoKey
    NoAccount = NoAccount
    NoTime = NoTime
    NoShard = NoShard
    MaxMoney = 3
    MaxEntries = 5
    Tx <- MCTx
    Replica <- MCReplica
    Opening <- MCOpening
    Commands <- MCCommands
SPECIFICATION Spec
INVARIANTS
    BooksBalance
    NoOverdraft
    PromisesHeld
    BookedOnce
    SameRequestSameAnswer
    ReplicasAgree
CHECK_DEADLOCK FALSE
