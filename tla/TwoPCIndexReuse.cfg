\* A lost entry is answered for by the one that took its index.
CONSTANTS
    A = A
    B = B
    x = x
    y = y
    z = z
    t1 = t1
    t2 = t2
    t3 = t3
    stamp = stamp
    Nobody = Nobody
    NoKey = NoKey
    NoAccount = NoAccount
    NoTime = NoTime
    NoShard = NoShard
    Group <- MCGroup
    home <- MCHome
    Funds <- MCFunds
    Tx <- OneTx
    Request <- OneRequest
    Scenario <- OneAlone
    Retried <- NoneRetried
    MaxMoney = 2
    MaxAttempts = 1
    MaxQueue = 3
SPECIFICATION Spec
INVARIANTS
    VotesCounted
CHECK_DEADLOCK FALSE
