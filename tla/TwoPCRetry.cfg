\* The client of a transfer across shards retries it with its key.
CONSTANTS
    A = A
    B = B
    x = x
    y = y
    z = z
    t1 = t1
    t2 = t2
    t3 = t3
    stamp = stamp
    Nobody = Nobody
    NoKey = NoKey
    NoAccount = NoAccount
    NoTime = NoTime
    NoShard = NoShard
    Group <- MCGroup
    home <- MCHome
    Funds <- MCFunds
    Tx <- OneTx
    Request <- OneRequest
    Scenario <- OneAlone
    Retried <- TransferRetried
    MaxMoney = 2
    MaxAttempts = 2
    MaxQueue = 3
SPECIFICATION Spec
CONSTRAINTS
    OwnAnswers
PROPERTIES
    DecisionFinal
CHECK_DEADLOCK FALSE
