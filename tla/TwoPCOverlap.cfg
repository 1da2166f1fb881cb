\* Recovery may ask while a decision is under way.
CONSTANTS
    A = A
    B = B
    x = x
    y = y
    z = z
    t1 = t1
    t2 = t2
    t3 = t3
    stamp = stamp
    Nobody = Nobody
    NoKey = NoKey
    NoAccount = NoAccount
    NoTime = NoTime
    NoShard = NoShard
    Group <- MCGroup
    home <- MCHome
    Funds <- MCFunds
    Tx <- OneTx
    Request <- OneRequest
    Scenario <- OneRecovered
    Retried <- NoneRetried
    MaxMoney = 2
    MaxAttempts = 1
    MaxQueue = 3
SPECIFICATION Spec
CONSTRAINTS
    OwnAnswers
INVARIANTS
    AtomicOutcome
CHECK_DEADLOCK FALSE
