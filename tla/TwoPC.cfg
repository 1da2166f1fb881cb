\* A transfer across shards with every fault and recovery, or competing for the
\* same money with a transfer that is refused or with a withdrawal that is
\* retried with its key.
CONSTANTS
    A = A
    B = B
    x = x
    y = y
    z = z
    t1 = t1
    t2 = t2
    t3 = t3
    stamp = stamp
    Nobody = Nobody
    NoKey = NoKey
    NoAccount = NoAccount
    NoTime = NoTime
    NoShard = NoShard
    Group <- MCGroup
    home <- MCHome
    Funds <- MCFunds
    Tx <- CompetingTx
    Request <- CompetingRequests
    Scenario <- RecoveredOrCompeting
    Retried <- WithdrawRetried
    MaxMoney = 2
    MaxAttempts = 2
    MaxQueue = 3
SPECIFICATION FairSpec
CONSTRAINTS
    RecoveryWaits
    OwnAnswers
INVARIANTS
    MoneyConserved
PROPERTIES
    ImplementsAtomicTransfer
    RecoveryResolves
CHECK_DEADLOCK FALSE
