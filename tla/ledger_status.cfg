\* One API process, nothing failing: a request that brings its own status.
SPECIFICATION Spec
CONSTANTS
    g = g
    a1 = a1
    b1 = b1
    b2 = b2
    t1 = t1
    t2 = t2
    t3 = t3
    t4 = t4
    t5 = t5
    t6 = t6
    h = h
    p1 = p1
    p2 = p2
    alice = alice
    bob = bob
    carol = carol
    c1 = c1
    Genesis = g
    NoBlock = NoBlock
    NoId = NoId
    NoTx = NoTx
    Proc = {p1}
    TxId = {t1, t2, t3}
    ForeignId = {h}
    Block = {g, a1, b1, b2}
    BlockIndex <- MCIndex
    BlockParent <- MCParent
    BlockTxs <- MCTxs
    Posted <- PostsWithStatus
    From <- MCFrom
    To <- MCTo
    Amount <- MCAmount
    Type <- MCType
    CreditId = {c1}
    CreditTo <- MCCreditTo
    CreditAmount <- MCCreditAmount
    PendingLimit = 2
    MaxQueue = 1
    MaxCrashes = 0
    MaxFailures = 0
INVARIANT
    TransfersCovered
