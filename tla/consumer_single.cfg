\* One API process, the whole tree: order and progress.
SPECIFICATION FairSpec
CONSTANTS
    g = g
    a1 = a1
    a2 = a2
    b1 = b1
    b2 = b2
    t1 = t1
    t2 = t2
    t3 = t3
    f = f
    p1 = p1
    p2 = p2
    Genesis = g
    NoBlock = NoBlock
    NoId = NoId
    Proc = {p1}
    Block <- Tree
    BlockIndex <- TreeIndex
    BlockParent <- TreeParent
    Posted <- PlainPosts
    BlockTxs <- TreeTxs
    TxId = {t1, t2}
    ForeignId = {f, t3}
    MaxQueue = 2
    MaxCrashes = 2
    MaxFailures = 1
INVARIANT
    GapsExplained
PROPERTIES
    EventuallyDecided
    EventuallyConfirmed
\* A consumer whose start failed leaves nothing to happen once the queue is full.
CHECK_DEADLOCK FALSE
