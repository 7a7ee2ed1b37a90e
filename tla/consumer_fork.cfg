\* One API process, nothing failing: a fork of the mining service.
SPECIFICATION Spec
CONSTANTS
    g = g
    a1 = a1
    a2 = a2
    b1 = b1
    b2 = b2
    t1 = t1
    t2 = t2
    t3 = t3
    f = f
    p1 = p1
    p2 = p2
    Genesis = g
    NoBlock = NoBlock
    NoId = NoId
    Proc = {p1}
    Block <- Tree
    BlockIndex <- TreeIndex
    BlockParent <- TreeParent
    Posted <- PlainPosts
    BlockTxs <- TreeTxs
    TxId = {t1, t2}
    ForeignId = {f, t3}
    MaxQueue = 2
    MaxCrashes = 0
    MaxFailures = 0
INVARIANT
    StoredBlocksLinked
