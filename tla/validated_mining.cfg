\* Two processes that validate and consume, M3 publishing what they accept.
SPECIFICATION Spec
CONSTANTS
    g = g
    a1 = a1
    a2 = a2
    b1 = b1
    s2 = s2
    u1 = u1
    t1 = t1
    p1 = p1
    p2 = p2
    Genesis = g
    NoBlock = NoBlock
    NoId = NoId
    Proc = {p1, p2}
    Block <- Tree
    BlockIndex <- TreeIndex
    BlockParent <- TreeParent
    Posted <- PlainPosts
    BlockTxs <- TreeTxs
    Sound = {g, a1, a2, b1, s2}
    TxId = {t1}
    ForeignId = {}
    MaxQueue = 1
    MaxCrashes = 1
    MaxFailures = 1
SYMMETRY Replicas
INVARIANTS
    LosesToSiblingOnly
    AuditPasses
PROPERTY
    ImplementsLinkedChain
CHECK_DEADLOCK FALSE
