\* Two API processes, a fork of three blocks, crashes and one failed database call.
SPECIFICATION Spec
CONSTANTS
    g = g
    a1 = a1
    a2 = a2
    b1 = b1
    b2 = b2
    t1 = t1
    t2 = t2
    t3 = t3
    f = f
    p1 = p1
    p2 = p2
    Genesis = g
    NoBlock = NoBlock
    NoId = NoId
    Proc = {p1, p2}
    Block <- Bush
    BlockIndex <- BushIndex
    BlockParent <- BushParent
    Posted <- MixedPosts
    BlockTxs <- BushTxs
    TxId = {t1, t2}
    ForeignId = {f, t3}
    MaxQueue = 2
    MaxCrashes = 1
    MaxFailures = 1
INVARIANTS
    TypeOK
    ConfirmedInChain
    NoSilentLoss
    NoForgottenConfirmation
PROPERTY
    ImplementsOfficialChain
SYMMETRY
    Replicas
