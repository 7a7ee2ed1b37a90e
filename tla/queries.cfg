\* A thread with the history of a wallet, a client of the pages of the chain, one of the
\* statistics and one of the details, while blocks are recorded and confirmed.
SPECIFICATION Spec
CONSTANTS
    g = g
    a1 = a1
    a2 = a2
    b2 = b2
    a3 = a3
    b3 = b3
    a4 = a4
    t1 = t1
    t2 = t2
    c = c
    f = f
    alice = alice
    bob = bob
    carol = carol
    r1 = r1
    NoId = NoId
    NoTx = NoTx
    Genesis = g
    Block = {g, a1, a2, b2, a3, b3, a4}
    BlockIndex <- MCIndex
    BlockTxs <- MCTxs
    TxId = {t1, t2, c}
    Posted <- MCPosted
    Thread = {r1}
    Wallet = {alice, bob}
    Parties <- MCParties
    Limit = 2
INVARIANTS
    HistoryComplete
    WalkComplete
    StatsOrdered
    
