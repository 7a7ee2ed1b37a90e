\* Three API processes starting together on an empty database, two deaths.
SPECIFICATION Spec
CONSTANTS
    p1 = p1
    p2 = p2
    p3 = p3
    h1 = h1
    h2 = h2
    h3 = h3
    h4 = h4
    h5 = h5
    m1 = m1
    m2 = m2
    fork = fork
    Proc = {p1, p2, p3}
    GenesisHash <- MCGenesisHash
    MinedHash = {m1, m2, fork}
    MinedIndex <- MCMinedIndex
    NoHash = NoHash
    MaxHeight = 2
    MaxBuilds = 5
    MaxCrashes = 2
INVARIANTS
    OneGenesis
    UpHasGenesis
    MetadataTruthful
    AnnouncedIsStored
PROPERTY
    EventuallyMarked
\* Once every process is up and the chain has its height nothing is left to do.
CHECK_DEADLOCK FALSE
