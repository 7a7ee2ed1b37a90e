\* Two processes generating checkpoints of two frequencies while blocks are stored in any
\* order, a fork with a wrong hash among them, and one is edited.
SPECIFICATION Spec
CONSTANTS
    p1 = p1
    p2 = p2
    Proc = {p1, p2}
    MaxHeight = 3
    Stray <- Strays
    MaxEdits = 1
    Frequency = {2, 3}
    ZeroHash = ZeroHash
    Garbage = Garbage
SYMMETRY Replicas
INVARIANTS
    OneCheckpointPerRange
    RangesOfAFrequencyTile
    NoFalseAlarm
    ChainCommits
    CheckpointPinsHistory
    BisectionFindsFirst
