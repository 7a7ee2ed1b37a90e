\* A height is missing when the checkpoints are generated.
SPECIFICATION Spec
CONSTANTS
    p1 = p1
    p2 = p2
    Proc = {p1}
    MaxHeight = 3
    Stray = {}
    MaxEdits = 0
    Frequency = {2}
    ZeroHash = ZeroHash
    Garbage = Garbage
INVARIANT
    CoversItsRange
