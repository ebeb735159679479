CONSTANTS
    g1 = g1
    g2 = g2
    Generators = {g1, g2}
    Nobody = Nobody
    Bodies = {g1, g2}
    BodyOf <- Cloned
    MaxSI = 4
    MaxFrames = 5
    MaxEvals = 0
SPECIFICATION Spec
SYMMETRY Symmetry
INVARIANTS
    ChainLinked
    BlocksAccountedFor
    StackFollowsCalls
PROPERTIES
    ContinuationIntact
CHECK_DEADLOCK FALSE
