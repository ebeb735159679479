CONSTANTS
    SigSize = 3
    Code = {"handler"}
    Dying <- AnyDies
    DieCount = 3
    MaxSent = 3
    MaxFrames = 7
SPECIFICATION Spec
INVARIANT NoneForgotten
CHECK_DEADLOCK FALSE
