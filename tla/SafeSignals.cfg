CONSTANTS
    SigSize = 3
    Code = {"handler"}
    Dying <- LastDies
    DieCount = 3
    MaxSent = 5
    MaxFrames = 7
SPECIFICATION FairSpec
INVARIANTS
    NoneForgotten
    HandlerNotReentered
    MaskRestored
PROPERTIES
    HandlerKept
    PendingHandled
CHECK_DEADLOCK FALSE
