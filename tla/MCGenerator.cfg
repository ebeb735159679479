CONSTANTS
    g1 = g1
    g2 = g2
    Generators = {g1, g2}
    Nobody = Nobody
    Bodies = {g1, g2}
    BodyOf <- Cloned
    MaxSI = 3
    MaxFrames = 4
    MaxEvals = 1
SPECIFICATION FairSpec
INVARIANTS
    TypeOK
    RunningOnce
    HookIsInnermost
    PendingNotPassed
    JumpTargetsLive
    DepthCountsActivations
PROPERTIES
    CallerArrayRestored
    TerminalForever
    ImplementsLifecycle
    ExceptionDelivered
CHECK_DEADLOCK FALSE
