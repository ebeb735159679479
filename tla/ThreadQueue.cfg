CONSTANTS
    Thread = {p1, p2, c1, c2, c3}
    Producer = {p1, p2}
    Consumer = {c1, c2, c3}
    Batches = {1, 2}
    Counts = {1}
    Limits = {0, 2}
    NewLimits = {2}
    Unshareable = TRUE
    MaxItems = 2
SPECIFICATION FairSpec
INVARIANT NobodyOversleeps
PROPERTY EndUnblocks
CHECK_DEADLOCK FALSE
