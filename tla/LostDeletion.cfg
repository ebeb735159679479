CONSTANTS
    Key = {a, b, c}
    Hole = Hole
    LinearMax = 2
    MinCapacity = 4
    Reservations = {8}
    MaxCalls = 1
    MaxPlaceholders = 3
    Restricts = TRUE
    LosesDeletion = TRUE
CHECK_DEADLOCK FALSE
SYMMETRY Symmetry
SPECIFICATION Spec
INVARIANTS
    LazyEntryIsDeleted
