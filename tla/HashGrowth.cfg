CONSTANTS
    Key = {a, b, c, d, e}
    Hole = Hole
    LinearMax = 4
    MinCapacity = 4
    Reservations = {}
    MaxCalls = 2
    MaxPlaceholders = 3
    Restricts = FALSE
    LosesDeletion = FALSE
CHECK_DEADLOCK FALSE
SYMMETRY Symmetry
SPECIFICATION Spec
INVARIANTS
    IndexMatchesEntries
PROPERTIES
    ImplementsOrderedMap
