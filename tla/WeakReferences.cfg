CONSTANTS
    Obj = {o1, o2, o3}
    Var = {x, z}
    Undef = Undef
    Magical = {z}
    Intrudes = FALSE
SYMMETRY Symmetry
SPECIFICATION Spec
INVARIANT BooksKept
PROPERTY ImplementsWeakMap
CHECK_DEADLOCK FALSE
