SPECIFICATION Spec
CONSTANTS
    Tables = {t1, t2}
    Columns = {c1, c2}
    Names = {n1, n2}
    Workers = {w1}
    None = None
    NumericIdentifier = FALSE
SYMMETRY Symmetry
INVARIANTS
    UniqueNames
CHECK_DEADLOCK FALSE
