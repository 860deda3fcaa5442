SPECIFICATION Spec
CONSTANTS
    Tables = {t1, t2}
    Columns = {c1, c2, c3}
    Names = {n1}
    Workers = {w1, w2}
    None = None
    NumericIdentifier = FALSE
SYMMETRY Symmetry
INVARIANTS
    ListedTablesExist
    ColumnsBacked
    CreatedComplete
CHECK_DEADLOCK FALSE
