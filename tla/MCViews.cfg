SPECIFICATION Spec
CONSTANTS
    Views = {v1, v2}
    First = v1
    Items = {i1, i2, i3}
    Of <- OfFirst
    Columns = {c1}
    Workers = {w1, w2}
    Gap = 2
    Behind = 2
    Unit = 2
    Fine = 1
    Coarse = 1
    Top = 4
    None = None
SYMMETRY Symmetry
INVARIANTS
    TypeOK
    NoSilentTie
    NothingUnseen
    ViewKept
PROPERTIES
    MovedBetween
