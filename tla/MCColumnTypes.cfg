SPECIFICATION Spec
CONSTANTS
    text = text
    user = user
    intNumber = intNumber
    varchar = varchar
    int = int
    like = like
    equal = equal
    Columns = {c1}
    Types = {text, user, intNumber}
    SqlTypes = {varchar, int}
    SqlType <- SqlTypeOf
    First = text
    Ops = {like, equal}
    Fits <- FitsOf
    Filters = {f1}
    Records = {r1, r2}
    Workers = {w1, w2}
    None = None
SYMMETRY Symmetry
INVARIANTS
    TypeOK
    TypesAgree
    FiltersFit
    NoUnconfirmedLoss
