SPECIFICATION Spec
CONSTANTS
    u1 = u1
    u2 = u2
    d1 = d1
    d2 = d2
    t1 = t1
    Users = {u1, u2}
    Admins = {u1}
    Founder = u1
    Databases = {d1, d2}
    Initial = {d1}
    Tables = {t1}
    Home <- HomeOf
    Linked = {t1}
    Rights = {read}
    Entries = {e1}
    Workers = {w1, w2}
    MaxRows <- RowsOf
    None = None
SYMMETRY Symmetry
INVARIANTS
    TypeOK
    RightsOfMembers
    CompleteOrAbandoned
