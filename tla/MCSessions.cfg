SPECIFICATION Spec
CONSTANTS
    Users = {u1, u2}
    SIDs = {s1, s2, s3}
    Workers = {w1, w2}
    None = None
    UniqueDraws = TRUE
SYMMETRY Symmetry
INVARIANTS
    SessionOwner
    LogoutFinal
    LoginDurable
PROPERTIES
    ImplementsStore
