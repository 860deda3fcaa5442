SPECIFICATION Spec
CONSTANTS
    Users = {u1, u2}
    Groups = {g1, g2}
    Endpoints = {e1}
    Workers = {w1, w2, w3}
    None = None
SYMMETRY Symmetry
INVARIANTS
    TypeOK
    NoStaleGrant
    GrantTaken
PROPERTIES
    Admitted
