SPECIFICATION Spec
CONSTANTS
    u1 = u1
    u2 = u2
    r1 = r1
    r2 = r2
    link = link
    Users = {u1, u2}
    Rows = {r1, r2}
    Files = {f1, f2}
    Columns = {link}
    LookedUp = {link}
    Matches <- MatchingRows
    Targets <- OneOrAll
    Policies = {p1, p2}
    Workers = {w1, w2}
    NoFile = NoFile
    None = None
SYMMETRY Symmetry
INVARIANTS
    TypeOK
    NoOtherLoss
    FilesApart
PROPERTIES
    HiddenRowsKept
