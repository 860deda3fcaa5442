SPECIFICATION FeedSpec
CONSTANTS
    Records = {r1}
    Writers = {w1, w2}
    Polls = {p1}
    None = None
    Earlier = 1
    MaxVersion = 2
    MaxID = 3
SYMMETRY Symmetry
INVARIANTS
    FeedTypeOK
    PageConverges
    LoggedIsWritten
