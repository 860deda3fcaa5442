SPECIFICATION FeedFairSpec
CONSTANTS
    Records = {}
    Writers = {w1, w2}
    Polls = {p1, p2}
    None = None
    Earlier = 0
    MaxVersion = 1
    MaxID = 3
INVARIANTS
    NoChangeSkipped
PROPERTIES
    EveryChangeReached
