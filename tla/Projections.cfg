SPECIFICATION Spec
CONSTANTS
    Requests = {"sell", "seed"}
    Rows <- MCRows
    Seeded = {"seed"}
    Workers = {w1, w2}
    LastDay = 2
    MaxFailures = 1
    MaxRebuilds = 1
INVARIANT FiguresAgree
PROPERTY RebuildIsExact
PROPERTY EveryEventIsCounted
CHECK_DEADLOCK FALSE
