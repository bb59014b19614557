\* Two workers and a manager: alerts are unique, true when handled in order, and always settled.
CONSTANTS
    Workers = {w1, w2}
    Managers = {m1}
    ReorderPoint = 1
    OpeningLevel = 3
    Levels = {0, 1, 3}
    MaxMovements = 3
    MaxFailures = 1
SPECIFICATION FairSpec
INVARIANTS
    AlertsTellTheStock
    AlertsOutliveTheirMail
PROPERTIES
    EverythingIsSettled
CHECK_DEADLOCK FALSE
