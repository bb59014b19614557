\* The code refutes ScanCountedOnce: two sessions read the status before either commits.
CONSTANTS
    order = order
    transfer = transfer
    count = count
    sale = sale
    scan = scan
    Docs = {scan}
    Sessions = {s1, s2}
    NoSession = NoSession
    Lines <- MCLines
    Tenant <- MCLines
    Plans <- MCPlans
    Content <- MCContent
    OpeningStock <- MCOpening
    ReorderPoint <- MCReorder
SPECIFICATION DocSpec
INVARIANTS
    ScanCountedOnce
CHECK_DEADLOCK FALSE
