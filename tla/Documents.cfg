\* The five kinds of document over the same two stock lines.
CONSTANTS
    order = order
    transfer = transfer
    count = count
    sale = sale
    scan = scan
    Docs = {order, transfer, count, sale, scan}
    Sessions = {s1, s2, s3}
    NoSession = NoSession
    Lines <- MCLines
    Tenant <- MCLines
    Plans <- MCPlans
    Content <- MCContent
    OpeningStock <- MCOpening
    ReorderPoint <- MCReorder
SPECIFICATION DocSpec
SYMMETRY Symmetry
INVARIANTS
    StatusHasItsStock
    StockFollowsDocuments
CHECK_DEADLOCK FALSE
