\* Three concurrent requests on two lines: the whole of the stock core.
CONSTANTS
    milk = milk
    eggs = eggs
    theirs = theirs
    Sessions = {s1, s2, s3}
    NoSession = NoSession
    Lines <- MCLines
    Tenant <- MCTenant
    Plans <- MCPlans
    OpeningStock <- MCOpening
    ReorderPoint <- MCReorder
SPECIFICATION FairSpec
INVARIANTS
    TypeOK
    LedgerExplainsStock
    ConservationOfStock
    EventsTellTheLedger
    ThresholdsMarkCrossings
PROPERTIES
    RequestsAreAtomic
    EveryRequestIsAnswered
CHECK_DEADLOCK FALSE
