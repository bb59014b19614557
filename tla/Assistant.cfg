\* Three decisions on a proposal, at quantities on both sides of the limit.
CONSTANTS
    Proposals = {p1}
    Decisions = {r1, r2, r3}
    Quantities = {0, 1, 2, 3}
    MaxQuantity = 2
    NoDecision = NoDecision
SPECIFICATION FairSpec
INVARIANTS
    OrdersAreApproved
    ApprovedShowsItsOrder
    DecidedOnce
PROPERTIES
    EveryDecisionIsAnswered
CHECK_DEADLOCK FALSE
