\* The deployment as shipped, one relay and any number of workers: order and
\* at-least-once delivery.
CONSTANTS
    Events = {1, 2, 3}
    Transactions <- MCTransactions
    Subject <- MCMilkOnly
    Relays = {r1}
    Workers = {w1, w2}
    RelayBatch = 2
    WorkerBatch = 2
    StreamCap = 9
    MaxFailures = 2
SPECIFICATION FairSpec
INVARIANTS
    StreamInSequenceOrder
PROPERTIES
    AtLeastOnce
CHECK_DEADLOCK FALSE
