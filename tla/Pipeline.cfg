\* Crashes, stalls, trimming: nothing lost between outbox, stream and group,
\* and nothing duplicated before the first failure.
CONSTANTS
    Events = {1, 2, 3}
    Transactions <- MCTransactions
    Subject <- MCSubject
    Relays = {r1, r2}
    Workers = {w1, w2}
    RelayBatch = 2
    WorkerBatch = 2
    StreamCap = 2
    MaxFailures = 2
SPECIFICATION Spec
SYMMETRY Symmetry
INVARIANTS
    StreamTellsTheOutbox
    NothingStranded
    NoDuplicateWithoutFailure
CHECK_DEADLOCK FALSE
