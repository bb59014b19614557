# OptiStock in TLA+

OptiStock is a multi-tenant inventory system: a FastAPI application on PostgreSQL,
a relay that moves domain events from an outbox table into a Redis stream, workers
that react to them, a nightly job that forecasts demand, and an assistant that
answers questions and proposes orders. This directory holds TLA+ models of it, TLC
configurations that check them on small instances, and TLAPS proofs of the
properties that matter most.

Line numbers below are those of the sources the models were written from, under
`src/app/modules/` unless the path says otherwise; `PROJECT.json` ties every
definition that models code to its lines.

## 1. The system

| Component | State | Operations | What is hard |
|---|---|---|---|
| stock core (`inventory`) | `inventory` (quantity, reorder point), `inventory_movements` ("the Immutable Ledger"), rows of `event_outbox` | `adjust_inventory`, called inside the caller's transaction | row locks, the race to insert a line, deadlocks, rollback half way |
| purchase orders, transfers, reconciliation, sales, ingest | a status per document | create, deliver, ship, complete, approve, reject, sell, scan | status read without a lock, written after several adjustments |
| outbox, relay, consumers (`events`, `app/workers`) | `event_outbox.published_at`, the Redis stream, the group's offset and pending list | publish a batch, read, handle, acknowledge, reclaim | crashes between any two calls, several relays and workers, trimming, slow handlers |
| alerts | `alerts` rows | raise, resolve, dismiss, mail | handlers of different events at once, redelivery after newer events |
| analytics projections | `daily_metrics` | add an event, rebuild | redelivery, a rebuild while events arrive, midnight |
| forecasts, recommendations, nightly ETL (`analytics`, `recommendations`, `app/core/scheduler.py`, `etl`) | a file per day, `forecast_runs`, `recommendations`, `abc_class` | extract, classify, forecast, replace, score, backfill | a scheduler in every process, windows at their ends |
| assistant actions (`assistant/actions.py`) | `assistant_actions`, purchase orders, audit rows | propose, approve, reject, expire, fail | two people deciding at once, failure after a decision |
| assistant runtime and caches | in-process caches with a time to live, cooldowns of models | ask, call a model, call a tool, keep an answer | stale entries, answers replayed to others, broken streams |
| master data, users, authentication, audit trail | companies, products, customers, suppliers, warehouses, users, `audit_logs`, a failed-login counter | create, edit, deactivate, log in, record each flush | checks before the write, lost updates, the trail in the same commit |
| read models and dashboards | none | queries | one question, several queries: comparisons, windows and units that drift apart |
| event feed, request plumbing, front end, scripts | - | - | see section 7 |

How they meet: every change of stock, whatever document asks for it, goes through
`adjust_inventory`, in the transaction of the request. It stages its movement
and its events with the level. The request's router commits or rolls back. After
the commit a relay claims the outbox rows, adds them to the stream and marks
them; a worker of the consumer group reads an entry, runs every handler
registered for its type in one transaction, commits and acknowledges. Alerts and
projections are such handlers. At night the sales become forecasts and suggestions
of what to order. An approved proposal of the assistant becomes a draft purchase
order, which moves stock only when it is delivered. The screens read all of it.

## 2. The modules

    AtomicStock  <--implements--  StockLedger  <-----------  Documents
                                     |                             |
                               StockHistory  <----------  DocumentHistory
                                     |                        |        \
                                  MCStock               MCDocuments   Stock_proofs

    EventDelivery <--implements-- EventPipeline -- MCPipeline
                                       \-- EventPipeline_proofs
    Alerts -- MCAlerts                 MasterData -- MCMasterData
       \-- Alerts_proofs                  \-- MasterData_proofs

    AssistantActions -- MCAssistant    Projections -- MCProjections
       \                                  \
        >-- Assistant_proofs                >-- Analytics_proofs
       /                                  /
    Conversation -- MCConversation     Nightly -- MCNightly

    Trading <- StockScreens <- ProductScreens <- BuyingScreens <- Figures -- MCFigures
                                                                     \-- Figures_proofs

(`<-` between plain names: the module on the right EXTENDS the one on the left.
`FoldTheorems`, lemmas about the community modules' sums, is used by Stock_proofs,
Analytics_proofs, Assistant_proofs and Figures_proofs. `Assistant_proofs` and
`Analytics_proofs` extend two models each that share no variable: their theorems are
of one model or of the other.)

**StockLedger** (`inventory/service.py`, transactions of the routers). A session
is a request with its own database transaction; its `plan` is the list of
`adjust_inventory` calls it makes. One action per statement that reaches the
database: `FindLine` (the SELECT of `get_or_create_inventory`), `InsertLine` or
`InsertConflict` (its INSERT), `LockLine` (SELECT ... FOR UPDATE), `ApplyLine` or
`RefuseShortage` (the new level, movement and events, flushed). `Commit` publishes
what is staged, `Rollback` drops it. PostgreSQL is modelled from how the code uses
it: READ COMMITTED, row locks held to the end of the transaction, a unique index,
a deadlock detector. `Interrupt` is any exception or the death of the process.

**AtomicStock** says what a caller may rely on: a request takes place as a whole
in one step or not at all. **StockHistory** holds the refinement mapping and the
properties that compare the tables with all requests ever made.

**Documents** adds the five kinds of document. A handler's status check and the
start of its transaction are one step (`CarryOut`); from there `StockLedger`'s
actions run as they are (the handlers call nothing else that writes stock, so that
part holds by construction), and `Finish` commits status and stock together.
**DocumentHistory** computes stock from documents alone.

**EventPipeline** (`app/workers/relay.py`, `app/workers/consumers.py`). Outbox rows
by sequence number; relays that claim (FOR UPDATE SKIP LOCKED), add one entry at a
time and mark; the stream by position, with trimming; the group's offset and
pending list; workers that read a batch, handle and acknowledge one entry at a
time, fail at any point, stall and are reclaimed from. **EventDelivery** is its
abstract specification: a reaction to what was committed and only to that, and
sooner or later to all of it.

**Alerts** (`alerts/handlers.py`, `alerts/service.py`, `alerts/notifications.py`).
One stock line moves and puts its events on the stream; each worker executes the
statements of the handlers (`raise`, `select`, `update`), the commit and the XACK
one by one; a manager dismisses. A mail may go out, reach nobody (no recipients) or
fail, and what it does is swallowed, as `notify_critical` and its caller do. Delivery is the part of EventPipeline that
matters here: in order when first delivered, again and late when left pending.

**Projections** (`analytics/projections.py`, `analytics/handlers.py`,
`app/workers/rebuild_projections.py`). Requests write sales and movements and commit
or fail; workers apply an event's `_bump` (upsert of a day's counters, under the
row's lock), commit and acknowledge, and may be given an event again; an operator
runs `rebuild_daily_metrics`, its queries, its DELETE and its INSERT a step each.
The calendar turns, so an event's day and its row's day may differ.

**Nightly** (`app/core/scheduler.py`, `etl`, `analytics/data_lake.py`,
`abc_analysis.py`, `forecast.py`, `persistence.py`, `accuracy.py`,
`recommendations/service.py`, `app/workers/backfill_forecasts.py`). Every API process
has a scheduler; a job extracts to the day's file, reads what is in it by then (the
other job's extraction, perhaps), ranks, forecasts, and writes classes, suggestions,
forecasts and scores in one transaction, whose row locks order the jobs. Sales,
manual suggestions and a backfill run beside it. The regression is replaced by the
quantity it starts from, the units sold in the training window over the lookback.
The summary of accuracy is one company's, of the scores of its last days.

**AssistantActions** (`assistant/actions.py`, `assistant/router.py`). Decisions on
a proposal: the unlocked read and checks (`Approve`, `Reject`, `Refuse`), the
flush that creates the order and takes the proposal's row lock (`CreateOrder`),
the flush of status and audit row (`Mark`), the commits.

**Conversation** (`assistant/runtime.py`, `service.py`, `tools.py`, `cache.py`,
`streaming.py`). One process, many coroutines: a question looks for a kept answer,
opens a turn with a model of the chain (retries, quota, cooldown, fallback), streams
it, runs the tools it asked for through the tool cache, and so on for a bounded
number of rounds; then the answer is kept or not. Time is the age of what is kept, of
the figures a running question holds, and how long it has run (`took`), so there is
no clock to bound.

**MasterData** (`products`, `customers`, `suppliers`, `warehouses`, `companies`,
`users/router.py`, `audit/listener.py`). A request is an SQLAlchemy session: what it
loaded, what it changed (only columns that differ are written), a flush under unique
indexes and row locks, the audit entries of the flush, a commit. The listener runs
before the flush and sees what was assigned: of a new row the entry leaves out the
columns left to their defaults (`ColumnDefaults`). Logging in is such a request too, on the counter of failures and the lock.

**Trading** holds the rows one company's screens read and the handlers that write
them, each as one committed transaction. **StockScreens**
(`warehouses/command.py`, `dashboard/service.py`, `analytics/dashboard.py`),
**ProductScreens** (`analytics/stockout.py`, `analytics/dashboard.py`,
`products/command_center.py`, `products/intelligence.py`, `analytics/eoq.py`) and
**BuyingScreens** (`purchase_orders/procurement.py`, `recommendations`,
`analytics/readmodels.py`, `insights/service.py`) are the queries as operators on
those rows, with the order, the limit and the rounding of each list where another
figure is made from it; where equals may come in any order, a list is the set of
lists the query may return (`Firsts`). **Figures** puts them over the running system and keeps apart the two
statements of `get_traces`.

The operators marked as mutated beside a definition are that definition with a
plausible bug; each property has one it must reject.

## 3. What the runs check

| Run | Instance | Shows | States |
|---|---|---|---|
| `stock` | 3 requests; 2 lines (one without a row) and a foreign line; plans in opposite lock orders, one line named twice, a shortage at the second line | safety of the stock core, refinement of AtomicStock, every request answered | 156,184 |
| `documents` | one document of each kind, 3 requests, sessions symmetric | statuses and stock together; stock is what the documents say unless operations on one document overlap | 84,278 |
| `scan_twice` | one scan, 2 requests | *violated*: see section 4 | small |
| `pipeline` | 3 events in 2 transactions, 2 relays, 2 workers, batches of 2, a stream cut to 2, 2 failures | nothing lost between outbox, stream and pending list; no duplicate before the first failure | 1,461,784 |
| `pipeline_deployed` | the same with one relay, no trimming | a line's events keep their order; refinement of EventDelivery, liveness included | 91,038 |
| `alerts` | 2 workers, 1 manager, 3 movements between 3, 1 and 0 (reorder point 1), 1 failure | true, there whatever becomes of the mail, always settled | 630,903 |
| `projections` | a sale of one movement and one sale row, a seeded movement, 2 workers, 2 days, 1 failure, 1 rebuild | counters and source agree; a rebuild is exact; no event waits for ever | 60,725 |
| `nightly` | 2 schedulers, 2 jobs, 3 pairs of 2 tenants, 4 sales, 5 half days, windows of 1 and 2 days, a summary of 1 | scores, suggestions, classes | 491,954 |
| `assistant` | 1 proposal, 3 decisions, quantities 0..3 with a limit of 2 | orders are approved and audited, one decision unless two overlap, all answered | 26,739 |
| `conversation` | 2 questions in up to 3 forms, 2 models, tools that read, propose, do not exist and raise, up to 2 calls a turn, lifetimes of 2 ticks, at most 1 tick while a question runs, 1 restart | answers fit, figures are recent, promises are kept, questions end | 343,436 |
| `master_data` | 3 requests out of 19 (equal keys in both orders, a location moved to a key another request creates, two price edits, two barcodes, another company's product, right and wrong passwords), seeded rows of every audited table, lock at 2 | keys, trail, margins, counter | 73,803 |
| `figures` | 3 products, 2 suppliers, 2 buildings, 3 zones, 2 seeds, 3 days, 2 writes a day, every list with a limit some states exceed | the screens agree as far as their lists go; traces | 137,241 |

The properties, by the question they answer:

- *Is the ledger the truth?* `LedgerExplainsStock`: each line's movements chain
  from zero to its quantity. `ConservationOfStock`: stock is what there was plus
  what every successful request said. `EventsTellTheLedger`: per line the outbox,
  by sequence number, is the ledger. `ThresholdsMarkCrossings`: a threshold event
  exactly where the committed level crosses.
- *Is a request atomic?* `RequestsAreAtomic` (AtomicStock), `EveryRequestIsAnswered`.
- *Does a document say what happened?* `StatusHasItsStock`,
  `StockFollowsDocuments`.
- *Does an event arrive?* `StreamTellsTheOutbox`, `NothingStranded`,
  `NoDuplicateWithoutFailure`, `StreamInSequenceOrder`, `AtLeastOnce`.
- *Can the alert list be trusted?* `AlertsTellTheStock`, `AlertsOutliveTheirMail`,
  `EverythingIsSettled`.
- *Are the daily figures those of the sales?* `FiguresAgree`: on every day nothing
  disturbed, once its events are counted. What may disturb a day is an event counted
  twice or not at all, a transaction over midnight, and a rebuild that overlapped
  with either; `RebuildIsExact` says what puts it right. `EveryEventIsCounted`.
- *Is the morning's list of suggestions the night's?* `ScoresTellWhatSold`,
  `SuggestionsFollowForecasts`, `ClassesArePareto`.
- *Did a person say so?* `OrdersAreApproved`, `ApprovedShowsItsOrder`,
  `DecidedOnce`, `EveryDecisionIsAnswered`.
- *Is the answer an answer to this?* `AnswersFitTheQuestion`, `FiguresAreRecent`,
  `PromisesAreKept`, `EveryQuestionEnds`.
- *Do edits add up?* `KeysAreUnique`, `TrailTellsTheRows`, `LossOnlyFromARace`,
  `AttemptsAreCounted`.
- *Do two screens give one answer?* `StockFigures`, `ProductFigures`,
  `BuyingFigures`, and `TracesTellTheStock` for a page read while stock moves.

**Bounds.** Sessions, decisions and workers are two or three: every interaction in
the code is between the holder of a row and those that wait for it, and three make
a queue and a chain of waiters. Quantities sit on both sides of every threshold:
zero, the reorder point, the limit. The screens' limits (1000 risks, 100 orders and
board rows, 25 zone lines, 20 best sellers, 6 late orders and purchases, 5 companions,
4 cards and stale drafts in the code) are 1, 2 or 3, so that lists are shorter, as long
and longer; their roundings (to one, three and four decimals) are to halves, thirds
and tenths, so that they matter. `MaxFailures` 2 lets a recovery fail too;
`StreamCap` 2 makes trimming reach unread and pending entries. `MaxMovements` 3
covers falling, running out and recovering, in any order. Two jobs make a night that
overlaps, or two nights; five half days let a forecast be made, its day pass and
be scored; the sales put a product on the edge of class A. Two questions share an
answer, or a figure, or neither. Lifetimes of two ticks have a middle, which one has
not. Two writes a day on three days reach every band of the screens except
"medium" confidence, which a lookback of two days cannot produce.

**Deadlock checking** is off where requests are finite in number: all of them
answered is the end of a run. What waits for ever is caught by the liveness
properties instead. `master_data` and `figures` check for deadlock: in the first the
end of all requests is a step of its own (`Finished`), so anything else that stops is
two requests waiting for each other's rows.

**Fairness.** A handler that can execute its next statement does (the server runs
it), and the deadlock detector fires: weak fairness on `Adjust` and `Commit`, and on
`DeadlockAbort`. Nobody is obliged to send a request and nothing is obliged to fail.
`Relay.run` and `Consumer.run` loop, catch what a turn raises, and the compose file
restarts the processes: weak fairness on a relay's and a worker's steps and on
`Reclaim`, which the consumer calls at every turn. Failures are bounded, so this
says: if failures stop, everything is delivered. In Projections a worker and a
started rebuild go on (weak), and an event that is ready again and again is
delivered (strong: between two deliveries a worker may be busy with others). In
Conversation the event loop goes on with some question that can go on, and the
provider answers if only with an error: weak fairness on the disjunction, none
between questions.

## 4. Where code and comment part

One disagreement is a run:

- `scan_twice` refutes `ScanCountedOnce`: two copies of one scan in flight both
  deduct (`ingest/router.py:81`, against line 75).

Others are stated as definitions that no run checks, beside the weaker property that
one does; TLC refutes each on the instance of the run named:

| Definition | Claim | What happens | Instance |
|---|---|---|---|
| `Documents!OrderDeliveredOnce` | "This PO has already been delivered." (`purchase_orders/service.py:241`) | two overlapping requests both receive the order (`:239`); a transfer is shipped or completed twice (`transfers/service.py:120, 157`) and a rejection overwrites an approval (`reconciliation/service.py:168`) the same way | `scan_twice`, an order |
| `EventPipeline!StreamInSequenceOrder` | "Sequence order" of the stream | SKIP LOCKED lets a second relay overtake the first; one is deployed, and with one it holds | `pipeline_deployed`, two relays, batches of 1 |
| `Alerts!RedeliveryIsHarmless` | "Every handler here is idempotent" (`alerts/handlers.py:7`) | `stock.depleted`, left pending and handled after the refill, raises an alert no event closes (`:61`) | `alerts`, 1 worker, no manager |
| `Alerts!ScalingIsSafe` | "Scaling this is safe" | with two consumers the refill may be handled before the depletion is committed | `alerts`, no failure |
| `AssistantActions!FailureIsRecorded` | "Failed is a distinct state from rejected" | `failed` and `expired` are flushed, then rolled back; the proposal still reads proposed | `assistant` |
| `Conversation!KeptAnswersAreWhole` | "Only clean answers" are kept (`assistant/cache.py`) | a stream that breaks after some text leaves half an answer, which is kept (`assistant/service.py:484`) | `conversation` |
| `MasterData!PositiveMarginRequired` | "Rule 2: Positive profit margin required" (`products/service.py:25`) | one request raises the cost, another lowers the price, each checked against what it read (`:62`) | `master_data`, 2 requests |
| `BuyingScreens!EmptyShelvesComeFirst` | "Most urgent first: an empty shelf outranks a confident forecast." (`purchase_orders/procurement.py:412`) | a suggestion that says no rate of sale is sorted as having 999 days of stock, an empty shelf included (`:416`) | `figures` |
| `StockScreens!EdgesAreInFlight` | a line between two buildings is stock on its way | transfers that are still pending are drawn too (`warehouses/command.py:84`) | `figures` |
| `ProductScreens!PageShowsTheWindow` | one window, one revenue (`products/intelligence.py:47`) | the seasonality loop of `products/command_center.py` assigns to `revenue` again; the page shows the current month's | `figures` |

Also seen while modelling:

- *Stock and events.* A mail about a critical alert leaves before the transaction
  that raises it commits (`alerts/service.py:96`), so a failing commit leaves a mail
  without an alert, and the redelivery mails again: hence the condition on failures in
  `AlertsOutliveTheirMail`. Nothing says that a critical alert is mailed about: a
  mail that fails is logged and not tried again. A line refilled from zero to its reorder point or less has
  no open low-stock alert, since nothing crossed (`inventory/service.py:298`).
  `event_outbox.sequence` has gaps after a rollback, whatever `events/models.py:28`
  says.
- *Nights.* Two jobs never duplicate suggestions, because the UPDATE of
  `persist_abc_classes` makes the second wait for the first; that takes a product to
  update, hence the assumption that something was sold (`Past`). Two schedulers do
  record a night's forecasts twice, and a tenant's classes may come from two files. A
  pair that stops selling keeps its last suggestion (`persistence.py`: "yesterday's
  stale numbers do not pile up"). Sales of the forecast's own day, before it was
  made, are both evidence and outcome (`backfill_forecasts.py`: "not a model grading
  itself on data it already saw"). The job store is in memory: a firing missed
  during a restart is lost.
- *Assistant.* A proposal records the configured model even when a fallback
  answered. An argument a tool does not have raises in `runtime._advance` and fails
  the question, where `tools.run_tool` means it to "read as a correctable mistake".
  In demo mode the pseudonyms of SKUs are not translated back in tool arguments. The
  streaming guard cuts at `>= MAX_ANSWER_CHARS`, the validation at `>`.
- *Master data.* Customers are neither audited nor among the exclusions the listener
  lists. The trail is dated by the start of transactions. Changes by a login are
  not audited, and a column that was left to its default never appears in the trail.
- *Screens.* A product's daily series ends yesterday, the procurement sparkline a
  week early. Costs of goods and turnover ignore the analytics page's warehouse
  filter, inventory value does not. "Delayed" counts drafts in analytics and not in
  procurement. Stock in a category without a zone is missing from a building's
  attention count. Exceptions are cut from the cards before the
  cards of low priority are left out, so fewer than four may be shown while one waits
  behind. Beyond a thousand lines the analytics bands and the excess leave lines out,
  and "healthy" counts them. Two products need not name each other as "often sold
  together". A suggestion whose order was delivered is urgent again until the
  next night. `seed_procurement.py` speaks of "four states the service already
  writes"; the service writes two, and receives a cancelled order if asked. A
  movement committed between the two statements of `get_traces` is subtracted from
  every earlier day, where the docstring says "exact"; `TracesTellTheStock` states
  the error precisely.

## 5. What is proved

For every value of the constants that satisfies the named assumptions, any number of
sessions, relays, workers, managers, schedulers, requests, questions and decisions. The
module of a proof EXTENDS the model's own, and each action has a lemma that it preserves the invariant.

**`FoldTheorems`** is about data, not about the system. The library's induction
theorems take an operator as a parameter, which the provers cannot instantiate; here
a *set* stands for the induction hypothesis (`NatSetInduction`, `SubsetInduction`,
from the well-foundedness of `<` and of strict inclusion) and a *function* for the
recursive step (`RecursionOnPrefix`, `RecursionOnSubsets`: the recursive function a
fold chooses exists). From these follow the sums of the community modules over finite
sets: one more element adds its value (`SumAdds`), a change at one place changes the
sum by as much (`SumChanges`), and the choice of the next element does not matter
(`SumTakesAny`). Above them is what the screens need: a cardinality is a sum of ones
(`CardinalityIsSum`), a sum over a set is the sum over its parts of their sums
(`SumOfParts`, `CardinalityOfParts`), two sums may change places (`SumsExchange`), and
sums add, scale and are bounded term by term.

**`Stock_proofs`**, the ledger (`LinesAssumption`, `SessionsAssumption`,
`PlansAssumption`): `TypeCorrect`, `LedgerIntegrity`, `NoStaleWrite`,
`StagedWritesExclusive`. None of these is inductive alone. The ledger is intact
after a commit because what was staged continues it (`StagedChained`); it continues
it because the level it was computed from is still the line's level
(`ReadIsFresh`); that is so because the reader holds the line's lock
(`ReadUnderLock`) and others stage only under a lock (`StagedUnderLock`).
`CallInRange` says that a session in the middle of a call has a call to be in. Their
conjunction `IInv` is inductive: one lemma per action (`BeginStep` ...
`CommitStep`), and `AppendChained` and `ConcatChained` about lists of movements.

*Its history*: `StockIsConserved`, `OutboxTellsTheLedger`, `OutboxMarksTheCrossings`,
from a second invariant, `HInv`. A session half way through its plan has staged, on
each line, the sum of the calls it has passed; so the level it shows is the committed
one plus that sum, and at the commit the sum is the whole request's. The events it
has staged tell the movements it has staged, and since lines are locked no other
session's events on the line lie between them in sequence: a commit appends to what
the outbox tells of a line exactly what it appends to the line's ledger.

*Its abstraction*: `StockIsAtomic` proves `RequestsAreAtomic`, the refinement of
AtomicStock: the commit is the abstract request, a rollback is its refusal, every
other statement a stutter. From `HInv` the change of each level at the commit is the
one the abstract request makes.

*The documents* (also `ContentAssumption`): every theorem about the stock core holds
of the documents' steps on it too (`DocumentsKeepLedger`, `DocumentsKeepHistory`);
`StatusIntegrity` proves `StatusHasItsStock` from the invariant `DInv`, whose extra
part `TasksFit` ties a session's task to its document's kind and records that a
transfer is completed only after it was shipped. `StockIsWhatDocumentsSay` proves
`StockFollowsDocuments` from `SInv`: while nothing overlapped, the task in hand finds
the document in the status its plan was made for (`PlansFit`, `Undisturbed`), so the
commit changes the document's effect (`Effect`) on a line by the sum of the plan's
calls there (`SumChanges`), for each status and kind in turn.

**`EventPipeline_proofs`** (`EventsAssumption`: finitely many events, divided among
transactions; `BatchAssumption`). Three layers over `TypeOK`, each for one question:

- `OutboxReachesStream` proves `StreamTellsTheOutbox`. What is missing from it is
  the relay half way through its batch: `ClaimSound` says that what a relay has
  claimed is committed and the part it counts as sent is in the stream, so `Mark`
  marks only what is there.
- `NoEntryStranded` proves `NothingStranded`. XACK takes an entry off the pending
  list, so `HandSound` says that a worker about to acknowledge has handled the entry
  or given it up; then any crash, stall or reclaim may happen at any time.
- `OnceWithoutFailure` proves `NoDuplicateWithoutFailure`. While nothing has failed
  (`QuietInv`), claims are disjoint and unpublished, every entry is published or in
  the sent part of a claim, so no relay can claim it again (`RelayQuiet`); batches
  are disjoint, what is pending is held by a worker, so there is nothing to reclaim,
  and an event that was handled has its entry in the past of the group
  (`GroupQuiet`).

`ReactsToTheCommitted` is the safety half of the refinement of EventDelivery, for
any number of relays and any trimming, where TLC checks both halves on one instance;
it rests on the first layer. `PipelineTypes` is type correctness.

With one relay `OneRelayKeepsOrder` proves `StreamInSequenceOrder`. Rows of one line are committed in order (`RowsInOrder`); a
batch is sorted and leaves out no unpublished row that has to go before one in it
(`ClaimInOrder`, from `FirstOfHasNoGaps`: the list of the smallest n has no gaps); so
before each entry of the stream is one of every event that has to go first
(`StreamedInOrder`). Only the claim needs the relay to be alone: SKIP LOCKED leaves
out what another one holds.

**`Alerts_proofs`** (`AlertsAssumption`): `OneOpenAlert`,
`AlertsSurviveTheirMail` and `AlertsTell`. A worker's transaction is a list of statements, so
`TurnSound` fixes its shape (the commit and the acknowledgement come last, once each,
and nothing uncommitted survives the commit). `InsertSound` is the unique partial
index and the savepoint: what a worker has inserted nobody else has, and the
open alerts of that kind, if any, are those it closes in the same transaction;
hence `OneOpen` after the commit. `MailSound`: an alert not yet committed has been
announced, whether or not anybody heard of it; while nothing has failed, what was
announced is in the table or in a worker's hands. For `AlertsTellTheStock` a third invariant follows a calm history, in
which nothing failed and no two workers overlapped, event by event (`TellingInv`):
between two events the open alerts are those that the events handled so far call for,
and in the middle of one they are those before it changed by the statements already
executed (`CalmSound`); a dismissal may fall anywhere and is remembered by its alert.
`LogSound` ties the events to the level, so after the last event they call for what
the line holds.

**`Analytics_proofs`**, the counters (`RowsAssumption`, `BoundsAssumption`): `FiguresAreTheSource`
proves `FiguresAgree`, `RebuildsAreExact` the action property `RebuildIsExact`. The
invariant says what the figures of an undisturbed day are *while events are still on
their way*: the tally of the rows whose events have been counted, or are not filed
under that day (`Told`, `FiguresSound`). Counting an event adds its row to that set
and its increment to the tally (`TallyAdds`), provided the row has not changed since
the worker read it, which is what the lock says (`CountsSound`); a commit adds nothing
to it, since its events are outstanding; an event handed out again after it was
counted, or given up, disturbs its day. A rebuild owns the rows it replaces from its
DELETE on (`RebuildSound`), so no worker has one of them half counted when it commits,
and a row it does not own was inserted behind its back (`behind`), which takes its day
out of the property.

*The nights* (`PairsAssumption`, `SalesAssumption`: finitely many, at least one of
them past; `WindowsAssumption`; `StockAssumption`: no more is sold than was
delivered): one layer, `Sound`, says that a job at work has a number of its own and
that the locks on the classes let one job at a time past them (`OneInTransaction`),
and each property adds its own layer to it.

- `ScoresTell` proves `ScoresTellWhatSold` from `RunsSound`: what is committed, or
  about to be, is either unscored or was scored after its window, against the sales
  committed in it by then. It stays so because a sale that is committed later and has
  its stamp in the window was open when the score was read (`SalesComeLate`). The
  summary's errors add up by the sums of FoldTheorems.
- `SuggestionsFollow` proves `SuggestionsFollowForecasts`. A row of `forecast_runs`
  says what was forecast under its key and no row of a job is there before the job
  commits (`KeysSound`); no suggestion is from a job still at work, and a job past its
  DELETE has replaced all the pairs it forecasts (`RecsSound`), so the later commit
  wins whole pairs. That a suggestion asks for no more than the forecast
  rests on `StockCovers`: what is on hand is never negative.
- `ClassesCut` proves `ClassesArePareto` from `ClassesSound`: a product's class is the
  one its newest ranking gave it. What that means is `CurveCutsBestSellers`: the
  running share of a list sorted by revenue, with ties broken by id, is the share of a
  set of best sellers, and the cut at 80% leaves the least such set.

**`Assistant_proofs`**, what it says (`ConversationAssumption`): `AnswersFit`, `FiguresStayRecent`,
`PromisesKept`. What both caches keep is theirs: a figure of the key's company, an
answer to the key's text, with its age and what is left of its life adding up to the
lifetime (`Shelved`, `Remembered`). A figure on a question's desk is no older than the shelf
allowed when it was found and the time since, which is at most what the question has
taken; kept with an answer, it is older by what the answer has used up of its life
(`Figures`). A question's desk (its calls, tools, figures and
proposal) stays one of its company's, and a proposal once made stays made, with its
tool on record (`Desks`). What a model's turn does to the desk is a fold of `Call` over
any list of tool calls: `RunCallsStay` says that a set of desks that no single call
leaves is not left by a turn.

*What it proposes* (`AssistantAssumption`): `NothingOrderedUnapproved`,
`ApprovalPointsAtOrder`, `OneDecisionEach`. `UnderWaySound` records that a decision
under way is about something proposed and that an approval has a legal quantity;
`ProposedSound` that what was proposed stays what the audit says it was. For
`DecidedOnce` a second invariant says that of a proposal on which no two decisions
overlapped at most one is under way, only while it is open, and what was decided
left exactly its own rows (`OnceInv`).

**`MasterData_proofs`** (`MasterDataAssumption`, `SeededAssumption`: the rows there
are at first do not clash; `MenuAssumption`: no form writes the columns of the
login, and prices change only where margins are checked): `KeysStayUnique`,
`LossNeedsARace`, `AttemptsCounted`, `TrailTells`. For the keys `Apart` extends uniqueness to what
is flushed and not committed: no such row clashes with a committed one or with
another session's, because a statement first waits for every session whose entry in
the index may still come or go, and then fails if one is there (`WriteApart`).
Without the waiting the second of two commits would break it. For margins and the
counter, `SessionsSound` says what a session is about to write in terms of the
version it has *seen*: if that had a margin, so has the result, and if it showed the
attempts so far, the result shows one more; on the version that is current at the
commit nothing follows, which is what `stale` records. `CountsSound` adds that an
expired lock has started the count again. For `TrailTellsTheRows`, `TrailInv` says the
same of a session's own entries that the property says of the whole trail: in each
column the last entry that mentions it holds what the session wrote there, and columns
it did not write are not mentioned, while of a row it creates an unmentioned column
is at its default (`Covers`, `Stored`). A commit appends the entries and merges
the columns, and the row lock keeps other sessions' entries for the row out of the
middle, so the two lists splice.

**`Figures_proofs`** (`TradingAssumption`, `SeedsAssumption`, `ScreensAssumption`,
`ProductScreensAssumption`, `BuyingAssumption`). The inductive invariant, proved in
`RowsKeepShape`, has three parts: rows have the shape of their tables, stock is never
negative, nothing moved after today and no sale is of a later day (`RowsTyped`);
what a day closed with and what has moved *since* add up to what there is now
(`ClosingSound`); and so do, in a page of traces that is half read, what the first
statement saw, what it missed and what has moved since its day (`PageSound`). Every
handler is one lemma about `Moves` with a different change (`MovesSound`).

- `TracesTell` proves `TracesTellTheStock`: walking back from a quantity by the
  movements of the days after d is taking off `Since(l, d)`, split at the page's own
  day (`SinceSplits`), so the second statement sees the closing quantity less what
  the first one missed. This is a law of conservation and needs no bound on the days.
- `StockAgrees`, `ProductsAgree` and `BuyingAgrees` prove `StockFigures`,
  `ProductFigures` and `BuyingFigures`. They follow from the shape of the rows alone,
  each row of lemmas being one way to cut the same set: by building, zone, product,
  day, band, bucket, severity, supplier, status or week. A cut is a partition
  because the comparisons of the two queries meet: `OneBand` (a line's cover is
  past the ends of exactly the bands before its own), `SeveritiesAreParts`, `BucketIs`,
  `WeeksAddUp`. Of a list that is cut nothing is known but that it is as long as it may
be and that nothing left out goes before anything in it (`FirstsFacts`, `NewestFacts`);
so an equality holds of what fits, and of the rest that it is no more urgent
(`CutBandsAreFull`), frequent (`CompanionsAreMutual`), lucrative (`BestSellersEarn`)
or critical (`ExceptionsAreHonest`) than what is shown. A comparison survives rounding
because rounding is monotone and exact at whole parts (`RoundedKeepsOrder`,
`RoundedIsNear`, `FirstBandIsCritical`). Where a figure is summed in two orders, revenue by product and by
  building, the sums change places (`RevenueByProduct`). Where it is not a sum there
  is an argument of its own: `PeakBoundsTheWindow` (no day sells more than the
  busiest, so a line at its reorder point lasts the lead time, `ReorderPointLasts`),
  `IdleHasNotSold` (the date of the last sale, on a product's page, and the sum of
  a window's sales, on the hub, say the same of an idle product).

The assumptions on the thresholds are the inequalities between the constants at the
head of `stockout.py`, `dashboard.py` and `intelligence.py` on which the screens rely
without saying so: critical before warning before watch, the bands' ends ascending
and the first before critical, the cap on the horizon beyond the cover that
counts as excess, the sales window no longer than the days after which stock is dead, nor longer than
the thousand days in which one unit is still a daily usage of a thousandth.
One of them is about a setting: `LeadTime <= HorizonCap`, that is
`SUPPLIER_LEAD_TIME_DAYS` (7 unless configured) at most `HORIZON_CAP_DAYS` (365).
Beyond it a line that is shown with 365 days left would be one to reorder, and
`ReorderPointLasts` fails.

`NoStaleWrite`, `StagedWritesExclusive`, `OneOpenAlert`, `ReactsToTheCommitted` and
`RowsKeepShape` have no run of their own: TLC confirmed the first three while the models
were written, the fourth is contained in `AtLeastOnce`, and the last was checked by TLC
on the instance of `figures`. The invariants of Projections and of Nightly were first
checked by TLC too, on the instances of their runs.

Every invariant the runs check is proved, and so are the refinements' safety
and the action property of Projections. Only model-checked is liveness under
fairness, which this prover does not do: `EveryRequestIsAnswered`, `AtLeastOnce`,
`EverythingIsSettled`, `EveryEventIsCounted`, `EveryDecisionIsAnswered`,
`EveryQuestionEnds`. What TLC adds to a proof is the other direction: that the states
the theorems speak of are reached, and that each property fails when the code has
the bug written beside it.

## 6. Assumptions

- SQLAlchemy's identity map: the locking query at `inventory/service.py:236` returns
  fresh values only because no other reference to the `Inventory` object survives
  `get_or_create_inventory`. `LockLine` assumes it.
- PostgreSQL's locks as described above; foreign-key locks are left out, they never
  conflict with each other.
- Redis never loses an acknowledged write, and does not run out of memory.
- Money appears where a property is about it (margins, ABC classes, the screens);
  texts, payload fields no handler reads and rounding that no other
  figure is computed from are left out. Where the screens compute with rounded
  quotients (daily usage, days of cover, zone utilisation, health) the model rounds
  rationals half to even, as Python's `round` does of the exact value; floating point
  is taken to be exact otherwise, and amounts of money, in cents in the database, are
  whole numbers.
  Integers are unbounded; levels in the code are 32 bits wide.
- `dispatch` runs all handlers of an event in one transaction; EventPipeline counts
  them as one reaction, Alerts and Projections take their own handlers one statement
  at a time.
- Of the screens' lists are left out the confidence that orders equal cards, the
  pages of the list of suggestions, the caps of lists no property reads (workspaces,
  recent movements) and the analytics page's filter by warehouse.
- A night's job is done by midnight of the day it began.
- A screen is read later in its day than the rows of that day were written, so the
  last n days are calendar days; all statements of a screen but those of
  `get_traces` are taken as one moment. Under READ COMMITTED they are several, and
  figures on one page may be a commit apart.

## 7. Not modelled

- *Event feed* (`events/router.py`): a viewer's position and the hand-over from
  history to stream. Until the first event arrives every XREAD starts at `$`, so an
  event added between two calls is not shown; the order it relies on is checked in
  `pipeline_deployed`.
- *Parts of the assistant runtime*: redaction, the patterns of personal data, the
  wording of prompts and tool results. A form of a question or an answer is a value.
- *Request plumbing*: JWT, bcrypt, rate limits and wiring are library calls.
- *Front end, proxy, deployment, seeding and maintenance scripts*: run once by hand
  or outside the program's own logic. The compose file justifies the number of
  processes and their restarts; the seeds justify the states that tables start in.
- The regression behind a forecast: floating point.

## 8. Plan

1. *Backbone*: StockLedger's outbox feeding EventPipeline and Alerts in one composed
   specification, so that `AlertsTellTheStock` is about the committed ledger; with it,
   that `OutboxMarksTheCrossings` gives the movements Alerts assumes.
2. The *event feed*.
3. Larger instances: two lines in Alerts, two proposals, three questions.
