---------------------------- MODULE Projections ----------------------------
(***************************************************************************)
(* The daily metrics of one company (analytics/projections.py).  Workers   *)
(* add each event to the counters of its day; an operator rebuilds the     *)
(* table from the rows the events are about.  The two write the same rows, *)
(* at the same time, and ought to arrive at the same figures.              *)
(*                                                                         *)
(* A request is a transaction that writes source rows (sales, movements),  *)
(* each with an event.  A row carries the day it was written on; its event *)
(* carries the day on which the transaction began: occurred_at is now().   *)
(***************************************************************************)
EXTENDS Integers, Sequences, FiniteSets, Functions

CONSTANTS
    Requests,    \* transactions that may write source rows
    Rows,        \* for each request the sequence of its rows
    Seeded,      \* requests of the seeded history, on day 0, without events
    Workers,     \* consumer processes
    LastDay,     \* bound of the model: today is one of 1..LastDay
    MaxFailures, \* bound of the model: crashes and failed statements
    MaxRebuilds  \* bound of the model

\* Who may have locked a day's row, besides the workers.
Nobody == "nobody"
Operator == "operator"

Row == [kind : {"sale", "movement"}, amount : Int]

ASSUME RowsAssumption ==
    /\ IsFiniteSet(Requests) /\ Seeded \subseteq Requests
    /\ {Nobody, Operator} \cap Workers = {}
    /\ Rows \in [Requests -> Seq(Row)]
    /\ \A r \in Requests : \A i \in DOMAIN Rows[r] :
          Rows[r][i].kind = "sale" => Rows[r][i].amount > 0
ASSUME BoundsAssumption ==
    /\ LastDay \in Nat \ {0} /\ MaxFailures \in Nat /\ MaxRebuilds \in Nat

VARIABLES
    clock,     \* today
    request,   \* state of each request's transaction
    began,     \* day on which it began
    wrote,     \* day on which it wrote its rows
    event,     \* state of each row's event, by <<request, index>>
    worker,    \* what each worker does, and with which event
    metrics,   \* committed rows of daily_metrics, by day
    holder,    \* whose transaction has locked a day's row
    rebuild,   \* the rebuild's progress
    read,      \* the requests each of its three queries saw
    doomed,    \* the days whose rows it has deleted
    rebuilds,
    failures,
    behind,    \* history: days inserted by workers since the rebuild's DELETE
    disturbed  \* history: days whose figures something has put out of step

sourceVars == <<request, began, wrote>>
rebuildVars == <<rebuild, read, doomed, rebuilds, behind>>
vars == <<clock, sourceVars, event, worker, metrics, holder, rebuildVars,
          failures, disturbed>>

Days == 0..LastDay
Queries == {"sales", "units", "movements"}
Absent == [row |-> "none"]
Idle == [does |-> "nothing"]
EventsOf(r) == {<<r, i>> : i \in DOMAIN Rows[r]}
Events == UNION {EventsOf(r) : r \in Requests \ Seeded}
RowOf(e) == Rows[e[1]][e[2]]

Zero == [orders |-> 0, units_sold |-> 0, stock_movements |-> 0,
         units_received |-> 0]
Plus(m, n) == [c \in DOMAIN Zero |-> m[c] + n[c]]
Stored(d) == IF metrics[d] = Absent THEN Zero ELSE metrics[d]

\* The calendar day an event is filed under.
DayOf(e) == began[e[1]]

Init ==
    /\ clock = 1
    /\ request = [r \in Requests |->
                    IF r \in Seeded THEN "committed" ELSE "none"]
    /\ began = [r \in Requests |-> IF r \in Seeded THEN 0 ELSE 1]
    /\ wrote = began
    /\ event = [e \in Events |-> "none"]
    /\ worker = [w \in Workers |-> Idle]
    /\ metrics = [d \in Days |-> Absent]
    /\ holder = [d \in Days |-> Nobody]
    /\ rebuild = [does |-> "nothing"]
    /\ read = [q \in Queries |-> {}]
    /\ doomed = {}
    /\ behind = {}
    /\ rebuilds = 0
    /\ failures = 0
    /\ disturbed = IF Seeded = {} THEN {} ELSE {0}

Fails == failures < MaxFailures /\ failures' = failures + 1

-----------------------------------------------------------------------------
(* The source tables.                                                      *)

Committed == {r \in Requests : request[r] = "committed"}
SourceRows(R, kind) ==
    {e \in UNION {EventsOf(r) : r \in R} : RowOf(e).kind = kind}
AllRows == UNION {EventsOf(r) : r \in Requests}
Amount == [e \in AllRows |-> RowOf(e).amount]

Received == [e \in AllRows |-> IF Amount[e] > 0 THEN Amount[e] ELSE 0]

\* The figures of a day from what the three queries saw.
Totals(d, seen) ==
    LET on(q) == {r \in seen[q] : wrote[r] = d}
        sold == SourceRows(on("units"), "sale")
        moves == SourceRows(on("movements"), "movement")
    IN  [orders |-> Cardinality(SourceRows(on("sales"), "sale")),
         units_sold |-> SumFunctionOnSet(Amount, sold),
         stock_movements |-> Cardinality(moves),
         units_received |-> SumFunctionOnSet(Received, moves)]

Source(d) == Totals(d, [q \in Queries |-> Committed])

Midnight ==
    /\ clock < LastDay
    /\ clock' = clock + 1
    /\ UNCHANGED <<sourceVars, event, worker, metrics, holder, rebuildVars,
                   failures, disturbed>>

Begin(r) ==
    /\ request[r] = "none"
    /\ request' = [request EXCEPT ![r] = "open"]
    /\ began' = [began EXCEPT ![r] = clock]
    /\ UNCHANGED <<clock, wrote, event, worker, metrics, holder, rebuildVars,
                   failures, disturbed>>

\* The rows and their events are flushed; a row's created_at is the wall clock.
Write(r) ==
    /\ request[r] = "open"
    /\ request' = [request EXCEPT ![r] = "written"]
    /\ wrote' = [wrote EXCEPT ![r] = clock]
    /\ UNCHANGED <<clock, began, event, worker, metrics, holder, rebuildVars,
                   failures, disturbed>>

Commit(r) ==
    /\ request[r] = "written"
    /\ request' = [request EXCEPT ![r] = "committed"]
    /\ event' = [e \in Events |->
                    IF e[1] = r THEN "ready" ELSE event[e]]
    /\ disturbed' = IF began[r] = wrote[r] THEN disturbed
                    ELSE disturbed \cup {began[r], wrote[r]}
    /\ UNCHANGED <<clock, began, wrote, worker, metrics, holder, rebuildVars,
                   failures>>

-----------------------------------------------------------------------------
(* Workers: project_sale and project_movement.                             *)

Deliver(w, e) ==
    /\ worker[w] = Idle
    /\ event[e] = "ready"
    /\ event' = [event EXCEPT ![e] = "taken"]
    /\ worker' = [worker EXCEPT ![w] = [does |-> "handle", event |-> e]]
    /\ UNCHANGED <<clock, sourceVars, metrics, holder, rebuildVars, failures,
                   disturbed>>

Does(w, what) == worker[w].does = what

\* What apply_sale and apply_movement add.
Increment(e) ==
    IF RowOf(e).kind = "sale"
    THEN [Zero EXCEPT !.orders = 1, !.units_sold = Amount[e]]
    ELSE [Zero EXCEPT !.stock_movements = 1, !.units_received = Received[e]]

\* Mutant: the total is computed from a plain read.
BumpUnlocked(w) ==
    LET e == worker[w].event
        d == DayOf(e)
    IN  /\ Does(w, "handle")
        /\ worker' = [worker EXCEPT ![w] =
                [does |-> "commit", event |-> e, day |-> d,
                 figures |-> Plus(Stored(d), Increment(e))]]
        /\ UNCHANGED <<clock, sourceVars, event, metrics, holder, rebuildVars,
                       failures, disturbed>>

\* INSERT ... ON CONFLICT DO UPDATE: waits for whoever has the day's row.
Bump(w) ==
    LET e == worker[w].event
        d == DayOf(e)
    IN  /\ Does(w, "handle")
        /\ holder[d] = Nobody
        /\ holder' = [holder EXCEPT ![d] = w]
        /\ worker' = [worker EXCEPT ![w] =
                [does |-> "commit", event |-> e, day |-> d,
                 figures |-> Plus(Stored(d), Increment(e))]]
        /\ UNCHANGED <<clock, sourceVars, event, metrics, rebuildVars,
                       failures, disturbed>>

Released(w) == [d \in Days |-> IF holder[d] = w THEN Nobody ELSE holder[d]]

NoteInsertion(d) ==
    behind' = IF metrics[d] = Absent /\ rebuild.does \in {"insert", "commit"}
              THEN behind \cup {d} ELSE behind

\* Mutant: the row stays locked.
CommitBumpKeepingLock(w) ==
    /\ Does(w, "commit")
    /\ metrics' = [metrics EXCEPT ![worker[w].day] = worker[w].figures]
    /\ worker' = [worker EXCEPT ![w] =
                    [does |-> "ack", event |-> worker[w].event,
                     day |-> worker[w].day]]
    /\ NoteInsertion(worker[w].day)
    /\ UNCHANGED <<clock, sourceVars, event, holder, rebuild, read, doomed,
                   rebuilds, failures, disturbed>>

CommitBump(w) ==
    /\ Does(w, "commit")
    /\ metrics' = [metrics EXCEPT ![worker[w].day] = worker[w].figures]
    /\ holder' = Released(w)
    /\ worker' = [worker EXCEPT ![w] =
                    [does |-> "ack", event |-> worker[w].event,
                     day |-> worker[w].day]]
    /\ NoteInsertion(worker[w].day)
    /\ UNCHANGED <<clock, sourceVars, event, rebuild, read, doomed, rebuilds,
                   failures, disturbed>>

Ack(w) ==
    /\ Does(w, "ack")
    /\ event' = [event EXCEPT ![worker[w].event] = "done"]
    /\ worker' = [worker EXCEPT ![w] = Idle]
    /\ UNCHANGED <<clock, sourceVars, metrics, holder, rebuildVars, failures,
                   disturbed>>

\* The worker dies or its commit fails: the event is delivered again.  If the
\* counters had been committed, it will be counted twice.
WorkerFails(w) ==
    /\ worker[w] # Idle
    /\ Fails
    /\ event' = [event EXCEPT ![worker[w].event] = "ready"]
    /\ disturbed' = IF Does(w, "ack") THEN disturbed \cup {worker[w].day}
                    ELSE disturbed
    /\ holder' = Released(w)
    /\ worker' = [worker EXCEPT ![w] = Idle]
    /\ UNCHANGED <<clock, sourceVars, metrics, rebuildVars>>

\* The statement fails: dispatch logs it, the commit commits nothing and the
\* event is acknowledged.
Swallow(w) ==
    /\ Does(w, "handle")
    /\ Fails
    /\ event' = [event EXCEPT ![worker[w].event] = "done"]
    /\ disturbed' = disturbed \cup {DayOf(worker[w].event), wrote[worker[w].event[1]]}
    /\ worker' = [worker EXCEPT ![w] = Idle]
    /\ UNCHANGED <<clock, sourceVars, metrics, holder, rebuildVars>>

WorkerStep(w) == Bump(w) \/ CommitBump(w) \/ Ack(w)

-----------------------------------------------------------------------------
(* rebuild_daily_metrics, one transaction; each statement sees what is     *)
(* committed when it starts.                                               *)

InRange(d) == d >= rebuild.since

StartRebuild(since) ==
    /\ rebuild.does = "nothing"
    /\ rebuilds < MaxRebuilds
    /\ rebuilds' = rebuilds + 1
    /\ rebuild' = [does |-> "sales", since |-> since]
    /\ UNCHANGED <<clock, sourceVars, event, worker, metrics, holder, read,
                   doomed, behind, failures, disturbed>>

After == [sales |-> "units", units |-> "movements", movements |-> "delete"]

Query ==
    /\ rebuild.does \in Queries
    /\ read' = [read EXCEPT ![rebuild.does] = Committed]
    /\ rebuild' = [rebuild EXCEPT !.does = After[rebuild.does]]
    /\ UNCHANGED <<clock, sourceVars, event, worker, metrics, holder, doomed,
                   rebuilds, behind, failures, disturbed>>

\* Mutant: only the days that will be written again.
DeleteRewritten ==
    LET there == {d \in Days : InRange(d) /\ metrics[d] # Absent
                               /\ Totals(d, read) # Zero}
    IN  /\ rebuild.does = "delete"
        /\ \A d \in there : holder[d] = Nobody
        /\ doomed' = there
        /\ holder' = [d \in Days |-> IF d \in there THEN Operator ELSE holder[d]]
        /\ rebuild' = [rebuild EXCEPT !.does = "insert"]
        /\ UNCHANGED <<clock, sourceVars, event, worker, metrics, read,
                       rebuilds, behind, failures, disturbed>>

\* DELETE waits for workers that have a row of the range; a row a worker is
\* just inserting is not there yet.
Delete ==
    LET there == {d \in Days : InRange(d) /\ metrics[d] # Absent}
    IN  /\ rebuild.does = "delete"
        /\ \A d \in there : holder[d] = Nobody
        /\ doomed' = there
        /\ holder' = [d \in Days |-> IF d \in there THEN Operator ELSE holder[d]]
        /\ rebuild' = [rebuild EXCEPT !.does = "insert"]
        /\ UNCHANGED <<clock, sourceVars, event, worker, metrics, read,
                       rebuilds, behind, failures, disturbed>>

\* The days that have a slot in totals.
Slots == {d \in Days : InRange(d) /\ Totals(d, read) # Zero}

\* INSERT waits for a worker that is inserting one of its days.
Insert ==
    /\ rebuild.does = "insert"
    /\ \A d \in Slots : holder[d] \in {Nobody, Operator}
    /\ \A d \in Slots \ doomed : metrics[d] = Absent
    /\ holder' = [d \in Days |-> IF d \in Slots THEN Operator ELSE holder[d]]
    /\ rebuild' = [rebuild EXCEPT !.does = "commit"]
    /\ UNCHANGED <<clock, sourceVars, event, worker, metrics, read, doomed,
                   rebuilds, behind, failures, disturbed>>

Stop ==
    /\ rebuild' = [does |-> "nothing"]
    /\ read' = [q \in Queries |-> {}]
    /\ doomed' = {}
    /\ behind' = {}
    /\ holder' = Released(Operator)

\* Its INSERT meets a row that a worker has committed since the DELETE.
InsertConflict ==
    /\ rebuild.does = "insert"
    /\ \A d \in Slots : holder[d] \in {Nobody, Operator}
    /\ \E d \in Slots \ doomed : metrics[d] # Absent
    /\ Stop
    /\ UNCHANGED <<clock, sourceVars, event, worker, metrics, rebuilds,
                   failures, disturbed>>

Outstanding(e) ==
    \/ event[e] = "ready"
    \/ \E w \in Workers : /\ worker[w] # Idle /\ worker[w].event = e
                          /\ worker[w].does # "ack"

\* No worker has inserted the day's row behind the DELETE.
Replaced(d) == d \notin behind

\* Nothing that concerns a day happened while the rebuild ran, and nothing
\* about it is still to be counted.
UpToDate(d) ==
    /\ \A q \in Queries : read[q] = Committed
    /\ Replaced(d)
    /\ \A r \in Committed : d \in {began[r], wrote[r]} =>
          \A e \in Events : e[1] = r => ~Outstanding(e)

CommitRebuild ==
    /\ rebuild.does = "commit"
    /\ metrics' = [d \in Days |->
                      IF d \in Slots THEN Totals(d, read)
                      ELSE IF d \in doomed THEN Absent ELSE metrics[d]]
    /\ disturbed' = {d \in Days : IF InRange(d) THEN ~UpToDate(d)
                                  ELSE d \in disturbed}
    /\ Stop
    /\ UNCHANGED <<clock, sourceVars, event, worker, rebuilds, failures>>

RebuildFails ==
    /\ rebuild.does # "nothing"
    /\ Fails
    /\ Stop
    /\ UNCHANGED <<clock, sourceVars, event, worker, metrics, rebuilds,
                   disturbed>>

RebuildStep == Query \/ Delete \/ Insert \/ InsertConflict \/ CommitRebuild

-----------------------------------------------------------------------------
Next ==
    \/ Midnight
    \/ \E r \in Requests : Begin(r) \/ Write(r) \/ Commit(r)
    \/ \E w \in Workers :
          \/ \E e \in Events : Deliver(w, e)
          \/ WorkerStep(w) \/ WorkerFails(w) \/ Swallow(w)
    \/ \E since \in Days : StartRebuild(since)
    \/ RebuildStep \/ RebuildFails

\* Workers and a started rebuild go on; the group delivers what is ready.
Fairness ==
    /\ \A w \in Workers : WF_vars(WorkerStep(w))
    /\ \A e \in Events : SF_vars(\E w \in Workers : Deliver(w, e))
    /\ WF_vars(RebuildStep)

Spec == Init /\ [][Next]_vars /\ Fairness

-----------------------------------------------------------------------------
(* Properties.                                                             *)

\* One day of recent_metrics: a day without a row is a day of zeros.
Figures(d) == Stored(d)

\* Once every event of a day has been counted, the day's figures are those of
\* the source rows, however many workers counted and whatever a rebuild did
\* meanwhile, unless an event was counted twice or not at all, a transaction
\* ran over midnight, or a rebuild overlapped with a commit or with events
\* still on their way; the next quiet rebuild puts those right.
FiguresAgree ==
    \A d \in Days \ disturbed :
        (\A r \in Committed : d \in {began[r], wrote[r]} =>
            \A e \in Events : e[1] = r => ~Outstanding(e))
        => Figures(d) = Source(d)

\* A rebuild during which nothing was committed leaves exactly what the source
\* says, in the whole range: no day the source no longer produces survives, but
\* one that a worker inserts between the DELETE and the commit.
RebuildIsExact ==
    [][ (/\ rebuild.does = "commit"
         /\ metrics' # metrics
         /\ rebuild'.does = "nothing"
         /\ \A q \in Queries : read[q] = Committed)
        => \A d \in Days : InRange(d) /\ Replaced(d) =>
              (IF metrics'[d] = Absent THEN Zero ELSE metrics'[d]) = Source(d)
      ]_vars

\* Every committed event is counted or given up, and neither a rebuild nor
\* another worker can keep it waiting for ever.
EveryEventIsCounted ==
    \A e \in Events : event[e] = "ready" ~> event[e] = "done"

=============================================================================
