------------------------------- MODULE Alerts -------------------------------
(***************************************************************************)
(* The alerts of one stock line.  Movements of the line put events on the  *)
(* stream; workers of the consumer group turn each into a transaction of   *)
(* raising (INSERT under a partial unique index) and resolving (SELECT,    *)
(* then UPDATE) alerts; a manager may dismiss one at any time.  Workers    *)
(* interleave at every statement; a message a worker leaves pending is     *)
(* delivered again later, after newer ones.                                *)
(***************************************************************************)
EXTENDS Integers, Sequences, FiniteSets

CONSTANTS
    Workers,        \* consumer processes
    Managers,       \* users who may dismiss
    ReorderPoint,   \* Inventory.reorder_point of the line
    OpeningLevel,   \* its quantity at the start
    Levels,         \* the quantities it may take
    MaxMovements,   \* bound of the model: movements of the line
    MaxFailures     \* bound of the model: transactions that fail, workers that die

ASSUME AlertsAssumption ==
    /\ ReorderPoint \in Nat
    /\ Levels \subseteq Nat /\ OpeningLevel \in Levels
    /\ MaxMovements \in Nat /\ MaxFailures \in Nat

VARIABLES
    level,      \* Inventory.quantity
    log,        \* the line's events in the order of the stream
    movements,  \* how many of them are movements
    cursor,     \* the last event delivered to the group
    pending,    \* events delivered and not acknowledged
    alerts,     \* committed rows of the alerts table, in order of insertion
    mailed,     \* history: events whose critical alert somebody was mailed about
    unheard,    \* history: events whose critical alert reached nobody by mail
    hand,       \* the event a worker handles; 0: none
    todo,       \* the statements it still has to execute
    picked,     \* the alerts its last SELECT returned
    opened,     \* kinds of alert it has inserted and not committed
    closed,     \* alerts it has updated and not committed: their rows are locked
    decided,    \* the alert a manager has found open; 0: none
    failures,
    overlapped, \* history: two workers handled events at the same time
    swallowed   \* history: a handler raised and its event was acknowledged

streamVars == <<log, movements, cursor, pending>>
workerVars == <<hand, todo, picked, opened, closed>>
countVars == <<failures, overlapped, swallowed>>
mailVars == <<mailed, unheard>>
vars == <<level, streamVars, alerts, mailVars, workerVars, decided, countVars>>

Kinds == {"low_stock", "out_of_stock"}
EventType == {"stock.moved", "stock.depleted", "stock.below_reorder_point"}
Event == [type : EventType, after : Nat]
Alert == [kind : Kinds, cause : Nat \ {0},
          status : {"open", "resolved", "dismissed"}]
Statement == {"raise", "select", "update"} \X Kinds
                 \cup {<<"commit">>, <<"ack">>}

TypeOK ==
    /\ level \in Levels
    /\ log \in Seq(Event)
    /\ movements \in 0..MaxMovements
    /\ cursor \in 0..Len(log)
    /\ pending \subseteq 1..cursor
    /\ alerts \in Seq(Alert)
    /\ mailed \subseteq 1..cursor
    /\ unheard \subseteq 1..cursor
    /\ hand \in [Workers -> 0..cursor]
    /\ todo \in [Workers -> Seq(Statement)]
    /\ picked \in [Workers -> SUBSET (1..Len(alerts))]
    /\ opened \in [Workers -> SUBSET Kinds]
    /\ closed \in [Workers -> SUBSET (1..Len(alerts))]
    /\ decided \in [Managers -> 0..Len(alerts)]
    /\ failures \in 0..MaxFailures
    /\ overlapped \in BOOLEAN
    /\ swallowed \in BOOLEAN

Init ==
    /\ level = OpeningLevel
    /\ log = <<>>
    /\ movements = 0
    /\ cursor = 0
    /\ pending = {}
    /\ alerts = <<>>
    /\ mailed = {}
    /\ unheard = {}
    /\ hand = [w \in Workers |-> 0]
    /\ todo = [w \in Workers |-> <<>>]
    /\ picked = [w \in Workers |-> {}]
    /\ opened = [w \in Workers |-> {}]
    /\ closed = [w \in Workers |-> {}]
    /\ decided = [m \in Managers |-> 0]
    /\ failures = 0
    /\ overlapped = FALSE
    /\ swallowed = FALSE

OpenAlerts(k) ==
    {i \in 1..Len(alerts) : alerts[i].kind = k /\ alerts[i].status = "open"}

-----------------------------------------------------------------------------
(* The line moves: adjust_inventory commits a level and its events.        *)

Fact(type, q) == [type |-> type, after |-> q]

Crossing(before, q) ==
    IF q = 0 /\ before > 0 THEN <<Fact("stock.depleted", q)>>
    ELSE IF ReorderPoint > 0 /\ q <= ReorderPoint /\ before > ReorderPoint
         THEN <<Fact("stock.below_reorder_point", q)>>
         ELSE <<>>

Move(q) ==
    /\ movements < MaxMovements
    /\ q # level
    /\ level' = q
    /\ log' = log \o <<Fact("stock.moved", q)>> \o Crossing(level, q)
    /\ movements' = movements + 1
    /\ UNCHANGED <<cursor, pending, alerts, mailVars, workerVars, decided,
                   countVars>>

-----------------------------------------------------------------------------
(* The handlers, as the statements they execute.                           *)

Resolve(k) == <<<<"select", k>>, <<"update", k>>>>
When(condition, statements) == IF condition THEN statements ELSE <<>>

\* Mutant: running out does not close the low-stock alert.
HandlersKeepingLow(e) ==
    CASE e.type = "stock.below_reorder_point" -> <<<<"raise", "low_stock">>>>
      [] e.type = "stock.depleted" -> <<<<"raise", "out_of_stock">>>>
      [] e.type = "stock.moved" ->
            When(e.after > 0, Resolve("out_of_stock"))
            \o When(ReorderPoint > 0 /\ e.after > ReorderPoint,
                    Resolve("low_stock"))

\* raise_low_stock_alert, raise_out_of_stock_alert and
\* clear_alerts_when_stock_recovers, by event type.
Handlers(e) ==
    CASE e.type = "stock.below_reorder_point" -> <<<<"raise", "low_stock">>>>
      [] e.type = "stock.depleted" ->
            <<<<"raise", "out_of_stock">>>> \o Resolve("low_stock")
      [] e.type = "stock.moved" ->
            When(e.after > 0, Resolve("out_of_stock"))
            \o When(ReorderPoint > 0 /\ e.after > ReorderPoint,
                    Resolve("low_stock"))

Epilogue == <<<<"commit">>, <<"ack">>>>
Turn(e) == Handlers(e) \o Epilogue

Fails == failures < MaxFailures /\ failures' = failures + 1

-----------------------------------------------------------------------------
(* Delivery, as EventPipeline models it in full.                           *)

Idle(w) == hand[w] = 0

TakeUp(w, i) ==
    /\ Idle(w)
    /\ hand' = [hand EXCEPT ![w] = i]
    /\ todo' = [todo EXCEPT ![w] = Turn(log[i])]
    /\ overlapped' = (overlapped \/ \E u \in Workers \ {w} : ~Idle(u))
    /\ UNCHANGED <<level, log, movements, alerts, mailVars, picked, opened,
                   closed, decided, failures, swallowed>>

Receive(w) ==
    /\ cursor < Len(log)
    /\ cursor' = cursor + 1
    /\ pending' = pending \cup {cursor + 1}
    /\ TakeUp(w, cursor + 1)

Redeliver(w) ==
    \E i \in pending :
        /\ \A u \in Workers : hand[u] # i
        /\ TakeUp(w, i)
        /\ UNCHANGED <<cursor, pending>>

-----------------------------------------------------------------------------
(* Statements of a handler's transaction.                                  *)

At(w, statement) == todo[w] # <<>> /\ Head(todo[w])[1] = statement
Kind(w) == Head(todo[w])[2]
Others(w) == Workers \ {w}

\* notify_critical, in the handler's transaction: somebody is told, or nobody is
\* (no recipient, no transport).  Either way the handler goes on.
Notify(w) ==
    \/ mailed' = mailed \cup {hand[w]} /\ UNCHANGED unheard
    \/ unheard' = unheard \cup {hand[w]} /\ UNCHANGED mailed

\* Mutant: an alert nobody could be told about is taken back.
RaiseUnlessUnheard(w) ==
    LET k == Kind(w)
        new == OpenAlerts(k) \ closed[w] = {}
    IN  /\ At(w, "raise")
        /\ \A u \in Others(w) : k \notin opened[u]
                                /\ closed[u] \cap OpenAlerts(k) = {}
        /\ IF new /\ k = "out_of_stock" THEN Notify(w) ELSE UNCHANGED mailVars
        /\ opened' = [opened EXCEPT ![w] = IF new /\ unheard' = unheard
                                          THEN @ \cup {k} ELSE @]
        /\ todo' = [todo EXCEPT ![w] = Tail(@)]
        /\ UNCHANGED <<level, streamVars, alerts, hand, picked, closed,
                       decided, countVars>>

\* open_alert: the INSERT waits for other transactions that have inserted or
\* closed an open alert of its kind; the index then refuses a second open one,
\* which is no error.  A new critical alert is notified of at once.
Raise(w) ==
    LET k == Kind(w)
        new == OpenAlerts(k) \ closed[w] = {}
    IN  /\ At(w, "raise")
        /\ \A u \in Others(w) : k \notin opened[u]
                                /\ closed[u] \cap OpenAlerts(k) = {}
        /\ opened' = [opened EXCEPT ![w] = IF new THEN @ \cup {k} ELSE @]
        /\ IF new /\ k = "out_of_stock" THEN Notify(w) ELSE UNCHANGED mailVars
        /\ todo' = [todo EXCEPT ![w] = Tail(@)]
        /\ UNCHANGED <<level, streamVars, alerts, hand, picked, closed,
                       decided, countVars>>

\* resolve_matching, first half: the open alerts the transaction can see.
Select(w) ==
    /\ At(w, "select")
    /\ picked' = [picked EXCEPT ![w] = OpenAlerts(Kind(w)) \ closed[w]]
    /\ todo' = [todo EXCEPT ![w] = Tail(@)]
    /\ UNCHANGED <<level, streamVars, alerts, mailVars, hand, opened, closed,
                   decided, countVars>>

\* ... second half: their rows are updated by id, after waiting for whoever
\* has them locked, whatever they have become in the meantime.
Update(w) ==
    /\ At(w, "update")
    /\ \A u \in Others(w) : picked[w] \cap closed[u] = {}
    /\ closed' = [closed EXCEPT ![w] = @ \cup picked[w]]
    /\ picked' = [picked EXCEPT ![w] = {}]
    /\ todo' = [todo EXCEPT ![w] = Tail(@)]
    /\ UNCHANGED <<level, streamVars, alerts, mailVars, hand, opened, decided,
                   countVars>>

NewAlert(w) ==
    IF opened[w] = {} THEN <<>>
    ELSE <<[kind |-> CHOOSE k \in opened[w] : TRUE, cause |-> hand[w],
            status |-> "open"]>>

\* Mutant: row locks outlive the commit.
CommitKeepingLocks(w) ==
    /\ At(w, "commit")
    /\ alerts' = [i \in 1..Len(alerts) |->
                     IF i \in closed[w]
                     THEN [alerts[i] EXCEPT !.status = "resolved"]
                     ELSE alerts[i]] \o NewAlert(w)
    /\ todo' = [todo EXCEPT ![w] = Tail(@)]
    /\ UNCHANGED <<level, streamVars, mailVars, hand, picked, opened, closed,
                   decided, countVars>>

\* db.commit() after dispatch.
Commit(w) ==
    /\ At(w, "commit")
    /\ alerts' = [i \in 1..Len(alerts) |->
                     IF i \in closed[w]
                     THEN [alerts[i] EXCEPT !.status = "resolved"]
                     ELSE alerts[i]] \o NewAlert(w)
    /\ opened' = [opened EXCEPT ![w] = {}]
    /\ closed' = [closed EXCEPT ![w] = {}]
    /\ todo' = [todo EXCEPT ![w] = Tail(@)]
    /\ UNCHANGED <<level, streamVars, mailVars, hand, picked, decided, countVars>>

Ack(w) ==
    /\ At(w, "ack")
    /\ pending' = pending \ {hand[w]}
    /\ hand' = [hand EXCEPT ![w] = 0]
    /\ todo' = [todo EXCEPT ![w] = Tail(@)]
    /\ UNCHANGED <<level, log, movements, cursor, alerts, mailVars, picked,
                   opened, closed, decided, countVars>>

\* A statement of a handler raises: dispatch logs it and the rest of the handler
\* is skipped.  What it had done stands, or, when it was the database that
\* refused, COMMIT will commit nothing; the message is acknowledged either way.
Swallow(w) ==
    /\ ~Idle(w)
    /\ Head(todo[w])[1] \in {"raise", "select", "update"}
    /\ Fails
    /\ todo' = [todo EXCEPT ![w] = Epilogue]
    /\ picked' = [picked EXCEPT ![w] = {}]
    /\ \/ UNCHANGED <<opened, closed>>
       \/ /\ opened' = [opened EXCEPT ![w] = {}]
          /\ closed' = [closed EXCEPT ![w] = {}]
    /\ swallowed' = TRUE
    /\ UNCHANGED <<level, streamVars, alerts, mailVars, hand, decided, overlapped>>

\* The commit or the XACK raises, or the process dies: what was not committed is
\* rolled back and the message stays pending.  The mail does not come back.
LeavePending(w) ==
    /\ ~Idle(w)
    /\ Fails
    /\ hand' = [hand EXCEPT ![w] = 0]
    /\ todo' = [todo EXCEPT ![w] = <<>>]
    /\ picked' = [picked EXCEPT ![w] = {}]
    /\ opened' = [opened EXCEPT ![w] = {}]
    /\ closed' = [closed EXCEPT ![w] = {}]
    /\ UNCHANGED <<level, streamVars, alerts, mailVars, decided, overlapped,
                   swallowed>>

-----------------------------------------------------------------------------
(* dismiss: the alert is read without a lock, found open, and written.     *)

FindOpen(m, i) ==
    /\ decided[m] = 0
    /\ alerts[i].status = "open"
    /\ decided' = [decided EXCEPT ![m] = i]
    /\ UNCHANGED <<level, streamVars, alerts, mailVars, workerVars, countVars>>

Dismiss(m) ==
    /\ decided[m] # 0
    /\ \A w \in Workers : decided[m] \notin closed[w]
    /\ alerts' = [alerts EXCEPT ![decided[m]].status = "dismissed"]
    /\ decided' = [decided EXCEPT ![m] = 0]
    /\ UNCHANGED <<level, streamVars, mailVars, workerVars, countVars>>

-----------------------------------------------------------------------------
Execute(w) == Raise(w) \/ Select(w) \/ Update(w) \/ Commit(w) \/ Ack(w)

Next ==
    \/ \E q \in Levels : Move(q)
    \/ \E w \in Workers :
          \/ Receive(w) \/ Redeliver(w) \/ Execute(w)
          \/ Swallow(w) \/ LeavePending(w)
    \/ \E m \in Managers :
          Dismiss(m) \/ \E i \in 1..Len(alerts) : FindOpen(m, i)

Spec == Init /\ [][Next]_vars

\* The consumer loop never stops, and a dismissal that found its alert open
\* runs to its commit.
Fairness ==
    /\ \A w \in Workers :
          WF_vars(Receive(w) \/ Execute(w)) /\ WF_vars(Redeliver(w))
    /\ \A m \in Managers : WF_vars(Dismiss(m))

FairSpec == Spec /\ Fairness

-----------------------------------------------------------------------------
(* Properties.                                                             *)

\* "at most one alert may be OPEN per (company, alert_type, subject) at a
\* time", whatever workers do at once.
OneOpenAlertPerKind == \A k \in Kinds : Cardinality(OpenAlerts(k)) <= 1

Settled == cursor = Len(log) /\ pending = {}

Thresholds == {i \in 1..Len(log) : log[i].type # "stock.moved"}
IsLast(i) == \A j \in Thresholds : j <= i

\* The last threshold event still says what the line is like.
Standing(i) ==
    IF log[i].type = "stock.depleted" THEN level = 0
    ELSE level \in 1..ReorderPoint

\* What the alerts say of the line is so, and what should be said is said, or
\* was and a human waved it away.
AlertsAreTrue ==
    /\ OpenAlerts("out_of_stock") # {} => level = 0
    /\ OpenAlerts("low_stock") # {} => level \in 1..ReorderPoint
    /\ \A i \in Thresholds : IsLast(i) /\ Standing(i) =>
          \E a \in 1..Len(alerts) :
              alerts[a].cause = i /\ alerts[a].status # "resolved"

\* "a list of what needs attention": when every event has been handled, each
\* once and one at a time, the open alerts tell the line's state, dismissals
\* that race with the handlers included.
AlertsTellTheStock ==
    Settled /\ failures = 0 /\ ~overlapped => AlertsAreTrue

\* "Every handler here is idempotent, because delivery is at-least-once":
\* a message that is left pending and handled again does no harm.
RedeliveryIsHarmless == Settled /\ ~overlapped /\ ~swallowed => AlertsAreTrue

\* "Scaling this is safe: members of a Redis consumer group split the stream
\* between them".
ScalingIsSafe == Settled /\ failures = 0 => AlertsAreTrue

\* "the alert is the durable record, the email is a courtesy": an alert outlives
\* a mail that reached nobody.  Every critical alert was announced, with or
\* without success; and, unless a transaction failed after its announcement, what
\* was announced, heard of or not, has its alert or is about to have it.  One
\* that was open already is not announced again.
AlertsOutliveTheirMail ==
    /\ \A a \in 1..Len(alerts) :
          alerts[a].kind = "out_of_stock" => alerts[a].cause \in mailed \cup unheard
    /\ failures = 0 => \A i \in mailed \cup unheard :
          \/ \E a \in 1..Len(alerts) : alerts[a].cause = i
          \/ \E w \in Workers : hand[w] = i /\ "out_of_stock" \in opened[w]

\* No two workers wait for each other's rows for ever, and every event is
\* acknowledged in the end.
EverythingIsSettled == []<>(\A w \in Workers : Idle(w)) /\ <>[]Settled
=============================================================================
