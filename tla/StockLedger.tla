---------------------------- MODULE StockLedger ----------------------------
(***************************************************************************)
(* The stock core: every change of a stock line goes through               *)
(* InventoryService.adjust_inventory, called one or more times inside one  *)
(* database transaction by a request handler (a manual adjustment, a sale, *)
(* a transfer leg, a delivery, an approved count, a scan).                 *)
(*                                                                         *)
(* A session is one such request with its own SQLAlchemy session.  Its     *)
(* plan is the list of adjust_inventory calls it makes.  Sessions          *)
(* interleave at every statement that reaches the database; PostgreSQL     *)
(* (READ COMMITTED) is modelled from how the code uses it: row locks taken *)
(* by SELECT ... FOR UPDATE and by INSERT, staged writes invisible to      *)
(* others until COMMIT, all of them dropped by ROLLBACK, a unique index on *)
(* (product, warehouse), a deadlock detector that aborts one waiter.       *)
(***************************************************************************)
EXTENDS Integers, Sequences, FiniteSets

CONSTANTS
    Lines,         \* (product, warehouse) pairs a request may name
    Tenant,        \* the lines whose product and warehouse are the caller's
    Sessions,      \* concurrent requests, each with its own transaction
    Plans,         \* the lists of adjustments a request may make
    OpeningStock,  \* stock per line before the first request; 0: no row yet
    ReorderPoint,  \* Inventory.reorder_point; 0: not configured
    NoSession      \* the holder of a lock nobody holds

Adjustment == [line : Lines, change : Int]

ASSUME LinesAssumption ==
    /\ Tenant \subseteq Lines
    /\ OpeningStock \in [Lines -> Nat]
    /\ ReorderPoint \in [Lines -> Nat]
ASSUME SessionsAssumption == NoSession \notin Sessions
ASSUME PlansAssumption == Plans \subseteq Seq(Adjustment)

VARIABLES
    quantity,   \* Inventory.quantity of every line, committed (0: no row)
    present,    \* the lines that have a committed Inventory row
    ledger,     \* committed InventoryMovement rows of a line, in order
    outbox,     \* committed EventOutbox rows
    sequence,   \* last value given out by the EventOutbox.sequence generator
    lock,       \* holder of each line's row lock
    pc,         \* where a session is
    plan,       \* the adjustments a session makes
    pos,        \* the adjustment it is at
    seen,       \* the quantity read by its last SELECT ... FOR UPDATE
    moves,      \* its uncommitted InventoryMovement rows, per line
    events      \* its uncommitted EventOutbox rows

database == <<quantity, present, ledger, outbox>>
vars == <<quantity, present, ledger, outbox, sequence, lock, pc, plan, pos,
          seen, moves, events>>

Movement == [by : Sessions \cup {NoSession}, change : Int, after : Nat]
EventKind == {"stock.moved", "stock.depleted", "stock.below_reorder_point"}
Event == [sequence : Nat \ {0}, line : Lines, kind : EventKind,
          by : Sessions, change : Int, after : Nat]

Answered == {"committed", "rolled_back"}
Active == {"find", "insert", "lock", "apply", "ready"}

TypeOK ==
    /\ quantity \in [Lines -> Nat]
    /\ present \subseteq Lines
    /\ ledger \in [Lines -> Seq(Movement)]
    /\ outbox \subseteq Event
    /\ sequence \in Nat
    /\ lock \in [Lines -> Sessions \cup {NoSession}]
    /\ pc \in [Sessions -> {"idle"} \cup Active \cup Answered]
    /\ plan \in [Sessions -> Seq(Adjustment)]
    /\ pos \in [Sessions -> Nat \ {0}]
    /\ seen \in [Sessions -> Nat]
    /\ moves \in [Sessions -> [Lines -> Seq(Movement)]]
    /\ events \in [Sessions -> SUBSET Event]

-----------------------------------------------------------------------------
(* What a transaction sees and waits for.                                  *)

NoMoves == [l \in Lines |-> <<>>]

\* The quantity a list of movements leaves, starting from q.
EndsAt(movements, q) ==
    IF movements = <<>> THEN q ELSE movements[Len(movements)].after

\* A line's quantity as session s sees it: its own staged value if it has
\* touched the line, the committed one otherwise.
Visible(s, l) == EndsAt(moves[s][l], quantity[l])

Item(s) == plan[s][pos[s]]
Line(s) == Item(s).line

\* The opening balance, recorded the way the program records one: the row and
\* its first movement.
OpeningMovements(l) ==
    IF OpeningStock[l] = 0 THEN <<>>
    ELSE <<[by |-> NoSession, change |-> OpeningStock[l],
            after |-> OpeningStock[l]]>>

Init ==
    /\ quantity = OpeningStock
    /\ present = {l \in Lines : OpeningStock[l] > 0}
    /\ ledger = [l \in Lines |-> OpeningMovements(l)]
    /\ outbox = {}
    /\ sequence = 0
    /\ lock = [l \in Lines |-> NoSession]
    /\ pc = [s \in Sessions |-> "idle"]
    /\ plan = [s \in Sessions |-> <<>>]
    /\ pos = [s \in Sessions |-> 1]
    /\ seen = [s \in Sessions |-> 0]
    /\ moves = [s \in Sessions |-> NoMoves]
    /\ events = [s \in Sessions |-> {}]

-----------------------------------------------------------------------------
(* Transaction control.                                                    *)

Goto(s, label) == pc' = [pc EXCEPT ![s] = label]

\* The next adjust_inventory call of the plan, or the commit after the last.
NextCall(p, i) == IF i <= Len(p) THEN "find" ELSE "ready"

Unlocked(s) == [l \in Lines |-> IF lock[l] = s THEN NoSession ELSE lock[l]]

\* Mutant: events recorded through a session of their own outlive a rollback.
RollbackKeepingEvents(s) ==
    /\ Goto(s, "rolled_back")
    /\ lock' = Unlocked(s)
    /\ outbox' = outbox \cup events[s]
    /\ moves' = [moves EXCEPT ![s] = NoMoves]
    /\ events' = [events EXCEPT ![s] = {}]
    /\ UNCHANGED <<quantity, present, ledger, sequence, plan, pos, seen>>

\* Mutant: an exception leaves the transaction open.
RollbackKeepingLocks(s) ==
    /\ Goto(s, "rolled_back")
    /\ UNCHANGED <<database, sequence, lock, plan, pos, seen, moves, events>>

\* db.rollback(): nothing staged survives, every lock is released.  Values
\* taken from the sequence generator are not given back.
Rollback(s) ==
    /\ Goto(s, "rolled_back")
    /\ lock' = Unlocked(s)
    /\ moves' = [moves EXCEPT ![s] = NoMoves]
    /\ events' = [events EXCEPT ![s] = {}]
    /\ UNCHANGED <<database, sequence, plan, pos, seen>>

\* A request arrives and its handler opens a transaction.
Begin(s, p) ==
    /\ pc[s] = "idle"
    /\ plan' = [plan EXCEPT ![s] = p]
    /\ Goto(s, NextCall(p, 1))
    /\ UNCHANGED <<database, sequence, lock, pos, seen, moves, events>>

\* db.commit(): everything staged becomes visible at once.
Commit(s) ==
    /\ pc[s] = "ready"
    /\ Goto(s, "committed")
    /\ quantity' = [l \in Lines |-> Visible(s, l)]
    /\ present' = present \cup {l \in Lines : lock[l] = s}
    /\ ledger' = [l \in Lines |-> ledger[l] \o moves[s][l]]
    /\ outbox' = outbox \cup events[s]
    /\ lock' = Unlocked(s)
    /\ moves' = [moves EXCEPT ![s] = NoMoves]
    /\ events' = [events EXCEPT ![s] = {}]
    /\ UNCHANGED <<sequence, plan, pos, seen>>

-----------------------------------------------------------------------------
(* adjust_inventory, statement by statement.                               *)

\* A line of another company: INVALID_TENANT_REFERENCE, nothing is written.
RefuseForeignLine(s) ==
    /\ pc[s] = "find"
    /\ Line(s) \notin Tenant
    /\ Rollback(s)

\* get_or_create_inventory: a SELECT without a lock.  It sees committed rows
\* and the transaction's own insert.
FindLine(s) ==
    /\ pc[s] = "find"
    /\ Line(s) \in Tenant
    /\ Goto(s, IF Line(s) \in present \/ lock[Line(s)] = s
               THEN "lock" ELSE "insert")
    /\ UNCHANGED <<database, sequence, lock, plan, pos, seen, moves, events>>

\* ... and, when it found nothing, an INSERT of an empty row, flushed.  An
\* uncommitted insert of the same line by another session makes it wait.
InsertLine(s) ==
    /\ pc[s] = "insert"
    /\ Line(s) \notin present
    /\ lock[Line(s)] = NoSession
    /\ lock' = [lock EXCEPT ![Line(s)] = s]
    /\ Goto(s, "lock")
    /\ UNCHANGED <<database, sequence, plan, pos, seen, moves, events>>

\* Another session committed the row since the SELECT: IntegrityError.
InsertConflict(s) ==
    /\ pc[s] = "insert"
    /\ Line(s) \in present
    /\ Rollback(s)

\* Mutant: the second SELECT without FOR UPDATE.
ReadLine(s) ==
    /\ pc[s] = "lock"
    /\ seen' = [seen EXCEPT ![s] = Visible(s, Line(s))]
    /\ Goto(s, "apply")
    /\ UNCHANGED <<database, sequence, lock, plan, pos, moves, events>>

\* SELECT ... FOR UPDATE: waits for the row lock, then reads the row.
LockLine(s) ==
    /\ pc[s] = "lock"
    /\ lock[Line(s)] \in {NoSession, s}
    /\ lock' = [lock EXCEPT ![Line(s)] = s]
    /\ seen' = [seen EXCEPT ![s] = Visible(s, Line(s))]
    /\ Goto(s, "apply")
    /\ UNCHANGED <<database, sequence, plan, pos, moves, events>>

NewQuantity(s) == seen[s] + Item(s).change

\* Mutant: an item that is short is skipped and the rest of the request stands.
SkipShortage(s) ==
    /\ pc[s] = "apply"
    /\ NewQuantity(s) < 0
    /\ pos' = [pos EXCEPT ![s] = @ + 1]
    /\ Goto(s, NextCall(plan[s], pos[s] + 1))
    /\ UNCHANGED <<database, sequence, lock, plan, seen, moves, events>>

\* new_quantity < 0: INSUFFICIENT_STOCK, the whole request is rolled back.
RefuseShortage(s) ==
    /\ pc[s] = "apply"
    /\ NewQuantity(s) < 0
    /\ Rollback(s)

\* Mutant: announces the state of the line, not its crossing.
ThresholdsOnState(l, before, after) ==
    IF after = 0 THEN {"stock.depleted"}
    ELSE IF ReorderPoint[l] > 0 /\ after <= ReorderPoint[l]
         THEN {"stock.below_reorder_point"}
         ELSE {}

\* Which threshold event a change of level announces, if any: depletion wins
\* over crossing the reorder point.
Thresholds(l, before, after) ==
    IF after = 0 /\ before > 0 THEN {"stock.depleted"}
    ELSE IF ReorderPoint[l] > 0 /\ after <= ReorderPoint[l]
                                /\ before > ReorderPoint[l]
         THEN {"stock.below_reorder_point"}
         ELSE {}

EventOf(s, n, kind) ==
    [sequence |-> n, line |-> Line(s), kind |-> kind, by |-> s,
     change |-> Item(s).change, after |-> NewQuantity(s)]

\* The level is set, the movement and its events are staged with it, and the
\* flush numbers the events: stock.moved first, the threshold event after it.
SetLevel(s) ==
    LET l == Line(s)
        crossed == Thresholds(l, seen[s], NewQuantity(s))
    IN  /\ moves' = [moves EXCEPT ![s][l] =
                        Append(@, [by |-> s, change |-> Item(s).change,
                                   after |-> NewQuantity(s)])]
        /\ events' = [events EXCEPT ![s] =
                        @ \cup {EventOf(s, sequence + 1, "stock.moved")}
                          \cup {EventOf(s, sequence + 2, k) : k \in crossed}]
        /\ sequence' = sequence + (IF crossed = {} THEN 1 ELSE 2)
        /\ pos' = [pos EXCEPT ![s] = @ + 1]
        /\ Goto(s, NextCall(plan[s], pos[s] + 1))
        /\ UNCHANGED <<database, lock, plan, seen>>

\* Mutant: without the check of the new level.
ApplyUnchecked(s) == pc[s] = "apply" /\ SetLevel(s)

\* Mutant: adjust_inventory commits what it has done instead of flushing it.
ApplyAndCommit(s) ==
    /\ pc[s] = "apply"
    /\ NewQuantity(s) >= 0
    /\ quantity' = [quantity EXCEPT ![Line(s)] = NewQuantity(s)]
    /\ ledger' = [ledger EXCEPT ![Line(s)] =
                     Append(@, [by |-> s, change |-> Item(s).change,
                                after |-> NewQuantity(s)])]
    /\ present' = present \cup {Line(s)}
    /\ lock' = Unlocked(s)
    /\ pos' = [pos EXCEPT ![s] = @ + 1]
    /\ Goto(s, NextCall(plan[s], pos[s] + 1))
    /\ UNCHANGED <<outbox, sequence, plan, seen, moves, events>>

ApplyLine(s) ==
    /\ pc[s] = "apply"
    /\ NewQuantity(s) >= 0
    /\ SetLevel(s)

-----------------------------------------------------------------------------
(* Failures.                                                               *)

\* s waits for the row lock of another session.
Blocked(s) ==
    /\ \/ pc[s] = "lock"
       \/ pc[s] = "insert" /\ Line(s) \notin present
    /\ lock[Line(s)] \notin {NoSession, s}

\* s is on a cycle of sessions each waiting for the next.
Deadlocked(s) ==
    \E cycle \in SUBSET Sessions :
        /\ s \in cycle
        /\ \A t \in cycle : Blocked(t) /\ lock[Line(t)] \in cycle
        /\ \A t \in cycle : \E u \in cycle : lock[Line(u)] = t

\* PostgreSQL aborts a transaction on the cycle; the handler rolls back.
DeadlockAbort(s) ==
    /\ Deadlocked(s)
    /\ Rollback(s)

\* Any other exception in the handler, or the process dies and PostgreSQL
\* rolls the transaction back.
Fail(s) ==
    /\ pc[s] \in Active
    /\ Rollback(s)

-----------------------------------------------------------------------------
\* A statement of adjust_inventory.
Adjust(s) ==
    \/ RefuseForeignLine(s)
    \/ FindLine(s)
    \/ InsertLine(s)
    \/ InsertConflict(s)
    \/ LockLine(s)
    \/ RefuseShortage(s)
    \/ ApplyLine(s)

\* The transaction ends without the handler's doing.
Interrupt(s) == DeadlockAbort(s) \/ Fail(s)

Next ==
    \E s \in Sessions :
        \/ \E p \in Plans : Begin(s, p)
        \/ Adjust(s)
        \/ Commit(s)
        \/ Interrupt(s)

Spec == Init /\ [][Next]_vars

\* A handler that can run does run, and the deadlock detector does fire.
\* Nobody is obliged to send a request and nothing is obliged to fail.
Fairness ==
    \A s \in Sessions :
        WF_vars(Adjust(s) \/ Commit(s)) /\ WF_vars(DeadlockAbort(s))

FairSpec == Spec /\ Fairness
-----------------------------------------------------------------------------
(* Safety.                                                                 *)

\* Each movement carries the level the one before it left, plus its change.
Chained(movements, q) ==
    \A i \in 1..Len(movements) :
        movements[i].after =
            (IF i = 1 THEN q ELSE movements[i-1].after) + movements[i].change

\* "The Immutable Ledger" explains the stock: replaying a line's committed
\* movements from an empty shelf gives every recorded quantity_after on the
\* way and the current Inventory.quantity at the end, whatever sessions
\* interleaved.  A lost update or a stale read breaks the chain.
LedgerExplainsStock ==
    \A l \in Lines :
        /\ Chained(ledger[l], 0)
        /\ quantity[l] = EndsAt(ledger[l], 0)

\* Between the SELECT ... FOR UPDATE and the write that uses what it read, no
\* other session changes the line: the quantity in hand is still the one the
\* transaction would read again.
ReadIsFresh ==
    \A s \in Sessions :
        pc[s] = "apply" => seen[s] = Visible(s, Line(s))

\* What is staged on a line belongs to the one session that holds its lock.
StagedUnderLock ==
    \A s \in Sessions, l \in Lines :
        moves[s][l] # <<>> => lock[l] = s

-----------------------------------------------------------------------------
(* Liveness, under Fairness.                                               *)

\* A request that started is answered: no set of handlers waits on each
\* other's rows for ever, since a cycle of waiters loses one of its members.
EveryRequestIsAnswered ==
    \A s \in Sessions : pc[s] \in Active ~> pc[s] \in Answered
=============================================================================
