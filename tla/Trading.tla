------------------------------- MODULE Trading -------------------------------
(***************************************************************************)
(* The rows one company's screens are computed from, and the handlers that *)
(* write them: stock and its movements, sales, purchase orders, transfers, *)
(* counts, open alerts and the night's suggestions.  Each handler is one   *)
(* committed transaction here; what happens inside one, and between two,   *)
(* is the subject of StockLedger, Documents, Alerts and Nightly.           *)
(*                                                                         *)
(* Time is counted in days.  A screen is read later in its day than the    *)
(* rows of that day were written, so that the last n days, a difference of *)
(* two instants, are the calendar days after today - n.                    *)
(***************************************************************************)
EXTENDS Integers, Sequences, SequencesExt, FiniteSetsExt

CONSTANTS
    Products, Warehouses, Suppliers,
    Cost, Price,     \* of a unit, by product
    Reorder,         \* the reorder point of each line somebody gave one
    Seeds,           \* the rows a database may start with
    Changes,         \* manual adjustments of a line
    Baskets,         \* what a sale may consist of, by product
    Wanted,          \* quantity of an order, a transfer or a suggestion
    Promise,         \* days until an order is promised, where a day is given
    Lookback,        \* days a rate of sale is taken over
    Touched,         \* lines that documents and adjustments are about: bound
    MaxDay,          \* bound of the model
    MaxWrites        \* bound of the model

Lines == Products \X Warehouses
Days == 0 .. MaxDay

\* What the columns of the tables hold; an order's promised day may be left out.
Sale == [day : Days, warehouse : Warehouses, items : Baskets]
PurchaseOrder ==
    [status : {"draft", "submitted", "delivered", "cancelled"}, supplier : Suppliers,
     line : Lines, quantity : Nat, raised : Int,
     promised : {D \in SUBSET Int : \A c, d \in D : c = d}]
Transfer ==
    [status : {"pending", "in_transit", "completed"}, product : Products,
     from : Warehouses, to : Warehouses, quantity : Nat, created : Int]
StockCount ==
    [status : {"pending", "approved", "rejected"}, line : Lines, expected : Nat,
     actual : Nat, created : Int]
Advice == [quantity : Nat, seen : Int]

ASSUME TradingAssumption ==
    /\ IsFiniteSet(Products) /\ IsFiniteSet(Warehouses) /\ IsFiniteSet(Suppliers)
    /\ Cost \in [Products -> Nat] /\ Price \in [Products -> Nat]
    /\ Reorder \in [Lines -> Nat]
    /\ Wanted \in Nat \ {0} /\ Promise \in Int /\ Lookback \in Nat \ {0}
    /\ Changes \subseteq Int \ {0} /\ Touched \subseteq Lines
    /\ \A b \in Baskets : DOMAIN b \subseteq Products /\ \A p \in DOMAIN b : b[p] \in Nat \ {0}
    /\ MaxDay \in Nat /\ MaxWrites \in Nat

\* A seed's sales are made on its own day, the first.
ASSUME SeedsAssumption ==
    \A s \in Seeds :
        /\ DOMAIN s.stock \subseteq Lines /\ \A l \in DOMAIN s.stock : s.stock[l] \in Nat
        /\ s.sales \in Seq(Sale) /\ \A i \in DOMAIN s.sales : s.sales[i].day = 0
        /\ s.orders \in Seq(PurchaseOrder)
        /\ s.transfers \in Seq(Transfer)
        /\ s.counts \in Seq(StockCount)
        /\ s.advice \in [Lines -> Advice]

VARIABLES
    today,
    writes,     \* handlers that have committed
    stock,      \* quantity of each line there is
    moved,      \* net movement of each line on each day
    sales,      \* [day, warehouse, items]
    orders,     \* [status, supplier, line, quantity, raised, promised]
    transfers,  \* [status, product, from, to, quantity, created]
    counts,     \* [status, line, expected, actual, created]
    due,        \* announcements the consumers have not handled
    alerts,     \* <<kind, line>> of each open alert
    advice      \* what the last night suggested to reorder, and the sales it saw, by line

rows == <<stock, moved, sales, orders, transfers, counts, due, alerts, advice>>
trading == <<today, writes, rows>>

Held(l) == IF l \in DOMAIN stock THEN stock[l] ELSE 0

Total(S, f(_)) == SumFunctionOnSet([x \in S |-> f(x)], S)
Recent(n) == {d \in Days : d > today - n /\ d <= today}
InDays(D) == {i \in DOMAIN sales : sales[i].day \in D}
Of(i, p) == IF p \in DOMAIN sales[i].items THEN sales[i].items[p] ELSE 0
SoldAt(l, D) == Total({i \in InDays(D) : sales[i].warehouse = l[2]}, LAMBDA i : Of(i, l[1]))

\* A database as the seed leaves it; its orders may have been sent or cancelled,
\* which no handler does.
Init ==
    \E s \in Seeds :
        /\ today = 0 /\ writes = 0
        /\ stock = s.stock /\ sales = s.sales /\ orders = s.orders
        /\ moved = [l \in Lines |-> [d \in Days |-> 0]]
        /\ transfers = s.transfers /\ counts = s.counts /\ due = <<>>
        /\ alerts = {} /\ advice = s.advice

-----------------------------------------------------------------------------
(* Moving stock.                                                           *)

Announced(l, before, after) ==
    <<[kind |-> "moved", line |-> l, after |-> after]>>
    \o (IF after = 0 /\ before > 0 THEN <<[kind |-> "out_of_stock", line |-> l]>>
        ELSE IF Reorder[l] > 0 /\ after <= Reorder[l] /\ before > Reorder[l]
             THEN <<[kind |-> "low_stock", line |-> l]>> ELSE <<>>)

\* adjust_inventory of each of the lines: all or, when one would fall below
\* zero, none.  A line that was not there is created.
Moves(change) ==
    LET after(l) == Held(l) + change[l]
    IN  /\ \A l \in DOMAIN change : after(l) >= 0
        /\ stock' = [l \in DOMAIN stock \cup DOMAIN change |->
                        IF l \in DOMAIN change THEN after(l) ELSE stock[l]]
        /\ moved' = [l \in Lines |-> IF l \in DOMAIN change
                        THEN [moved[l] EXCEPT ![today] = @ + change[l]] ELSE moved[l]]
        /\ due' = due \o FlattenSeq(SetToSeq(
                        {Announced(l, Held(l), after(l)) : l \in DOMAIN change}))

Only(l, n) == [m \in {l} |-> n]
Writes == writes < MaxWrites /\ writes' = writes + 1 /\ UNCHANGED today

Adjust(l, n) ==
    /\ Writes /\ Moves(Only(l, n))
    /\ UNCHANGED <<sales, orders, transfers, counts, alerts, advice>>

Sell(w, basket) ==
    /\ Writes
    /\ Moves([l \in {<<p, w>> : p \in DOMAIN basket} |-> -basket[l[1]]])
    /\ sales' = Append(sales, [day |-> today, warehouse |-> w, items |-> basket])
    /\ UNCHANGED <<orders, transfers, counts, alerts, advice>>

-----------------------------------------------------------------------------
(* Documents.                                                              *)

RaiseOrder(s, l, promised) ==
    /\ Writes
    /\ orders' = Append(orders,
            [status |-> "draft", supplier |-> s, line |-> l, quantity |-> Wanted,
             raised |-> today, promised |-> promised])
    /\ UNCHANGED <<stock, moved, due, sales, transfers, counts, alerts, advice>>

\* Only a delivered order is refused.
ReceiveOrder(i) ==
    /\ Writes
    /\ orders[i].status # "delivered"
    /\ Moves(Only(orders[i].line, orders[i].quantity))
    /\ orders' = [orders EXCEPT ![i].status = "delivered"]
    /\ UNCHANGED <<sales, transfers, counts, alerts, advice>>

RequestTransfer(p, from, to) ==
    /\ Writes
    /\ from # to
    /\ transfers' = Append(transfers,
            [status |-> "pending", product |-> p, from |-> from, to |-> to,
             quantity |-> Wanted, created |-> today])
    /\ UNCHANGED <<stock, moved, due, sales, orders, counts, alerts, advice>>

ShipTransfer(i) ==
    LET t == transfers[i]
    IN  /\ Writes
        /\ t.status = "pending"
        /\ Moves(Only(<<t.product, t.from>>, -t.quantity))
        /\ transfers' = [transfers EXCEPT ![i].status = "in_transit"]
        /\ UNCHANGED <<sales, orders, counts, alerts, advice>>

CompleteTransfer(i) ==
    LET t == transfers[i]
    IN  /\ Writes
        /\ t.status = "in_transit"
        /\ Moves(Only(<<t.product, t.to>>, t.quantity))
        /\ transfers' = [transfers EXCEPT ![i].status = "completed"]
        /\ UNCHANGED <<sales, orders, counts, alerts, advice>>

\* A count keeps the quantity the ledger had when it was taken.
Count(l, actual) ==
    /\ Writes
    /\ counts' = Append(counts, [status |-> "pending", line |-> l, expected |-> Held(l),
                                 actual |-> actual, created |-> today])
    /\ UNCHANGED <<stock, moved, due, sales, orders, transfers, alerts, advice>>

ApproveCount(i) ==
    LET c == counts[i]
    IN  /\ Writes
        /\ c.status = "pending"
        /\ IF c.actual # c.expected THEN Moves(Only(c.line, c.actual - c.expected))
                                    ELSE UNCHANGED <<stock, moved, due>>
        /\ counts' = [counts EXCEPT ![i].status = "approved"]
        /\ UNCHANGED <<sales, orders, transfers, alerts, advice>>

RejectCount(i) ==
    /\ Writes
    /\ counts[i].status = "pending"
    /\ counts' = [counts EXCEPT ![i].status = "rejected"]
    /\ UNCHANGED <<stock, moved, due, sales, orders, transfers, alerts, advice>>

-----------------------------------------------------------------------------
(* The background: consumers, the nightly job, the calendar.               *)

\* The handlers of alerts, on one announcement.
Handled(open, n) ==
    LET low == <<"low_stock", n.line>>
        out == <<"out_of_stock", n.line>>
    IN  CASE n.kind = "low_stock" -> open \cup {low}
          [] n.kind = "out_of_stock" -> (open \cup {out}) \ {low}
          [] n.kind = "moved" ->
                open \ ((IF n.after > 0 THEN {out} ELSE {}) \cup
                        (IF Reorder[n.line] > 0 /\ n.after > Reorder[n.line]
                         THEN {low} ELSE {}))

\* A consumer's batch.
Notice ==
    /\ due # <<>>
    /\ alerts' = FoldLeft(Handled, alerts, due)
    /\ due' = <<>>
    /\ UNCHANGED <<today, writes, stock, moved, sales, orders, transfers, counts, advice>>

\* A night: the forecast replaces a line's suggestion.
Suggest(l, n) ==
    /\ Writes
    /\ advice' = [advice EXCEPT ![l] = [quantity |-> n, seen |-> SoldAt(l, Recent(Lookback))]]
    /\ UNCHANGED <<stock, moved, due, sales, orders, transfers, counts, alerts>>

NextDay ==
    /\ today < MaxDay
    /\ today' = today + 1
    /\ UNCHANGED <<writes, rows>>

Write ==
    \/ \E l \in Touched, n \in Changes : Adjust(l, n)
    \/ \E w \in Warehouses, b \in Baskets : Sell(w, b)
    \/ \E s \in Suppliers, l \in Touched, promised \in {{}, {today + Promise}} :
            RaiseOrder(s, l, promised)
    \/ \E i \in DOMAIN orders : ReceiveOrder(i)
    \/ \E l \in Touched, w \in Warehouses : RequestTransfer(l[1], l[2], w)
    \/ \E i \in DOMAIN transfers : ShipTransfer(i) \/ CompleteTransfer(i)
    \/ \E l \in Touched, n \in {0, Wanted} : Count(l, n)
    \/ \E i \in DOMAIN counts : ApproveCount(i) \/ RejectCount(i)
    \/ \E l \in Touched, n \in {0, Wanted} : Suggest(l, n)
=============================================================================
