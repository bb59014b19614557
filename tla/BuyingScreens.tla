---------------------------- MODULE BuyingScreens ----------------------------
(***************************************************************************)
(* The screens that say what to order and what is going wrong with what    *)
(* was ordered: procurement, the suppliers' scorecards, the pipeline of    *)
(* orders and the list of suggestions.                                     *)
(***************************************************************************)
EXTENDS ProductScreens

CONSTANTS
    CriticalDelay, StaleDraft, UrgentDays, Weeks, WeekDays,
    NoRateDays,                          \* where a card without a rate is sorted
    LateShown, ActionsShown, StaleShown, \* of each kind, among the exceptions
    PipelineShown                        \* orders of the pipeline

ASSUME BuyingAssumption ==
    /\ {CriticalDelay, StaleDraft, UrgentDays, Weeks, NoRateDays} \subseteq Nat
    /\ {LateShown, ActionsShown, StaleShown, PipelineShown} \subseteq Nat
    /\ WeekDays \in Nat \ {0}

OPEN_STATUSES == {"draft", "submitted"}
ByStatus(S) == {i \in DOMAIN orders : orders[i].status \in S}
Amount(i) == Cost[orders[i].line[1]] * orders[i].quantity
Amounts(S) == Total(S, Amount)

-----------------------------------------------------------------------------
(* Late orders: procurement asks of those that were sent, the analytics    *)
(* page of every order that is still open.  One without a promise is never *)
(* late.                                                                   *)

Overdue(i) == \E d \in orders[i].promised : d < today
Delayed == {i \in ByStatus({"submitted"}) : Overdue(i)}
ActiveOrders == {i \in DOMAIN orders : orders[i].status \notin {"delivered", "cancelled"}}
DelayedActive == {i \in ActiveOrders : Overdue(i)}
LateBy(i) == today - Promised(i)
LateLists == Firsts(Delayed, LateShown,
                    {ij \in Delayed \X Delayed : Promised(ij[1]) < Promised(ij[2])})

StaleDrafts == {i \in ByStatus({"draft"}) : orders[i].raised < today - StaleDraft}

-----------------------------------------------------------------------------
(* What to order next.                                                     *)

Suggested == {l \in DOMAIN advice : advice[l].quantity > 0}

\* Mutated: only an order that was sent covers a suggestion.
AlreadySent == {orders[i].line : i \in ByStatus({"submitted"})}
AlreadyOrdered == {orders[i].line : i \in ByStatus(OPEN_STATUSES)}
Urgent == Suggested \ AlreadyOrdered

\* The newest order of the product says who sells it.
LastSupplier(p) ==
    {orders[i].supplier : i \in Newest({j \in DOMAIN orders : orders[j].line[1] = p}, 1)}

\* By the rate of sale the suggestion was made with, and the stock there is now.
Rate(l) == Rounded(UsageScale * advice[l].seen, Lookback)
Priority(l) ==
    IF Held(l) <= 0 \/ (Rate(l) > 0 /\ Held(l) * UsageScale <= UrgentDays * Rate(l))
    THEN "high" ELSE "medium"
DaysOfStock(l) ==
    IF Rate(l) = 0 THEN {} ELSE {Rounded(DaysScale * Held(l) * UsageScale, Rate(l))}

Card(l) ==
    [line |-> l, on_hand |-> Held(l), days |-> DaysOfStock(l), quantity |-> advice[l].quantity,
     order_value |-> Cost[l[1]] * advice[l].quantity, at_risk |-> Price[l[1]] * advice[l].quantity,
     supplier |-> LastSupplier(l[1]), priority |-> Priority(l)]

\* High priority first, then the fewest days; equals are in the order of their
\* confidence, which the model leaves out: any.
Outranks(l, m) ==
    LET days(k) == IF DaysOfStock(k) = {} THEN {DaysScale * NoRateDays} ELSE DaysOfStock(k)
    IN  \/ Priority(l) = "high" /\ Priority(m) # "high"
        \/ Priority(l) = Priority(m) /\ \A x \in days(l), y \in days(m) : x < y
ActionLists == Firsts(Urgent, ActionsShown,
                      {lm \in Urgent \X Urgent : Outranks(lm[1], lm[2])})

\* The oldest drafts.
StaleList == {i \in StaleDrafts :
                Cardinality({j \in StaleDrafts : Newer(i, j)}) < StaleShown}

\* The lists are cut first; of the first cards those are kept that are high.
Exceptions(late, cards) ==
    {[kind |-> "supplier_delay", of |-> i,
      severity |-> IF LateBy(i) > CriticalDelay THEN "critical" ELSE "high"] : i \in late}
    \cup {[kind |-> "stockout_risk", of |-> l,
           severity |-> IF Held(l) <= 0 THEN "critical" ELSE "high"] :
                l \in {m \in cards : Priority(m) = "high"}}
    \cup {[kind |-> "approval_pending", of |-> i, severity |-> "medium"] : i \in StaleList}

Kpis ==
    [open |-> Cardinality(ByStatus(OPEN_STATUSES)),
     open_amount |-> Amounts(ByStatus(OPEN_STATUSES)),
     awaiting |-> Cardinality(ByStatus({"draft"})),
     delayed |-> Cardinality(Delayed), delayed_amount |-> Amounts(Delayed),
     urgent |-> Cardinality(Urgent),
     urgent_amount |-> Total(Urgent, LAMBDA l : Card(l).order_value)]

OrderWorkspace(k) ==
    LET S == IF k = "open" THEN ByStatus(OPEN_STATUSES) ELSE ByStatus({k})
    IN  [count |-> Cardinality(S), value |-> Amounts(S)]

\* Weekly value of the orders raised, from a week n ago up to the last one over: the
\* chart ends a week before the week it is read in.
Sparkline(S) == [k \in 1 .. Weeks |->
    LET week == (today - (Weeks - k + 1) * WeekDays) \div WeekDays
    IN  Amounts({i \in S : /\ orders[i].raised > today - Weeks * WeekDays
                               /\ orders[i].raised \div WeekDays = week})]

-----------------------------------------------------------------------------
(* Suppliers.                                                              *)

FromSupplier(s) == {i \in DOMAIN orders : orders[i].supplier = s}
SupplierRow(s) ==
    [orders |-> Cardinality(FromSupplier(s) \cap ByStatus({"submitted", "delivered"})),
     overdue |-> Cardinality(FromSupplier(s) \cap Delayed)]

\* A draft was not sent, and counts neither for nor against its supplier.
Scorecard(s) ==
    LET S == FromSupplier(s)
    IN  [orders |-> Cardinality(S), spend |-> Amounts(S),
         delivered |-> Cardinality(S \cap ByStatus({"delivered"})),
         placed |-> Cardinality({i \in S : orders[i].status # "draft"})]
HasRate(s) == Scorecard(s).placed > 0

SupplierLead(s) ==
    LET S == {i \in FromSupplier(s) \cap ByStatus({"delivered"}) : orders[i].promised # {}}
    IN  [total |-> Total(S, LeadOf),
         observations |-> Cardinality(S)]

-----------------------------------------------------------------------------
(* The pipeline, and the list of suggestions with the stock they meet.     *)

Pipeline == Newest(DOMAIN orders, PipelineShown)
PipelineRow(i) == [status |-> orders[i].status, units |-> orders[i].quantity,
                   total |-> Amount(i)]
InsightRow(l) == [quantity |-> advice[l].quantity, on_hand |-> Held(l),
                  estimated_cost |-> Cost[l[1]] * advice[l].quantity]

-----------------------------------------------------------------------------
(* A suggestion is urgent or ordered, never both and never neither, and one*)
(* a reader sees under both screens has the same cost; the cards, the      *)
(* workspaces and the suppliers' rows each add up to what the headline     *)
(* says, the pipeline as far as it is shown; an order late on the          *)
(* procurement screen is late on the analytics page, which adds only       *)
(* drafts; no rate is shown for a supplier to whom nothing was sent, and a *)
(* lead time is that of the orders that had a promise.  A critical delay,  *)
(* or an empty shelf somebody should order for, is among the exceptions    *)
(* unless the list it is cut from is full of delays as critical, or of     *)
(* cards of high priority.                                                 *)
ExceptionsTell(late, cards) ==
    LET listed == Exceptions(late, cards)
    IN  /\ \A e \in listed :
            e.kind = "stockout_risk" /\ e.severity = "critical" => Held(e.of) = 0
        /\ \A l \in Urgent : Held(l) = 0 =>
            \/ [kind |-> "stockout_risk", of |-> l, severity |-> "critical"] \in listed
            \/ Cardinality(cards) = ActionsShown /\ \A m \in cards : Priority(m) = "high"
        /\ \A i \in Delayed : LateBy(i) > CriticalDelay =>
            \/ [kind |-> "supplier_delay", of |-> i, severity |-> "critical"] \in listed
            \/ Cardinality(late) = LateShown /\ \A j \in late : LateBy(j) > CriticalDelay

BuyingScreensAgree ==
    /\ Urgent \cap {orders[i].line : i \in ActiveOrders} = {}
    /\ Suggested = Urgent \cup {l \in Suggested : \E i \in ActiveOrders : orders[i].line = l}
    /\ \A l \in Urgent : Card(l).order_value = InsightRow(l).estimated_cost
    /\ Kpis.urgent_amount = Total(Urgent, LAMBDA l : InsightRow(l).estimated_cost)
    /\ \A late \in LateLists, cards \in ActionLists : ExceptionsTell(late, cards)
    /\ Delayed \subseteq DelayedActive
    /\ \A i \in DelayedActive \ Delayed : orders[i].status = "draft"
    /\ Kpis.delayed = Total(Suppliers, LAMBDA s : SupplierRow(s).overdue)
    /\ Kpis.open = OrderWorkspace("draft").count + OrderWorkspace("submitted").count
    /\ LET shown == Total(Pipeline \cap ActiveOrders, LAMBDA i : PipelineRow(i).total)
       IN  /\ shown <= Kpis.open_amount
           /\ Len(orders) <= PipelineShown => shown = Kpis.open_amount
    /\ Cardinality(DOMAIN orders) = Total({"draft", "submitted", "delivered", "cancelled"},
                                          LAMBDA k : OrderWorkspace(k).count)
    /\ Total(Suppliers, LAMBDA s : Scorecard(s).placed)
            = Cardinality(DOMAIN orders) - Kpis.awaiting
    /\ Total(Suppliers, LAMBDA s : Scorecard(s).spend) = Amounts(DOMAIN orders)
    /\ \A s \in Suppliers :
        /\ Scorecard(s).delivered <= Scorecard(s).placed
        /\ Scorecard(s).delivered - SupplierLead(s).observations
                = Cardinality({i \in FromSupplier(s) : /\ orders[i].status = "delivered"
                                                       /\ orders[i].promised = {}})
        /\ HasRate(s) <=> \E i \in FromSupplier(s) : orders[i].status # "draft"
    /\ Total(1 .. Weeks, LAMBDA k : Sparkline(DOMAIN orders)[k]) <= Amounts(DOMAIN orders)

\* Most urgent first: an empty shelf outranks a confident forecast
\* (purchase_orders/procurement.py:412).
EmptyShelvesComeFirst ==
    \A cards \in ActionLists : \A l \in Urgent \ cards, m \in cards :
        Held(l) = 0 => Held(m) = 0
=============================================================================
