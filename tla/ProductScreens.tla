--------------------------- MODULE ProductScreens ---------------------------
(***************************************************************************)
(* The screens that say how products are doing: the list of what runs out  *)
(* first (stockout_risks), the analytics page, the product hub and one     *)
(* product's own page.  Each classifies the same stock by the same sales,  *)
(* over windows of its own, and cuts its lists at a limit of its own.      *)
(* Rates and covers are fractions: n units in d days.  A figure is rounded *)
(* where another is computed from it: the daily usage, and the days left.  *)
(***************************************************************************)
EXTENDS StockScreens

CONSTANTS
    HorizonCap, CriticalDays, WarningDays, WatchDays,   \* stockout
    UsageScale, DaysScale,                   \* parts a usage and a number of days are
                                             \* rounded to: three decimals, one
    RiskLimit,                               \* rows a caller asks stockout_risks for
    BestSellersShown, CompanionsShown, PurchasesShown,  \* limits of the hub and the page
    BandEnds,                                \* upper ends of RISK_BANDS, the last open
    DeadDays, ExcessCover, AtRiskCover,      \* shared by analytics and the hub
    LeadTime,                                \* SUPPLIER_LEAD_TIME_DAYS
    UnknownLead,                             \* lead time where no order says one
    MonthDays, Months,                       \* the calendar of the seasonality chart
    Ranges                                   \* windows a reader may ask for

ASSUME ProductScreensAssumption ==
    /\ {HorizonCap, DeadDays, LeadTime, UnknownLead, MonthDays, Months} \subseteq Nat \ {0}
    /\ CriticalDays < WarningDays /\ WarningDays < WatchDays
    /\ {UsageScale, DaysScale} \subseteq Nat \ {0} /\ Lookback <= UsageScale
    /\ {RiskLimit, BestSellersShown, CompanionsShown, PurchasesShown} \subseteq Nat
    /\ BandEnds \in Seq(Nat) \ {<< >>} /\ BandEnds[1] < CriticalDays
    /\ \A i, j \in DOMAIN BandEnds : i < j => BandEnds[i] < BandEnds[j]
    /\ {ExcessCover, AtRiskCover, CriticalDays, WarningDays, WatchDays} \subseteq Nat
    /\ HorizonCap > ExcessCover /\ Lookback <= DeadDays
    /\ LeadTime <= HorizonCap
    /\ Ranges \subseteq Nat \ {0}

-----------------------------------------------------------------------------
(* Sales in a window of days, the newest of them last.                     *)

Prior(n) == {d \in Days : d > today - 2 * n /\ d <= today - n}
Sold(p, D) == Total(InDays(D), LAMBDA i : Of(i, p))
Revenue(p, D) == Price[p] * Sold(p, D)
Basket(i) == Total(DOMAIN sales[i].items, LAMBDA p : Price[p] * Of(i, p))
LastSale(p) == LET D == {d \in Days : Sold(p, {d}) > 0} IN IF D = {} THEN {} ELSE {Max(D)}

\* A number of days n / d, and the lack of one.
Never == [n |-> 0, d |-> 0]
LE(x, k) == x.d > 0 /\ x.n <= k * x.d
GT(x, k) == x.d > 0 /\ x.n > k * x.d

-----------------------------------------------------------------------------
(* What runs out first.                                                    *)

\* What a line sells a day, in parts of a unit.
Usage(l) == Rounded(UsageScale * SoldAt(l, Recent(Lookback)), Lookback)

\* min(on_hand / usage, cap), nothing when nothing sold, and 0 when all is gone.
DaysLeft(l) ==
    IF stock[l] <= 0 THEN [n |-> 0, d |-> 1]
    ELSE IF Usage(l) = 0 THEN Never
    ELSE IF stock[l] * UsageScale > HorizonCap * Usage(l) THEN [n |-> HorizonCap, d |-> 1]
    ELSE [n |-> stock[l] * UsageScale, d |-> Usage(l)]

\* The days of the row, which the list is sorted by and the bands are made of.
DaysRemaining(l) ==
    LET left == DaysLeft(l)
    IN  IF left = Never THEN Never
        ELSE [n |-> Rounded(DaysScale * left.n, left.d), d |-> DaysScale]

Severity(l) ==
    LET left == DaysLeft(l)
    IN  IF stock[l] <= 0 THEN "critical"
        ELSE IF left = Never THEN (IF stock[l] > Reorder[l] THEN "idle" ELSE "warning")
        ELSE IF LE(left, CriticalDays) THEN "critical"
        ELSE IF LE(left, WarningDays) THEN "warning"
        ELSE IF LE(left, WatchDays) THEN "watch" ELSE "ok"

ActiveDays(l) == {d \in Recent(Lookback) : SoldAt(l, {d}) > 0}
Confidence(l) ==
    IF 2 * Cardinality(ActiveDays(l)) >= Lookback THEN "high"
    ELSE IF 100 * Cardinality(ActiveDays(l)) >= 15 * Lookback THEN "medium" ELSE "low"

\* Safety stock is what the busiest day asks beyond an ordinary one, for the lead
\* time; with the ordinary demand of the lead time it is the busiest day's.
Peak(l) == Max({0} \cup {SoldAt(l, {d}) : d \in Recent(Lookback)})
ReorderAt(l) ==
    IF Usage(l) = 0 \/ Cost[l[1]] = 0 THEN {}
    ELSE {Max({1, LeadTime * Peak(l)})}

Sooner(k, l) ==
    LET x == DaysRemaining(k)
        y == DaysRemaining(l)
    IN  \/ x # Never /\ (y = Never \/ x.n < y.n)
        \/ x = y /\ stock[k] > stock[l]

\* The lists of rows the query may return.
Risks == Firsts(DOMAIN stock, RiskLimit,
                {kl \in (DOMAIN stock) \X (DOMAIN stock) : Sooner(kl[1], kl[2])})

\* What the header says of the rows R.
Soonest(R) ==
    LET S == {l \in R : DaysRemaining(l) # Never /\ stock[l] > 0}
    IN  {l \in S : \A k \in S : ~Sooner(k, l)}

Severities(R) == [s \in {"critical", "warning", "watch", "ok", "idle"} |->
                    {l \in R : Severity(l) = s}]

-----------------------------------------------------------------------------
(* Analytics.                                                              *)

\* Mutated: the first band is open below, so what is out is in no band.
RiskBandOpen(R, k) ==
    {l \in R :
        /\ DaysRemaining(l) # Never
        /\ GT(DaysRemaining(l), IF k = 1 THEN 0 ELSE BandEnds[k - 1])
        /\ k <= Len(BandEnds) => LE(DaysRemaining(l), BandEnds[k])}
RiskBand(R, k) ==
    {l \in R :
        /\ DaysRemaining(l) # Never
        /\ k > 1 => GT(DaysRemaining(l), BandEnds[k - 1])
        /\ k <= Len(BandEnds) => LE(DaysRemaining(l), BandEnds[k])}
RiskBands == 1 .. Len(BandEnds) + 1

DeadLines == {l \in DOMAIN stock : stock[l] > 0 /\ SoldAt(l, Recent(DeadDays)) = 0}
ExcessLines(R) == {l \in R \ DeadLines : GT(DaysRemaining(l), ExcessCover)}
InventoryHealth(R) ==
    [dead |-> Value(DeadLines), excess |-> Value(ExcessLines(R)),
     healthy |-> AtLeastZero(Value(DOMAIN stock) - Value(DeadLines) - Value(ExcessLines(R))),
     total |-> Value(DOMAIN stock)]

Performance(w, n) ==
    LET L == At(w)
    IN  [revenue |-> Total({i \in InDays(Recent(n)) : sales[i].warehouse = w}, Basket),
         value |-> Value(L), lines |-> Cardinality(L),
         out |-> Cardinality({l \in L : stock[l] <= 0}),
         low |-> Cardinality({l \in L : Reorder[l] > 0 /\ 0 < stock[l]
                                        /\ stock[l] <= Reorder[l]}),
         alerts |-> Cardinality(Alerted(L))]

\* Revenue by day for one site; a quiet day is a zero, not a missing day.
SiteSeries(w, n) == [d \in Recent(n) |->
    Total({i \in InDays({d}) : sales[i].warehouse = w}, Basket)]

-----------------------------------------------------------------------------
(* The hub: every product in one bucket, by urgency and then by cost.      *)

OnHand(p) == Units({l \in DOMAIN stock : l[1] = p})
DaysSince(p) == {today - d : d \in LastSale(p)}
Idle(p) == \A n \in DaysSince(p) : n >= DeadDays
Growing(p, n) ==
    LET before == Sold(p, Prior(n))
    IN  before > 0 /\ 5 * (Sold(p, Recent(n)) - before) >= before
Cover(p, n) ==
    IF Sold(p, Recent(n)) = 0 THEN Never
    ELSE [n |-> OnHand(p) * n, d |-> Sold(p, Recent(n))]

Bucket(p, n) ==
    IF Sold(p, Recent(n)) > 0 /\ OnHand(p) <= 0 THEN "critical"
    ELSE IF LE(Cover(p, n), AtRiskCover) THEN "at_risk"
    ELSE IF Idle(p) THEN (IF OnHand(p) > 0 THEN "dead" ELSE "healthy")
    ELSE IF GT(Cover(p, n), ExcessCover) THEN "overstocked"
    ELSE IF Growing(p, n) THEN "growing" ELSE "healthy"
Buckets == {"critical", "at_risk", "dead", "overstocked", "growing", "healthy"}

HubRow(p, n) ==
    [on_hand |-> OnHand(p), value |-> Cost[p] * OnHand(p), sold |-> Sold(p, Recent(n)),
     revenue |-> Revenue(p, Recent(n)), cover |-> Cover(p, n), since |-> DaysSince(p),
     bucket |-> Bucket(p, n)]
InBucket(b, n) == {p \in Products : Bucket(p, n) = b}
Distribution(n) == [b \in Buckets |->
    [count |-> Cardinality(InBucket(b, n)),
     value |-> Total(InBucket(b, n), LAMBDA p : HubRow(p, n).value)]]
Workspace(k, n) ==
    CASE k = "at_risk" -> InBucket("critical", n) \cup InBucket("at_risk", n)
      [] k = "growing" -> {p \in Products : 0 < Sold(p, Prior(n))
                                    /\ Sold(p, Prior(n)) < Sold(p, Recent(n))}
      [] OTHER -> InBucket(k, n)


\* The first rows by revenue, less those that earned nothing.
BestSellers(n) ==
    LET earns == [p \in Products |-> Revenue(p, Recent(n))]
    IN  {{p \in R : earns[p] > 0} : R \in Firsts(Products, BestSellersShown,
                {pq \in Products \X Products : earns[pq[1]] > earns[pq[2]]})}

-----------------------------------------------------------------------------
(* One product's page.                                                     *)

Month(d) == d \div MonthDays
Season == Month(today) - Months + 1 .. Month(today)
InMonth(p, m) == Sold(p, {d \in Days : Month(d) = m})
BestMonths(p) ==
    LET complete == Season \ {Month(today)}
    IN  {m \in complete : \A k \in complete : InMonth(p, k) <= InMonth(p, m)}

\* The chart starts with the day the window starts in and ends a day before today.
Series(p, n) == [d \in today - n .. today - 1 |->
    IF d \in Recent(n) THEN Sold(p, {d}) ELSE 0]

Together(p, n) ==
    [q \in Products \ {p} |-> Cardinality({i \in InDays(Recent(n)) :
                                    Of(i, p) > 0 /\ Of(i, q) > 0})]
Companions(p, n) ==
    LET with == Together(p, n)
    IN  Firsts({q \in Products \ {p} : with[q] > 0}, CompanionsShown,
               {qr \in (DOMAIN with) \X (DOMAIN with) : with[qr[1]] > with[qr[2]]})

Deductions(p, n) ==
    (IF Bucket(p, n) = "critical" THEN 40
     ELSE IF LE(Cover(p, n), AtRiskCover) THEN 22
     ELSE IF GT(Cover(p, n), ExcessCover) THEN 15 ELSE 0)
    + (IF Idle(p) THEN 25 ELSE 0)
    + (IF Sold(p, Prior(n)) > 0 /\ 5 * (Sold(p, Recent(n)) - Sold(p, Prior(n)))
                                        <= -Sold(p, Prior(n)) THEN 15 ELSE 0)
    + (IF Price[p] > 0 /\ 10 * (Price[p] - Cost[p]) < Price[p] THEN 10 ELSE 0)

\* created_at DESC; orders raised in one day are numbered as they were raised.
Newer(i, j) == \/ orders[i].raised > orders[j].raised
               \/ orders[i].raised = orders[j].raised /\ i > j
Newest(S, n) == {i \in S : Cardinality({j \in S : Newer(j, i)}) < n}

Promised(i) == CHOOSE d \in orders[i].promised : TRUE
LeadOf(i) == Promised(i) - orders[i].raised

\* The lead time its last orders planned, on average, and whether what is left is no
\* more than sells in that time, by the window's rate or the chart's busiest day.
PlannedLead(p) ==
    LET S == {i \in Newest({j \in DOMAIN orders : orders[j].line[1] = p}, PurchasesShown) :
                    orders[i].promised # {} /\ LeadOf(i) >= 0}
    IN  IF S = {} THEN [n |-> UnknownLead, d |-> 1]
        ELSE [n |-> Total(S, LeadOf), d |-> Cardinality(S)]
OrderNow(p, n) ==
    LET lead == PlannedLead(p)
        left == OnHand(p) * lead.d
    IN  /\ Sold(p, Recent(n)) > 0 /\ Cost[p] > 0
        /\ \/ left * n <= lead.n * Sold(p, Recent(n))
           \/ \E d \in DOMAIN Series(p, n) : left <= lead.n * Series(p, n)[d]

\* The revenue shown is the month's: the loop over the season's months assigns the
\* variable that held the window's.
Page(p, n) ==
    [on_hand |-> OnHand(p), value |-> Cost[p] * OnHand(p), sold |-> Sold(p, Recent(n)),
     revenue |-> Price[p] * InMonth(p, Month(today)), cover |-> Cover(p, n),
     since |-> DaysSince(p), bucket |-> Bucket(p, n),
     health |-> AtLeastZero(100 - Deductions(p, n)), order_now |-> OrderNow(p, n),
     below |-> {l \in DOMAIN stock : l[1] = p /\ IsLow(l)},
     lifetime |-> Sold(p, Days), orders |-> Cardinality({i \in InDays(Recent(n)) : Of(i, p) > 0})]

-----------------------------------------------------------------------------
(* Two screens that classify the same product do not give two answers.     *)
(* What the hub calls dead is dead on the analytics page, line by line, and*)
(* the other way round when nothing of it has sold anywhere; what the hub  *)
(* calls critical is out on every shelf and belongs in the first band.  Of *)
(* the rows the list returns, each whose days are known is in one band and *)
(* one in the first is critical; where the list is cut, what a band misses *)
(* is missing because the list is full of rows no less urgent.  The three  *)
(* values of the analytics page and the buckets of the hub each add up to  *)
(* the value of the stock; stock at the suggested reorder point outlasts   *)
(* the lead time; the best sellers earn what the buildings do as long as   *)
(* all of them are shown; a product leaves a companion out only for others *)
(* that are no less frequent by the companion's own page; and a product's  *)
(* page shows what the hub shows, but for the revenue, with a chart that   *)
(* adds up to what sold, but for today.                                    *)
RiskListAgrees(R) ==
    LET banded == [k \in RiskBands |-> RiskBand(R, k)]
        health == InventoryHealth(R)
        parts == Severities(R)
    IN  /\ \A l \in R : Cardinality({k \in RiskBands : l \in banded[k]})
                            = (IF DaysRemaining(l) = Never THEN 0 ELSE 1)
        /\ \A l \in banded[1] : Severity(l) = "critical"
        /\ \A k \in RiskBands : \A l \in RiskBand(DOMAIN stock, k) \ R :
                Cardinality(R) = RiskLimit /\ R \subseteq UNION {banded[j] : j \in 1 .. k}
        /\ Total(DOMAIN parts, LAMBDA s : Cardinality(parts[s])) = Cardinality(R)
        /\ \A l \in Soonest(R) : \A k \in DOMAIN stock : Sooner(k, l) => stock[k] = 0
        /\ health.dead + health.excess + health.healthy = Position.value

StockLinesAgree ==
    \A l \in DOMAIN stock :
        /\ Confidence(l) # "low" => DaysRemaining(l) # Never
        /\ \A n \in ReorderAt(l) : stock[l] >= n =>
                DaysRemaining(l).n >= LeadTime * DaysRemaining(l).d
        /\ l \in DeadLines => Severity(l) \in {"idle", "warning"}

PageAgrees(p, n) ==
    LET row == HubRow(p, n)
        page == Page(p, n)
        stocked == {l \in DOMAIN stock : l[1] = p /\ stock[l] > 0}
    IN  /\ \A f \in DOMAIN row \ {"revenue"} : row[f] = page[f]
        /\ row.bucket = "dead" => stocked # {} /\ stocked \subseteq DeadLines
        /\ stocked # {} /\ Sold(p, Recent(DeadDays)) = 0 => row.bucket \in {"dead", "at_risk"}
        /\ row.bucket = "critical" =>
                {l \in DOMAIN stock : l[1] = p} \subseteq RiskBand(DOMAIN stock, 1)
        /\ row.bucket = "critical" /\ Cost[p] > 0 => page.order_now
        /\ page.health = 100 => row.bucket \in {"healthy", "growing"}
        /\ row.bucket = "growing" => p \in Workspace("growing", n)
        /\ page.sold = Total(DOMAIN Series(p, n), LAMBDA d : Series(p, n)[d])
                            + Sold(p, {today})
        /\ \A m \in BestMonths(p) : m < Month(today)
        /\ n <= DeadDays /\ row.bucket = "dead" => page.health <= 75

CompanionsAgree(p, q, n) ==
    \A C \in Companions(p, n), D \in Companions(q, n) :
        /\ q \in C => Together(p, n)[q] <= Page(q, n).orders
        /\ p \in D /\ q \in C => Together(p, n)[q] = Together(q, n)[p]
        /\ p \in D /\ q \notin C =>
                /\ Cardinality(C) = CompanionsShown
                /\ \A r \in C : Together(p, n)[r] >= Together(q, n)[p]

RevenueAgrees(n) ==
    LET earned == Total(Warehouses, LAMBDA w : Performance(w, n).revenue)
    IN  \A best \in BestSellers(n) :
            LET shown == Total(best, LAMBDA p : Revenue(p, Recent(n)))
            IN  /\ shown <= earned
                /\ Cardinality({p \in Products : Revenue(p, Recent(n)) > 0}) <= BestSellersShown
                        => shown = earned

ProductScreensAgree ==
    /\ StockLinesAgree
    /\ \A R \in Risks : RiskListAgrees(R)
    /\ \A w \in Warehouses : \A f \in {"value", "lines", "out", "low", "alerts"} :
            Performance(w, Lookback)[f] = Node(w)[f]
    /\ \A n \in Ranges :
        /\ \A p \in Products : PageAgrees(p, n)
        /\ \A p \in Products : \A q \in Products \ {p} : CompanionsAgree(p, q, n)
        /\ LET part == Distribution(n)
           IN  /\ Total(Buckets, LAMBDA b : part[b].value) = Position.value
               /\ Total(Buckets, LAMBDA b : part[b].count) = Cardinality(Products)
        /\ RevenueAgrees(n)
        /\ \A w \in Warehouses :
            LET series == SiteSeries(w, n)
            IN  Total(Recent(n), LAMBDA d : series[d]) = Performance(w, n).revenue

\* A product's page shows the revenue of the window it names, the hub's figure
\* (products/intelligence.py:47: two screens using different windows would report
\* two different answers to the same question).
PageShowsTheWindow ==
    \A p \in Products, n \in Ranges : Page(p, n).revenue = HubRow(p, n).revenue
=============================================================================
