---------------------------- MODULE StockScreens ----------------------------
(***************************************************************************)
(* The screens that say where the stock is.  Five of them count the same   *)
(* lines, each with a query of its own: the landing scene (warehouse_site),*)
(* the network, the zones of a building, the overview and the analytics.   *)
(* A screen is an operator on the rows of Trading.                         *)
(***************************************************************************)
EXTENDS Trading

CONSTANTS
    Capacity,      \* units each warehouse was built for
    Category,      \* of each product
    Zones,         \* [warehouse, category, capacity]: parts of buildings
    ShareScale,    \* a share is rounded to this part of one: four decimals
    ZoneCritical, ZoneWarn,   \* ZONE_CRITICAL and ZONE_WARN, in such parts
    AttentionShown,           \* lines a zone lists for attention
    BoardShown                \* rows a board of documents shows

\* A zone's category occurs once in its warehouse: uq_warehouse_zone_category.
ASSUME ScreensAssumption ==
    /\ Capacity \in [Warehouses -> Nat]
    /\ {ShareScale, ZoneCritical, ZoneWarn, AttentionShown, BoardShown} \subseteq Nat
    /\ 0 < ZoneWarn /\ ZoneWarn < ZoneCritical /\ ZoneCritical <= ShareScale
    /\ IsFiniteSet(Zones) /\ Zones \subseteq [warehouse : Warehouses,
                                category : STRING, capacity : Nat]
    /\ \A y, z \in Zones :
            y.warehouse = z.warehouse /\ y.category = z.category => y = z

At(w) == {l \in DOMAIN stock : l[2] = w}
Units(S) == Total(S, LAMBDA l : stock[l])
Value(S) == Total(S, LAMBDA l : Cost[l[1]] * stock[l])
Alerted(S) == {a \in alerts : a[2] \in S}
AtLeastZero(n) == IF n < 0 THEN 0 ELSE n
AtMost(n, k) == IF n > k THEN k ELSE n

\* round(n / d): to the nearest, half to even.
Rounded(n, d) ==
    LET q == n \div d
    IN  IF 2 * (n % d) < d \/ (2 * (n % d) = d /\ q % 2 = 0) THEN q ELSE q + 1

\* ORDER BY and LIMIT n: what the list may be, in whatever order equals come.
Firsts(S, n, before) ==
    {R \in SUBSET S : /\ Cardinality(R) = AtMost(Cardinality(S), n)
                      /\ \A x \in R, y \in S \ R : <<y, x>> \notin before}

-----------------------------------------------------------------------------
(* The landing scene.                                                      *)

\* Mutated: a line with nothing left is counted as low as well as out.
SiteWithEmpty(w) ==
    LET L == At(w)
    IN  [units |-> Units(L), lines |-> Cardinality(L),
         low |-> Cardinality({l \in L : Reorder[l] > 0 /\ stock[l] <= Reorder[l]}),
         out |-> Cardinality({l \in L : stock[l] <= 0}),
         alerts |-> Cardinality(Alerted(L)),
         held |-> AtMost(Units(L), Capacity[w])]
Site(w) ==
    LET L == At(w)
    IN  [units |-> Units(L), lines |-> Cardinality(L),
         low |-> Cardinality({l \in L : /\ Reorder[l] > 0 /\ stock[l] <= Reorder[l]
                                        /\ stock[l] > 0}),
         out |-> Cardinality({l \in L : stock[l] <= 0}),
         alerts |-> Cardinality(Alerted(L)),
         held |-> AtMost(Units(L), Capacity[w])]

-----------------------------------------------------------------------------
(* Health: a hundred, less what is out, low and complained about.          *)

Unknown == -1   \* no line, no score
Health(lines, out, low, complaints) ==
    IF lines = 0 THEN Unknown
    ELSE AtLeastZero(Rounded(500 * lines - 300 * out - 125 * low
                                - 15 * lines * AtMost(complaints, 5), 5 * lines))

Band(score) ==
    IF score = Unknown THEN "unknown"
    ELSE IF score >= 80 THEN "healthy" ELSE IF score >= 60 THEN "moderate" ELSE "at_risk"

-----------------------------------------------------------------------------
(* The network.                                                            *)

\* Transfers not completed, those not shipped yet among them.
Edges == {i \in DOMAIN transfers : transfers[i].status \notin {"completed", "cancelled"}}
EdgeUnits == Total(Edges, LAMBDA i : transfers[i].quantity)

Node(w) ==
    LET L == At(w)
        out == Cardinality({l \in L : stock[l] <= 0})
        low == Cardinality({l \in L : Reorder[l] > 0 /\ stock[l] \in 1 .. Reorder[l]})
        complaints == Cardinality(Alerted(L))
    IN  [units |-> Units(L), value |-> Value(L), lines |-> Cardinality(L),
         low |-> low, out |-> out, alerts |-> complaints,
         active |-> Cardinality({i \in Edges : transfers[i].from = w}),
         health |-> Health(Cardinality(L), out, low, complaints),
         band |-> Band(Health(Cardinality(L), out, low, complaints))]

Summary ==
    LET node == [w \in Warehouses |-> Node(w)]
        sum(f) == Total(Warehouses, LAMBDA w : node[w][f])
    IN  [units |-> sum("units"), value |-> sum("value"), lines |-> sum("lines"),
         low |-> sum("low"), out |-> sum("out"),
         in_flight |-> Cardinality(Edges),
         bands |-> [b \in {"healthy", "moderate", "at_risk", "unknown"} |->
                        Cardinality({w \in Warehouses : node[w].band = b})],
         approved |-> Cardinality({i \in DOMAIN counts : counts[i].status = "approved"})]

-----------------------------------------------------------------------------
(* Zones: a line stands in the zone of its product's category, if any.     *)

Zone(z) ==
    LET L == {l \in DOMAIN stock : l[2] = z.warehouse /\ Category[l[1]] = z.category}
        units == Units(L)
        attention == {l \in L : stock[l] <= 0
                                \/ (Reorder[l] > 0 /\ stock[l] <= Reorder[l])}
        utilisation == IF z.capacity = 0 THEN 0
                       ELSE Rounded(ShareScale * units, z.capacity)
    IN  [lines |-> L, units |-> units, available |-> AtLeastZero(z.capacity - units),
         state |-> IF utilisation >= ZoneCritical THEN "critical"
                   ELSE IF utilisation >= ZoneWarn THEN "warning" ELSE "ok",
         low |-> Cardinality({l \in L : Reorder[l] > 0 /\ stock[l] > 0
                                        /\ stock[l] <= Reorder[l]}),
         out |-> Cardinality({l \in L : stock[l] <= 0}),
         alerts |-> Cardinality({l \in L : Alerted({l}) # {}}),
         attention |-> AtMost(Cardinality(attention), AttentionShown)]

CommandCenter(w) ==
    LET here == {z \in Zones : z.warehouse = w}
    IN  [units |-> Units(At(w)), value |-> Value(At(w)), lines |-> Cardinality(At(w)),
         zones |-> here,
         inbound |-> Cardinality({i \in Edges : transfers[i].to = w}),
         outbound |-> Cardinality({i \in Edges : transfers[i].from = w}),
         to_review |-> Cardinality({i \in DOMAIN counts :
                            counts[i].status = "pending" /\ counts[i].line[2] = w}),
         lines_low |-> Total(here, LAMBDA z : Zone(z).low),
         lines_out |-> Total(here, LAMBDA z : Zone(z).out),
         critical |-> Cardinality({z \in here : Zone(z).state = "critical"})]

NetworkAlerts ==
    [out_of_stock |-> Summary.out, low_stock |-> Summary.low,
     zones_full |-> Cardinality({z \in Zones : Zone(z).state = "critical"})]

-----------------------------------------------------------------------------
(* The overview, and the list of stock.                                    *)

Position ==
    LET L == DOMAIN stock
    IN  [lines |-> Cardinality(L), units |-> Units(L), value |-> Value(L),
         low |-> Cardinality({l \in L : Reorder[l] > 0 /\ stock[l] <= Reorder[l]
                                        /\ stock[l] > 0}),
         out |-> Cardinality({l \in L : stock[l] <= 0})]

AlertCounts ==
    [warning |-> Cardinality({a \in alerts : a[1] = "low_stock"}),
     critical |-> Cardinality({a \in alerts : a[1] = "out_of_stock"})]

IsLow(l) == Reorder[l] > 0 /\ stock[l] <= Reorder[l]

-----------------------------------------------------------------------------
(* The boards: the newest documents first, with what they add up to.       *)

LastRows(s) == {i \in DOMAIN s : i > Len(s) - BoardShown}

TransferBoard == [i \in LastRows(transfers) |->
    [status |-> transfers[i].status, units |-> transfers[i].quantity]]

Variance(i) == counts[i].actual - counts[i].expected
CountRow(i) ==
    [status |-> counts[i].status,
     discrepancies |-> IF Variance(i) # 0 THEN 1 ELSE 0,
     short |-> AtLeastZero(-Variance(i)), over |-> AtLeastZero(Variance(i))]
CountBoard == [i \in LastRows(counts) |-> CountRow(i)]

-----------------------------------------------------------------------------
(* Five queries, one answer: what a building holds, has run low on and has *)
(* run out of is the same on the landing scene and the network, the        *)
(* overview and the network's banner repeat their sums, the zones of a     *)
(* building add up to it except for the lines of a category without a zone,*)
(* and a zone sends somebody to every line it counts as low or out, up to  *)
(* the length of its list.  A zone is critical when what is free in it is  *)
(* no more than the mark leaves, to half a part of the rounded share.  What*)
(* is on the map between buildings is what the board of transfers has open,*)
(* and a count's shortage and surplus are never netted.                    *)
StockScreensAgree ==
    LET position == Position
        summary == Summary
        banner == NetworkAlerts
    IN  /\ \A f \in DOMAIN position : position[f] = summary[f]
        /\ banner.out_of_stock = position.out /\ banner.low_stock = position.low
        /\ AlertCounts.warning + AlertCounts.critical
                = Total(Warehouses, LAMBDA w : Site(w).alerts)
        /\ Cardinality(Edges) = Total(Warehouses, LAMBDA w : CommandCenter(w).inbound)
        /\ \A w \in Warehouses :
            LET site == Site(w)
                node == Node(w)
                centre == CommandCenter(w)
                unzoned == At(w) \ UNION {Zone(z).lines : z \in centre.zones}
            IN  /\ \A f \in {"units", "lines", "low", "out", "alerts"} : site[f] = node[f]
                /\ \A f \in {"units", "value", "lines"} : centre[f] = node[f]
                /\ centre.outbound = node.active
                /\ node.low - centre.lines_low =
                        Cardinality({l \in unzoned : IsLow(l) /\ stock[l] > 0})
                /\ node.out - centre.lines_out = Cardinality({l \in unzoned : stock[l] = 0})
                /\ node.low + node.out = 0 /\ node.alerts = 0 /\ node.lines > 0
                        => node.health = 100
        /\ \A z \in Zones :
            LET row == Zone(z)
                free == 2 * ShareScale * row.available
                left == (2 * (ShareScale - ZoneCritical) + 1) * z.capacity
            IN  /\ row.attention = AtMost(row.low + row.out, AttentionShown)
                /\ IF row.state = "critical" THEN free <= left ELSE free >= left
        /\ Len(transfers) <= BoardShown =>
                EdgeUnits = Total({i \in DOMAIN TransferBoard :
                                        TransferBoard[i].status # "completed"},
                                  LAMBDA i : TransferBoard[i].units)
        /\ \A i \in DOMAIN CountBoard :
            LET row == CountBoard[i]
            IN  /\ row.over - row.short = Variance(i)
                /\ row.discrepancies = 0 <=> row.over + row.short = 0

\* A line between two buildings is stock that left one and has not reached the
\* other (warehouses/command.py:84).
EdgesAreInFlight == \A i \in Edges : transfers[i].status = "in_transit"
=============================================================================
