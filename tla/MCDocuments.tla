---------------------------- MODULE MCDocuments ----------------------------
(***************************************************************************)
(* Small instances of Documents: one product, two warehouses of the        *)
(* caller's company, one of them without a stock line at first.            *)
(***************************************************************************)
EXTENDS DocumentHistory, TLC

CONSTANTS order, transfer, count, sale, scan

Milk(n) == <<[product |-> "milk", units |-> n]>>

MCLines == {"milk"} \X {"north", "south"}
MCOpening == [l \in MCLines |-> IF l[2] = "north" THEN 4 ELSE 0]
MCReorder == [l \in MCLines |-> 0]

MCContent ==
    (order :> [kind |-> "order", items |-> Milk(1), to |-> "south"])
    @@ (transfer :> [kind |-> "transfer", items |-> Milk(1) \o Milk(1),
                     from |-> "north", to |-> "south"])
    @@ (count :> [kind |-> "count", at |-> "north",
                  counted |-> <<[product |-> "milk", expected |-> 4,
                                 actual |-> 3]>>])
    @@ (sale :> [kind |-> "sale", items |-> Milk(2), from |-> "north"])
    @@ (scan :> [kind |-> "scan", items |-> Milk(1), at |-> "north",
                 direction |-> -1])

\* The plans these documents ask for.
MCPlans ==
    {<<>>, Carried(Milk(1), "south", 1), Carried(Milk(1) \o Milk(1), "north", -1),
     Carried(Milk(1) \o Milk(1), "south", 1), Carried(Milk(1), "north", -1),
     Carried(Milk(2), "north", -1)}

Symmetry == Permutations(Sessions)
=============================================================================
