---------------------------- MODULE StockHistory ----------------------------
(***************************************************************************)
(* Properties of StockLedger that compare its committed tables with the    *)
(* whole history of requests, and its refinement of AtomicStock.           *)
(***************************************************************************)
EXTENDS StockLedger, Functions

\* Every request is atomic: StockLedger implements AtomicStock when a
\* transaction's effect is placed at its commit.
Atomic == INSTANCE AtomicStock WITH
    stock <- quantity,
    book <- ledger,
    request <- plan,
    answer <- [s \in Sessions |->
                  IF pc[s] \in Active THEN "open" ELSE pc[s]]

\* Requests that were answered with success took effect as a whole and in one
\* step, those that were refused, failed or were chosen as deadlock victims
\* took none, and none took a line below zero even for a moment.
RequestsAreAtomic == Atomic!Spec

\* What a plan, and a request, asks of a line, all told.
TotalAt(p, l) ==
    SumFunctionOnSet([i \in DOMAIN p |-> p[i].change],
                     {i \in DOMAIN p : p[i].line = l})
ChangeOf(s, l) == TotalAt(plan[s], l)

\* No unit appears or disappears: stock is what there was at the start plus
\* what every successful request said it added or took, and it is not negative
\* ("No ghost stock", "bulletproof inventory mechanics").
ConservationOfStock ==
    \A l \in Lines :
        quantity[l] = OpeningStock[l]
            + SumFunctionOnSet([s \in Sessions |-> ChangeOf(s, l)],
                               {s \in Sessions : pc[s] = "committed"})

-----------------------------------------------------------------------------
(* What the events tell.                                                   *)

Said(kind, m) ==
    [kind |-> kind, by |-> m.by, change |-> m.change, after |-> m.after]
Heard(e) == Said(e.kind, e)

\* Read by sequence number, the events say what is listed, place by place:
\* none missing, none invented, none out of order.
Tell(happenings, listed) ==
    \E told \in [DOMAIN listed -> happenings] :
        /\ \A e \in happenings : \E i \in DOMAIN listed : told[i] = e
        /\ \A i, j \in DOMAIN listed : i < j => told[i].sequence < told[j].sequence
        /\ \A i \in DOMAIN listed : Heard(told[i]) = listed[i]

About(staged, l, kinds) == {e \in staged : e.line = l /\ e.kind \in kinds}

\* The movements that are news: all but the opening balance.
News(movements) ==
    [i \in {i \in DOMAIN movements : movements[i].by # NoSession} |->
        Said("stock.moved", movements[i])]

\* The outbox tells the ledger: read by sequence number, a line's stock.moved
\* events are its movements, none missing, none invented by a transaction that
\* was rolled back, none out of order.
EventsTellTheLedger ==
    \A l \in Lines : Tell(About(outbox, l, {"stock.moved"}), News(ledger[l]))

\* A level that fell to zero, else one that fell to the reorder point.
Crossing(l, before, after) ==
    IF before > 0 /\ after <= 0 THEN "stock.depleted"
    ELSE IF ReorderPoint[l] # 0 /\ before > ReorderPoint[l]
                               /\ after <= ReorderPoint[l]
         THEN "stock.below_reorder_point"
         ELSE "nothing"

\* What the i-th movement of a list that starts at level q crosses.
Crosses(l, movements, q, i) ==
    Crossing(l, IF i = 1 THEN q ELSE movements[i-1].after, movements[i].after)
Crossings(l, movements, q) ==
    [i \in {i \in DOMAIN movements : Crosses(l, movements, q, i) # "nothing"} |->
        Said(Crosses(l, movements, q, i), movements[i])]

\* Threshold events mark crossings of the committed level, each exactly once:
\* a line that fell to zero, else one that fell to its reorder point from
\* above it.  The level before is taken from the ledger, not from what the
\* session read.
ThresholdsMarkCrossings ==
    \A l \in Lines : Tell(About(outbox, l, EventKind \ {"stock.moved"}),
                          Crossings(l, ledger[l], 0))
=============================================================================
