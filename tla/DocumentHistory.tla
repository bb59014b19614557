-------------------------- MODULE DocumentHistory --------------------------
(***************************************************************************)
(* Stock computed from documents alone, compared with the stock lines.     *)
(***************************************************************************)
EXTENDS Documents, StockHistory

\* What a document in its present status has done to line l.
Effect(d, l) ==
    CASE status[d] = "delivered"  -> TotalAt(Received(d), l)
      [] status[d] = "in_transit" -> TotalAt(Shipped(d), l)
      [] status[d] = "completed" /\ d \in OfKind("transfer")
                                  -> TotalAt(Shipped(d), l) + TotalAt(Received(d), l)
      [] status[d] = "completed" /\ d \in OfKind("sale")
                                  -> TotalAt(Sold(d), l)
      [] status[d] = "approved"   -> TotalAt(Discrepancies(d), l)
      [] status[d] = "recorded"   -> TotalAt(Scanned(d), l)
      [] OTHER                    -> 0

\* As long as no two operations on the same document were ever under way at
\* once, the stock of every line is what the statuses of the documents there
\* are say it is: each took effect exactly once, whole, and in the status it
\* shows.
StockFollowsDocuments ==
    overlapped = {} =>
        \A l \in Lines :
            quantity[l] = OpeningStock[l]
                + SumFunctionOnSet([d \in Docs |-> Effect(d, l)],
                                   {d \in Docs : status[d] # "none"})
=============================================================================
