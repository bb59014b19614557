------------------------------ MODULE MCStock ------------------------------
(***************************************************************************)
(* Small instances of StockLedger: two lines of the caller's company and   *)
(* one of another's, one of the two without a row yet.                     *)
(***************************************************************************)
EXTENDS StockHistory, TLC

CONSTANTS milk, eggs, theirs

MCLines == {milk, eggs, theirs}
MCTenant == {milk, eggs}
MCOpening == (milk :> 3) @@ (eggs :> 0) @@ (theirs :> 2)
MCReorder == (milk :> 1) @@ (eggs :> 1) @@ (theirs :> 0)

Take(l, n) == [line |-> l, change |-> -n]
Put(l, n) == [line |-> l, change |-> n]

\* Two-line requests in both orders (the deadlock, and the race to insert the
\* new line), a request that names one line twice, one that fails at its second
\* line, one that may be too large to be served, and one with nothing to do.
MCPlans == {
    <<Take(milk, 2), Put(eggs, 1)>>,
    <<Put(eggs, 2), Take(milk, 1)>>,
    <<Take(milk, 1), Take(milk, 2)>>,
    <<Put(eggs, 1), Take(theirs, 1)>>,
    <<Take(eggs, 1)>>,
    <<>> }
=============================================================================
