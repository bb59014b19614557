------------------------------- MODULE Figures -------------------------------
(***************************************************************************)
(* The screens over the rows as the rows change, and the one figure whose  *)
(* own statements the model keeps apart: a line's trace (get_traces), the  *)
(* closing quantities of its last days, computed backwards from a quantity *)
(* read by one statement and movements read by the next.  Under READ       *)
(* COMMITTED a handler may commit between the two.                         *)
(***************************************************************************)
EXTENDS BuyingScreens

CONSTANTS Window   \* days a trace goes back

VARIABLES
    page,      \* the request that computes the traces
    closing    \* history: quantity of each line at the end of each past day

vars == <<trading, page, closing>>

TraceDays == {d \in Days : d > page.day - Window /\ d <= page.day}

FiguresInit ==
    /\ Init
    /\ page = [step |-> "idle"]
    /\ closing = [l \in Lines |-> << >>]

\* The first statement: today's date, and the quantity of every line.
ReadQuantities ==
    /\ page.step = "idle"
    /\ page' = [step |-> "half", day |-> today, quantity |-> stock,
                missed |-> [l \in DOMAIN stock |-> 0]]
    /\ UNCHANGED <<trading, closing>>

\* Mutated: a day's movements are taken off before the day is noted.
BackwardsOnto(quantity, change, day, d) ==
    quantity - Total({e \in Days : e >= d /\ e <= day}, LAMBDA e : change[e])
\* What a day closed with: today's quantity less what moved on the days after it.
Backwards(quantity, change, day, d) ==
    quantity - Total({e \in Days : e > d /\ e <= day}, LAMBDA e : change[e])

\* The second statement reads the movements there are by now.
Trace(l) == [d \in TraceDays |-> Backwards(page.quantity[l], moved[l], page.day, d)]
ReadMovements ==
    /\ page.step = "half"
    /\ page' = [step |-> "idle"]
    /\ UNCHANGED <<trading, closing>>

\* History: what a commit between the two statements moved on the day of the page.
Witness ==
    /\ page' = IF page.step = "half" /\ today = page.day
               THEN [page EXCEPT !.missed = [l \in DOMAIN page.quantity |->
                            page.missed[l] + moved'[l][today] - moved[l][today]]]
               ELSE page
    /\ closing' = [l \in Lines |-> closing[l] \o
                        (IF today' > today THEN <<Held(l)>> ELSE <<>>)]

Next ==
    \/ (Write \/ Notice \/ NextDay) /\ Witness
    \/ ReadQuantities
    \/ ReadMovements

Spec == FiguresInit /\ [][Next]_vars

-----------------------------------------------------------------------------
(* The screens agree; a page being read changes none of their rows.        *)
StockFigures == page.step = "idle" => StockScreensAgree
ProductFigures == page.step = "idle" => ProductScreensAgree
BuyingFigures == page.step = "idle" => BuyingScreensAgree

(* A trace shows what each day closed with, except that what is committed  *)
(* between its two statements is taken off every day before the page's own,*)
(* once and no more: the last day, and a page nothing overtook, are exact. *)
TracesTellTheStock ==
    page.step = "half" =>
        \A l \in DOMAIN page.quantity : \A d \in TraceDays :
            Trace(l)[d] = (IF d = page.day THEN page.quantity[l]
                           ELSE closing[l][d + 1] - page.missed[l])
=============================================================================
