------------------------------ MODULE MCFigures ------------------------------
EXTENDS Figures, TLC

\* Three products, two buildings; a chair sells with a lamp, and with a lamp
\* and a drill.
MCCost == ("chair" :> 2) @@ ("drill" :> 3) @@ ("lamp" :> 1)
MCPrice == ("chair" :> 3) @@ ("drill" :> 3) @@ ("lamp" :> 2)
MCLines == {"chair", "drill", "lamp"} \X {"north", "south"}
MCReorder == [l \in MCLines |->
                IF l = <<"chair", "north">> THEN 2 ELSE IF l[1] = "drill" THEN 1 ELSE 0]
MCBaskets == {("chair" :> 2) @@ ("lamp" :> 1),
              ("chair" :> 1) @@ ("drill" :> 1) @@ ("lamp" :> 1)}

Quiet == [l \in MCLines |-> [quantity |-> 0, seen |-> 0]]
Order(status, supplier, l, promised) ==
    [status |-> status, supplier |-> supplier, line |-> l, quantity |-> 2,
     raised |-> 0, promised |-> promised]
Move(status, p, from, to) ==
    [status |-> status, product |-> p, from |-> from, to |-> to, quantity |-> 2,
     created |-> 0]

\* A shop that has traded, with two orders on the way, an order that came and one
\* that was cancelled, neither with a promise; and one that just opened.
MCSeeds == {
    [stock |-> (<<"chair", "north">> :> 3) @@ (<<"drill", "north">> :> 1)
               @@ (<<"chair", "south">> :> 8) @@ (<<"lamp", "north">> :> 2),
     sales |-> <<>>,
     orders |-> <<Order("submitted", "acme", <<"drill", "north">>, {1}),
                  Order("cancelled", "bolt", <<"chair", "south">>, {}),
                  Order("delivered", "bolt", <<"chair", "south">>, {}),
                  Order("submitted", "bolt", <<"chair", "north">>, {0})>>,
     transfers |-> <<Move("in_transit", "chair", "south", "north")>>,
     counts |-> <<[status |-> "pending", line |-> <<"drill", "north">>, expected |-> 2,
                   actual |-> 1, created |-> 0]>>,
     advice |-> [Quiet EXCEPT ![<<"drill", "north">>] = [quantity |-> 2, seen |-> 1],
                              ![<<"lamp", "north">>] = [quantity |-> 2, seen |-> 1],
                              ![<<"lamp", "south">>] = [quantity |-> 2, seen |-> 0],
                              ![<<"chair", "south">>] = [quantity |-> 2, seen |-> 0]]],
    [stock |-> (<<"chair", "north">> :> 2) @@ (<<"drill", "south">> :> 2)
               @@ (<<"lamp", "north">> :> 1),
     sales |-> <<[day |-> 0, warehouse |-> "north", items |-> ("chair" :> 2) @@ ("lamp" :> 1)]>>,
     orders |-> <<Order("draft", "acme", <<"chair", "north">>, {1})>>,
     transfers |-> <<>>, counts |-> <<>>, advice |-> Quiet]}

MCCapacity == ("north" :> 5) @@ ("south" :> 8)
MCCategory == ("chair" :> "furniture") @@ ("drill" :> "tools") @@ ("lamp" :> "furniture")
MCZones == {
    [warehouse |-> "north", category |-> "furniture", capacity |-> 3],
    [warehouse |-> "north", category |-> "tools", capacity |-> 2],
    [warehouse |-> "south", category |-> "furniture", capacity |-> 9]}
MCTouched == {<<"chair", "north">>, <<"drill", "south">>}
MCBandEnds == <<1, 2, 4>>
=============================================================================
