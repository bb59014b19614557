--------------------------- MODULE MCProjections ---------------------------
EXTENDS Projections

\* A sale of two units, and a delivery of five made before there were events.
MCRows == [sell |-> <<[kind |-> "movement", amount |-> -2],
                      [kind |-> "sale", amount |-> 2]>>,
           seed |-> <<[kind |-> "movement", amount |-> 5]>>]
=============================================================================
