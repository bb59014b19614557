---------------------------- MODULE AtomicStock ----------------------------
(***************************************************************************)
(* What the stock core promises its callers, without locks, statements or  *)
(* staged rows: a request changes all the lines it names in one indivisible*)
(* step or changes nothing, and no step of it would take a line below zero.*)
(* StockLedger is shown to implement it.                                   *)
(***************************************************************************)
EXTENDS Integers, Sequences

CONSTANTS Lines, Tenant, Sessions, Plans, OpeningStock, NoSession

VARIABLES
    stock,      \* units of every line
    book,       \* the movements that explain them, per line
    request,    \* what a session was asked to do
    answer      \* "idle", "open", "committed" or "rolled_back"

vars == <<stock, book, request, answer>>

Opening(l) ==
    IF OpeningStock[l] = 0 THEN <<>>
    ELSE <<[by |-> NoSession, change |-> OpeningStock[l],
            after |-> OpeningStock[l]]>>

Init ==
    /\ stock = OpeningStock
    /\ book = [l \in Lines |-> Opening(l)]
    /\ request = [s \in Sessions |-> <<>>]
    /\ answer = [s \in Sessions |-> "idle"]

\* The level of line l after the first i adjustments of the plan, from q.
Level(p, l, q) ==
    LET level[i \in 0..Len(p)] ==
            IF i = 0 THEN q
            ELSE level[i-1] + (IF p[i].line = l THEN p[i].change ELSE 0)
    IN  level

Entry(s, a, level) == [by |-> s, change |-> a.change, after |-> level]

\* The entries that the first i adjustments make in the book of line l.
Entries(s, p, l, q) ==
    LET entries[i \in 0..Len(p)] ==
            IF i = 0 THEN <<>>
            ELSE IF p[i].line = l
                 THEN Append(entries[i-1], Entry(s, p[i], Level(p, l, q)[i]))
                 ELSE entries[i-1]
    IN  entries

Ask(s, p) ==
    /\ answer[s] = "idle"
    /\ request' = [request EXCEPT ![s] = p]
    /\ answer' = [answer EXCEPT ![s] = "open"]
    /\ UNCHANGED <<stock, book>>

\* The request is carried out as if it were alone.
Perform(s) ==
    LET p == request[s]
    IN  /\ answer[s] = "open"
        /\ \A i \in 1..Len(p) : p[i].line \in Tenant
        /\ \A l \in Lines : \A i \in 1..Len(p) : Level(p, l, stock[l])[i] >= 0
        /\ stock' = [l \in Lines |-> Level(p, l, stock[l])[Len(p)]]
        /\ book' = [l \in Lines |->
              book[l] \o Entries(s, p, l, stock[l])[Len(p)]]
        /\ answer' = [answer EXCEPT ![s] = "committed"]
        /\ UNCHANGED request

Refuse(s) ==
    /\ answer[s] = "open"
    /\ answer' = [answer EXCEPT ![s] = "rolled_back"]
    /\ UNCHANGED <<stock, book, request>>

Next ==
    \E s \in Sessions :
        \/ \E p \in Plans : Ask(s, p)
        \/ Perform(s)
        \/ Refuse(s)

Spec == Init /\ [][Next]_vars
=============================================================================
