----------------------------- MODULE Documents -----------------------------
(***************************************************************************)
(* The documents that move stock: purchase orders, transfers, counts       *)
(* (reconciliations), sales and scans.  A handler reads a document's       *)
(* status WITHOUT a lock, decides, calls adjust_inventory once per item,   *)
(* and writes the new status in the same transaction.  StockLedger models  *)
(* the adjustments; this module adds the documents and says which plan a   *)
(* request carries out.                                                    *)
(***************************************************************************)
EXTENDS StockLedger

CONSTANTS
    Docs,       \* documents, named by their ids
    Content     \* what a document says, fixed when it is created

(***************************************************************************)
(* Content[d] is a record with the field kind and                          *)
(*   order:    items, to                                                   *)
(*   transfer: items, from, to                                             *)
(*   count:    counted (product, expected, actual), at                     *)
(*   sale:     items, from                                                 *)
(*   scan:     items (one), at, direction (1 in, -1 out)                   *)
(* with items a list of [product, units].                                  *)
(***************************************************************************)
OfKind(kind) == {d \in Docs : Content[d].kind = kind}

Carried(items, warehouse, sign) ==
    [i \in 1..Len(items) |->
        [line |-> <<items[i].product, warehouse>>,
         change |-> sign * items[i].units]]

Received(d) == Carried(Content[d].items, Content[d].to, 1)
Shipped(d) == Carried(Content[d].items, Content[d].from, -1)
Sold(d) == Carried(Content[d].items, Content[d].from, -1)
Scanned(d) == Carried(Content[d].items, Content[d].at, Content[d].direction)

\* An approved count adds the difference between what was counted and what the
\* counter's client said was expected; items without a difference are skipped.
Discrepancies(d) ==
    LET counted == Content[d].counted
    IN  SelectSeq([i \in 1..Len(counted) |->
                      [line |-> <<counted[i].product, Content[d].at>>,
                       change |-> counted[i].actual - counted[i].expected]],
                  LAMBDA a : a.change # 0)

\* What the documents ask for are requests StockLedger knows.
ASSUME ContentAssumption ==
    /\ <<>> \in Plans
    /\ \A d \in OfKind("order") : Received(d) \in Plans
    /\ \A d \in OfKind("transfer") : Shipped(d) \in Plans /\ Received(d) \in Plans
    /\ \A d \in OfKind("count") : Discrepancies(d) \in Plans
    /\ \A d \in OfKind("sale") : Sold(d) \in Plans
    /\ \A d \in OfKind("scan") : Scanned(d) \in Plans

VARIABLES
    status,     \* committed status of every document; "none": not created
    doing,      \* the document and operation a session carries out
    overlapped  \* history: documents that had two operations under way at once

docVars == <<status, doing, overlapped>>
allVars == <<vars, docVars>>

Operations == {"deliver", "ship", "complete", "approve", "reject", "sell",
               "scan"}
Task == [doc : Docs, op : Operations]
NoTask == [doc |-> "none", op |-> "none"]

\* The status an operation leaves its document in.
Outcome(op) ==
    CASE op = "deliver"  -> "delivered"
      [] op = "ship"     -> "in_transit"
      [] op = "complete" -> "completed"
      [] op = "approve"  -> "approved"
      [] op = "reject"   -> "rejected"
      [] op = "sell"     -> "completed"
      [] op = "scan"     -> "recorded"

Statuses == {"none", "draft", "pending", "in_transit", "delivered",
             "completed", "approved", "rejected", "recorded"}

DocTypeOK ==
    /\ status \in [Docs -> Statuses]
    /\ doing \in [Sessions -> Task \cup {NoTask}]
    /\ overlapped \subseteq Docs

DocInit ==
    /\ Init
    /\ status = [d \in Docs |-> "none"]
    /\ doing = [s \in Sessions |-> NoTask]
    /\ overlapped = {}

-----------------------------------------------------------------------------
(* Creation: a transaction of its own that moves no stock.                 *)

Create(d, initial) ==
    /\ status[d] = "none"
    /\ status' = [status EXCEPT ![d] = initial]
    /\ UNCHANGED <<vars, doing, overlapped>>

CreateOrder(d) == d \in OfKind("order") /\ Create(d, "draft")
CreateCount(d) == d \in OfKind("count") /\ Create(d, "pending")
CreateTransfer(d) ==
    /\ d \in OfKind("transfer")
    /\ Content[d].from # Content[d].to
    /\ Create(d, "pending")

-----------------------------------------------------------------------------
(* Requests.                                                               *)

Working(d) == {s \in Sessions : doing[s].doc = d /\ pc[s] \in Active}

\* Mutant: the status is committed before the stock is touched.
CarryOutMarkingFirst(s, d, op, p) ==
    /\ Begin(s, p)
    /\ doing' = [doing EXCEPT ![s] = [doc |-> d, op |-> op]]
    /\ status' = [status EXCEPT ![d] = Outcome(op)]
    /\ UNCHANGED overlapped

\* The handler has read the status and passed its check; from here to the
\* commit it does not look at the status again.  A request whose check fails
\* is answered at once and leaves no trace.
CarryOut(s, d, op, p) ==
    /\ Begin(s, p)
    /\ doing' = [doing EXCEPT ![s] = [doc |-> d, op |-> op]]
    /\ overlapped' = overlapped \cup (IF Working(d) = {} THEN {} ELSE {d})
    /\ UNCHANGED status

\* mark_po_as_delivered refuses only orders that are already delivered.
Deliver(s, d) ==
    /\ d \in OfKind("order")
    /\ status[d] \notin {"none", "delivered"}
    /\ CarryOut(s, d, "deliver", Received(d))

\* Mutant: the check of the status refuses only completed transfers.
ShipAgain(s, d) ==
    /\ d \in OfKind("transfer")
    /\ status[d] \in {"pending", "in_transit"}
    /\ CarryOut(s, d, "ship", Shipped(d))

Ship(s, d) ==
    /\ d \in OfKind("transfer")
    /\ status[d] = "pending"
    /\ CarryOut(s, d, "ship", Shipped(d))

Complete(s, d) ==
    /\ d \in OfKind("transfer")
    /\ status[d] = "in_transit"
    /\ CarryOut(s, d, "complete", Received(d))

Approve(s, d) ==
    /\ d \in OfKind("count")
    /\ status[d] = "pending"
    /\ CarryOut(s, d, "approve", Discrepancies(d))

Reject(s, d) ==
    /\ d \in OfKind("count")
    /\ status[d] = "pending"
    /\ CarryOut(s, d, "reject", <<>>)

\* create_sale inserts the sale, completed, in the transaction that deducts
\* its items: a sale is one request, never repeated under the same id.
Sell(s, d) ==
    /\ d \in OfKind("sale")
    /\ \A t \in Sessions : doing[t].doc # d
    /\ CarryOut(s, d, "sell", Sold(d))

\* record_scan looks the scan's reference up in the committed ledger; a device
\* that retries sends the same reference again.
Scan(s, d) ==
    /\ d \in OfKind("scan")
    /\ status[d] = "none"
    /\ CarryOut(s, d, "scan", Scanned(d))

\* The status is written with the stock, in one commit, by id alone: whatever
\* another session has made of it in the meantime is overwritten.
Finish(s) ==
    /\ Commit(s)
    /\ status' = [status EXCEPT ![doing[s].doc] = Outcome(doing[s].op)]
    /\ UNCHANGED <<doing, overlapped>>

Request(s, d) ==
    \/ Deliver(s, d) \/ Ship(s, d) \/ Complete(s, d) \/ Approve(s, d)
    \/ Reject(s, d) \/ Sell(s, d) \/ Scan(s, d)

DocNext ==
    \/ \E d \in Docs : CreateOrder(d) \/ CreateTransfer(d) \/ CreateCount(d)
    \/ \E s \in Sessions :
          \/ \E d \in Docs : Request(s, d)
          \/ (Adjust(s) \/ Interrupt(s)) /\ UNCHANGED docVars
          \/ Finish(s)

DocSpec == DocInit /\ [][DocNext]_allVars

-----------------------------------------------------------------------------
(* Properties.                                                             *)

\* Sessions that carried out op on d and committed.
Done(d, op) ==
    {s \in Sessions : doing[s] = [doc |-> d, op |-> op] /\ pc[s] = "committed"}

\* A status and the stock it stands for are committed together, races
\* included: a delivered order was received at least once, a completed
\* transfer both left and arrived, an approved count was applied, and no
\* document that looks untouched has moved anything.
StatusHasItsStock ==
    \A d \in Docs :
        /\ status[d] = "delivered" => Done(d, "deliver") # {}
        /\ status[d] = "in_transit" => Done(d, "ship") # {}
        /\ status[d] = "completed" /\ d \in OfKind("transfer") =>
              Done(d, "ship") # {} /\ Done(d, "complete") # {}
        /\ status[d] = "approved" => Done(d, "approve") # {}
        /\ status[d] = "recorded" <=> Done(d, "scan") # {}
        /\ status[d] \in {"none", "draft", "pending"} =>
              \A op \in Operations : Done(d, op) = {}

\* The error text "This PO has already been delivered." and the endpoint's
\* "executes a transaction safely": an order's goods are received once.
OrderDeliveredOnce ==
    \A d \in OfKind("order") : Cardinality(Done(d, "deliver")) <= 1

\* "A radio that retries, or a trigger held a beat too long, must not deduct
\* twice.": one movement per scan reference.
ScanCountedOnce ==
    \A d \in OfKind("scan") : Cardinality(Done(d, "scan")) <= 1
=============================================================================
