-------------------------- MODULE AssistantActions --------------------------
(***************************************************************************)
(* What the assistant proposes and people decide.  A proposal for a        *)
(* purchase order is committed by the tool that makes it.  A decision is a *)
(* request of its own: it reads the proposal WITHOUT a lock, checks that it*)
(* is still open, stages the purchase order (approval), the proposal's new *)
(* columns and an audit row, and commits them together.  The first flush   *)
(* that writes the proposal's row takes its row lock.                      *)
(***************************************************************************)
EXTENDS Integers, FiniteSets

CONSTANTS
    Proposals,
    Decisions,      \* requests to approve or reject, each by a named user
    Quantities,     \* what a model may ask for or a person may enter
    MaxQuantity,    \* MAX_PROPOSED_QUANTITY
    NoDecision      \* result_id of a proposal that became no order

ASSUME AssistantAssumption ==
    /\ Quantities \subseteq Nat
    /\ MaxQuantity \in Nat \ {0}
    /\ NoDecision \notin Decisions

VARIABLES
    status,     \* AssistantAction.status, committed; "none": not proposed yet
    proposed,   \* quantity of proposed_payload
    executed,   \* quantity of executed_payload; 0: NULL
    result,     \* result_id: an order is named by the decision that made it
    late,       \* proposals whose expires_at has passed
    orders,     \* committed purchase orders made from proposals
    audit,      \* committed audit rows about decisions
    lock,       \* holder of a proposal's row lock
    pc,         \* where a decision is
    decision,   \* the proposal it is about, its verb and final quantity
    overlapped  \* history: proposals that had two decisions under way at once

tables == <<status, proposed, executed, result, orders, audit>>
vars == <<tables, late, lock, pc, decision, overlapped>>

Order == [id : Decisions, from : Proposals, quantity : 1..MaxQuantity]
AuditRow == [by : Decisions, on : Proposals, verb : {"approve", "reject"},
             asked : 1..MaxQuantity, executed : 0..MaxQuantity]
Decision == [on : Proposals \cup {NoDecision},
             verb : {"none", "approve", "reject"}, quantity : 0..MaxQuantity]
Nothing == [on |-> NoDecision, verb |-> "none", quantity |-> 0]
UnderWay == {"order", "mark", "commit"}

TypeOK ==
    /\ status \in [Proposals -> {"none", "proposed", "approved", "rejected",
                                 "failed", "expired"}]
    /\ proposed \in [Proposals -> 0..MaxQuantity]
    /\ executed \in [Proposals -> 0..MaxQuantity]
    /\ result \in [Proposals -> Decisions \cup {NoDecision}]
    /\ late \subseteq Proposals
    /\ orders \subseteq Order
    /\ audit \subseteq AuditRow
    /\ lock \in [Proposals -> Decisions \cup {NoDecision}]
    /\ pc \in [Decisions -> {"idle", "done", "refused", "expired", "failed",
                             "lost"} \cup UnderWay]
    /\ decision \in [Decisions -> Decision]
    /\ overlapped \subseteq Proposals

Init ==
    /\ status = [p \in Proposals |-> "none"]
    /\ proposed = [p \in Proposals |-> 0]
    /\ executed = [p \in Proposals |-> 0]
    /\ result = [p \in Proposals |-> NoDecision]
    /\ late = {}
    /\ orders = {}
    /\ audit = {}
    /\ lock = [p \in Proposals |-> NoDecision]
    /\ pc = [r \in Decisions |-> "idle"]
    /\ decision = [r \in Decisions |-> Nothing]
    /\ overlapped = {}

Goto(r, label) == pc' = [pc EXCEPT ![r] = label]
On(r) == decision[r].on

-----------------------------------------------------------------------------
(* Proposing and growing old.                                              *)

\* create_purchase_order, the tool: the order is not made, the proposal is
\* committed.  A quantity out of bounds is answered with a sentence.
Propose(p, q) ==
    /\ status[p] = "none"
    /\ q \in 1..MaxQuantity
    /\ status' = [status EXCEPT ![p] = "proposed"]
    /\ proposed' = [proposed EXCEPT ![p] = q]
    /\ UNCHANGED <<executed, result, orders, audit, late, lock, pc, decision,
                   overlapped>>

\* PROPOSAL_TTL runs out.
GrowLate(p) ==
    /\ status[p] # "none"
    /\ p \notin late
    /\ late' = late \cup {p}
    /\ UNCHANGED <<tables, lock, pc, decision, overlapped>>

-----------------------------------------------------------------------------
(* Reading and checking.                                                   *)

\* Mutant: whatever is not yet approved may still be decided.
ActionableUnlessApproved(p) == status[p] # "approved" /\ p \notin late

Actionable(p) == status[p] = "proposed" /\ p \notin late

Deciding(p) == {r \in Decisions : On(r) = p /\ pc[r] \in UnderWay}

Take(r, p, verb, q, label) ==
    /\ pc[r] = "idle"
    /\ status[p] # "none"
    /\ Actionable(p)
    /\ Goto(r, label)
    /\ decision' = [decision EXCEPT ![r] =
                       [on |-> p, verb |-> verb, quantity |-> q]]
    /\ overlapped' = overlapped \cup (IF Deciding(p) = {} THEN {} ELSE {p})
    /\ UNCHANGED <<tables, late, lock>>

\* The quantity to order: what the approver entered, else what was proposed;
\* 0 when what was entered is INVALID_QUANTITY.
Final(p, override) ==
    IF override = 0 THEN proposed[p]
    ELSE IF override \in 1..MaxQuantity THEN override
    ELSE 0

Approve(r, p, override) ==
    /\ Final(p, override) # 0
    /\ Take(r, p, "approve", Final(p, override), "order")

Reject(r, p) == Take(r, p, "reject", 0, "mark")

\* _require_actionable: the request is answered and nothing of it is committed,
\* the status "expired" it may have flushed included.
Refuse(r, p) ==
    /\ pc[r] = "idle"
    /\ status[p] # "none"
    /\ \/ status[p] # "proposed" /\ Goto(r, "refused")
       \/ status[p] = "proposed" /\ p \in late /\ Goto(r, "expired")
    /\ decision' = [decision EXCEPT ![r].on = p]
    /\ UNCHANGED <<tables, late, lock, overlapped>>

-----------------------------------------------------------------------------
(* Carrying out.                                                           *)

\* The first write to the proposal's row waits for whoever has it locked.
Locks(r) ==
    /\ lock[On(r)] \in {NoDecision, r}
    /\ lock' = [lock EXCEPT ![On(r)] = r]

Unlocked(r) == [p \in Proposals |-> IF lock[p] = r THEN NoDecision ELSE lock[p]]

\* Mutant: the order takes its quantity from the proposal, not the decision.
OrderAsProposed(r) == [id |-> r, from |-> On(r), quantity |-> proposed[On(r)]]

OrderOf(r) == [id |-> r, from |-> On(r), quantity |-> decision[r].quantity]

\* Mutant: create_po commits the order it makes.
CreateOrderCommitting(r) ==
    /\ pc[r] = "order"
    /\ Locks(r)
    /\ orders' = orders \cup {OrderOf(r)}
    /\ Goto(r, "mark")
    /\ UNCHANGED <<status, proposed, executed, result, audit, late, decision,
                   overlapped>>

\* create_po stages the order; its flush writes the proposal's row too.
CreateOrder(r) ==
    /\ pc[r] = "order"
    /\ Locks(r)
    /\ Goto(r, "mark")
    /\ UNCHANGED <<tables, late, decision, overlapped>>

\* Mutant: the failed transaction is left open.
OrderFailsHoldingLock(r) ==
    /\ pc[r] = "order"
    /\ Locks(r)
    /\ Goto(r, "failed")
    /\ UNCHANGED <<tables, late, decision, overlapped>>

\* create_po refuses: the status "failed" is flushed, the exception goes on to
\* the router, and with no commit everything is rolled back.
OrderFails(r) ==
    /\ pc[r] = "order"
    /\ lock[On(r)] = NoDecision
    /\ Goto(r, "failed")
    /\ UNCHANGED <<tables, late, lock, decision, overlapped>>

\* The decision's columns and its audit row are flushed.
Mark(r) ==
    /\ pc[r] = "mark"
    /\ Locks(r)
    /\ Goto(r, "commit")
    /\ UNCHANGED <<tables, late, decision, overlapped>>

Row(r, final) ==
    [by |-> r, on |-> On(r), verb |-> decision[r].verb,
     asked |-> proposed[On(r)], executed |-> final]

\* Everything at once, by id: the columns a decision does not write keep what
\* another has committed in the meantime.
CommitApproval(r) ==
    LET p == On(r)
    IN  /\ pc[r] = "commit" /\ decision[r].verb = "approve"
        /\ status' = [status EXCEPT ![p] = "approved"]
        /\ executed' = [executed EXCEPT ![p] = decision[r].quantity]
        /\ result' = [result EXCEPT ![p] = r]
        /\ orders' = orders \cup {OrderOf(r)}
        /\ audit' = audit \cup {Row(r, decision[r].quantity)}
        /\ lock' = Unlocked(r)
        /\ Goto(r, "done")
        /\ UNCHANGED <<proposed, late, decision, overlapped>>

\* A rejection's audit row shows the executed_payload it read: none.
CommitRejection(r) ==
    /\ pc[r] = "commit" /\ decision[r].verb = "reject"
    /\ status' = [status EXCEPT ![On(r)] = "rejected"]
    /\ audit' = audit \cup {Row(r, 0)}
    /\ lock' = Unlocked(r)
    /\ Goto(r, "done")
    /\ UNCHANGED <<proposed, executed, result, orders, late, decision,
                   overlapped>>

\* Any other exception, or the process dies: PostgreSQL rolls back.
Abort(r) ==
    /\ pc[r] \in UnderWay
    /\ lock' = Unlocked(r)
    /\ Goto(r, "lost")
    /\ UNCHANGED <<tables, late, decision, overlapped>>

-----------------------------------------------------------------------------
CarryOut(r) ==
    \/ CreateOrder(r) \/ Mark(r) \/ CommitApproval(r) \/ CommitRejection(r)

Next ==
    \/ \E p \in Proposals :
          GrowLate(p) \/ \E q \in Quantities : Propose(p, q)
    \/ \E r \in Decisions :
          \/ \E p \in Proposals :
                \/ \E override \in Quantities : Approve(r, p, override)
                \/ Reject(r, p) \/ Refuse(r, p)
          \/ CarryOut(r) \/ OrderFails(r) \/ Abort(r)

Spec == Init /\ [][Next]_vars

\* A handler that is not waiting for a row runs on.
FairSpec == Spec /\ \A r \in Decisions : WF_vars(CarryOut(r))

-----------------------------------------------------------------------------
(* Properties.                                                             *)

OrdersFrom(p) == {o \in orders : o.from = p}

\* "the audit log holds both": an order was made from a proposal exactly when
\* an approval was audited, with what the model had asked for beside what was
\* ordered, races and failures included.  "Nothing has been ordered" unless a
\* person said so.
OrdersAreApproved ==
    /\ \A o \in orders : \E a \in audit :
          a = [by |-> o.id, on |-> o.from, verb |-> "approve",
               asked |-> proposed[o.from], executed |-> o.quantity]
    /\ \A a \in audit : a.verb = "approve" => \E o \in orders : o.id = a.by

\* An approved proposal points at the order it became, and its
\* executed_payload is what that order says, whichever of two approvals wrote
\* last.
ApprovedShowsItsOrder ==
    \A p \in Proposals : status[p] = "approved" =>
        [id |-> result[p], from |-> p, quantity |-> executed[p]] \in orders

\* "This proposal was already approved.": unless two decisions on a proposal
\* were under way at once, an approved one became one order, any other none,
\* and at most one decision is on record.
DecidedOnce ==
    \A p \in Proposals \ overlapped :
        /\ Cardinality(OrdersFrom(p)) = (IF status[p] = "approved" THEN 1 ELSE 0)
        /\ Cardinality({a \in audit : a.on = p})
              = (IF status[p] \in {"approved", "rejected"} THEN 1 ELSE 0)

\* "Failed is a distinct state from rejected. Somebody clicked yes": a proposal
\* whose approval could not be honoured, and nobody has touched since, is
\* shown as failed.
FailureIsRecorded ==
    \A r \in Decisions :
        pc[r] = "failed" /\ (\A u \in Decisions \ {r} : On(u) # On(r)) =>
            status[On(r)] = "failed"

\* No decision waits for a row for ever.
EveryDecisionIsAnswered ==
    \A r \in Decisions : pc[r] \in UnderWay ~> pc[r] \notin UnderWay
=============================================================================
