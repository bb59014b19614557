--------------------------- MODULE Assistant_proofs ---------------------------
(***************************************************************************)
(* The assistant's two halves, each for every value of its constants.      *)
(*                                                                         *)
(* What it proposes: whatever people decide about it, however many of them *)
(* at once, there is no order without its audited approval, and an         *)
(* approved proposal shows the order it became.                            *)
(*                                                                         *)
(* What it says: an answer fits the question it is shown for, its figures  *)
(* are recent, and what it promises has been proposed.                     *)
(***************************************************************************)
EXTENDS AssistantActions, Conversation, FoldTheorems

-----------------------------------------------------------------------------
(* Proposals and decisions: the invariant.                                 *)

\* A decision that is under way is about something that was proposed, and an
\* approval of it has settled on a quantity.
UnderWaySound ==
    \A r \in Decisions : pc[r] \in UnderWay =>
        /\ On(r) \in Proposals
        /\ status[On(r)] # "none"
        /\ decision[r].verb \in {"approve", "reject"}
        /\ pc[r] = "order" => decision[r].verb = "approve"
        /\ decision[r].verb = "approve" => decision[r].quantity \in 1..MaxQuantity

\* What was proposed asks for something, and stays what the audit says it was.
ProposedSound ==
    /\ \A p \in Proposals : status[p] # "none" => proposed[p] \in 1..MaxQuantity
    /\ \A o \in orders : status[o.from] # "none"

IInv ==
    /\ TypeOK
    /\ UnderWaySound
    /\ ProposedSound
    /\ OrdersAreApproved
    /\ ApprovedShowsItsOrder

LEMMA InitIInv == Init => IInv
  BY AssistantAssumption
     DEF Init, IInv, TypeOK, UnderWaySound, ProposedSound, OrdersAreApproved,
         ApprovedShowsItsOrder, Order, AuditRow, Decision, Nothing, UnderWay

LEMMA ProposeStep ==
  ASSUME IInv, NEW p \in Proposals, NEW q \in Quantities, Propose(p, q)
  PROVE  IInv'
  <1>1. TypeOK'
    BY DEF IInv, TypeOK, Propose
  <1>2. UnderWaySound'
    BY DEF IInv, TypeOK, UnderWaySound, Propose, On
  <1>3. ProposedSound'
    BY DEF IInv, TypeOK, ProposedSound, Propose, Order
  <1>4. OrdersAreApproved'
    <2>1. \A o \in orders : proposed'[o.from] = proposed[o.from]
      BY DEF IInv, TypeOK, ProposedSound, Propose, Order
    <2> QED
      BY <2>1 DEF IInv, OrdersAreApproved, Propose
  <1>5. ApprovedShowsItsOrder'
    BY DEF IInv, TypeOK, ApprovedShowsItsOrder, Propose
  <1> QED
    BY <1>1, <1>2, <1>3, <1>4, <1>5 DEF IInv

LEMMA TakeStep ==
  ASSUME IInv, NEW r \in Decisions, NEW p \in Proposals,
         NEW verb \in {"approve", "reject"}, NEW q \in 0..MaxQuantity,
         NEW label \in {"order", "mark"},
         verb = "approve" => q \in 1..MaxQuantity,
         label = "order" => verb = "approve",
         Take(r, p, verb, q, label)
  PROVE  IInv'
  <1>1. TypeOK'
    <2>1. [on |-> p, verb |-> verb, quantity |-> q] \in Decision
      BY DEF Decision
    <2> QED
      BY <2>1 DEF IInv, TypeOK, Take, Goto, tables, UnderWay
  <1>2. UnderWaySound'
    <2> SUFFICES ASSUME NEW u \in Decisions, pc'[u] \in UnderWay
                 PROVE  /\ On(u)' \in Proposals
                        /\ status'[On(u)'] # "none"
                        /\ decision'[u].verb \in {"approve", "reject"}
                        /\ pc'[u] = "order" => decision'[u].verb = "approve"
                        /\ decision'[u].verb = "approve" =>
                              decision'[u].quantity \in 1..MaxQuantity
      BY DEF UnderWaySound
    <2>1. CASE u = r
      BY <2>1 DEF IInv, TypeOK, Take, Goto, tables, On
    <2>2. CASE u # r
      BY <2>2 DEF IInv, TypeOK, UnderWaySound, Take, Goto, tables, On
    <2> QED
      BY <2>1, <2>2
  <1>3. ProposedSound' /\ OrdersAreApproved' /\ ApprovedShowsItsOrder'
    BY DEF IInv, ProposedSound, OrdersAreApproved, ApprovedShowsItsOrder, Take,
           tables
  <1> QED
    BY <1>1, <1>2, <1>3 DEF IInv

LEMMA ApproveStep ==
  ASSUME IInv, NEW r \in Decisions, NEW p \in Proposals,
         NEW override \in Quantities, Approve(r, p, override)
  PROVE  IInv'
  <1>1. Final(p, override) \in 1..MaxQuantity
    <2>1. proposed[p] \in 0..MaxQuantity
      BY DEF IInv, TypeOK
    <2> QED
      BY <2>1, AssistantAssumption DEF Approve, Final
  <1>2. Final(p, override) \in 0..MaxQuantity
    BY <1>1, AssistantAssumption
  <1>3. Take(r, p, "approve", Final(p, override), "order")
    BY DEF Approve
  <1> HIDE DEF Final
  <1> QED
    BY <1>1, <1>2, <1>3, TakeStep

LEMMA RejectStep ==
  ASSUME IInv, NEW r \in Decisions, NEW p \in Proposals, Reject(r, p)
  PROVE  IInv'
  BY TakeStep, AssistantAssumption DEF Reject

\* Steps of a decision that write no table: what they leave under way was.
LEMMA WaitingStep ==
  ASSUME IInv, NEW r \in Decisions, UNCHANGED tables, TypeOK',
         \A u \in Decisions : pc'[u] \in UnderWay =>
            /\ pc[u] \in UnderWay
            /\ pc'[u] = "order" => pc[u] = "order"
            /\ decision'[u] = decision[u]
  PROVE  IInv'
  <1>1. UnderWaySound'
    BY DEF IInv, UnderWaySound, tables, On
  <1>2. ProposedSound' /\ OrdersAreApproved' /\ ApprovedShowsItsOrder'
    BY DEF IInv, ProposedSound, OrdersAreApproved, ApprovedShowsItsOrder, tables
  <1> QED
    BY <1>1, <1>2 DEF IInv

LEMMA QuietStep ==
  ASSUME IInv, NEW r \in Decisions,
         \/ \E p \in Proposals : Refuse(r, p)
         \/ CreateOrder(r) \/ OrderFails(r) \/ Mark(r) \/ Abort(r)
  PROVE  IInv'
  <1>1. CASE \E p \in Proposals : Refuse(r, p)
    <2>1. TypeOK'
      <3>1. PICK p \in Proposals : Refuse(r, p)
        BY <1>1
      <3>2. PICK label \in {"refused", "expired"} : Goto(r, label)
        BY <3>1 DEF Refuse
      <3>3. pc' \in [Decisions -> {"idle", "done", "refused", "expired", "failed",
                                   "lost"} \cup UnderWay]
        BY <3>2 DEF IInv, TypeOK, Goto
      <3>4. decision[r] \in Decision
        BY DEF IInv, TypeOK
      <3>5. [decision[r] EXCEPT !.on = p] \in Decision
        BY <3>4 DEF Decision
      <3>6. decision' = [decision EXCEPT ![r] = [decision[r] EXCEPT !.on = p]]
        BY <3>1 DEF Refuse
      <3>7. decision' \in [Decisions -> Decision]
        BY <3>5, <3>6 DEF IInv, TypeOK
      <3> QED
        BY <3>1, <3>3, <3>7 DEF IInv, TypeOK, Refuse, tables
    <2>2. \A u \in Decisions : pc'[u] \in UnderWay =>
            pc'[u] = pc[u] /\ decision'[u] = decision[u]
      BY <1>1 DEF IInv, TypeOK, Refuse, Goto, UnderWay
    <2>3. UNCHANGED tables
      BY <1>1 DEF Refuse
    <2> QED
      BY <2>1, <2>2, <2>3, WaitingStep
  <1>2. CASE CreateOrder(r) \/ OrderFails(r) \/ Mark(r) \/ Abort(r)
    <2>1. TypeOK'
      BY <1>2 DEF IInv, TypeOK, CreateOrder, OrderFails, Mark, Abort, Goto,
                  Locks, Unlocked, tables, UnderWay
    <2>2. \A u \in Decisions : pc'[u] \in UnderWay =>
            /\ pc[u] \in UnderWay
            /\ pc'[u] = "order" => pc[u] = "order"
            /\ decision'[u] = decision[u]
      BY <1>2 DEF IInv, TypeOK, CreateOrder, OrderFails, Mark, Abort, Goto,
                  UnderWay
    <2>3. UNCHANGED tables
      BY <1>2 DEF CreateOrder, OrderFails, Mark, Abort
    <2> QED
      BY <2>1, <2>2, <2>3, WaitingStep
  <1> QED
    BY <1>1, <1>2

LEMMA CommitApprovalStep ==
  ASSUME IInv, NEW r \in Decisions, CommitApproval(r)
  PROVE  IInv'
  <1> DEFINE p == On(r)
  <1>1. /\ p \in Proposals /\ status[p] # "none"
        /\ decision[r].quantity \in 1..MaxQuantity
        /\ proposed[p] \in 1..MaxQuantity
        /\ decision[r].verb = "approve"
    BY DEF IInv, UnderWaySound, ProposedSound, CommitApproval, UnderWay
  <1>2. OrderOf(r) \in Order
    BY <1>1 DEF OrderOf, Order
  <1>3. Row(r, decision[r].quantity) \in AuditRow
    BY <1>1, AssistantAssumption DEF Row, AuditRow
  <1>4. TypeOK'
    BY <1>1, <1>2, <1>3, AssistantAssumption
       DEF IInv, TypeOK, CommitApproval, Goto, Unlocked
  <1>5. UnderWaySound'
    BY <1>1 DEF IInv, TypeOK, UnderWaySound, CommitApproval, Goto, On, UnderWay
  <1>6. ProposedSound'
    BY <1>1 DEF IInv, TypeOK, ProposedSound, CommitApproval, OrderOf, Order
  <1>7. OrdersAreApproved'
    <2>1. orders' = orders \cup {OrderOf(r)} /\ proposed' = proposed
          /\ audit' = audit \cup {Row(r, decision[r].quantity)}
      BY DEF CommitApproval
    <2>2. Row(r, decision[r].quantity) =
            [by |-> OrderOf(r).id, on |-> OrderOf(r).from, verb |-> "approve",
             asked |-> proposed[OrderOf(r).from], executed |-> OrderOf(r).quantity]
      BY <1>1 DEF Row, OrderOf
    <2>3. OrderOf(r).id = Row(r, decision[r].quantity).by
      BY DEF OrderOf, Row
    <2> QED
      BY <2>1, <2>2, <2>3 DEF IInv, OrdersAreApproved
  <1>8. ApprovedShowsItsOrder'
    <2> SUFFICES ASSUME NEW o \in Proposals, status'[o] = "approved"
                 PROVE  [id |-> result'[o], from |-> o, quantity |-> executed'[o]]
                            \in orders'
      BY DEF ApprovedShowsItsOrder
    <2>1. CASE o = p
      BY <1>1, <2>1 DEF IInv, TypeOK, CommitApproval, OrderOf
    <2>2. CASE o # p
      BY <1>1, <2>2 DEF IInv, TypeOK, ApprovedShowsItsOrder, CommitApproval
    <2> QED
      BY <2>1, <2>2
  <1> QED
    BY <1>4, <1>5, <1>6, <1>7, <1>8 DEF IInv

LEMMA CommitRejectionStep ==
  ASSUME IInv, NEW r \in Decisions, CommitRejection(r)
  PROVE  IInv'
  <1> DEFINE p == On(r)
  <1>1. /\ p \in Proposals /\ status[p] # "none"
        /\ proposed[p] \in 1..MaxQuantity
        /\ decision[r].verb = "reject"
    BY DEF IInv, UnderWaySound, ProposedSound, CommitRejection, UnderWay
  <1>2. Row(r, 0) \in AuditRow /\ Row(r, 0).verb = "reject"
    BY <1>1, AssistantAssumption DEF Row, AuditRow
  <1>3. TypeOK'
    BY <1>1, <1>2 DEF IInv, TypeOK, CommitRejection, Goto, Unlocked
  <1>4. UnderWaySound'
    BY <1>1 DEF IInv, TypeOK, UnderWaySound, CommitRejection, Goto, On, UnderWay
  <1>5. ProposedSound'
    BY <1>1 DEF IInv, TypeOK, ProposedSound, CommitRejection, Order
  <1>6. OrdersAreApproved'
    BY <1>2 DEF IInv, OrdersAreApproved, CommitRejection
  <1>7. ApprovedShowsItsOrder'
    BY <1>1 DEF IInv, TypeOK, ApprovedShowsItsOrder, CommitRejection
  <1> QED
    BY <1>3, <1>4, <1>5, <1>6, <1>7 DEF IInv

LEMMA NextIInv == IInv /\ [Next]_vars => IInv'
  <1> SUFFICES ASSUME IInv, [Next]_vars PROVE IInv'
    OBVIOUS
  <1>1. CASE \E p \in Proposals : GrowLate(p)
    <2> TypeOK' /\ UNCHANGED <<tables, pc, decision>>
      BY <1>1 DEF IInv, TypeOK, GrowLate, tables
    <2> QED
      BY DEF IInv, UnderWaySound, ProposedSound, OrdersAreApproved,
             ApprovedShowsItsOrder, tables, On
  <1>2. CASE \E p \in Proposals, q \in Quantities : Propose(p, q)
    BY <1>2, ProposeStep
  <1>3. CASE \E r \in Decisions, p \in Proposals, override \in Quantities :
                Approve(r, p, override)
    BY <1>3, ApproveStep
  <1>4. CASE \E r \in Decisions, p \in Proposals : Reject(r, p)
    BY <1>4, RejectStep
  <1>5. CASE \E r \in Decisions :
                \/ \E p \in Proposals : Refuse(r, p)
                \/ CreateOrder(r) \/ OrderFails(r) \/ Mark(r) \/ Abort(r)
    BY <1>5, QuietStep
  <1>6. CASE \E r \in Decisions : CommitApproval(r)
    BY <1>6, CommitApprovalStep
  <1>7. CASE \E r \in Decisions : CommitRejection(r)
    BY <1>7, CommitRejectionStep
  <1>8. CASE UNCHANGED vars
    BY <1>8 DEF IInv, TypeOK, UnderWaySound, ProposedSound, OrdersAreApproved,
                ApprovedShowsItsOrder, vars, tables, On
  <1> QED
    BY <1>1, <1>2, <1>3, <1>4, <1>5, <1>6, <1>7, <1>8 DEF Next, CarryOut

\* However decisions interleave, fail or die, what is under way stays about
\* something proposed, and the four tables stay consistent with each other
\* (actions.py, the whole of a decision).
THEOREM Invariance == Spec => []IInv
  BY InitIInv, NextIInv, PTL DEF Spec

\* Nothing is ordered from a proposal unless a person approved it, and the
\* audit trail says who, for how much, and what had been asked for; no approval
\* is on record without its order.  For any proposals and any number of
\* concurrent, racing, failing decisions (actions.py, approve and reject).
THEOREM NothingOrderedUnapproved == Spec => []OrdersAreApproved
  BY Invariance, PTL DEF IInv

\* An approved proposal points at an order that exists and says what the
\* proposal's executed_payload says (actions.py, approve).
THEOREM ApprovalPointsAtOrder == Spec => []ApprovedShowsItsOrder
  BY Invariance, PTL DEF IInv
-----------------------------------------------------------------------------
(* One decision for each proposal that nobody decided about together.      *)

AuditOf(p) == {a \in audit : a.on = p}

\* Outside overlaps a proposal has at most one decision under way, and only
\* while it is open; what was decided left exactly its rows.
Settled(p) ==
    /\ \A r, u \in Deciding(p) : r = u
    /\ Deciding(p) # {} => status[p] = "proposed"
    /\ IF status[p] = "approved" THEN \E o : OrdersFrom(p) = {o}
       ELSE OrdersFrom(p) = {}
    /\ IF status[p] \in {"approved", "rejected"} THEN \E a : AuditOf(p) = {a}
       ELSE AuditOf(p) = {}

OnceInv == \A p \in Proposals \ overlapped : Settled(p)

LEMMA InitOnce == Init => OnceInv
  BY DEF Init, OnceInv, Settled, Deciding, OrdersFrom, AuditOf, On, Nothing,
         UnderWay

\* Steps that write no table, and put no decision under way.
LEMMA WaitingOnce ==
  ASSUME IInv, OnceInv, UNCHANGED <<tables, overlapped>>,
         \A u \in Decisions : pc'[u] \in UnderWay =>
            pc[u] \in UnderWay /\ decision'[u] = decision[u]
  PROVE  OnceInv'
  <1> SUFFICES ASSUME NEW p \in Proposals, p \notin overlapped
               PROVE  Settled(p)'
    BY DEF OnceInv
  <1>1. Settled(p)
    BY DEF OnceInv
  <1>2. Deciding(p)' \subseteq Deciding(p)
    BY DEF Deciding, On
  <1> QED
    BY <1>1, <1>2 DEF Settled, OrdersFrom, AuditOf, tables

LEMMA TakeOnce ==
  ASSUME IInv, OnceInv, NEW r \in Decisions, NEW p \in Proposals, NEW verb,
         NEW q, NEW label \in {"order", "mark"}, Take(r, p, verb, q, label)
  PROVE  OnceInv'
  <1> SUFFICES ASSUME NEW o \in Proposals, o \notin overlapped'
               PROVE  Settled(o)'
    BY DEF OnceInv
  <1>1. Settled(o)
    BY DEF OnceInv, Take
  <1>2. UNCHANGED <<status, orders, audit>>
    BY DEF Take, tables
  <1>3. CASE o = p
    <2>1. Deciding(p) = {} /\ status[p] = "proposed"
      BY <1>3 DEF Take, Actionable
    <2>2. Deciding(p)' \subseteq {r}
      BY <2>1 DEF Deciding, Take, Goto, On, IInv, TypeOK
    <2> QED
      BY <1>1, <1>2, <1>3, <2>1, <2>2 DEF Settled, OrdersFrom, AuditOf
  <1>4. CASE o # p
    <2>1. Deciding(o)' \subseteq Deciding(o)
      BY <1>4 DEF Deciding, Take, Goto, On, IInv, TypeOK
    <2> QED
      BY <1>1, <1>2, <2>1 DEF Settled, OrdersFrom, AuditOf
  <1> QED
    BY <1>3, <1>4

\* Both commits: the decision is the only one, and its rows are the first.
LEMMA CommitOnce ==
  ASSUME IInv, OnceInv, NEW r \in Decisions,
         CommitApproval(r) \/ CommitRejection(r)
  PROVE  OnceInv'
  <1> SUFFICES ASSUME NEW o \in Proposals, o \notin overlapped'
               PROVE  Settled(o)'
    BY DEF OnceInv
  <1> DEFINE p == On(r)
  <1>1. Settled(o) /\ o \notin overlapped
    BY DEF OnceInv, CommitApproval, CommitRejection
  <1>2. p \in Proposals /\ pc[r] = "commit" /\ r \in Deciding(p)
    BY DEF IInv, UnderWaySound, CommitApproval, CommitRejection, Deciding, UnderWay
  <1>3. Deciding(o)' = Deciding(o) \ {r}
    BY DEF Deciding, CommitApproval, CommitRejection, Goto, On, UnderWay, IInv,
           TypeOK
  <1>4. CASE o = p
    <2>1. Deciding(o)' = {} /\ status[o] = "proposed"
          /\ OrdersFrom(o) = {} /\ AuditOf(o) = {}
      BY <1>1, <1>2, <1>3, <1>4 DEF Settled
    <2>2. CASE CommitApproval(r)
      <3>1. status'[o] = "approved"
        BY <1>4, <2>2 DEF CommitApproval, IInv, TypeOK
      <3>2. OrdersFrom(o)' = {OrderOf(r)}
        BY <1>4, <2>1, <2>2 DEF CommitApproval, OrdersFrom, OrderOf
      <3>3. AuditOf(o)' = {Row(r, decision[r].quantity)}
        BY <1>4, <2>1, <2>2 DEF CommitApproval, AuditOf, Row
      <3> QED
        BY <2>1, <3>1, <3>2, <3>3 DEF Settled
    <2>3. CASE CommitRejection(r)
      <3>1. status'[o] = "rejected"
        BY <1>4, <2>3 DEF CommitRejection, IInv, TypeOK
      <3>2. OrdersFrom(o)' = {}
        BY <2>1, <2>3 DEF CommitRejection, OrdersFrom
      <3>3. AuditOf(o)' = {Row(r, 0)}
        BY <1>4, <2>1, <2>3 DEF CommitRejection, AuditOf, Row
      <3> QED
        BY <2>1, <3>1, <3>2, <3>3 DEF Settled
    <2> QED
      BY <2>2, <2>3
  <1>5. CASE o # p
    <2>1. status'[o] = status[o]
      BY <1>5 DEF CommitApproval, CommitRejection, IInv, TypeOK
    <2>2. OrdersFrom(o)' = OrdersFrom(o) /\ AuditOf(o)' = AuditOf(o)
      BY <1>5 DEF CommitApproval, CommitRejection, OrdersFrom, AuditOf, OrderOf,
                  Row
    <2> QED
      BY <1>1, <1>3, <2>1, <2>2 DEF Settled
  <1> QED
    BY <1>4, <1>5

LEMMA NextOnce == IInv /\ OnceInv /\ [Next]_vars => OnceInv'
  <1> SUFFICES ASSUME IInv, OnceInv, [Next]_vars PROVE OnceInv'
    OBVIOUS
  <1>1. CASE UNCHANGED vars \/ \E p \in Proposals : GrowLate(p)
    <2> UNCHANGED <<tables, overlapped, pc, decision>>
      BY <1>1 DEF vars, GrowLate
    <2> QED
      BY WaitingOnce
  <1>2. ASSUME NEW p \in Proposals, NEW q \in Quantities, Propose(p, q)
        PROVE  OnceInv'
    <2> SUFFICES ASSUME NEW o \in Proposals, o \notin overlapped
                 PROVE  Settled(o)'
      BY <1>2 DEF OnceInv, Propose
    <2>1. Settled(o)
      BY DEF OnceInv
    <2>2. status'[o] = IF o = p THEN "proposed" ELSE status[o]
      BY <1>2 DEF Propose, IInv, TypeOK
    <2>3. status[p] = "none" /\ Deciding(o)' = Deciding(o)
          /\ OrdersFrom(o)' = OrdersFrom(o) /\ AuditOf(o)' = AuditOf(o)
      BY <1>2 DEF Propose, Deciding, On, OrdersFrom, AuditOf
    <2> QED
      BY <2>1, <2>2, <2>3 DEF Settled
  <1>3. ASSUME NEW r \in Decisions, NEW p \in Proposals,
               NEW override \in Quantities, Approve(r, p, override)
        PROVE  OnceInv'
    BY <1>3, TakeOnce DEF Approve
  <1>4. ASSUME NEW r \in Decisions, NEW p \in Proposals, Reject(r, p)
        PROVE  OnceInv'
    BY <1>4, TakeOnce DEF Reject
  <1>5. ASSUME NEW r \in Decisions, NEW p \in Proposals, Refuse(r, p)
        PROVE  OnceInv'
    <2>1. \A u \in Decisions : pc'[u] \in UnderWay =>
             pc[u] \in UnderWay /\ decision'[u] = decision[u]
      BY <1>5 DEF Refuse, Goto, UnderWay, IInv, TypeOK
    <2> QED
      BY <1>5, <2>1, WaitingOnce DEF Refuse
  <1>6. ASSUME NEW r \in Decisions,
               CreateOrder(r) \/ OrderFails(r) \/ Mark(r) \/ Abort(r)
        PROVE  OnceInv'
    <2>1. \A u \in Decisions : pc'[u] \in UnderWay =>
             pc[u] \in UnderWay /\ decision'[u] = decision[u]
      BY <1>6 DEF CreateOrder, OrderFails, Mark, Abort, Goto, UnderWay, IInv,
                  TypeOK
    <2>2. UNCHANGED <<tables, overlapped>>
      BY <1>6 DEF CreateOrder, OrderFails, Mark, Abort
    <2> QED
      BY <2>1, <2>2, WaitingOnce
  <1>7. ASSUME NEW r \in Decisions, CommitApproval(r) \/ CommitRejection(r)
        PROVE  OnceInv'
    BY <1>7, CommitOnce
  <1> QED
    BY <1>1, <1>2, <1>3, <1>4, <1>5, <1>6, <1>7 DEF Next, CarryOut

LEMMA OnceIsEnough == OnceInv => DecidedOnce
  <1> SUFFICES ASSUME OnceInv, NEW p \in Proposals \ overlapped
      PROVE /\ Cardinality(OrdersFrom(p))
                 = (IF status[p] = "approved" THEN 1 ELSE 0)
            /\ Cardinality(AuditOf(p))
                 = (IF status[p] \in {"approved", "rejected"} THEN 1 ELSE 0)
    BY DEF DecidedOnce, AuditOf
  <1>1. Settled(p)
    BY DEF OnceInv
  <1>2. Cardinality({}) = 0 /\ \A x : Cardinality({x}) = 1
    BY FS_EmptySet, FS_Singleton
  <1> QED
    BY <1>1, <1>2 DEF Settled

\* A proposal that no two people were deciding about at once became one order
\* if it was approved and none otherwise, with exactly one decision on record
\* (actions.py, _require_actionable: "This proposal was already approved.").
THEOREM OneDecisionEach == Spec => []DecidedOnce
  BY Invariance, InitOnce, NextOnce, OnceIsEnough, PTL DEF Spec

-----------------------------------------------------------------------------
(* Questions and answers: the invariant.                                   *)

\* Figures of a company, none older than n more than a shelf allows.
Figures(company, n) == [of : {company}, age : 0..(ToolTTL - 1 + n)]

\* Every company has its own figures on the shelf, each as old as its time to
\* live has run down.
Shelved(k, e) ==
    Hit(e) =>
        /\ e.value.of = k[1]
        /\ e.left > 0 /\ e.left + e.value.age = ToolTTL
ToolEntry == {None} \cup
    [kept : {TRUE}, left : Nat, value : [of : Companies, age : Nat]]
Shelves ==
    {s \in [ToolKeys -> ToolEntry] : \A k \in ToolKeys : Shelved(k, s[k])}

\* Answers that are kept rest on reads alone, so they promise nothing, and
\* were given to a question without earlier turns.  Their figures are older than
\* when they were written by what their time to live has run down.
Remembered(k, e) ==
    Hit(e) =>
        /\ DOMAIN e = {"kept", "left", "value"}
        /\ DOMAIN e.value = {"of", "took", "cites", "promises", "whole"}
        /\ e.left \in 1..AnswerTTL /\ e.value.took \in Nat
        /\ e.value.of = [company |-> k[1], text |-> k[2], history |-> FALSE]
        /\ e.value.cites \subseteq Figures(k[1], e.value.took + (AnswerTTL - e.left))
        /\ ~e.value.promises
AnswersSound ==
    /\ DOMAIN answers = AnswerKeys
    /\ \A k \in AnswerKeys : Remembered(k, answers[k])

TalkFields == {"stage", "company", "text", "history", "took", "round", "order", "attempt",
               "model", "used", "tools", "knows", "made", "said", "cites",
               "promises"}

\* What a question knows is of its own company, it has proposed what it has
\* made, and it has said no more than it knows.
TalkSound(x, r, P) ==
    /\ DOMAIN r = TalkFields
    /\ r.company \in Companies /\ r.text \in Texts /\ r.history \in BOOLEAN
    /\ r.used \in Nat /\ r.tools \subseteq Tools /\ r.took \in Nat
    /\ r.knows \subseteq Figures(r.company, r.took)
    /\ r.cites \subseteq Figures(r.company, r.took)
    /\ r.made \in BOOLEAN /\ r.promises \in BOOLEAN
    /\ r.made => Proposing \in r.tools /\ x \in P
    /\ r.promises => r.made

TalksSound ==
    /\ DOMAIN talk = Asks
    /\ \A x \in Asks : talk[x].stage \in Running => TalkSound(x, talk[x], proposers)

ShownSound == AnswersFitTheQuestion /\ FiguresAreRecent /\ PromisesAreKept

ConversationInv == shelf \in Shelves /\ AnswersSound /\ TalksSound /\ ShownSound

-----------------------------------------------------------------------------
(* The calls of a turn.                                                    *)

\* Any finite set of numbers that is not empty has a greatest one.
LEMMA MaxIsThere ==
  ASSUME NEW S, IsFiniteSet(S), S \subseteq Int
  PROVE  \A U \in SUBSET S : U # {} => Max(U) \in U
  <1> DEFINE T == {U \in SUBSET S : U # {} => \E m \in U : \A n \in U : m >= n}
  <1>1. {} \in T
    OBVIOUS
  <1>2. ASSUME NEW U \in SUBSET S, NEW x \in S \ U, U \in T
        PROVE  U \cup {x} \in T
    <2>1. CASE U = {}
      BY <2>1
    <2>2. CASE U # {}
      <3>1. PICK m \in U : \A n \in U : m >= n
        BY <1>2, <2>2
      <3>2. PICK k \in {m, x} : k >= m /\ k >= x
        OBVIOUS
      <3>3. \A n \in U : k >= n
        BY <3>1, <3>2
      <3>4. k \in U \cup {x} /\ \A n \in U \cup {x} : k >= n
        BY <3>1, <3>2, <3>3
      <3> QED
        BY <3>4
    <2> QED
      BY <2>1, <2>2
  <1> HIDE DEF T
  <1>3. \A U \in SUBSET S : U \in T
    BY <1>1, <1>2, SubsetInduction
  <1>4. ASSUME NEW U \in SUBSET S, U # {}
        PROVE  Max(U) \in U
    <2>1. \E m \in U : \A n \in U : m >= n
      BY <1>3, <1>4 DEF T
    <2> QED
      BY <2>1 DEF Max
  <1> QED
    BY <1>4

\* The recursion of RunCalls, over the positions of the calls.
CalledFor(company, desk, calls, iter) ==
    iter = [s \in SUBSET DOMAIN calls |->
              IF s = {} THEN desk
              ELSE Call(company, iter[s \ {Max(s)}], calls[Max(s)])]

\* A set of desks that no single call leaves is not left by a turn.
LEMMA RunCallsStay ==
  ASSUME NEW V, NEW company, NEW desk \in V, NEW calls \in Seq(Tools),
         \A d \in V : \A t \in Tools : Call(company, d, t) \in V
  PROVE  RunCalls(company, desk, calls) \in V
  <1> DEFINE D == DOMAIN calls
             ch == [s \in SUBSET D |-> Max(s)]
             G == [i \in D |-> [d \in V |-> Call(company, d, calls[i])]]
  <1>1. D = 1..Len(calls) /\ Len(calls) \in Nat /\ \A i \in D : calls[i] \in Tools
    OBVIOUS
  <1>2. IsFiniteSet(D) /\ D \subseteq Int
    BY <1>1, FS_Interval
  <1>3. G \in [D -> [V -> V]]
    BY <1>1
  <1>4. \A s \in SUBSET D : s # {} => ch[s] \in s
    BY <1>2, MaxIsThere
  <1>5. \A i \in D, d \in V : G[i][d] = Call(company, d, calls[i])
    OBVIOUS
  <1>6. \A s \in SUBSET D : ch[s] = Max(s)
    OBVIOUS
  <1> HIDE DEF ch, G
  <1>7. PICK g : OneByOne(g, V, desk, D, G, ch)
    BY <1>2, <1>3, <1>4, RecursionOnSubsets
  <1>8. CalledFor(company, desk, calls, g)
    <2>1. ASSUME NEW s \in SUBSET D
          PROVE  g[s] = IF s = {} THEN desk
                        ELSE Call(company, g[s \ {Max(s)}], calls[Max(s)])
      <3>1. s # {} => ch[s] \in D /\ g[s \ {ch[s]}] \in V
        BY <1>4, <1>7 DEF OneByOne
      <3>2. g[s] = IF s = {} THEN desk ELSE G[ch[s]][g[s \ {ch[s]}]]
        BY <1>7 DEF OneByOne
      <3>3. s # {} => G[ch[s]][g[s \ {ch[s]}]]
                        = Call(company, g[s \ {ch[s]}], calls[ch[s]])
        BY <1>5, <3>1
      <3> QED
        BY <1>6, <3>2, <3>3
    <2> QED
      BY <1>7, <2>1 DEF CalledFor, OneByOne
  <1>9. CalledFor(company, desk, calls,
                  CHOOSE iter : CalledFor(company, desk, calls, iter))
    BY <1>8
  <1>10. RunCalls(company, desk, calls)
           = (CHOOSE iter : CalledFor(company, desk, calls, iter))[D]
    BY DEF RunCalls, FoldLeft, MapThenFoldSet, CalledFor
  <1>11. ASSUME NEW iter, CalledFor(company, desk, calls, iter)
         PROVE  iter[D] \in V
    <2> DEFINE N == {n \in Nat : \A s \in SUBSET D : Cardinality(s) = n => iter[s] \in V}
    <2>1. \A s \in SUBSET D : IsFiniteSet(s) /\ Cardinality(s) \in Nat
      BY <1>2, FS_Subset, FS_CardinalityType
    <2>2. \A s \in SUBSET D : Cardinality(s) = 0 <=> s = {}
      BY <2>1, FS_EmptySet
    <2>3. \A s \in SUBSET D :
             iter[s] = IF s = {} THEN desk
                       ELSE Call(company, iter[s \ {ch[s]}], calls[ch[s]])
      BY <1>6, <1>11 DEF CalledFor
    <2>4. 0 \in N
      BY <2>2, <2>3
    <2>5. ASSUME NEW n \in Nat, n \in N PROVE n + 1 \in N
      <3> SUFFICES ASSUME NEW s \in SUBSET D, Cardinality(s) = n + 1
                   PROVE  iter[s] \in V
        OBVIOUS
      <3>1. s # {} /\ ch[s] \in s
        BY <1>4, <2>2
      <3>2. s \ {ch[s]} \in SUBSET D /\ Cardinality(s \ {ch[s]}) = n
        <4>1. IsFiniteSet(s) /\ Cardinality(s) - 1 = n
          BY <2>1
        <4> QED
          BY <3>1, <4>1, FS_RemoveElement
      <3>3. iter[s \ {ch[s]}] \in V /\ calls[ch[s]] \in Tools
        BY <1>1, <2>5, <3>1, <3>2
      <3> QED
        BY <2>3, <3>1, <3>3
    <2> HIDE DEF N
    <2>6. \A n \in Nat : n \in N
      BY <2>4, <2>5, NatSetInduction
    <2> QED
      BY <2>1, <2>6 DEF N
  <1> QED
    BY <1>9, <1>10, <1>11

\* The desk of a company: its own figures, a proposal only by its tool, and
\* one that was made before if there was one.
Desks(company, took, made) ==
    {d \in [shelf : Shelves, used : Nat, tools : SUBSET Tools,
            knows : SUBSET Figures(company, took), made : BOOLEAN, failed : BOOLEAN] :
        /\ d.made => Proposing \in d.tools
        /\ made => d.made}

LEMMA ReadStays ==
  ASSUME NEW company \in Companies, NEW took \in Nat, NEW made, NEW d \in Desks(company, took, made), NEW tool \in Reads
  PROVE  Read(d, company, tool) \in Desks(company, took, made)
  <1> DEFINE k == ToolKey(company, tool)
             entry == d.shelf[k]
  <1>1. k \in ToolKeys /\ k[1] = company
    BY DEF ToolKeys, ToolKey
  <1>2. /\ d.shelf \in [ToolKeys -> ToolEntry]
        /\ \A j \in ToolKeys : Shelved(j, d.shelf[j])
        /\ d.knows \subseteq Figures(company, took)
    BY DEF Desks, Shelves
  <1>3. ToolTTL \in Nat \ {0}
    BY ConversationAssumption
  <1>4. entry \in ToolEntry /\ Shelved(k, entry)
    BY <1>1, <1>2
  <1> HIDE DEF k
  <1>5. CASE Hit(entry)
    <2>1. entry # None
      BY <1>5 DEF Hit, None
    <2>2. /\ entry.value \in [of : Companies, age : Nat] /\ entry.left \in Nat
          /\ entry.value.of = company /\ entry.left > 0
          /\ entry.left + entry.value.age = ToolTTL
      BY <1>1, <1>4, <1>5, <2>1 DEF ToolEntry, Shelved
    <2>3. entry.value.age \in 0..(ToolTTL - 1 + took)
      BY <1>3, <2>2
    <2>4. entry.value \in Figures(company, took)
      BY <2>2, <2>3 DEF Figures
    <2>5. Read(d, company, tool) = [d EXCEPT !.knows = @ \cup {entry.value}]
      BY <1>5 DEF Read, k
    <2> HIDE DEF entry
    <2> QED
      BY <1>2, <2>4, <2>5 DEF Desks
  <1>6. CASE ~Hit(entry)
    <2> DEFINE f == Fresh(company)
               e == Keep(f, ToolTTL)
               s == [d.shelf EXCEPT ![k] = e]
    <2>1. /\ f \in [of : Companies, age : Nat] /\ f.of = company /\ f.age = 0
          /\ f \in Figures(company, took)
      BY <1>3 DEF Fresh, Figures
    <2>2. Read(d, company, tool)
            = [d EXCEPT !.knows = @ \cup {f}, !.shelf[k] = e]
      BY <1>6 DEF Read, k
    <2> HIDE DEF f
    <2>3. e \in ToolEntry /\ Shelved(k, e)
      BY <1>1, <1>3, <2>1 DEF ToolEntry, Keep, Shelved
    <2> HIDE DEF e
    <2>4. s \in Shelves
      BY <1>1, <1>2, <2>3 DEF Shelves
    <2> DEFINE known == d.knows \cup {f}
    <2>5. Read(d, company, tool) = [d EXCEPT !.knows = known, !.shelf = s]
      BY <2>2 DEF Desks
    <2>6. known \in SUBSET Figures(company, took)
      BY <1>2, <2>1
    <2> HIDE DEF s, known
    <2> QED
      BY <2>4, <2>5, <2>6 DEF Desks
  <1> QED
    BY <1>5, <1>6

\* A tool adds to the tools of the question, and Propose makes a proposal.
LEMMA CallStays ==
  ASSUME NEW company \in Companies, NEW took \in Nat, NEW made, NEW d \in Desks(company, took, made), NEW tool \in Tools
  PROVE  Call(company, d, tool) \in Desks(company, took, made)
  <1> DEFINE charged == [d EXCEPT !.used = Charge(@)]
             ran == [charged EXCEPT !.tools = @ \cup {tool}]
  <1>1. Charge(d.used) \in Nat
    BY ConversationAssumption DEF Desks, Charge
  <1>2. charged \in Desks(company, took, made)
    BY <1>1 DEF Desks
  <1> HIDE DEF charged
  <1>3. ran \in Desks(company, took, made)
    BY <1>2 DEF Desks
  <1> HIDE DEF ran
  <1>4. CASE d.failed \/ tool = Unknown
    BY <1>4 DEF Call
  <1>5. CASE ~(d.failed \/ tool = Unknown) /\ tool = Raises
    <2>1. Call(company, d, tool) = [d EXCEPT !.failed = TRUE]
      BY <1>5 DEF Call
    <2> QED
      BY <2>1 DEF Desks
  <1>6. CASE ~(d.failed \/ tool = Unknown) /\ tool # Raises
    <2>1. Call(company, d, tool) =
             IF charged.used > MaxCalls THEN charged
             ELSE IF tool \in Reads THEN Read(ran, company, tool)
             ELSE [ran EXCEPT !.made = TRUE]
      BY <1>6 DEF Call, charged, ran
    <2>2. tool \in Reads => Read(ran, company, tool) \in Desks(company, took, made)
      BY <1>3, ReadStays
    <2>3. tool \notin Reads => [ran EXCEPT !.made = TRUE] \in Desks(company, took, made)
      <3>1. tool \notin Reads => tool = Proposing /\ Proposing \in ran.tools
        BY <1>2, <1>6 DEF Tools, ran, Desks
      <3> QED
        BY <1>3, <3>1 DEF Desks
    <2> QED
      BY <1>2, <2>1, <2>2, <2>3
  <1> QED
    BY <1>4, <1>5, <1>6

LEMMA TurnStays ==
  ASSUME NEW company \in Companies, NEW took \in Nat, NEW made, NEW d \in Desks(company, took, made), NEW calls \in Turns
  PROVE  RunCalls(company, d, calls) \in Desks(company, took, made)
  <1>1. calls \in Seq(Tools)
    BY ConversationAssumption
  <1>2. \A e \in Desks(company, took, made) : \A t \in Tools : Call(company, e, t) \in Desks(company, took, made)
    BY CallStays
  <1> QED
    BY <1>1, <1>2, RunCallsStay

-----------------------------------------------------------------------------
(* The steps.                                                              *)

LEMMA Keyed ==
  ASSUME NEW c \in Companies, NEW t \in Texts
  PROVE  /\ AnswerKey(c, t) \in AnswerKeys
         /\ AnswerKey(c, t)[1] = c /\ AnswerKey(c, t)[2] = t
  BY DEF AnswerKeys, AnswerKey

LEMMA Asked ==
  ASSUME NEW x \in Asks, NEW f \in Forms[x]
  PROVE  f.company \in Companies /\ f.text \in Texts /\ f.history \in BOOLEAN
  <1>1. f \in UNION Range(Forms) /\ f \in Form
    BY ConversationAssumption DEF Range
  <1> QED
    BY <1>1 DEF Companies, Texts, Form

\* A question takes another record, and nothing is shown.
LEMMA GoOnStep ==
  ASSUME ConversationInv, NEW x \in Asks, NEW q,
         q.stage \in Running => TalkSound(x, q, proposers'),
         talk' = [talk EXCEPT ![x] = q], UNCHANGED answers, shown' = Silence,
         shelf' \in Shelves, proposers \subseteq proposers'
  PROVE  ConversationInv'
  <1>1. TalksSound'
    BY DEF ConversationInv, TalksSound, TalkSound
  <1>2. AnswersSound'
    BY DEF ConversationInv, AnswersSound
  <1>3. ShownSound'
    BY DEF ShownSound, AnswersFitTheQuestion, FiguresAreRecent, PromisesAreKept,
           WasShown, Silence
  <1> QED
    BY <1>1, <1>2, <1>3 DEF ConversationInv

\* An answer that is remembered made no proposal.
LEMMA ConcludeStep ==
  ASSUME ConversationInv, NEW x \in Asks, NEW r, NEW failed \in BOOLEAN,
         TalkSound(x, r, proposers'), Conclude(x, r, failed),
         shelf' \in Shelves, proposers \subseteq proposers'
  PROVE  ConversationInv'
  <1>1. ASSUME NEW how PROVE Over(how).stage = how
    BY DEF Over
  <1>2. CASE ~r.said
    <2>1. /\ talk' = [talk EXCEPT ![x] = Over("error")]
          /\ UNCHANGED answers /\ shown' = Silence
      BY <1>2 DEF Conclude
    <2>2. Over("error").stage \notin Running
      BY <1>1 DEF Running
    <2> QED
      BY <2>1, <2>2, GoOnStep
  <1>3. CASE r.said
    <2>1. PICK flagged \in BOOLEAN :
             LET answer == Answer(x, r, ~failed /\ ~Truncated(r))
             IN  /\ talk' = [talk EXCEPT ![x] = Over("done")]
                 /\ shown' = Seen(x, r.company, r.text, r.history, answer, FALSE)
                 /\ answers' = IF MayRemember(r, flagged)
                               THEN [answers EXCEPT ![AnswerKey(r.company, r.text)] =
                                       Keep(answer, AnswerTTL)]
                               ELSE answers
      BY <1>3 DEF Conclude
    <2> DEFINE answer == Answer(x, r, ~failed /\ ~Truncated(r))
               k == AnswerKey(r.company, r.text)
               e == Keep(answer, AnswerTTL)
    <2>2. /\ answer.of = [company |-> r.company, text |-> r.text, history |-> r.history]
          /\ answer.cites = r.cites /\ answer.promises = r.promises
          /\ answer.took = r.took
          /\ DOMAIN answer = {"of", "took", "cites", "promises", "whole"}
      BY DEF Answer
    <2>3. /\ k \in AnswerKeys /\ k[1] = r.company /\ k[2] = r.text
      BY Keyed DEF TalkSound
    <2>4. /\ talk' = [talk EXCEPT ![x] = Over("done")]
          /\ shown' = Seen(x, r.company, r.text, r.history, answer, FALSE)
          /\ answers' = IF MayRemember(r, flagged) THEN [answers EXCEPT ![k] = e]
                        ELSE answers
      BY <2>1
    <2> HIDE DEF answer, k
    <2>5. TalksSound'
      BY <2>4, <1>1 DEF ConversationInv, TalksSound, TalkSound, Running
    <2>6. AnswersSound'
      <3>1. CASE MayRemember(r, flagged)
        <4>1. /\ DOMAIN e = {"kept", "left", "value"}
              /\ e.kept /\ e.left = AnswerTTL /\ e.value = answer
          BY DEF Keep
        <4>2. r.history = FALSE /\ ~r.promises
          BY <3>1 DEF MayRemember, TalkSound, Proposing, Reads
        <4>3. /\ AnswerTTL \in 1..AnswerTTL
              /\ r.took \in Nat /\ r.took + (AnswerTTL - AnswerTTL) = r.took
          BY ConversationAssumption DEF TalkSound
        <4>4. r.cites \subseteq Figures(r.company, r.took)
          BY DEF TalkSound
        <4> HIDE DEF e
        <4>5. Remembered(k, e)
          BY <2>2, <2>3, <4>1, <4>2, <4>3, <4>4 DEF Remembered
        <4> QED
          BY <2>3, <2>4, <3>1, <4>5 DEF ConversationInv, AnswersSound
      <3>2. CASE ~MayRemember(r, flagged)
        BY <2>4, <3>2 DEF ConversationInv, AnswersSound
      <3> QED
        BY <3>1, <3>2
    <2>7. ShownSound'
      <3>1. /\ shown'.by = x /\ shown'.replayed = FALSE
            /\ shown'.answer = answer /\ shown'.for.company = r.company
            /\ shown'.for.text = r.text
        BY <2>4 DEF Seen
      <3>2. \A f \in r.cites : f.of = r.company /\ f.age < ToolTTL + (r.took + 0)
        BY ConversationAssumption DEF TalkSound, Figures
      <3>4. r.promises => x \in proposers'
        BY DEF TalkSound
      <3> QED
        BY <2>2, <3>1, <3>2, <3>4
           DEF ShownSound, AnswersFitTheQuestion, FiguresAreRecent, PromisesAreKept
    <2> QED
      BY <2>5, <2>6, <2>7 DEF ConversationInv
  <1> QED
    BY <1>2, <1>3

\* How old a figure of a remembered answer may be when the answer is replayed, and how
\* its bound moves when a tick passes.
LEMMA AgeOfAReplay ==
  ASSUME NEW took \in Nat, NEW left \in 1..AnswerTTL,
         NEW age \in 0..(ToolTTL - 1 + (took + (AnswerTTL - left)))
  PROVE  age < ToolTTL + (took + AnswerTTL)
  BY ConversationAssumption

LEMMA AgeATickLater ==
  ASSUME NEW took \in Nat, NEW left \in 1..AnswerTTL, left # 1
  PROVE  /\ took + (AnswerTTL - left) \in Nat
         /\ took + (AnswerTTL - (left - 1)) = (took + (AnswerTTL - left)) + 1
         /\ left - 1 \in 1..AnswerTTL
  BY ConversationAssumption

LEMMA AskStep ==
  ASSUME ConversationInv, NEW x \in Asks, NEW f \in Forms[x],
         Ask(x, f.company, f.text, f.history)
  PROVE  ConversationInv'
  <1> DEFINE hit == AnswerFor(f.company, f.text, f.history)
             k == AnswerKey(f.company, f.text)
  <1>1. f.company \in Companies /\ f.text \in Texts /\ f.history \in BOOLEAN
    BY Asked
  <1>2. k \in AnswerKeys /\ k[1] = f.company /\ k[2] = f.text
    BY <1>1, Keyed
  <1>3. shelf \in Shelves /\ UNCHANGED <<shelf, answers, proposers>>
    BY DEF Ask, ConversationInv
  <1>4. CASE Hit(hit)
    <2>1. /\ shown' = Seen(x, f.company, f.text, f.history, hit.value, TRUE)
          /\ talk' = [talk EXCEPT ![x] = Over("done")]
      BY <1>4 DEF Ask
    <2>2. f.history = FALSE /\ hit = answers[k]
      BY <1>1, <1>4 DEF AnswerFor, Hit, None
    <2> HIDE DEF hit, k
    <2>3. Remembered(k, hit)
      BY <1>2, <2>2 DEF ConversationInv, AnswersSound
    <2> DEFINE n == hit.value.took + (AnswerTTL - hit.left)
    <2>4. /\ hit.value.cites \subseteq Figures(f.company, n)
          /\ hit.left \in 1..AnswerTTL /\ hit.value.took \in Nat
          /\ hit.value.of.company = f.company /\ hit.value.of.text = f.text
          /\ hit.value.of.history = FALSE /\ ~hit.value.promises
      BY <1>2, <1>4, <2>3 DEF Remembered
    <2>5. /\ shown'.for.company = f.company /\ shown'.for.text = f.text
          /\ shown'.for.history = f.history /\ shown'.answer = hit.value
          /\ shown'.replayed = TRUE
      BY <2>1 DEF Seen
    <2>6. ASSUME NEW g \in hit.value.cites
          PROVE  g.of = f.company /\ g.age < ToolTTL + (hit.value.took + AnswerTTL)
      <3>1. g.of = f.company /\ g.age \in 0..(ToolTTL - 1 + n)
        BY <2>4 DEF Figures
      <3> QED
        BY <2>4, <3>1, AgeOfAReplay
    <2>7. ShownSound'
      BY <2>2, <2>4, <2>5, <2>6
         DEF ShownSound, AnswersFitTheQuestion, FiguresAreRecent, PromisesAreKept
    <2>8. TalksSound'
      BY <1>3, <2>1 DEF ConversationInv, TalksSound, TalkSound, Over, Running
    <2>9. AnswersSound'
      BY <1>3 DEF ConversationInv, AnswersSound
    <2> QED
      BY <1>3, <2>7, <2>8, <2>9 DEF ConversationInv
  <1>5. CASE ~Hit(hit)
    <2> DEFINE q == Started(f.company, f.text, f.history)
    <2>1. talk' = [talk EXCEPT ![x] = q] /\ shown' = Silence
      BY <1>5 DEF Ask
    <2>2. TalkSound(x, q, proposers')
      BY <1>1 DEF TalkSound, Started, TalkFields
    <2> HIDE DEF q
    <2> QED
      BY <1>3, <2>1, <2>2, GoOnStep
  <1> QED
    BY <1>4, <1>5

\* A record with another place in the rounds knows and has said the same.
LEMMA SameSound ==
  ASSUME NEW x, NEW P, NEW r, TalkSound(x, r, P), NEW q, DOMAIN q = DOMAIN r,
         \A f \in {"company", "text", "history", "took", "used", "tools", "knows", "made",
                   "cites", "promises"} : q[f] = r[f]
  PROVE  TalkSound(x, q, P)
  BY DEF TalkSound

LEMMA TryNextStep ==
  ASSUME ConversationInv, NEW x \in Asks, Opening(x), TryNext(x),
         UNCHANGED <<shelf, proposers>>
  PROVE  ConversationInv'
  <1> DEFINE r == Refused(talk[x])
  <1>1. TalkSound(x, talk[x], proposers')
    BY DEF ConversationInv, TalksSound, Opening, Running
  <1>2. /\ DOMAIN r = DOMAIN talk[x]
        /\ \A f \in TalkFields \ {"order", "attempt"} : r[f] = talk[x][f]
    BY <1>1 DEF Refused, TalkSound
  <1>3. TalkSound(x, r, proposers')
    BY <1>1, <1>2, SameSound DEF TalkFields
  <1>4. shelf' \in Shelves /\ proposers \subseteq proposers'
    BY DEF ConversationInv
  <1>5. CASE r.order = <<>>
    <2>1. Conclude(x, r, TRUE)
      BY <1>5 DEF TryNext
    <2> HIDE DEF r
    <2> QED
      BY <1>3, <1>4, <2>1, ConcludeStep
  <1>6. CASE r.order # <<>>
    <2>1. talk' = [talk EXCEPT ![x] = r] /\ UNCHANGED answers /\ shown' = Silence
      BY <1>6 DEF TryNext
    <2> HIDE DEF r
    <2> QED
      BY <1>3, <1>4, <2>1, GoOnStep
  <1> QED
    BY <1>5, <1>6

LEMMA OpeningStep ==
  ASSUME ConversationInv, NEW x \in Asks,
         OpenTurn(x) \/ ModelSpent(x) \/ ModelBusy(x) \/ OpenFails(x)
  PROVE  ConversationInv'
  <1>1. Opening(x) /\ UNCHANGED <<shelf, proposers>>
    BY DEF OpenTurn, ModelSpent, ModelBusy, OpenFails
  <1>2. TalkSound(x, talk[x], proposers')
    BY <1>1 DEF ConversationInv, TalksSound, Opening, Running
  <1>3. shelf' \in Shelves /\ proposers \subseteq proposers'
    BY <1>1 DEF ConversationInv
  <1>4. CASE OpenTurn(x)
    <2> DEFINE r == talk[x]
               q == [r EXCEPT !.stage = "streaming", !.model = Head(r.order),
                              !.order = <<>>]
    <2>1. talk' = [talk EXCEPT ![x] = q] /\ UNCHANGED answers /\ shown' = Silence
      BY <1>4 DEF OpenTurn
    <2>2. /\ DOMAIN q = DOMAIN r
          /\ \A f \in TalkFields \ {"stage", "model", "order"} : q[f] = r[f]
      BY <1>2 DEF TalkSound
    <2> HIDE DEF q
    <2>3. TalkSound(x, q, proposers')
      BY <1>2, <2>2, SameSound DEF TalkFields
    <2> QED
      BY <1>3, <2>1, <2>3, GoOnStep
  <1>5. CASE TryNext(x)
    BY <1>1, <1>5, TryNextStep
  <1>6. CASE ModelBusy(x) /\ ~TryNext(x)
    <2> DEFINE r == talk[x]
               q == [r EXCEPT !.attempt = r.attempt + 1]
    <2>1. talk' = [talk EXCEPT ![x] = q] /\ UNCHANGED answers /\ shown' = Silence
      BY <1>6 DEF ModelBusy
    <2>2. DOMAIN q = DOMAIN r /\ \A f \in TalkFields \ {"attempt"} : q[f] = r[f]
      BY <1>2 DEF TalkSound
    <2> HIDE DEF q
    <2>3. TalkSound(x, q, proposers')
      BY <1>2, <2>2, SameSound DEF TalkFields
    <2> QED
      BY <1>3, <2>1, <2>3, GoOnStep
  <1>7. CASE OpenFails(x)
    <2>1. Conclude(x, talk[x], TRUE)
      BY <1>7 DEF OpenFails
    <2> QED
      BY <1>2, <1>3, <2>1, ConcludeStep
  <1> QED
    BY <1>4, <1>5, <1>6, <1>7 DEF ModelSpent

\* The text of a turn may rest on all that was known before it.
LEMMA SaidSound ==
  ASSUME NEW x, NEW P, NEW r, TalkSound(x, r, P), NEW text \in BOOLEAN
  PROVE  TalkSound(x, Said(r, text), P)
  <1>1. CASE ~text
    BY <1>1 DEF Said
  <1>2. CASE text
    <2> DEFINE q == [r EXCEPT !.said = TRUE, !.cites = r.knows, !.promises = r.made]
    <2>1. /\ DOMAIN q = DOMAIN r /\ q.cites = r.knows /\ q.promises = r.made
          /\ \A f \in TalkFields \ {"said", "cites", "promises"} : q[f] = r[f]
      BY DEF TalkSound, TalkFields
    <2>2. Said(r, text) = q
      BY <1>2 DEF Said
    <2> HIDE DEF q
    <2> QED
      BY <2>1, <2>2 DEF TalkSound, TalkFields
  <1> QED
    BY <1>1, <1>2

LEMMA StreamBreaksStep ==
  ASSUME ConversationInv, NEW x \in Asks, NEW text \in BOOLEAN, StreamBreaks(x, text)
  PROVE  ConversationInv'
  <1>1. TalkSound(x, talk[x], proposers')
    BY DEF StreamBreaks, Streaming, ConversationInv, TalksSound, Running
  <1>2. TalkSound(x, Said(talk[x], text), proposers')
    BY <1>1, SaidSound
  <1>3. /\ Conclude(x, Said(talk[x], text), TRUE)
        /\ shelf' \in Shelves /\ proposers \subseteq proposers'
    BY DEF StreamBreaks, ConversationInv
  <1> QED
    BY <1>2, <1>3, ConcludeStep

LEMMA EndTurnStep ==
  ASSUME ConversationInv, NEW x \in Asks, NEW text \in BOOLEAN, NEW calls \in Turns,
         EndTurn(x, text, calls)
  PROVE  ConversationInv'
  <1> DEFINE r == Said(talk[x], text)
             before == [shelf |-> shelf, used |-> r.used, tools |-> r.tools,
                        knows |-> r.knows, made |-> r.made, failed |-> FALSE]
             desk == RunCalls(r.company, before, calls)
             ran == After(r, desk)
             q == NextRound(ran)
  <1>1. /\ shelf' = desk.shelf
        /\ proposers' = IF desk.made THEN proposers \cup {x} ELSE proposers
        /\ \/ /\ talk' = [talk EXCEPT ![x] = q]
              /\ UNCHANGED answers /\ shown' = Silence
           \/ Conclude(x, ran, desk.failed)
    BY DEF EndTurn
  <1>2. TalkSound(x, r, proposers)
    BY SaidSound DEF EndTurn, Streaming, ConversationInv, TalksSound, Running
  <1> HIDE DEF r
  <1>3. r.company \in Companies /\ r.took \in Nat /\ before \in Desks(r.company, r.took, r.made)
    BY <1>2 DEF TalkSound, ConversationInv, Desks
  <1> HIDE DEF before
  <1>4. desk \in Desks(r.company, r.took, r.made)
    BY <1>3, TurnStays
  <1> HIDE DEF desk
  <1>5. shelf' \in Shelves /\ desk.failed \in BOOLEAN /\ proposers \subseteq proposers'
    BY <1>1, <1>4 DEF Desks
  <1>6. /\ DOMAIN ran = DOMAIN r /\ ran.used = desk.used /\ ran.tools = desk.tools
        /\ ran.knows = desk.knows /\ ran.made = desk.made
        /\ \A f \in TalkFields \ {"used", "tools", "knows", "made"} : ran[f] = r[f]
    BY <1>2 DEF After, TalkSound, TalkFields
  <1> HIDE DEF ran
  <1>7. TalkSound(x, ran, proposers')
    BY <1>1, <1>2, <1>4, <1>6 DEF TalkSound, TalkFields, Desks
  <1>8. CASE Conclude(x, ran, desk.failed)
    BY <1>5, <1>7, <1>8, ConcludeStep
  <1>9. CASE /\ talk' = [talk EXCEPT ![x] = q]
             /\ UNCHANGED answers /\ shown' = Silence
    <2>1. /\ DOMAIN q = DOMAIN ran
          /\ \A f \in TalkFields \ {"stage", "round", "attempt", "order"} : q[f] = ran[f]
      BY <1>7 DEF NextRound, TalkSound
    <2> HIDE DEF q
    <2>2. TalkSound(x, q, proposers')
      BY <1>7, <2>1, SameSound DEF TalkFields
    <2> QED
      BY <1>5, <1>9, <2>2, GoOnStep
  <1> QED
    BY <1>1, <1>8, <1>9

\* Figures a tick later.
LEMMA OlderFigures ==
  ASSUME NEW company, NEW n \in Nat, NEW figures \in SUBSET Figures(company, n)
  PROVE  Older(figures) \subseteq Figures(company, n + 1)
  <1> SUFFICES ASSUME NEW f \in figures
               PROVE  [f EXCEPT !.age = @ + 1] \in Figures(company, n + 1)
    BY DEF Older
  <1>1. f \in [of : {company}, age : 0..(ToolTTL - 1 + n)] /\ ToolTTL \in Nat \ {0}
    BY ConversationAssumption DEF Figures
  <1>2. f.age + 1 \in 0..(ToolTTL - 1 + (n + 1))
    BY <1>1
  <1> QED
    BY <1>1, <1>2 DEF Figures

LEMMA EntryRewritten ==
  ASSUME NEW V, NEW e \in [kept : {TRUE}, left : Nat, value : V], NEW v \in V,
         NEW a, a = [e EXCEPT !.left = e.left - 1, !.value = v]
  PROVE  /\ a.kept = TRUE /\ a.left = e.left - 1 /\ a.value = v
         /\ a \in [kept : {TRUE}, left : Int, value : V]
  <1>1. e.left - 1 \in Int
    OBVIOUS
  <1> DEFINE l == e.left - 1
  <1> HIDE DEF l
  <1>2. a = [e EXCEPT !.left = l, !.value = v]
    BY DEF l
  <1>3. a.kept = TRUE /\ a.left = l /\ a.value = v
        /\ a \in [kept : {TRUE}, left : Int, value : V]
    BY <1>1, <1>2 DEF l
  <1> QED
    BY <1>3 DEF l

LEMMA AgedShelves ==
  ASSUME shelf \in Shelves, NEW k \in ToolKeys
  PROVE  AgedFigure(shelf[k]) \in ToolEntry /\ Shelved(k, AgedFigure(shelf[k]))
  <1> DEFINE e == shelf[k]
  <1>1. e \in ToolEntry /\ Shelved(k, e)
    BY DEF Shelves
  <1> HIDE DEF e
  <1>2. CASE Lapses(e)
    <2>1. AgedFigure(e) = None /\ ~Hit(None)
      BY <1>2 DEF AgedFigure, Hit, None
    <2> QED
      BY <2>1 DEF ToolEntry, Shelved, e
  <1>3. CASE ~Lapses(e)
    <2>1. e.kept /\ e.left # 1 /\ e # None
      BY <1>3 DEF Lapses, None
    <2>2. /\ e \in [kept : {TRUE}, left : Nat, value : [of : Companies, age : Nat]]
          /\ e.value.of = k[1] /\ e.left > 0 /\ e.left + e.value.age = ToolTTL
      BY <1>1, <2>1 DEF ToolEntry, Shelved, Hit
    <2> DEFINE a == AgedFigure(e)
    <2>3. a = [e EXCEPT !.left = e.left - 1, !.value = [e.value EXCEPT !.age = @ + 1]]
      BY <1>3, <2>2 DEF AgedFigure
    <2> DEFINE v == [e.value EXCEPT !.age = @ + 1]
    <2>v. /\ v \in [of : Companies, age : Nat]
          /\ v.age = e.value.age + 1 /\ v.of = e.value.of
      BY <2>2
    <2> HIDE DEF v
    <2>w. a = [e EXCEPT !.left = e.left - 1, !.value = v]
      BY <2>3 DEF v
    <2> HIDE DEF a
    <2>x. /\ a.kept = TRUE /\ a.left = e.left - 1 /\ a.value = v
          /\ a \in [kept : {TRUE}, left : Int, value : [of : Companies, age : Nat]]
      BY <2>2, <2>v, <2>w, EntryRewritten
    <2>4. /\ a.kept = TRUE /\ a.left = e.left - 1 /\ a.value.age = e.value.age + 1
          /\ a.value.of = e.value.of /\ a.value \in [of : Companies, age : Nat]
          /\ a \in [kept : {TRUE}, left : Int, value : [of : Companies, age : Nat]]
      BY <2>v, <2>x
    <2>5. e.left - 1 \in Nat /\ e.left - 1 > 0
          /\ (e.left - 1) + (e.value.age + 1) = ToolTTL
      BY <2>1, <2>2
    <2>6. a \in ToolEntry
      BY <2>4, <2>5 DEF ToolEntry
    <2>7. Shelved(k, a)
      BY <2>2, <2>4, <2>5 DEF Shelved
    <2> QED
      BY <2>6, <2>7 DEF a, e
  <1> QED
    BY <1>2, <1>3

LEMMA AgedAnswers ==
  ASSUME NEW k, NEW e, Remembered(k, e)
  PROVE  Remembered(k, AgedAnswer(e))
  <1>1. CASE Lapses(e)
    BY <1>1 DEF AgedAnswer, Remembered, Hit, None
  <1>2. CASE ~Lapses(e)
    <2> DEFINE a == AgedAnswer(e)
               n == e.value.took + (AnswerTTL - e.left)
    <2>1. /\ e.kept /\ e.left # 1 /\ DOMAIN e = {"kept", "left", "value"}
          /\ DOMAIN e.value = {"of", "took", "cites", "promises", "whole"}
          /\ e.left \in 1..AnswerTTL /\ e.value.took \in Nat
          /\ e.value.cites \subseteq Figures(k[1], n)
      BY <1>2 DEF Lapses, Remembered, Hit
    <2>2. a = [e EXCEPT !.left = e.left - 1, !.value.cites = Older(e.value.cites)]
      BY <1>2 DEF AgedAnswer
    <2>3. /\ a.kept /\ a.left = e.left - 1 /\ DOMAIN a = DOMAIN e
          /\ DOMAIN a.value = DOMAIN e.value
          /\ a.value.cites = Older(e.value.cites)
          /\ \A c \in {"of", "took", "promises"} : a.value[c] = e.value[c]
      BY <2>1, <2>2
    <2>4. /\ n \in Nat
          /\ e.value.took + (AnswerTTL - (e.left - 1)) = n + 1
          /\ e.left - 1 \in 1..AnswerTTL
      BY <2>1, AgeATickLater
    <2> HIDE DEF n
    <2>5. Older(e.value.cites) \subseteq Figures(k[1], n + 1)
      BY <2>1, <2>4, OlderFigures
    <2> HIDE DEF a
    <2>6. e.value.of = [company |-> k[1], text |-> k[2], history |-> FALSE]
          /\ ~e.value.promises
      BY <2>1 DEF Remembered, Hit
    <2> QED
      BY <2>1, <2>3, <2>4, <2>5, <2>6 DEF Remembered, a
  <1> QED
    BY <1>1, <1>2

LEMMA AgedTalks ==
  ASSUME NEW x, NEW P, NEW r, TalkSound(x, r, P), r.stage \in Running
  PROVE  TalkSound(x, AgedTalk(r), P)
  <1> DEFINE q == AgedTalk(r)
  <1>1. q = [r EXCEPT !.took = r.took + 1, !.knows = Older(r.knows),
                      !.cites = Older(r.cites)]
    BY DEF AgedTalk
  <1>2. /\ DOMAIN q = TalkFields /\ q.took = r.took + 1
        /\ q.knows = Older(r.knows) /\ q.cites = Older(r.cites)
        /\ \A f \in TalkFields \ {"took", "knows", "cites"} : q[f] = r[f]
    BY <1>1 DEF TalkSound, TalkFields
  <1>3. /\ r.took \in Nat /\ r.knows \subseteq Figures(r.company, r.took)
        /\ r.cites \subseteq Figures(r.company, r.took)
    BY DEF TalkSound
  <1>4. /\ q.took \in Nat /\ q.knows \subseteq Figures(r.company, q.took)
        /\ q.cites \subseteq Figures(r.company, q.took)
    BY <1>2, <1>3, OlderFigures
  <1> HIDE DEF q
  <1>5. \A f \in {"company", "text", "history", "used", "tools", "made", "promises"} :
           q[f] = r[f]
    BY <1>2 DEF TalkFields
  <1>6. TalkSound(x, q, P)
    BY <1>2, <1>4, <1>5 DEF TalkSound
  <1> QED
    BY <1>6 DEF q

\* Time passes: what is kept grows older, or is gone, and what the questions
\* under way have read grows older with them.
LEMMA TickStep ==
  ASSUME ConversationInv, Tick
  PROVE  ConversationInv'
  <1>1. shelf' \in Shelves
    BY AgedShelves DEF Tick, Shelves, ConversationInv
  <1>2. AnswersSound'
    BY AgedAnswers DEF Tick, AnswersSound, ConversationInv
  <1>3. ASSUME NEW x \in Asks, AgedTalk(talk[x]).stage \in Running
        PROVE  TalkSound(x, AgedTalk(talk[x]), proposers)
    <2>1. talk[x].stage \in Running
      BY <1>3 DEF AgedTalk
    <2> QED
      BY <2>1, AgedTalks DEF ConversationInv, TalksSound
  <1>4. TalksSound'
    BY <1>3 DEF Tick, TalksSound, TalkSound
  <1>5. ShownSound'
    BY DEF Tick, ShownSound, AnswersFitTheQuestion, FiguresAreRecent,
           PromisesAreKept, WasShown, Silence
  <1> QED
    BY <1>1, <1>2, <1>4, <1>5 DEF ConversationInv

\* A restart empties the shelves and ends the questions under way.
LEMMA RestartStep ==
  ASSUME ConversationInv, Restart
  PROVE  ConversationInv'
  <1>1. shelf' \in Shelves
    BY DEF Restart, Shelves, ToolEntry, Shelved, Hit, None
  <1>2. AnswersSound'
    BY DEF Restart, AnswersSound, Remembered, Hit, None
  <1>3. TalksSound'
    BY DEF Restart, ConversationInv, TalksSound, Over, Active, Running
  <1>4. ShownSound'
    BY DEF Restart, ShownSound, AnswersFitTheQuestion, FiguresAreRecent,
           PromisesAreKept, WasShown, Silence
  <1> QED
    BY <1>1, <1>2, <1>3, <1>4 DEF ConversationInv

LEMMA DisconnectStep ==
  ASSUME ConversationInv, NEW x \in Asks, Disconnect(x)
  PROVE  ConversationInv'
  <1>1. /\ talk' = [talk EXCEPT ![x] = Over("gone")] /\ shown' = Silence
        /\ UNCHANGED <<shelf, answers, proposers>>
    BY DEF Disconnect
  <1>2. Over("gone").stage \notin Running
    BY DEF Over, Running
  <1> QED
    BY <1>1, <1>2, GoOnStep DEF ConversationInv

LEMMA InitConversation == ConversationInit => ConversationInv
  <1> SUFFICES ASSUME ConversationInit PROVE ConversationInv
    OBVIOUS
  <1>1. shelf \in Shelves
    BY DEF ConversationInit, Shelves, ToolEntry, Shelved, Hit, None
  <1>2. AnswersSound
    BY DEF ConversationInit, AnswersSound, Remembered, Hit, None
  <1>3. TalksSound
    BY DEF ConversationInit, TalksSound, Silence, Running
  <1>4. ShownSound
    BY DEF ConversationInit, ShownSound, AnswersFitTheQuestion, FiguresAreRecent,
           PromisesAreKept, WasShown, Silence
  <1> QED
    BY <1>1, <1>2, <1>3, <1>4 DEF ConversationInv

LEMMA NextConversation == ConversationInv /\ [ConversationNext]_conversationVars => ConversationInv'
  <1> SUFFICES ASSUME ConversationInv, [ConversationNext]_conversationVars PROVE ConversationInv'
    OBVIOUS
  <1>1. CASE UNCHANGED conversationVars
    BY <1>1 DEF conversationVars, ConversationInv, AnswersSound, TalksSound, ShownSound,
       AnswersFitTheQuestion, FiguresAreRecent, PromisesAreKept, WasShown
  <1>2. CASE Tick
    BY <1>2, TickStep
  <1>3. CASE Restart
    BY <1>3, RestartStep
  <1>4. ASSUME NEW x \in Asks, NEW f \in Forms[x],
               Ask(x, f.company, f.text, f.history)
        PROVE  ConversationInv'
    BY <1>4, AskStep
  <1>5. ASSUME NEW x \in Asks, Disconnect(x) PROVE ConversationInv'
    BY <1>5, DisconnectStep
  <1>6. ASSUME NEW x \in Asks,
               OpenTurn(x) \/ ModelSpent(x) \/ ModelBusy(x) \/ OpenFails(x)
        PROVE  ConversationInv'
    BY <1>6, OpeningStep
  <1>7. ASSUME NEW x \in Asks, NEW text \in BOOLEAN, StreamBreaks(x, text)
        PROVE  ConversationInv'
    BY <1>7, StreamBreaksStep
  <1>8. ASSUME NEW x \in Asks, NEW text \in BOOLEAN, NEW calls \in Turns,
               EndTurn(x, text, calls)
        PROVE  ConversationInv'
    BY <1>8, EndTurnStep
  <1>9. ASSUME NEW x \in Asks, Proceed(x) PROVE ConversationInv'
    BY <1>6, <1>7, <1>8, <1>9 DEF Proceed
  <1> QED
    BY <1>1, <1>2, <1>3, <1>4, <1>5, <1>9 DEF ConversationNext

-----------------------------------------------------------------------------
(* The theorems.                                                           *)

THEOREM ConversationInvariance == ConversationSpec => []ConversationInv
  <1> QED
    BY InitConversation, NextConversation, PTL DEF ConversationSpec

\* Whatever the questions do between each other's chunks, and whatever the two
\* caches give again, an answer is shown only for the company and the wording
\* it was written for, from figures of that company (cache.py, both keys;
\* service.py, the closures over company_id).
THEOREM AnswersFit == ConversationSpec => []AnswersFitTheQuestion
  <1>1. ConversationInv => AnswersFitTheQuestion
    BY DEF ConversationInv, ShownSound
  <1> QED
    BY <1>1, ConversationInvariance, PTL

\* For any two times to live, and however long questions take, the two caches
\* and the question between them add up: no figure is older, when it is shown,
\* than the shelf's time to live, the time its question took and, if the answer
\* is replayed, the answers' time to live (cache.py, "The TTL is the whole
\* design").
THEOREM FiguresStayRecent == ConversationSpec => []FiguresAreRecent
  <1>1. ConversationInv => FiguresAreRecent
    BY DEF ConversationInv, ShownSound
  <1> QED
    BY <1>1, ConversationInvariance, PTL

\* An answer that says an order awaits approval is never replayed, and is shown
\* only once the order has been proposed and committed (cache.py, "replaying it
\* proposes nothing").
THEOREM PromisesKept == ConversationSpec => []PromisesAreKept
  <1>1. ConversationInv => PromisesAreKept
    BY DEF ConversationInv, ShownSound
  <1> QED
    BY <1>1, ConversationInvariance, PTL
=============================================================================
