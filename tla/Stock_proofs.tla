---------------------------- MODULE Stock_proofs ----------------------------
(***************************************************************************)
(* The stock core, for any lines, requests and number of sessions.  First  *)
(* the ledger: no level is negative, none is computed from a stale read,   *)
(* and the movements of a line are a chain from zero to its level.  Then   *)
(* what the committed history says of it: stock is conserved, the events   *)
(* of the outbox tell the movements and the thresholds they crossed, and   *)
(* the requests are atomic.                                                *)
(*                                                                         *)
(* And the documents that use it: Documents implements StockLedger, so all *)
(* that is proved of the stock core holds under the document handlers; the *)
(* statuses of documents never run ahead of their stock, and the stock is  *)
(* what the documents say.                                                 *)
(***************************************************************************)
EXTENDS DocumentHistory, SequenceTheorems, FoldTheorems, TLAPS

\* The statements of adjust_inventory run with a call of the plan in hand.
Calling == {"find", "insert", "lock", "apply"}

CallInRange ==
    \A s \in Sessions :
        /\ pc[s] = "idle" => pos[s] = 1
        /\ pc[s] \in Calling => pos[s] <= Len(plan[s])

\* A session that has read a line for update holds its lock.
ReadUnderLock ==
    \A s \in Sessions : pc[s] = "apply" => lock[Line(s)] = s

\* What a session staged continues the committed level of the line.
StagedChained ==
    \A s \in Sessions, l \in Lines : Chained(moves[s][l], quantity[l])

\* The inductive invariant: the committed ledger is intact because what is
\* staged continues it, and it continues it because nobody but the holder of
\* the lock can have moved the level since it was read.
IInv ==
    /\ TypeOK
    /\ CallInRange
    /\ ReadUnderLock
    /\ ReadIsFresh
    /\ StagedUnderLock
    /\ StagedChained
    /\ LedgerExplainsStock

-----------------------------------------------------------------------------
(* Movements.                                                              *)

\* The level a list of movements leaves is a quantity.
LEMMA EndsAtType ==
    ASSUME NEW m \in Seq(Movement), NEW q \in Nat
    PROVE  EndsAt(m, q) \in Nat
<1>1. CASE m = <<>>
  BY <1>1 DEF EndsAt
<1>2. CASE m # <<>>
  <2>1. Len(m) \in 1..Len(m)
    BY <1>2, EmptySeq
  <2>2. m[Len(m)] \in Movement
    BY <2>1, ElementOfSeq
  <2>3. m[Len(m)].after \in Nat
    BY <2>2 DEF Movement
  <2> QED
    BY <1>2, <2>3 DEF EndsAt
<1> QED
  BY <1>1, <1>2

\* Appending a movement that starts where the list ends keeps the chain.
LEMMA AppendChained ==
    ASSUME NEW m \in Seq(Movement), NEW q \in Nat, NEW x \in Movement,
           Chained(m, q), x.after = EndsAt(m, q) + x.change
    PROVE  /\ Chained(Append(m, x), q)
           /\ EndsAt(Append(m, x), q) = x.after
<1>1. /\ Append(m, x) \in Seq(Movement)
      /\ Len(Append(m, x)) = Len(m) + 1
      /\ \A i \in 1..Len(m) : Append(m, x)[i] = m[i]
      /\ Append(m, x)[Len(m) + 1] = x
      /\ Append(m, x) # <<>>
  BY AppendProperties
<1>2. Len(m) \in Nat /\ (m = <<>> <=> Len(m) = 0)
  BY EmptySeq
<1>3. EndsAt(Append(m, x), q) = x.after
  BY <1>1 DEF EndsAt
<1>4. ASSUME NEW i \in 1..Len(m) + 1
      PROVE  Append(m, x)[i].after =
               (IF i = 1 THEN q ELSE Append(m, x)[i-1].after)
                 + Append(m, x)[i].change
  <2>1. CASE i \in 1..Len(m)
    BY <1>1, <1>2, <2>1 DEF Chained
  <2>2. CASE i = Len(m) + 1
    BY <1>1, <1>2, <2>2 DEF EndsAt
  <2> QED
    BY <1>2, <2>1, <2>2
<1> QED
  BY <1>1, <1>3, <1>4 DEF Chained

\* Two chains join where the first one ends.
LEMMA ConcatChained ==
    ASSUME NEW m \in Seq(Movement), NEW n \in Seq(Movement), NEW q \in Nat,
           Chained(m, q), Chained(n, EndsAt(m, q))
    PROVE  /\ Chained(m \o n, q)
           /\ EndsAt(m \o n, q) = EndsAt(n, EndsAt(m, q))
<1>1. /\ m \o n \in Seq(Movement)
      /\ Len(m \o n) = Len(m) + Len(n)
      /\ \A i \in 1..Len(m) + Len(n) :
            (m \o n)[i] = IF i <= Len(m) THEN m[i] ELSE n[i - Len(m)]
  BY ConcatProperties
<1>2. /\ Len(m) \in Nat /\ (m = <<>> <=> Len(m) = 0)
      /\ Len(n) \in Nat /\ (n = <<>> <=> Len(n) = 0)
      /\ m \o n = <<>> <=> Len(m) + Len(n) = 0
  BY <1>1, EmptySeq
<1>3. EndsAt(m \o n, q) = EndsAt(n, EndsAt(m, q))
  BY <1>1, <1>2 DEF EndsAt
<1>4. ASSUME NEW i \in 1..Len(m) + Len(n)
      PROVE  (m \o n)[i].after =
               (IF i = 1 THEN q ELSE (m \o n)[i-1].after) + (m \o n)[i].change
  <2>1. CASE i <= Len(m)
    BY <1>1, <1>2, <2>1 DEF Chained
  <2>2. CASE i = Len(m) + 1
    <3>1. n[1].after = EndsAt(m, q) + n[1].change
      BY <1>2, <2>2 DEF Chained
    <3>2. (m \o n)[i] = n[1]
      BY <1>1, <1>2, <2>2
    <3>3. EndsAt(m, q) = IF i = 1 THEN q ELSE (m \o n)[i-1].after
      BY <1>1, <1>2, <2>2 DEF EndsAt
    <3> QED
      BY <3>1, <3>2, <3>3
  <2>3. CASE i > Len(m) + 1
    <3>1. i - Len(m) \in 1..Len(n) /\ i - Len(m) # 1
      BY <1>2, <2>3
    <3>2. n[i - Len(m)].after = n[i - Len(m) - 1].after + n[i - Len(m)].change
      BY <3>1 DEF Chained
    <3>3. (m \o n)[i] = n[i - Len(m)] /\ (m \o n)[i-1] = n[i - Len(m) - 1]
      BY <1>1, <1>2, <2>3
    <3> QED
      BY <1>2, <2>3, <3>2, <3>3
  <2> QED
    BY <1>2, <2>1, <2>2, <2>3
<1> QED
  BY <1>1, <1>3, <1>4 DEF Chained
-----------------------------------------------------------------------------
(* The initial state.                                                      *)

\* The opening movement is a chain that ends at the opening stock.
LEMMA OpeningChained ==
    \A l \in Lines : /\ OpeningMovements(l) \in Seq(Movement)
                     /\ Chained(OpeningMovements(l), 0)
                     /\ EndsAt(OpeningMovements(l), 0) = OpeningStock[l]
<1> USE LinesAssumption
<1> TAKE l \in Lines
<1> DEFINE x == [by |-> NoSession, change |-> OpeningStock[l],
                 after |-> OpeningStock[l]]
<1>1. CASE OpeningStock[l] = 0
  BY <1>1, EmptySeq DEF OpeningMovements, Chained, EndsAt
<1>2. CASE OpeningStock[l] # 0
  <2> DEFINE m == OpeningMovements(l)
  <2>1. m = <<x>>
    BY <1>2 DEF OpeningMovements
  <2>2. x \in Movement /\ x.after = 0 + x.change /\ x.after = OpeningStock[l]
    BY DEF Movement
  <2>3. m \in Seq(Movement) /\ m # <<>> /\ Len(m) = 1 /\ m[1] = x
    BY <2>1, <2>2
  <2> HIDE DEF x, m
  <2>4. EndsAt(m, 0) = OpeningStock[l]
    BY <2>2, <2>3 DEF EndsAt
  <2>5. Chained(m, 0)
    <3> SUFFICES ASSUME NEW i \in 1..1
                 PROVE  m[i].after = (IF i = 1 THEN 0 ELSE m[i-1].after)
                                       + m[i].change
      BY <2>3 DEF Chained
    <3> QED
      BY <2>2, <2>3
  <2> QED
    BY <2>3, <2>4, <2>5 DEF m
<1> QED
  BY <1>1, <1>2

LEMMA InitIInv == Init => IInv
<1> SUFFICES ASSUME Init PROVE IInv
  OBVIOUS
<1> USE LinesAssumption, SessionsAssumption, PlansAssumption
<1>1. \A l \in Lines : /\ OpeningMovements(l) \in Seq(Movement)
                       /\ Chained(OpeningMovements(l), 0)
                       /\ EndsAt(OpeningMovements(l), 0) = OpeningStock[l]
  BY OpeningChained
<1>2. TypeOK
  BY <1>1 DEF Init, TypeOK, NoMoves, Active, Answered
<1>3. CallInRange /\ ReadUnderLock /\ ReadIsFresh
  BY DEF Init, CallInRange, ReadUnderLock, ReadIsFresh, Calling
<1>4. StagedUnderLock
  BY DEF Init, StagedUnderLock, NoMoves
<1>5. StagedChained
  BY DEF Init, StagedChained, NoMoves, Chained
<1>6. LedgerExplainsStock
  BY <1>1 DEF Init, LedgerExplainsStock
<1> QED
  BY <1>2, <1>3, <1>4, <1>5, <1>6 DEF IInv
-----------------------------------------------------------------------------
(* Steps.                                                                  *)

\* A session in adjust_inventory is at a call of its plan.
LEMMA CallType ==
    ASSUME TypeOK, CallInRange, NEW s \in Sessions, pc[s] \in Calling
    PROVE  /\ Item(s) \in Adjustment
           /\ Line(s) \in Lines
           /\ Item(s).change \in Int
<1>1. plan[s] \in Seq(Adjustment) /\ pos[s] \in 1..Len(plan[s])
  BY DEF TypeOK, CallInRange
<1>2. plan[s][pos[s]] \in Adjustment
  BY <1>1, ElementOfSeq
<1> QED
  BY <1>2 DEF Item, Line, Adjustment

\* What a session sees of a line is a quantity.
LEMMA VisibleType ==
    ASSUME TypeOK, NEW s \in Sessions, NEW l \in Lines
    PROVE  Visible(s, l) \in Nat
<1>1. moves[s][l] \in Seq(Movement) /\ quantity[l] \in Nat
  BY DEF TypeOK
<1> QED
  BY <1>1, EndsAtType DEF Visible

LEMMA BeginStep ==
    ASSUME IInv, NEW s \in Sessions, NEW p \in Plans, Begin(s, p)
    PROVE  IInv'
<1> USE DEF IInv
<1>1. TypeOK'
  <2>1. p \in Seq(Adjustment)
    BY PlansAssumption
  <2> QED
    BY <2>1 DEF TypeOK, Begin, Goto, NextCall, database, Active, Answered
<1>2. CallInRange'
  BY DEF TypeOK, CallInRange, Begin, Goto, NextCall, Calling
<1>3. ReadUnderLock' /\ ReadIsFresh'
  BY DEF TypeOK, ReadUnderLock, ReadIsFresh, Begin, Goto, NextCall, database,
         Line, Item, Visible
<1>4. StagedUnderLock' /\ StagedChained' /\ LedgerExplainsStock'
  BY DEF StagedUnderLock, StagedChained, LedgerExplainsStock, Begin, database
<1> QED
  BY <1>1, <1>2, <1>3, <1>4

LEMMA RollbackStep ==
    ASSUME IInv, NEW s \in Sessions, Rollback(s)
    PROVE  IInv'
<1> USE DEF IInv
<1>1. TypeOK'
  BY DEF TypeOK, Rollback, Goto, NoMoves, Unlocked, database, Answered
<1>2. CallInRange'
  BY DEF TypeOK, CallInRange, Rollback, Goto, Calling
<1>3. ASSUME NEW t \in Sessions, pc'[t] = "apply"
      PROVE  /\ t # s /\ pc[t] = "apply"
             /\ moves'[t] = moves[t]
             /\ lock[Line(t)] = t => lock'[Line(t)] = t
  <2>1. t # s /\ pc[t] = "apply"
    BY <1>3 DEF TypeOK, Rollback, Goto
  <2>2. Line(t) \in Lines
    BY <2>1, CallType DEF Calling
  <2> QED
    BY <2>1, <2>2 DEF TypeOK, Rollback, Unlocked
<1>4. ReadUnderLock' /\ ReadIsFresh'
  BY <1>3 DEF ReadUnderLock, ReadIsFresh, Rollback, database, Line, Item,
              Visible
<1>5. ASSUME NEW t \in Sessions, NEW l \in Lines
      PROVE  moves'[t][l] = IF t = s THEN <<>> ELSE moves[t][l]
  BY DEF TypeOK, Rollback, NoMoves
<1>6. StagedUnderLock'
  BY <1>5 DEF StagedUnderLock, Rollback, Unlocked
<1>7. StagedChained'
  BY <1>5 DEF StagedChained, Chained, Rollback, database
<1>8. LedgerExplainsStock'
  BY DEF LedgerExplainsStock, Rollback, database
<1> QED
  BY <1>1, <1>2, <1>4, <1>6, <1>7, <1>8

LEMMA FindLineStep ==
    ASSUME IInv, NEW s \in Sessions, FindLine(s)
    PROVE  IInv'
<1> USE DEF IInv
<1>1. TypeOK'
  BY DEF TypeOK, FindLine, Goto, database, Active
<1>2. CallInRange'
  BY DEF TypeOK, CallInRange, FindLine, Goto, Calling
<1>3. ReadUnderLock' /\ ReadIsFresh'
  BY DEF TypeOK, ReadUnderLock, ReadIsFresh, FindLine, Goto, database, Line,
         Item, Visible
<1>4. StagedUnderLock' /\ StagedChained' /\ LedgerExplainsStock'
  BY DEF StagedUnderLock, StagedChained, LedgerExplainsStock, FindLine,
         database
<1> QED
  BY <1>1, <1>2, <1>3, <1>4

\* Taking a free lock takes it from nobody.
LEMMA LockTaken ==
    ASSUME TypeOK, CallInRange, ReadUnderLock, StagedUnderLock,
           NEW s \in Sessions, pc[s] \in Calling,
           lock[Line(s)] \in {NoSession, s},
           lock' = [lock EXCEPT ![Line(s)] = s]
    PROVE  /\ lock'[Line(s)] = s
           /\ \A t \in Sessions, l \in Lines : lock[l] = t => lock'[l] = t
<1>1. Line(s) \in Lines
  BY CallType
<1> QED
  BY <1>1, SessionsAssumption DEF TypeOK

LEMMA InsertLineStep ==
    ASSUME IInv, NEW s \in Sessions, InsertLine(s)
    PROVE  IInv'
<1> USE DEF IInv
<1>1. Line(s) \in Lines
  BY CallType DEF InsertLine, Calling
<1>2. /\ lock'[Line(s)] = s
      /\ \A t \in Sessions, l \in Lines : lock[l] = t => lock'[l] = t
  BY LockTaken DEF InsertLine, Calling
<1>3. TypeOK'
  BY <1>1 DEF TypeOK, InsertLine, Goto, database, Active
<1>4. CallInRange'
  BY DEF TypeOK, CallInRange, InsertLine, Goto, Calling
<1>5. ASSUME NEW t \in Sessions, pc'[t] = "apply"
      PROVE  pc[t] = "apply" /\ Line(t) \in Lines
  <2>1. pc[t] = "apply"
    BY <1>5 DEF TypeOK, InsertLine, Goto
  <2> QED
    BY <2>1, CallType DEF Calling
<1>6. ReadUnderLock' /\ ReadIsFresh'
  BY <1>2, <1>5 DEF ReadUnderLock, ReadIsFresh, InsertLine, database, Line,
                    Item, Visible
<1>7. StagedUnderLock'
  BY <1>2 DEF StagedUnderLock, InsertLine
<1>8. StagedChained' /\ LedgerExplainsStock'
  BY DEF StagedChained, LedgerExplainsStock, InsertLine, database
<1> QED
  BY <1>3, <1>4, <1>6, <1>7, <1>8

LEMMA LockLineStep ==
    ASSUME IInv, NEW s \in Sessions, LockLine(s)
    PROVE  IInv'
<1> USE DEF IInv
<1>1. Line(s) \in Lines /\ Visible(s, Line(s)) \in Nat
  BY CallType, VisibleType DEF LockLine, Calling
<1>2. /\ lock'[Line(s)] = s
      /\ \A t \in Sessions, l \in Lines : lock[l] = t => lock'[l] = t
  BY LockTaken DEF LockLine, Calling
<1>3. TypeOK'
  BY <1>1 DEF TypeOK, LockLine, Goto, database, Active
<1>4. CallInRange'
  BY DEF TypeOK, CallInRange, LockLine, Goto, Calling
<1>5. ASSUME NEW t \in Sessions, t # s, pc'[t] = "apply"
      PROVE  pc[t] = "apply" /\ Line(t) \in Lines /\ seen'[t] = seen[t]
  <2>1. pc[t] = "apply" /\ seen'[t] = seen[t]
    BY <1>5 DEF TypeOK, LockLine, Goto
  <2> QED
    BY <2>1, CallType DEF Calling
<1>6. seen'[s] = Visible(s, Line(s))
  BY <1>1 DEF TypeOK, LockLine
<1>7. \A t \in Sessions : Line(t)' = Line(t) /\ \A l \in Lines : Visible(t, l)' = Visible(t, l)
  BY DEF LockLine, Line, Item, Visible, database
<1>8. ReadUnderLock' /\ ReadIsFresh'
  BY <1>1, <1>2, <1>5, <1>6, <1>7 DEF ReadUnderLock, ReadIsFresh
<1>9. StagedUnderLock'
  BY <1>2 DEF StagedUnderLock, LockLine
<1>10. StagedChained' /\ LedgerExplainsStock'
  BY DEF StagedChained, LedgerExplainsStock, LockLine, database
<1> QED
  BY <1>3, <1>4, <1>8, <1>9, <1>10
LEMMA ApplyLineStep ==
    ASSUME IInv, NEW s \in Sessions, ApplyLine(s)
    PROVE  IInv'
<1> USE DEF IInv
<1> DEFINE l == Line(s)
           x == [by |-> s, change |-> Item(s).change, after |-> NewQuantity(s)]
           crossed == Thresholds(l, seen[s], NewQuantity(s))
<1>1. l \in Lines /\ Item(s).change \in Int /\ pos[s] \in Nat \ {0}
  BY CallType DEF ApplyLine, SetLevel, Calling, TypeOK
<1>2. lock[l] = s /\ seen[s] = Visible(s, l)
  BY DEF ApplyLine, SetLevel, ReadUnderLock, ReadIsFresh
<1>3. /\ NewQuantity(s) \in Nat
      /\ NewQuantity(s) = Visible(s, l) + Item(s).change
  BY <1>1, <1>2, VisibleType DEF ApplyLine, SetLevel, NewQuantity
<1>4. x \in Movement
  BY <1>1, <1>3 DEF Movement
<1>5. moves[s][l] \in Seq(Movement) /\ quantity[l] \in Nat
  BY <1>1 DEF TypeOK
<1>6. /\ Append(moves[s][l], x) \in Seq(Movement)
      /\ Chained(Append(moves[s][l], x), quantity[l])
  <2>1. x.after = EndsAt(moves[s][l], quantity[l]) + x.change
    BY <1>3 DEF Visible
  <2>2. Chained(moves[s][l], quantity[l])
    BY <1>1 DEF StagedChained
  <2> HIDE DEF x
  <2> QED
    BY <1>4, <1>5, <2>1, <2>2, AppendChained, AppendProperties
<1>7. moves' = [moves EXCEPT ![s][l] = Append(@, x)]
  BY DEF ApplyLine, SetLevel
<1>8. ASSUME NEW t \in Sessions, NEW k \in Lines
      PROVE  moves'[t][k] = IF t = s /\ k = l THEN Append(moves[s][l], x)
                            ELSE moves[t][k]
  <2> HIDE DEF x, l
  <2> QED
    BY <1>1, <1>7 DEF TypeOK
<1>9. TypeOK'
  <2>1. moves' \in [Sessions -> [Lines -> Seq(Movement)]]
    <3> HIDE DEF x, l
    <3> QED
      BY <1>1, <1>6, <1>7 DEF TypeOK
  <2>2. events' \in [Sessions -> SUBSET Event]
    <3>1. crossed \subseteq EventKind
      BY DEF Thresholds, EventKind
    <3>2. \A n \in Nat \ {0}, k \in EventKind : EventOf(s, n, k) \in Event
      BY <1>1, <1>3 DEF EventOf, Event
    <3>3. sequence + 1 \in Nat \ {0} /\ sequence + 2 \in Nat \ {0}
      BY DEF TypeOK
    <3>4. "stock.moved" \in EventKind
      BY DEF EventKind
    <3>5. events' = [events EXCEPT ![s] =
             @ \cup {EventOf(s, sequence + 1, "stock.moved")}
               \cup {EventOf(s, sequence + 2, k) : k \in crossed}]
      BY DEF ApplyLine, SetLevel
    <3>6. events[s] \cup {EventOf(s, sequence + 1, "stock.moved")}
            \cup {EventOf(s, sequence + 2, k) : k \in crossed} \in SUBSET Event
      <4> HIDE DEF crossed
      <4> QED
        BY <3>1, <3>2, <3>3, <3>4 DEF TypeOK
    <3> HIDE DEF crossed
    <3> QED
      BY <3>5, <3>6 DEF TypeOK
  <2>3. sequence' \in Nat
    BY DEF TypeOK, ApplyLine, SetLevel
  <2>4. pc' \in [Sessions -> {"idle"} \cup Active \cup Answered]
    BY DEF TypeOK, ApplyLine, SetLevel, Goto, NextCall, Active
  <2>5. pos' \in [Sessions -> Nat \ {0}]
    BY DEF TypeOK, ApplyLine, SetLevel
  <2> QED
    BY <2>1, <2>2, <2>3, <2>4, <2>5 DEF TypeOK, ApplyLine, SetLevel, database
<1>10. ASSUME NEW t \in Sessions
       PROVE  /\ pos'[t] = IF t = s THEN pos[s] + 1 ELSE pos[t]
              /\ pc'[t] = IF t = s THEN NextCall(plan[s], pos[s] + 1)
                          ELSE pc[t]
              /\ plan'[t] = plan[t]
  BY DEF TypeOK, ApplyLine, SetLevel, Goto
<1>11. CallInRange'
  BY <1>1, <1>10 DEF CallInRange, NextCall, Calling
<1>12. ASSUME NEW t \in Sessions, pc'[t] = "apply"
       PROVE  /\ t # s /\ pc[t] = "apply"
              /\ Line(t)' = Line(t) /\ Line(t) \in Lines
              /\ lock' = lock /\ seen' = seen
              /\ Visible(t, Line(t))' = Visible(t, Line(t))
  <2>1. t # s /\ pc[t] = "apply"
    BY <1>10, <1>12 DEF NextCall
  <2>2. Line(t) \in Lines
    BY <2>1, CallType DEF Calling
  <2>3. Line(t)' = Line(t)
    BY <1>10, <2>1 DEF Line, Item
  <2> QED
    BY <1>8, <2>1, <2>2, <2>3 DEF ApplyLine, SetLevel, Visible, database
<1>13. ReadUnderLock' /\ ReadIsFresh'
  BY <1>12 DEF ReadUnderLock, ReadIsFresh
<1>14. StagedUnderLock'
  BY <1>2, <1>8 DEF StagedUnderLock, ApplyLine, SetLevel
<1>15. StagedChained'
  BY <1>6, <1>8 DEF StagedChained, ApplyLine, SetLevel, database
<1>16. LedgerExplainsStock'
  BY DEF LedgerExplainsStock, ApplyLine, SetLevel, database
<1> QED
  BY <1>9, <1>11, <1>13, <1>14, <1>15, <1>16

LEMMA CommitStep ==
    ASSUME IInv, NEW s \in Sessions, Commit(s)
    PROVE  IInv'
<1> USE DEF IInv
<1>1. TypeOK'
  <2>1. quantity' \in [Lines -> Nat]
    BY VisibleType DEF Commit
  <2>2. ledger' \in [Lines -> Seq(Movement)]
    <3>1. \A l \in Lines : ledger[l] \o moves[s][l] \in Seq(Movement)
      BY ConcatProperties DEF TypeOK
    <3> QED
      BY <3>1 DEF Commit
  <2>3. moves' \in [Sessions -> [Lines -> Seq(Movement)]]
    BY DEF TypeOK, Commit, NoMoves
  <2>4. lock' \in [Lines -> Sessions \cup {NoSession}]
    BY DEF TypeOK, Commit, Unlocked
  <2>5. /\ pc' \in [Sessions -> {"idle"} \cup Active \cup Answered]
        /\ present' \subseteq Lines
        /\ outbox' \subseteq Event
        /\ events' \in [Sessions -> SUBSET Event]
    BY DEF TypeOK, Commit, Goto, Answered
  <2> QED
    BY <2>1, <2>2, <2>3, <2>4, <2>5 DEF TypeOK, Commit
<1>2. CallInRange'
  BY DEF TypeOK, CallInRange, Commit, Goto, Calling
<1>3. ASSUME NEW t \in Sessions, NEW l \in Lines
      PROVE  moves'[t][l] = IF t = s THEN <<>> ELSE moves[t][l]
  BY DEF TypeOK, Commit, NoMoves
<1>4. ASSUME NEW l \in Lines, NEW t \in Sessions, t # s, lock[l] = t
      PROVE  quantity'[l] = quantity[l] /\ lock'[l] = t
  <2>1. moves[s][l] = <<>>
    BY <1>4 DEF StagedUnderLock
  <2> QED
    BY <1>4, <2>1 DEF Commit, Visible, EndsAt, Unlocked
<1>5. ASSUME NEW t \in Sessions, pc'[t] = "apply"
      PROVE  lock'[Line(t)'] = t /\ seen'[t] = Visible(t, Line(t))'
  <2>1. t # s /\ pc[t] = "apply"
    BY <1>5 DEF TypeOK, Commit, Goto
  <2>2. Line(t) \in Lines /\ Line(t)' = Line(t) /\ lock[Line(t)] = t
    BY <2>1, CallType DEF Calling, ReadUnderLock, Commit, Line, Item
  <2> QED
    BY <1>3, <1>4, <2>1, <2>2 DEF ReadIsFresh, Visible, Commit
<1>6. ReadUnderLock' /\ ReadIsFresh'
  BY <1>5 DEF ReadUnderLock, ReadIsFresh
<1>7. StagedUnderLock'
  BY <1>3, <1>4 DEF StagedUnderLock
<1>8. StagedChained'
  <2> SUFFICES ASSUME NEW t \in Sessions, NEW l \in Lines
               PROVE  Chained(moves'[t][l], quantity'[l])
    BY DEF StagedChained
  <2>1. CASE moves'[t][l] = <<>>
    BY <2>1 DEF Chained
  <2>2. CASE moves'[t][l] # <<>>
    <3>1. t # s /\ moves'[t][l] = moves[t][l] /\ lock[l] = t
      BY <1>3, <2>2 DEF StagedUnderLock
    <3> QED
      BY <1>4, <3>1 DEF StagedChained
  <2> QED
    BY <2>1, <2>2
<1>9. LedgerExplainsStock'
  <2> SUFFICES ASSUME NEW l \in Lines
               PROVE  /\ Chained(ledger'[l], 0)
                      /\ quantity'[l] = EndsAt(ledger'[l], 0)
    BY DEF LedgerExplainsStock
  <2>1. /\ ledger[l] \in Seq(Movement) /\ moves[s][l] \in Seq(Movement)
        /\ Chained(ledger[l], 0) /\ quantity[l] = EndsAt(ledger[l], 0)
        /\ Chained(moves[s][l], EndsAt(ledger[l], 0))
    BY DEF TypeOK, LedgerExplainsStock, StagedChained
  <2>2. /\ ledger'[l] = ledger[l] \o moves[s][l]
        /\ quantity'[l] = EndsAt(moves[s][l], quantity[l])
    BY DEF Commit, Visible
  <2> QED
    BY <2>1, <2>2, ConcatChained
<1> QED
  BY <1>1, <1>2, <1>6, <1>7, <1>8, <1>9

-----------------------------------------------------------------------------
(* Theorems.                                                               *)

LEMMA NextIInv == IInv /\ [Next]_vars => IInv'
<1> SUFFICES ASSUME IInv, [Next]_vars PROVE IInv'
  OBVIOUS
<1>1. ASSUME NEW s \in Sessions, NEW p \in Plans, Begin(s, p) PROVE IInv'
  BY <1>1, BeginStep
<1>2. ASSUME NEW s \in Sessions, Adjust(s) PROVE IInv'
  <2>1. CASE Rollback(s)
    BY <2>1, RollbackStep
  <2>2. CASE FindLine(s)
    BY <2>2, FindLineStep
  <2>3. CASE InsertLine(s)
    BY <2>3, InsertLineStep
  <2>4. CASE LockLine(s)
    BY <2>4, LockLineStep
  <2>5. CASE ApplyLine(s)
    BY <2>5, ApplyLineStep
  <2> QED
    BY <1>2, <2>1, <2>2, <2>3, <2>4, <2>5
       DEF Adjust, RefuseForeignLine, InsertConflict, RefuseShortage
<1>3. ASSUME NEW s \in Sessions, Commit(s) PROVE IInv'
  BY <1>3, CommitStep
<1>4. ASSUME NEW s \in Sessions, Interrupt(s) PROVE IInv'
  BY <1>4, RollbackStep DEF Interrupt, DeadlockAbort, Fail
<1>5. CASE UNCHANGED vars
  BY <1>5 DEF IInv, TypeOK, CallInRange, ReadUnderLock, ReadIsFresh,
              StagedUnderLock, StagedChained, LedgerExplainsStock, vars,
              database, Line, Item, Visible
<1> QED
  BY <1>1, <1>2, <1>3, <1>4, <1>5 DEF Next

\* The inductive invariant holds in every reachable state.
THEOREM Invariant == Spec => []IInv
<1>1. Init => IInv
  BY InitIInv
<1>2. IInv /\ [Next]_vars => IInv'
  BY NextIInv
<1> QED
  BY <1>1, <1>2, PTL DEF Spec

\* Every variable keeps its type; in particular no committed quantity, no
\* quantity_after and no quantity a session read is ever negative.
THEOREM TypeCorrect == Spec => []TypeOK
<1>1. IInv => TypeOK
  BY DEF IInv
<1> QED
  BY <1>1, Invariant, PTL

\* However sessions interleave, fail, deadlock and roll back, the committed
\* ledger of every line is a chain from zero to its current quantity.
THEOREM LedgerIntegrity == Spec => []LedgerExplainsStock
<1>1. IInv => LedgerExplainsStock
  BY DEF IInv
<1> QED
  BY <1>1, Invariant, PTL

\* adjust_inventory never writes a level computed from a stale read.
THEOREM NoStaleWrite == Spec => []ReadIsFresh
<1>1. IInv => ReadIsFresh
  BY DEF IInv
<1> QED
  BY <1>1, Invariant, PTL

\* Only the holder of a line's lock has anything staged on it, so what a commit
\* publishes never overwrites another session's work.
THEOREM StagedWritesExclusive == Spec => []StagedUnderLock
<1>1. IInv => StagedUnderLock
  BY DEF IInv
<1> QED
  BY <1>1, Invariant, PTL

-----------------------------------------------------------------------------
(* The inductive invariant.                                                *)

\* Only lines of the caller's company are inserted, locked and changed.
OwnLine ==
    \A s \in Sessions : pc[s] \in {"insert", "lock", "apply"} => Line(s) \in Tenant

\* Nothing is staged before a request begins and after it is answered.
AtRest(s) == pc[s] \notin Active => moves[s] = NoMoves /\ events[s] = {}

\* The first k adjustments of a plan leave line l alone.
Spares(p, l, k) == \A i \in 1..k : p[i].line # l

\* What is staged on a line is what the plan asks for up to where it is, from
\* the committed level.
FollowsOn(s, l) ==
    /\ moves[s][l] = Atomic!Entries(s, plan[s], l, quantity[l])[pos[s] - 1]
    /\ Visible(s, l) = Atomic!Level(plan[s], l, quantity[l])[pos[s] - 1]
    /\ \A i \in 1..pos[s] - 1 : Atomic!Level(plan[s], l, quantity[l])[i] >= 0
    /\ moves[s][l] = <<>> => Spares(plan[s], l, pos[s] - 1)
Follows(s) ==
    pc[s] \in Active =>
        /\ pc[s] = "ready" => pos[s] = Len(plan[s]) + 1
        /\ \A i \in 1..pos[s] - 1 : plan[s][i].line \in Tenant
        /\ \A l \in Lines : FollowsOn(s, l)

\* Numbers are given out once, and on the lines a session has staged events for
\* no later number is committed: it holds their locks.
Numbered ==
    /\ \A e \in outbox : e.sequence <= sequence
    /\ \A s \in Sessions : \A e \in events[s] : e.sequence <= sequence
Newer(s) == \A e \in events[s], f \in outbox :
                e.line = f.line => f.sequence < e.sequence

\* What a session has staged tells its movements and their crossings.
StagedTold(s) ==
    \A l \in Lines :
        /\ \A i \in DOMAIN moves[s][l] : moves[s][l][i].by = s
        /\ Tell(About(events[s], l, {"stock.moved"}), News(moves[s][l]))
        /\ Tell(About(events[s], l, EventKind \ {"stock.moved"}),
                Crossings(l, moves[s][l], quantity[l]))

\* Only finitely many requests have been made, however many there may be.
Finite == IsFiniteSet({s \in Sessions : pc[s] # "idle"})

HInv ==
    /\ OwnLine /\ Numbered /\ Finite
    /\ \A s \in Sessions : AtRest(s) /\ Follows(s) /\ Newer(s) /\ StagedTold(s)
    /\ ConservationOfStock
    /\ EventsTellTheLedger
    /\ ThresholdsMarkCrossings

-----------------------------------------------------------------------------
(* Carrying out a plan.                                                    *)

\* What the i-th adjustment of a plan adds to line l.
Share(p, l, i) == IF p[i].line = l THEN p[i].change ELSE 0

LEMMA ItemType ==
    ASSUME NEW p \in Seq(Adjustment)
    PROVE  \A i \in 1..Len(p) : p[i].line \in Lines /\ p[i].change \in Int
<1>1. \A i \in 1..Len(p) : p[i] \in Adjustment
  BY ElementOfSeq
<1> QED
  BY <1>1 DEF Adjustment

\* The recursion of AtomicStock's Level.
LEMMA LevelUnfolds ==
    ASSUME NEW p \in Seq(Adjustment), NEW l, NEW q \in Int
    PROVE  /\ Atomic!Level(p, l, q)[0] = q
           /\ \A i \in 0..Len(p) : Atomic!Level(p, l, q)[i] \in Int
           /\ \A i \in 1..Len(p) :
                 Atomic!Level(p, l, q)[i]
                    = Atomic!Level(p, l, q)[i-1] + Share(p, l, i)
<1> DEFINE n == Len(p)
           G == [i \in 1..n |-> [v \in Int |-> v + Share(p, l, i)]]
           Is(f) == f = [i \in 0..n |->
                          IF i = 0 THEN q
                          ELSE f[i-1] + (IF p[i].line = l THEN p[i].change ELSE 0)]
<1>1. n \in Nat /\ \A i \in 1..n : Share(p, l, i) \in Int
  BY ItemType DEF Share
<1>2. G \in [1..n -> [Int -> Int]]
  BY <1>1
<1>3. \A i \in 1..n : \A v \in Int : G[i][v] = v + Share(p, l, i)
  OBVIOUS
<1> HIDE DEF G, n
<1>4. PICK f : StepByStep(f, Int, q, n, G)
  BY <1>1, <1>2, RecursionOnPrefix
<1>5. /\ f \in [0..n -> Int] /\ f[0] = q
      /\ \A i \in 1..n : f[i] = f[i-1] + Share(p, l, i)
  <2>1. f \in [0..n -> Int] /\ f[0] = q
    BY <1>1, <1>4 DEF StepByStep
  <2>2. ASSUME NEW i \in 1..n PROVE f[i] = f[i-1] + Share(p, l, i)
    <3>1. i - 1 \in 0..n /\ i \in 0..n /\ i # 0
      BY <1>1
    <3>2. f[i] = G[i][f[i-1]] /\ f[i-1] \in Int
      BY <1>4, <2>1, <3>1 DEF StepByStep
    <3> QED
      BY <1>3, <3>2
  <2> QED
    BY <2>1, <2>2
<1>6. Is(f)
  <2>1. ASSUME NEW i \in 0..n
        PROVE  f[i] = IF i = 0 THEN q ELSE f[i-1] + Share(p, l, i)
    BY <1>1, <1>5
  <2> QED
    BY <1>5, <2>1 DEF Share
<1>7. Is(CHOOSE f1 : Is(f1))
  BY <1>6
<1> DEFINE g == Atomic!Level(p, l, q)
<1>8. Is(g)
  BY <1>7 DEF Atomic!Level, n
<1> HIDE DEF g
<1>9. g[0] = q /\ \A i \in 1..n : g[i] = g[i-1] + Share(p, l, i)
  BY <1>1, <1>8 DEF Share
<1> HIDE DEF Is
<1>10. \A i \in 0..n : g[i] = f[i]
  <2>1. \A i \in 1..n : g[i-1] = f[i-1] => g[i] = f[i]
    BY <1>5, <1>9
  <2>2. g[0] = f[0]
    BY <1>5, <1>9
  <2> HIDE DEF g
  <2> QED
    <3>1. StayTogether(g, f, n) /\ n \in Nat
      BY <1>1, <2>1, <2>2 DEF StayTogether
    <3> QED
      BY <3>1, PrefixesAgree
<1> QED
  BY <1>5, <1>9, <1>10 DEF g, n

\* The recursion of AtomicStock's Entries.
Entered(s) == [by : {s}, change : Int, after : Int]

\* e lists the entries of a plan, prefix by prefix.
Enters(e, s, p, l, level) ==
    /\ e[0] = <<>>
    /\ \A i \in 0..Len(p) : e[i] \in Seq(Entered(s))
    /\ \A i \in 1..Len(p) :
          e[i] = IF p[i].line = l
                 THEN Append(e[i-1], [by |-> s, change |-> p[i].change,
                                      after |-> level[i]])
                 ELSE e[i-1]

LEMMA EntriesUnfold ==
    ASSUME NEW s, NEW p \in Seq(Adjustment), NEW l, NEW q \in Int
    PROVE  Enters(Atomic!Entries(s, p, l, q), s, p, l, Atomic!Level(p, l, q))
<1> DEFINE n == Len(p)
           V == Seq(Entered(s))
           level == Atomic!Level(p, l, q)
           x(i) == [by |-> s, change |-> p[i].change, after |-> level[i]]
           G == [i \in 1..n |-> [v \in V |-> IF p[i].line = l THEN Append(v, x(i)) ELSE v]]
           Is(f) == f = [i \in 0..n |->
                          IF i = 0 THEN <<>>
                          ELSE IF p[i].line = l THEN Append(f[i-1], x(i)) ELSE f[i-1]]
<1>1. n \in Nat /\ \A i \in 1..n : p[i].change \in Int /\ level[i] \in Int
  BY ItemType, LevelUnfolds
<1> HIDE DEF level
<1>2. \A i \in 1..n : x(i) \in Entered(s)
  BY <1>1 DEF Entered
<1> HIDE DEF x
<1>3. <<>> \in V /\ \A i \in 1..n, v \in V : Append(v, x(i)) \in V
  BY <1>2, EmptySeq, AppendProperties
<1> HIDE DEF V, n
<1>4. G \in [1..n -> [V -> V]]
  BY <1>3
<1>5. \A i \in 1..n : \A v \in V :
         G[i][v] = IF p[i].line = l THEN Append(v, x(i)) ELSE v
  OBVIOUS
<1> HIDE DEF G
<1>6. PICK f : StepByStep(f, V, <<>>, n, G)
  BY <1>1, <1>3, <1>4, RecursionOnPrefix
<1>7. /\ f \in [0..n -> V] /\ f[0] = <<>>
      /\ \A i \in 1..n :
            f[i] = IF p[i].line = l THEN Append(f[i-1], x(i)) ELSE f[i-1]
  <2>1. f \in [0..n -> V] /\ f[0] = <<>>
    BY <1>1, <1>6 DEF StepByStep
  <2>2. ASSUME NEW i \in 1..n
        PROVE  f[i] = IF p[i].line = l THEN Append(f[i-1], x(i)) ELSE f[i-1]
    <3>1. i - 1 \in 0..n /\ i \in 0..n /\ i # 0
      BY <1>1
    <3>2. f[i] = G[i][f[i-1]] /\ f[i-1] \in V
      BY <1>6, <2>1, <3>1 DEF StepByStep
    <3> QED
      BY <1>5, <3>2
  <2> QED
    BY <2>1, <2>2
<1>8. Is(f)
  <2>1. ASSUME NEW i \in 0..n
        PROVE  f[i] = IF i = 0 THEN <<>>
                      ELSE IF p[i].line = l THEN Append(f[i-1], x(i)) ELSE f[i-1]
    <3>1. i # 0 => i \in 1..n
      BY <1>1
    <3> QED
      BY <1>7, <3>1
  <2> QED
    BY <1>7, <2>1
<1>9. Is(CHOOSE f1 : Is(f1))
  BY <1>8
<1> DEFINE g == Atomic!Entries(s, p, l, q)
<1>10. Is(g)
  BY <1>9 DEF Atomic!Entries, Atomic!Entry, n, x, level
<1> HIDE DEF g
<1>11. /\ g[0] = <<>>
       /\ \A i \in 1..n :
             g[i] = IF p[i].line = l THEN Append(g[i-1], x(i)) ELSE g[i-1]
  <2>1. \A i \in 0..n :
           g[i] = IF i = 0 THEN <<>>
                  ELSE IF p[i].line = l THEN Append(g[i-1], x(i)) ELSE g[i-1]
    <3> HIDE DEF x
    <3> QED
      BY <1>10
  <2>2. 0 \in 0..n /\ \A i \in 1..n : i \in 0..n /\ i # 0
    BY <1>1
  <2> HIDE DEF x, Is
  <2> QED
    BY <2>1, <2>2
<1> HIDE DEF Is
<1>12. \A i \in 0..n : g[i] = f[i]
  <2>1. \A i \in 1..n : g[i-1] = f[i-1] => g[i] = f[i]
    BY <1>7, <1>11
  <2>2. g[0] = f[0]
    BY <1>7, <1>11
  <2> QED
    <3>1. StayTogether(g, f, n) /\ n \in Nat
      BY <1>1, <2>1, <2>2 DEF StayTogether
    <3> QED
      BY <3>1, PrefixesAgree
<1> QED
  BY <1>7, <1>11, <1>12 DEF g, n, V, x, level, Enters

\* A line the first k adjustments do not name stays as it is.
Untouched(s, p, l, q, k) ==
    \A i \in 0..k : /\ Atomic!Level(p, l, q)[i] = q
                    /\ Atomic!Entries(s, p, l, q)[i] = <<>>

LEMMA UntouchedLine ==
    ASSUME NEW s, NEW p \in Seq(Adjustment), NEW l, NEW q \in Int,
           NEW k \in 0..Len(p), Spares(p, l, k)
    PROVE  Untouched(s, p, l, q, k)
<1> USE DEF Spares, Untouched
<1> DEFINE level == Atomic!Level(p, l, q)
           e == Atomic!Entries(s, p, l, q)
           T == {i \in Nat : i <= k => level[i] = q /\ e[i] = <<>>}
<1>1. /\ level[0] = q /\ e[0] = <<>>
      /\ \A i \in 1..k : level[i] = level[i-1] + 0 /\ e[i] = e[i-1]
  <2>1. /\ level[0] = q
        /\ \A i \in 1..Len(p) : level[i] = level[i-1] + Share(p, l, i)
    BY LevelUnfolds
  <2>2. /\ e[0] = <<>>
        /\ \A i \in 1..Len(p) : p[i].line # l => e[i] = e[i-1]
    <3>1. Enters(e, s, p, l, level)
      BY EntriesUnfold
    <3> HIDE DEF level, e
    <3> QED
      BY <3>1 DEF Enters
  <2> HIDE DEF level, e
  <2>3. \A i \in 1..k : i \in 1..Len(p) /\ Share(p, l, i) = 0
    BY DEF Share
  <2> QED
    BY <2>1, <2>2, <2>3
<1> HIDE DEF level, e
<1>2. 0 \in T
  BY <1>1
<1>3. ASSUME NEW i \in Nat, i \in T PROVE i + 1 \in T
  <2> SUFFICES ASSUME i + 1 <= k PROVE level[i+1] = q /\ e[i+1] = <<>>
    OBVIOUS
  <2>1. i + 1 \in 1..k /\ i + 1 - 1 = i /\ level[i] = q /\ e[i] = <<>>
    BY <1>3
  <2> QED
    BY <1>1, <2>1
<1> HIDE DEF T
<1>4. \A i \in Nat : i \in T
  BY <1>2, <1>3, NatSetInduction
<1> QED
  BY <1>4 DEF T, level, e

\* The level is where the line started and what the plan has added since.
Adds(p, l, i) == SumFunctionOnSet([j \in DOMAIN p |-> p[j].change],
                                  {j \in 1..i : p[j].line = l})

LEMMA LevelIsSum ==
    ASSUME NEW p \in Seq(Adjustment), NEW l, NEW q \in Int
    PROVE  \A i \in 0..Len(p) : Atomic!Level(p, l, q)[i] = q + Adds(p, l, i)
<1> DEFINE n == Len(p)
           level == Atomic!Level(p, l, q)
           f == [j \in DOMAIN p |-> p[j].change]
           D(i) == {j \in 1..i : p[j].line = l}
           Sum(S) == SumFunctionOnSet(f, S)
           T == {i \in Nat : i <= n => level[i] = q + Sum(D(i))}
<1>1. n \in Nat /\ DOMAIN p = 1..n /\ \A j \in 1..n : f[j] = p[j].change /\ f[j] \in Int
  BY ItemType
<1>2. /\ level[0] = q
      /\ \A i \in 1..n : level[i] = level[i-1] + Share(p, l, i)
  BY LevelUnfolds
<1> HIDE DEF level, f, n
<1>3. 0 \in T
  <2>1. D(0) = {}
    OBVIOUS
  <2>2. Sum(D(0)) = 0
    BY <2>1, SumOfNothing
  <2> QED
    BY <1>2, <2>2
<1>4. ASSUME NEW i \in Nat, i \in T PROVE i + 1 \in T
  <2> SUFFICES ASSUME i + 1 <= n PROVE level[i+1] = q + Sum(D(i+1))
    OBVIOUS
  <2>1. i + 1 \in 1..n /\ i + 1 - 1 = i /\ level[i] = q + Sum(D(i))
    <3> HIDE DEF D, Sum
    <3> QED
      BY <1>1, <1>4
  <2>2. IsFiniteSet(D(i)) /\ i + 1 \notin D(i) /\ D(i) \subseteq 1..n
    <3>1. IsFiniteSet(1..i) /\ D(i) \in SUBSET (1..i)
      BY FS_Interval
    <3> QED
      BY <1>1, <2>1, <3>1, FS_Subset
  <2>3. Sum(D(i)) \in Int
    BY <1>1, <2>2, SumType
  <2>4. CASE p[i+1].line = l
    <3>1. D(i+1) = D(i) \cup {i + 1}
      BY <2>4
    <3>2. \A y \in D(i) \cup {i + 1} : f[y] \in Int
      BY <1>1, <2>1, <2>2
    <3> HIDE DEF D
    <3>3. Sum(D(i) \cup {i + 1}) = Sum(D(i)) + f[i+1]
      BY <2>2, <3>2, SumAdds
    <3>4. level[i+1] = level[i] + f[i+1] /\ f[i+1] \in Int
      BY <1>1, <1>2, <2>1, <2>4 DEF Share
    <3>5. Sum(D(i+1)) = Sum(D(i) \cup {i + 1})
      BY <3>1
    <3> HIDE DEF Sum
    <3> QED
      BY <2>1, <2>3, <3>3, <3>4, <3>5
  <2>5. CASE p[i+1].line # l
    <3>1. D(i+1) = D(i)
      BY <2>5
    <3>2. level[i+1] = level[i] + 0
      BY <1>2, <2>1, <2>5 DEF Share
    <3> HIDE DEF D, Sum
    <3> QED
      BY <2>1, <2>3, <3>1, <3>2
  <2> QED
    BY <2>4, <2>5
<1> HIDE DEF T
<1>5. \A i \in Nat : i \in T
  BY <1>3, <1>4, NatSetInduction
<1> QED
  BY <1>5 DEF T, level, f, n, Adds

\* ChangeOf is what the whole plan adds.
LEMMA TotalIsSum ==
    ASSUME NEW p \in Seq(Adjustment), NEW l
    PROVE  /\ TotalAt(p, l) = Adds(p, l, Len(p))
           /\ TotalAt(p, l) \in Int
<1> DEFINE C == {i \in DOMAIN p : p[i].line = l}
           D == {i \in 1..Len(p) : p[i].line = l}
           f == [i \in DOMAIN p |-> p[i].change]
<1>1. /\ DOMAIN p = 1..Len(p) /\ Len(p) \in Nat
      /\ \A i \in DOMAIN p : p[i].change \in Int
  BY ItemType
<1>2. C = D
  BY <1>1
<1>3. TotalAt(p, l) = SumFunctionOnSet(f, C)
  BY DEF TotalAt
<1>4. Adds(p, l, Len(p)) = SumFunctionOnSet(f, D)
  BY DEF Adds
<1>5. IsFiniteSet(D) /\ \A i \in D : f[i] \in Int
  <2>1. IsFiniteSet(1..Len(p)) /\ D \in SUBSET (1..Len(p))
    BY <1>1, FS_Interval
  <2> QED
    BY <1>1, <2>1, FS_Subset
<1> HIDE DEF C, D, f
<1>6. SumFunctionOnSet(f, D) \in Int
  BY <1>5, SumType
<1> QED
  BY <1>2, <1>3, <1>4, <1>6

LEMMA ChangeIsSum ==
    ASSUME IInv, NEW s \in Sessions, NEW l
    PROVE  /\ ChangeOf(s, l) = Adds(plan[s], l, Len(plan[s]))
           /\ ChangeOf(s, l) \in Int
<1>1. plan[s] \in Seq(Adjustment)
  BY DEF IInv, TypeOK
<1> QED
  BY <1>1, TotalIsSum DEF ChangeOf

-----------------------------------------------------------------------------
(* Telling.                                                                *)

LEMMA NothingToTell ==
    ASSUME NEW listed, DOMAIN listed = {}
    PROVE  /\ Tell({}, listed)
           /\ \A happenings : Tell(happenings, listed) => happenings = {}
<1>1. Tell({}, listed)
  <2>1. [i \in {} |-> i] \in [DOMAIN listed -> {}]
    OBVIOUS
  <2> QED
    BY <2>1 DEF Tell
<1> QED
  BY <1>1 DEF Tell

\* listed is first, with what comes later moved up by n places.
Joins(listed, first, n, later) ==
    /\ \A i \in DOMAIN first : i \in 1..n
    /\ \A i \in DOMAIN later : i \in Nat \ {0}
    /\ \A i \in DOMAIN listed :
          \/ i \in DOMAIN first /\ listed[i] = first[i]
          \/ i - n \in DOMAIN later /\ i > n /\ i \in Nat /\ listed[i] = later[i-n]
    /\ \A i \in DOMAIN first : i \in DOMAIN listed
    /\ \A i \in DOMAIN later : i + n \in DOMAIN listed

\* What is told later, of events with higher numbers, is told after.
LEMMA TellOn ==
    ASSUME NEW old, NEW new, \A e \in old \cup new : e.sequence \in Nat,
           \A e \in old, f \in new : e.sequence < f.sequence,
           NEW n \in Nat, NEW first, NEW later, NEW listed,
           Joins(listed, first, n, later),
           Tell(old, first), Tell(new, later)
    PROVE  Tell(old \cup new, listed)
<1>1. PICK a \in [DOMAIN first -> old] :
         /\ \A e \in old : \E i \in DOMAIN first : a[i] = e
         /\ \A i, j \in DOMAIN first : i < j => a[i].sequence < a[j].sequence
         /\ \A i \in DOMAIN first : Heard(a[i]) = first[i]
  BY DEF Tell
<1>2. PICK b \in [DOMAIN later -> new] :
         /\ \A e \in new : \E i \in DOMAIN later : b[i] = e
         /\ \A i, j \in DOMAIN later : i < j => b[i].sequence < b[j].sequence
         /\ \A i \in DOMAIN later : Heard(b[i]) = later[i]
  BY DEF Tell
<1> DEFINE c == [i \in DOMAIN listed |-> IF i \in 1..n THEN a[i] ELSE b[i-n]]
<1>3. ASSUME NEW i \in DOMAIN listed
      PROVE  \/ /\ i \in 1..n /\ i \in DOMAIN first
                /\ c[i] = a[i] /\ listed[i] = first[i]
             \/ /\ i \notin 1..n /\ i \in Nat /\ i > n /\ i - n \in DOMAIN later
                /\ c[i] = b[i-n] /\ listed[i] = later[i-n]
  BY DEF Joins
<1>4. ASSUME NEW i \in DOMAIN first PROVE i \in DOMAIN listed /\ c[i] = a[i]
  BY DEF Joins
<1>5. ASSUME NEW i \in DOMAIN later PROVE i + n \in DOMAIN listed /\ c[i+n] = b[i]
  <2>1. i + n \in DOMAIN listed /\ i \in Nat \ {0}
    BY DEF Joins
  <2>2. i + n \notin 1..n /\ i + n - n = i
    BY <2>1
  <2> QED
    BY <2>1, <2>2
<1> HIDE DEF c
<1>6. \A i \in DOMAIN listed : c[i] \in old \cup new
  BY <1>3
<1>7. c \in [DOMAIN listed -> old \cup new]
  BY <1>6 DEF c
<1>8. \A e \in old \cup new : \E i \in DOMAIN listed : c[i] = e
  BY <1>1, <1>2, <1>4, <1>5
<1>9. ASSUME NEW i \in DOMAIN listed, NEW j \in DOMAIN listed, i < j
      PROVE  c[i].sequence < c[j].sequence
  <2>1. CASE i \in 1..n /\ j \in 1..n
    BY <1>1, <1>3, <1>9, <2>1
  <2>2. CASE i \in 1..n /\ j \notin 1..n
    BY <1>3, <2>2
  <2>3. CASE i \notin 1..n /\ j \in 1..n
    BY <1>3, <1>9, <2>3
  <2>4. CASE i \notin 1..n /\ j \notin 1..n
    <3>1. i - n \in DOMAIN later /\ j - n \in DOMAIN later /\ i - n < j - n
      BY <1>3, <1>9, <2>4
    <3>2. c[i] = b[i-n] /\ c[j] = b[j-n]
      BY <1>3, <2>4
    <3> QED
      BY <1>2, <3>1, <3>2
  <2> QED
    BY <2>1, <2>2, <2>3, <2>4
<1>10. ASSUME NEW i \in DOMAIN listed PROVE Heard(c[i]) = listed[i]
  BY <1>1, <1>2, <1>3
<1> QED
  BY <1>7, <1>8, <1>9, <1>10 DEF Tell

LEMMA NewsJoin ==
    ASSUME NEW m \in Seq(Movement), NEW n \in Seq(Movement)
    PROVE  Joins(News(m \o n), News(m), Len(m), News(n))
<1>1. /\ Len(m) \in Nat /\ Len(n) \in Nat
      /\ DOMAIN m = 1..Len(m) /\ DOMAIN n = 1..Len(n)
      /\ DOMAIN (m \o n) = 1..Len(m) + Len(n)
      /\ \A i \in 1..Len(m) + Len(n) :
            (m \o n)[i] = IF i <= Len(m) THEN m[i] ELSE n[i - Len(m)]
  BY ConcatProperties
<1>2. \A i \in 1..Len(n) : i + Len(m) \in 1..Len(m) + Len(n)
                          /\ (m \o n)[i + Len(m)] = n[i]
  BY <1>1
<1> QED
  BY <1>1, <1>2 DEF Joins, News

LEMMA CrossingsJoin ==
    ASSUME NEW m \in Seq(Movement), NEW n \in Seq(Movement), NEW l, NEW q
    PROVE  Joins(Crossings(l, m \o n, q), Crossings(l, m, q), Len(m),
                 Crossings(l, n, EndsAt(m, q)))
<1>1. /\ Len(m) \in Nat /\ Len(n) \in Nat /\ (m = <<>> <=> Len(m) = 0)
      /\ DOMAIN m = 1..Len(m) /\ DOMAIN n = 1..Len(n)
      /\ DOMAIN (m \o n) = 1..Len(m) + Len(n)
      /\ \A i \in 1..Len(m) + Len(n) :
            (m \o n)[i] = IF i <= Len(m) THEN m[i] ELSE n[i - Len(m)]
  BY ConcatProperties, EmptySeq
<1>2. ASSUME NEW i \in 1..Len(m)
      PROVE  /\ (m \o n)[i] = m[i]
             /\ Crosses(l, m \o n, q, i) = Crosses(l, m, q, i)
  BY <1>1 DEF Crosses
<1>3. ASSUME NEW i \in 1..Len(n)
      PROVE  /\ i + Len(m) \in 1..Len(m) + Len(n)
             /\ (m \o n)[i + Len(m)] = n[i]
             /\ Crosses(l, m \o n, q, i + Len(m)) = Crosses(l, n, EndsAt(m, q), i)
  <2>1. i + Len(m) \in 1..Len(m) + Len(n) /\ (m \o n)[i + Len(m)] = n[i]
    BY <1>1
  <2>2. (IF i + Len(m) = 1 THEN q ELSE (m \o n)[i + Len(m) - 1].after)
          = (IF i = 1 THEN EndsAt(m, q) ELSE n[i-1].after)
    BY <1>1 DEF EndsAt
  <2> QED
    BY <2>1, <2>2 DEF Crosses
<1>4. ASSUME NEW i \in 1..Len(m) + Len(n), i \notin 1..Len(m)
      PROVE  /\ i - Len(m) \in 1..Len(n) /\ i > Len(m) /\ i \in Nat
             /\ (m \o n)[i] = n[i - Len(m)]
             /\ Crosses(l, m \o n, q, i) = Crosses(l, n, EndsAt(m, q), i - Len(m))
  <2>1. i - Len(m) \in 1..Len(n) /\ i > Len(m) /\ (i - Len(m)) + Len(m) = i
    BY <1>1, <1>4
  <2> QED
    BY <1>3, <2>1
<1>5. \A i \in 1..Len(m) : i \in 1..Len(m) + Len(n)
  BY <1>1
<1> QED
  BY <1>1, <1>2, <1>3, <1>4, <1>5 DEF Joins, Crossings

-----------------------------------------------------------------------------
(* The initial state.                                                      *)

LEMMA InitHInv == Init => HInv
<1> SUFFICES ASSUME Init PROVE HInv
  OBVIOUS
<1> USE LinesAssumption, SessionsAssumption
<1>1. OwnLine /\ Numbered
  BY DEF Init, OwnLine, Numbered
<1>2. Finite
  <2>1. {s \in Sessions : pc[s] # "idle"} = {}
    BY DEF Init
  <2> QED
    BY <2>1, FS_EmptySet DEF Finite
<1>3. ASSUME NEW s \in Sessions PROVE AtRest(s) /\ Follows(s) /\ Newer(s)
  BY DEF Init, AtRest, Follows, Newer, Active
<1>4. ASSUME NEW s \in Sessions PROVE StagedTold(s)
  <2> SUFFICES ASSUME NEW l \in Lines
               PROVE  /\ \A i \in DOMAIN moves[s][l] : moves[s][l][i].by = s
                      /\ Tell(About(events[s], l, {"stock.moved"}), News(moves[s][l]))
                      /\ Tell(About(events[s], l, EventKind \ {"stock.moved"}),
                              Crossings(l, moves[s][l], quantity[l]))
    BY DEF StagedTold
  <2>1. moves[s][l] = <<>> /\ events[s] = {}
    BY DEF Init, NoMoves
  <2>2. DOMAIN News(<<>>) = {} /\ DOMAIN Crossings(l, <<>>, quantity[l]) = {}
    BY DEF News, Crossings
  <2>3. About({}, l, {"stock.moved"}) = {}
        /\ About({}, l, EventKind \ {"stock.moved"}) = {}
    BY DEF About
  <2>4. /\ Tell({}, News(<<>>)) /\ Tell({}, Crossings(l, <<>>, quantity[l]))
    BY <2>2, NothingToTell
  <2>5. DOMAIN moves[s][l] = {}
    BY <2>1
  <2> QED
    BY <2>1, <2>3, <2>4, <2>5, Zenon
<1>5. ConservationOfStock
  <2>1. {s \in Sessions : pc[s] = "committed"} = {}
    BY DEF Init
  <2>2. \A l \in Lines : quantity[l] = OpeningStock[l] /\ OpeningStock[l] \in Nat
    BY DEF Init
  <2> QED
    BY <2>1, <2>2, SumOfNothing DEF ConservationOfStock
<1>6. ASSUME NEW l \in Lines
      PROVE  DOMAIN News(ledger[l]) = {} /\ DOMAIN Crossings(l, ledger[l], 0) = {}
  <2>1. ledger[l] = OpeningMovements(l) /\ OpeningStock[l] \in Nat /\ ReorderPoint[l] \in Nat
    BY DEF Init
  <2>2. CASE ledger[l] = <<>>
    BY <2>2 DEF News, Crossings
  <2>3. CASE ledger[l] # <<>>
    <3>1. /\ DOMAIN ledger[l] = {1} /\ ledger[l][1].by = NoSession
          /\ ledger[l][1].after = OpeningStock[l]
      BY <2>1, <2>3 DEF OpeningMovements
    <3>2. Crosses(l, ledger[l], 0, 1) = "nothing"
      BY <2>1, <3>1 DEF Crosses, Crossing
    <3> QED
      BY <3>1, <3>2 DEF News, Crossings
  <2> QED
    BY <2>2, <2>3
<1>7. \A l \in Lines : \A kinds : About(outbox, l, kinds) = {}
  BY DEF Init, About
<1>8. EventsTellTheLedger /\ ThresholdsMarkCrossings
  BY <1>6, <1>7, NothingToTell DEF EventsTellTheLedger, ThresholdsMarkCrossings
<1> QED
  BY <1>1, <1>2, <1>3, <1>4, <1>5, <1>8 DEF HInv

-----------------------------------------------------------------------------
(* Steps that change nothing but where a session is, or drop what it has.  *)

\* A session none of whose variables change, on lines whose level changes only
\* where it has staged nothing, goes on as before.
LEMMA FollowsStill ==
    ASSUME IInv, NEW s \in Sessions, Follows(s),
           /\ pc'[s] = pc[s] /\ plan'[s] = plan[s] /\ pos'[s] = pos[s]
           /\ moves'[s] = moves[s],
           \A l \in Lines : /\ quantity'[l] \in Nat
                            /\ moves[s][l] # <<>> => quantity'[l] = quantity[l]
    PROVE  Follows(s)'
<1> SUFFICES ASSUME pc[s] \in Active
             PROVE  \A l \in Lines : FollowsOn(s, l)'
  BY DEF Follows
<1> TAKE l \in Lines
<1>1. FollowsOn(s, l)
  BY DEF Follows
<1>2. CASE moves[s][l] # <<>>
  <2>1. quantity'[l] = quantity[l]
    BY <1>2
  <2>2. Visible(s, l)' = Visible(s, l)
    BY <2>1 DEF Visible
  <2> QED
    BY <1>1, <2>1, <2>2 DEF FollowsOn
<1>3. CASE moves[s][l] = <<>>
  <2> DEFINE q == quantity'[l]
             k == pos[s] - 1
  <2>1. /\ plan[s] \in Seq(Adjustment) /\ q \in Int /\ q >= 0
        /\ k \in 0..Len(plan[s])
    BY DEF IInv, TypeOK, CallInRange, Follows, Calling, Active
  <2>2. Spares(plan[s], l, k)
    BY <1>1, <1>3 DEF FollowsOn
  <2>3. Visible(s, l)' = q
    BY <1>3 DEF Visible, EndsAt
  <2> HIDE DEF q, k
  <2>4. Untouched(s, plan[s], l, q, k)
    BY <2>1, <2>2, UntouchedLine
  <2>5. k \in 0..k /\ \A i \in 1..k : i \in 0..k
    BY <2>1
  <2>6. /\ moves[s][l] = Atomic!Entries(s, plan[s], l, q)[k]
        /\ q = Atomic!Level(plan[s], l, q)[k]
        /\ \A i \in 1..k : Atomic!Level(plan[s], l, q)[i] >= 0
    BY <1>3, <2>1, <2>4, <2>5 DEF Untouched
  <2> QED
    BY <2>2, <2>3, <2>6 DEF FollowsOn, q, k
<1> QED
  BY <1>2, <1>3

\* What is told of an unchanged session on an unchanged level.
LEMMA ToldStill ==
    ASSUME NEW s \in Sessions, StagedTold(s),
           moves'[s] = moves[s], events'[s] = events[s],
           \A l \in Lines : moves[s][l] # <<>> => quantity'[l] = quantity[l]
    PROVE  StagedTold(s)'
<1> SUFFICES ASSUME NEW l \in Lines
             PROVE  /\ \A i \in DOMAIN moves'[s][l] : moves'[s][l][i].by = s
                    /\ Tell(About(events'[s], l, {"stock.moved"}), News(moves'[s][l]))
                    /\ Tell(About(events'[s], l, EventKind \ {"stock.moved"}),
                            Crossings(l, moves'[s][l], quantity'[l]))
  BY DEF StagedTold
<1>1. moves[s][l] = <<>> =>
         Crossings(l, moves[s][l], quantity'[l]) = Crossings(l, moves[s][l], quantity[l])
  <2>1. DOMAIN Crossings(l, <<>>, quantity[l]) = {}
        /\ DOMAIN Crossings(l, <<>>, quantity'[l]) = {}
    BY DEF Crossings
  <2> QED
    BY <2>1 DEF Crossings
<1> QED
  BY <1>1 DEF StagedTold

\* The committed tables say what they said.
LEMMA CommittedStill ==
    ASSUME HInv, UNCHANGED <<quantity, ledger, outbox, plan>>,
           {s \in Sessions : pc'[s] = "committed"} = {s \in Sessions : pc[s] = "committed"}
    PROVE  ConservationOfStock' /\ EventsTellTheLedger' /\ ThresholdsMarkCrossings'
BY DEF HInv, ConservationOfStock, ChangeOf, EventsTellTheLedger,
       ThresholdsMarkCrossings

\* A statement that only reads or locks.
LEMMA QuietStep ==
    ASSUME IInv, HInv, NEW s \in Sessions, pc[s] \in Calling,
           NEW x \in {"insert", "lock", "apply"}, pc' = [pc EXCEPT ![s] = x],
           UNCHANGED <<quantity, ledger, outbox, sequence, plan, pos, moves, events>>,
           Line(s) \in Tenant
    PROVE  HInv'
<1>1. /\ pc'[s] = x /\ \A t \in Sessions : t # s => pc'[t] = pc[t]
      /\ pc[s] \notin {"idle", "ready", "committed"}
  BY DEF IInv, TypeOK, Calling
<1>2. OwnLine'
  BY <1>1 DEF HInv, OwnLine, Line, Item
<1>3. Numbered'
  BY DEF HInv, Numbered
<1>4. Finite'
  <2>1. {t \in Sessions : pc'[t] # "idle"} = {t \in Sessions : pc[t] # "idle"}
    BY <1>1
  <2> QED
    BY <2>1 DEF HInv, Finite
<1>5. ASSUME NEW t \in Sessions
      PROVE  AtRest(t)' /\ Follows(t)' /\ Newer(t)' /\ StagedTold(t)'
  <2>1. AtRest(t) /\ Follows(t) /\ Newer(t) /\ StagedTold(t)
    BY DEF HInv
  <2>2. \A l \in Lines : FollowsOn(t, l) => FollowsOn(t, l)'
    BY DEF FollowsOn, Visible
  <2>3. Follows(t)'
    BY <1>1, <2>1, <2>2 DEF Follows, Calling, Active
  <2>4. AtRest(t)'
    BY <1>1, <2>1 DEF AtRest, Active
  <2>5. Newer(t)' /\ StagedTold(t)'
    BY <2>1 DEF Newer, StagedTold
  <2> QED
    BY <2>3, <2>4, <2>5
<1>6. {t \in Sessions : pc'[t] = "committed"} = {t \in Sessions : pc[t] = "committed"}
  BY <1>1
<1>7. ConservationOfStock' /\ EventsTellTheLedger' /\ ThresholdsMarkCrossings'
  BY <1>6, CommittedStill
<1> QED
  BY <1>2, <1>3, <1>4, <1>5, <1>7 DEF HInv

LEMMA NothingStaged ==
    ASSUME NEW s \in Sessions, moves'[s] = NoMoves, events'[s] = {}
    PROVE  StagedTold(s)'
<1> SUFFICES ASSUME NEW l \in Lines
             PROVE  /\ \A i \in DOMAIN moves'[s][l] : moves'[s][l][i].by = s
                    /\ Tell(About(events'[s], l, {"stock.moved"}), News(moves'[s][l]))
                    /\ Tell(About(events'[s], l, EventKind \ {"stock.moved"}),
                            Crossings(l, moves'[s][l], quantity'[l]))
  BY DEF StagedTold
<1>1. moves'[s][l] = <<>> /\ DOMAIN moves'[s][l] = {}
  BY DEF NoMoves
<1>2. DOMAIN News(<<>>) = {} /\ DOMAIN Crossings(l, <<>>, quantity'[l]) = {}
  BY DEF News, Crossings
<1>3. About({}, l, {"stock.moved"}) = {}
      /\ About({}, l, EventKind \ {"stock.moved"}) = {}
  BY DEF About
<1>4. /\ Tell({}, News(<<>>)) /\ Tell({}, Crossings(l, <<>>, quantity'[l]))
  BY <1>2, NothingToTell
<1> QED
  BY <1>1, <1>3, <1>4, Zenon

LEMMA RollbackKeepsHistory ==
    ASSUME IInv, HInv, NEW s \in Sessions, pc[s] \in Active, Rollback(s)
    PROVE  HInv'
<1>1. /\ pc'[s] = "rolled_back" /\ moves'[s] = NoMoves /\ events'[s] = {}
      /\ \A t \in Sessions : t # s => /\ pc'[t] = pc[t] /\ moves'[t] = moves[t]
                                     /\ events'[t] = events[t]
      /\ UNCHANGED <<quantity, ledger, outbox, sequence, plan, pos>>
      /\ pc[s] \notin {"idle", "committed"}
  BY DEF Rollback, Goto, database, IInv, TypeOK, Active
<1>2. OwnLine'
  BY <1>1 DEF HInv, OwnLine, Line, Item
<1>3. Numbered'
  BY <1>1 DEF HInv, Numbered
<1>4. Finite'
  <2>1. {t \in Sessions : pc'[t] # "idle"} = {t \in Sessions : pc[t] # "idle"}
    BY <1>1
  <2> QED
    BY <2>1 DEF HInv, Finite
<1>5. ASSUME NEW t \in Sessions
      PROVE  AtRest(t)' /\ Follows(t)' /\ Newer(t)' /\ StagedTold(t)'
  <2>1. AtRest(t) /\ Follows(t) /\ Newer(t) /\ StagedTold(t)
    BY DEF HInv
  <2>2. CASE t = s
    BY <1>1, <2>2, NothingStaged DEF AtRest, Follows, Newer, Active
  <2>3. CASE t # s
    <3>1. \A l \in Lines : quantity'[l] = quantity[l] /\ quantity'[l] \in Nat
      BY <1>1 DEF IInv, TypeOK
    <3>2. Follows(t)' /\ StagedTold(t)'
      BY <1>1, <2>1, <2>3, <3>1, FollowsStill, ToldStill
    <3>3. AtRest(t)' /\ Newer(t)'
      BY <1>1, <2>1, <2>3 DEF AtRest, Newer
    <3> QED
      BY <3>2, <3>3
  <2> QED
    BY <2>2, <2>3
<1>6. {t \in Sessions : pc'[t] = "committed"} = {t \in Sessions : pc[t] = "committed"}
  BY <1>1
<1>7. ConservationOfStock' /\ EventsTellTheLedger' /\ ThresholdsMarkCrossings'
  BY <1>1, <1>6, CommittedStill
<1> QED
  BY <1>2, <1>3, <1>4, <1>5, <1>7 DEF HInv

LEMMA FinitelyCommitted ==
    ASSUME Finite PROVE IsFiniteSet({t \in Sessions : pc[t] = "committed"})
<1>1. {t \in Sessions : pc[t] = "committed"} \subseteq {t \in Sessions : pc[t] # "idle"}
  OBVIOUS
<1> QED
  BY <1>1, FS_Subset DEF Finite

\* A request begins: its plan is new, and nothing is done yet.
LEMMA BeginKeepsHistory ==
    ASSUME IInv, HInv, NEW s \in Sessions, NEW p \in Plans, Begin(s, p)
    PROVE  HInv'
<1>1. /\ pc[s] = "idle" /\ pc'[s] \in {"find", "ready"}
      /\ plan'[s] = p /\ p \in Seq(Adjustment) /\ pos'[s] = 1
      /\ (pc'[s] = "ready" => Len(p) < 1)
      /\ \A t \in Sessions : t # s => pc'[t] = pc[t] /\ plan'[t] = plan[t]
      /\ UNCHANGED <<quantity, ledger, outbox, sequence, pos, moves, events>>
  BY PlansAssumption DEF Begin, Goto, NextCall, database, IInv, TypeOK, CallInRange
<1>2. OwnLine'
  BY <1>1 DEF HInv, OwnLine, Line, Item
<1>3. Numbered'
  BY <1>1 DEF HInv, Numbered
<1>4. Finite'
  <2>1. {t \in Sessions : pc'[t] # "idle"} = {t \in Sessions : pc[t] # "idle"} \cup {s}
    BY <1>1
  <2> QED
    BY <2>1, FS_AddElement DEF HInv, Finite
<1>5. ASSUME NEW t \in Sessions
      PROVE  AtRest(t)' /\ Follows(t)' /\ Newer(t)' /\ StagedTold(t)'
  <2>1. AtRest(t) /\ Follows(t) /\ Newer(t) /\ StagedTold(t)
    BY DEF HInv
  <2>2. \A l \in Lines : quantity'[l] = quantity[l] /\ quantity'[l] \in Nat
    BY <1>1 DEF IInv, TypeOK
  <2>3. Newer(t)' /\ StagedTold(t)'
    BY <1>1, <2>1, <2>2, ToldStill DEF Newer
  <2>4. CASE t # s
    BY <1>1, <2>1, <2>2, <2>3, <2>4, FollowsStill DEF AtRest
  <2>5. CASE t = s
    <3>1. moves[s] = NoMoves
      BY <1>1, <2>1, <2>5 DEF AtRest, Active
    <3>2. ASSUME NEW l \in Lines PROVE FollowsOn(s, l)'
      <4>1. quantity[l] \in Int
        BY <2>2
      <4>2. Enters(Atomic!Entries(s, p, l, quantity[l]), s, p, l,
                   Atomic!Level(p, l, quantity[l]))
        BY <1>1, <4>1, EntriesUnfold
      <4>3. Atomic!Level(p, l, quantity[l])[0] = quantity[l]
        BY <1>1, <4>1, LevelUnfolds
      <4>4. Atomic!Entries(s, p, l, quantity[l])[0] = <<>>
        BY <4>2 DEF Enters
      <4>5. moves'[s][l] = <<>> /\ Visible(s, l)' = quantity[l]
        BY <1>1, <2>2, <3>1 DEF NoMoves, Visible, EndsAt
      <4> QED
        BY <1>1, <2>2, <4>3, <4>4, <4>5 DEF FollowsOn, Spares
    <3>3. Len(p) \in Nat
      BY <1>1
    <3>4. Follows(s)' /\ AtRest(s)'
      BY <1>1, <3>2, <3>3 DEF Follows, AtRest, Active
    <3> QED
      BY <2>3, <2>5, <3>4
  <2> QED
    BY <2>4, <2>5
<1>6. DEFINE C == {t \in Sessions : pc[t] = "committed"}
<1>7. {t \in Sessions : pc'[t] = "committed"} = C /\ s \notin C
  BY <1>1
<1>8. ConservationOfStock'
  <2> SUFFICES ASSUME NEW l \in Lines
               PROVE  quantity[l] = OpeningStock[l]
                         + SumFunctionOnSet([t \in Sessions |-> ChangeOf(t, l)'], C)
    BY <1>1, <1>7 DEF ConservationOfStock
  <2> DEFINE f == [t \in Sessions |-> ChangeOf(t, l)]
             g == [t \in Sessions |-> ChangeOf(t, l)']
  <2>1. \A t \in C : f[t] \in Int /\ f[t] = g[t]
    <3> SUFFICES ASSUME NEW t \in C PROVE f[t] \in Int /\ f[t] = g[t]
      OBVIOUS
    <3>1. t \in Sessions /\ plan'[t] = plan[t]
      BY <1>1, <1>7
    <3>2. ChangeOf(t, l) \in Int
      BY <3>1, ChangeIsSum
    <3>3. ChangeOf(t, l)' = ChangeOf(t, l)
      BY <3>1 DEF ChangeOf
    <3> QED
      BY <3>1, <3>2, <3>3
  <2>2. IsFiniteSet(C)
    BY FinitelyCommitted DEF HInv
  <2>3. quantity[l] = OpeningStock[l] + SumFunctionOnSet(f, C)
    BY DEF HInv, ConservationOfStock
  <2> HIDE DEF f, g, C
  <2>4. SumFunctionOnSet(f, C) = SumFunctionOnSet(g, C)
    BY <2>1, <2>2, SumExtensional
  <2> QED
    BY <2>3, <2>4 DEF g
<1>9. EventsTellTheLedger' /\ ThresholdsMarkCrossings'
  BY <1>1 DEF HInv, EventsTellTheLedger, ThresholdsMarkCrossings
<1> QED
  BY <1>2, <1>3, <1>4, <1>5, <1>8, <1>9 DEF HInv
-----------------------------------------------------------------------------
(* The step that sets a level.                                             *)

\* A threshold event is announced when the level crosses, and for what it
\* crosses.
LEMMA AnnouncedIsCrossing ==
    ASSUME NEW l \in Lines, NEW before \in Nat, NEW after \in Nat
    PROVE  Thresholds(l, before, after) =
              IF Crossing(l, before, after) = "nothing" THEN {}
              ELSE {Crossing(l, before, after)}
<1>1. ReorderPoint[l] \in Nat
  BY LinesAssumption
<1> QED
  BY <1>1 DEF Thresholds, Crossing

LEMMA TellOne ==
    ASSUME NEW e, NEW listed, DOMAIN listed = {1}, Heard(e) = listed[1]
    PROVE  Tell({e}, listed)
<1> DEFINE told == [i \in DOMAIN listed |-> e]
<1>1. told \in [DOMAIN listed -> {e}]
  OBVIOUS
<1>2. \A i \in DOMAIN listed : i = 1 /\ told[i] = e
  OBVIOUS
<1>3. told[1] = e /\ 1 \in DOMAIN listed
  OBVIOUS
<1> HIDE DEF told
<1>4. ~(1 < 1)
  OBVIOUS
<1> QED
  BY <1>1, <1>2, <1>3, <1>4, Zenon DEF Tell

\* The movement ApplyLine stages, and the events it stages with it.
NewMovement(s) ==
    [by |-> s, change |-> Item(s).change, after |-> NewQuantity(s)]
NewMoved(s) == EventOf(s, sequence + 1, "stock.moved")
Crossed(s) == Thresholds(Line(s), seen[s], NewQuantity(s))
NewCrossed(s) == {EventOf(s, sequence + 2, k) : k \in Crossed(s)}

\* What ApplyLine does to the variables the history is about.
Applied(s) ==
    /\ pc'[s] \in {"find", "ready"}
    /\ pc'[s] = "ready" => pos[s] + 1 = Len(plan[s]) + 1
    /\ pos'[s] = pos[s] + 1
    /\ moves'[s][Line(s)] = Append(moves[s][Line(s)], NewMovement(s))
    /\ \A l \in Lines : l # Line(s) => moves'[s][l] = moves[s][l]
    /\ events'[s] = (events[s] \cup {NewMoved(s)}) \cup NewCrossed(s)
    /\ \A t \in Sessions : t # s => /\ pc'[t] = pc[t] /\ pos'[t] = pos[t]
                                   /\ moves'[t] = moves[t]
                                   /\ events'[t] = events[t]
    /\ UNCHANGED <<quantity, ledger, outbox, plan>>
    /\ sequence' \in {sequence + 1, sequence + 2}
    /\ Crossed(s) # {} => sequence' = sequence + 2

LEMMA ApplyEffect ==
    ASSUME IInv, NEW s \in Sessions, ApplyLine(s)
    PROVE  /\ Applied(s)
           /\ Line(s) \in Lines /\ Item(s).change \in Int
           /\ pos[s] \in 1..Len(plan[s]) /\ plan[s] \in Seq(Adjustment)
           /\ NewQuantity(s) \in Nat /\ sequence \in Nat
           /\ NewQuantity(s) = Visible(s, Line(s)) + Item(s).change
           /\ seen[s] = Visible(s, Line(s)) /\ seen[s] \in Nat
           /\ NewMovement(s) \in Movement
           /\ moves[s][Line(s)] \in Seq(Movement)
           /\ pc[s] = "apply"
<1>1. /\ Line(s) \in Lines /\ Item(s).change \in Int
      /\ pos[s] \in 1..Len(plan[s]) /\ plan[s] \in Seq(Adjustment)
      /\ pc[s] = "apply" /\ sequence \in Nat
  BY CallType DEF ApplyLine, Calling, IInv, TypeOK, CallInRange
<1>2. seen[s] = Visible(s, Line(s)) /\ seen[s] \in Nat /\ NewQuantity(s) >= 0
  BY <1>1, VisibleType DEF ApplyLine, IInv, ReadIsFresh
<1>3. NewQuantity(s) \in Nat /\ NewQuantity(s) = Visible(s, Line(s)) + Item(s).change
  BY <1>1, <1>2 DEF NewQuantity
<1>4. NewMovement(s) \in Movement
  BY <1>1, <1>3 DEF NewMovement, Movement
<1>5. moves[s][Line(s)] \in Seq(Movement)
  BY <1>1 DEF IInv, TypeOK
<1>6. /\ moves'[s][Line(s)] = Append(moves[s][Line(s)], NewMovement(s))
      /\ \A l \in Lines : l # Line(s) => moves'[s][l] = moves[s][l]
      /\ \A t \in Sessions : t # s => moves'[t] = moves[t]
  <2>1. moves' = [moves EXCEPT ![s][Line(s)] =
                     Append(moves[s][Line(s)], NewMovement(s))]
    BY DEF ApplyLine, SetLevel, NewMovement
  <2>2. moves \in [Sessions -> [Lines -> Seq(Movement)]]
    BY DEF IInv, TypeOK
  <2> QED
    BY <1>1, <2>1, <2>2
<1>7. /\ pc'[s] = NextCall(plan[s], pos[s] + 1) /\ pos'[s] = pos[s] + 1
      /\ \A t \in Sessions : t # s => pc'[t] = pc[t] /\ pos'[t] = pos[t]
      /\ UNCHANGED <<quantity, ledger, outbox, plan>>
  BY DEF ApplyLine, SetLevel, Goto, database, IInv, TypeOK
<1>8. /\ events'[s] = (events[s] \cup {NewMoved(s)}) \cup NewCrossed(s)
      /\ \A t \in Sessions : t # s => events'[t] = events[t]
  BY DEF ApplyLine, SetLevel, IInv, TypeOK, NewMoved, NewCrossed, Crossed
<1>9. sequence' = sequence + (IF Crossed(s) = {} THEN 1 ELSE 2)
  BY DEF ApplyLine, SetLevel, Crossed
<1>10. Applied(s)
  <2>1. /\ pc'[s] \in {"find", "ready"}
        /\ pc'[s] = "ready" => pos[s] + 1 = Len(plan[s]) + 1
    BY <1>1, <1>7 DEF NextCall
  <2>2. /\ sequence' \in {sequence + 1, sequence + 2}
        /\ Crossed(s) # {} => sequence' = sequence + 2
    BY <1>9
  <2> QED
    BY <1>6, <1>7, <1>8, <2>1, <2>2 DEF Applied
<1> QED
  BY <1>1, <1>2, <1>3, <1>4, <1>5, <1>10

\* The plan is carried out one adjustment further.
LEMMA ApplyFollows ==
    ASSUME IInv, HInv, NEW s \in Sessions, ApplyLine(s)
    PROVE  Follows(s)'
<1> DEFINE p == plan[s]
           k == pos[s]
<1>1. /\ Line(s) \in Lines /\ k \in 1..Len(p) /\ p \in Seq(Adjustment)
      /\ NewQuantity(s) \in Nat /\ moves[s][Line(s)] \in Seq(Movement)
      /\ NewQuantity(s) = Visible(s, Line(s)) + Item(s).change
      /\ NewMovement(s) \in Movement /\ pc[s] = "apply" /\ Item(s).change \in Int
  BY ApplyEffect
<1>2. Applied(s)
  BY ApplyEffect
<1>3. /\ pos'[s] = k + 1 /\ k + 1 - 1 = k /\ plan' = plan /\ quantity' = quantity
      /\ k - 1 \in 0..Len(p) /\ k \in Nat
      /\ moves'[s][Line(s)] = Append(moves[s][Line(s)], NewMovement(s))
      /\ \A l \in Lines : l # Line(s) => moves'[s][l] = moves[s][l]
  <2>1. k \in Nat /\ k - 1 \in 0..Len(p) /\ k + 1 - 1 = k
    BY <1>1
  <2> QED
    BY <1>2, <2>1 DEF Applied
<1>4. p[k].line = Line(s) /\ p[k].change = Item(s).change
  BY DEF Line, Item
<1>5. Line(s) \in Tenant /\ Follows(s)
  BY <1>1 DEF HInv, OwnLine
<1>6. ASSUME NEW l \in Lines PROVE FollowsOn(s, l)'
  <2> DEFINE q == quantity[l]
             level == Atomic!Level(p, l, q)
             e == Atomic!Entries(s, p, l, q)
  <2>1. /\ moves[s][l] = e[k-1] /\ Visible(s, l) = level[k-1]
        /\ \A i \in 1..k-1 : level[i] >= 0
        /\ moves[s][l] = <<>> => Spares(p, l, k-1)
    BY <1>1, <1>5 DEF Follows, FollowsOn, Active
  <2>2. q \in Int
    BY DEF IInv, TypeOK
  <2>3. level[k] = level[k-1] + Share(p, l, k)
    BY <1>1, <2>2, LevelUnfolds
  <2>4. Enters(e, s, p, l, level)
    BY <1>1, <2>2, EntriesUnfold
  <2> HIDE DEF level, e
  <2>5. e[k] = IF p[k].line = l
               THEN Append(e[k-1], [by |-> s, change |-> p[k].change, after |-> level[k]])
               ELSE e[k-1]
    BY <1>1, <2>4 DEF Enters
  <2>6. \A i \in 1..k : i \in 1..k-1 \/ i = k
    BY <1>3
  <2>7. CASE l = Line(s)
    <3>1. level[k] = NewQuantity(s)
      BY <1>1, <1>4, <2>1, <2>3, <2>7 DEF Share
    <3>2. moves'[s][l] = e[k]
      BY <1>3, <1>4, <2>1, <2>5, <2>7, <3>1 DEF NewMovement
    <3>3. /\ Append(moves[s][l], NewMovement(s)) # <<>>
          /\ EndsAt(Append(moves[s][l], NewMovement(s)), q) = NewQuantity(s)
      <4>1. /\ Append(moves[s][l], NewMovement(s)) # <<>>
            /\ Len(Append(moves[s][l], NewMovement(s))) = Len(moves[s][l]) + 1
            /\ Append(moves[s][l], NewMovement(s))[Len(moves[s][l]) + 1] = NewMovement(s)
        <5>1. moves[s][l] \in Seq(Movement) /\ NewMovement(s) \in Movement
          BY <1>1, <2>7
        <5> QED
          BY <5>1, AppendProperties
      <4> QED
        BY <4>1 DEF EndsAt, NewMovement
    <3>4. Visible(s, l)' = level[k] /\ moves'[s][l] # <<>>
      BY <1>3, <2>7, <3>1, <3>3 DEF Visible
    <3>5. \A i \in 1..k : level[i] >= 0
      BY <1>1, <2>1, <2>6, <3>1
    <3>6. pos'[s] - 1 = k /\ plan'[s] = p /\ quantity'[l] = q
      BY <1>3
    <3> HIDE DEF k, p, q
    <3> QED
      BY <3>2, <3>4, <3>5, <3>6 DEF FollowsOn, level, e
  <2>8. CASE l # Line(s)
    <3>1. level[k] = level[k-1] /\ e[k] = e[k-1]
      <4>1. Visible(s, l) \in Nat
        BY VisibleType DEF IInv
      <4> QED
        BY <1>4, <2>1, <2>3, <2>5, <2>8, <4>1 DEF Share
    <3>2. moves'[s][l] = e[k]
      BY <1>3, <2>1, <2>8, <3>1
    <3>3. Visible(s, l)' = level[k] /\ level[k] >= 0
      <4>1. Visible(s, l) \in Nat
        BY VisibleType DEF IInv
      <4>2. Visible(s, l)' = Visible(s, l)
        BY <1>3, <2>8 DEF Visible
      <4> QED
        BY <2>1, <3>1, <4>1, <4>2
    <3>4. \A i \in 1..k : level[i] >= 0
      BY <2>1, <2>6, <3>3
    <3>5. moves'[s][l] = <<>> => Spares(p, l, k)
      BY <1>3, <1>4, <2>1, <2>6, <2>8 DEF Spares
    <3> QED
      BY <1>3, <3>2, <3>3, <3>4, <3>5 DEF FollowsOn, level, e
  <2> QED
    BY <2>7, <2>8
<1>7. \A i \in 1..k : p[i].line \in Tenant
  <2>1. \A i \in 1..k-1 : p[i].line \in Tenant
    BY <1>1, <1>5 DEF Follows, Active
  <2>2. \A i \in 1..k : i \in 1..k-1 \/ i = k
    BY <1>3
  <2> QED
    BY <1>4, <1>5, <2>1, <2>2
<1>8. pc'[s] = "ready" => pos'[s] = Len(plan'[s]) + 1
  BY <1>2, <1>3 DEF Applied
<1> QED
  BY <1>3, <1>6, <1>7, <1>8 DEF Follows

\* The movement and its events are staged together and in order.
LEMMA ApplyTells ==
    ASSUME IInv, HInv, NEW s \in Sessions, ApplyLine(s)
    PROVE  StagedTold(s)'
<1> DEFINE m == moves[s][Line(s)]
           x == NewMovement(s)
           q == quantity[Line(s)]
<1>1. /\ Line(s) \in Lines /\ sequence \in Nat
      /\ NewQuantity(s) \in Nat /\ m \in Seq(Movement)
      /\ seen[s] = Visible(s, Line(s)) /\ seen[s] \in Nat
      /\ x \in Movement
  BY ApplyEffect
<1>2. Applied(s)
  BY ApplyEffect
<1>3. /\ StagedTold(s) /\ \A e \in events[s] : e.sequence <= sequence
      /\ events[s] \in SUBSET Event
  BY DEF HInv, Numbered, IInv, TypeOK
<1>4. quantity' = quantity
  BY <1>2 DEF Applied
<1>5. /\ NewMoved(s).line = Line(s) /\ NewMoved(s).kind = "stock.moved"
      /\ NewMoved(s).sequence = sequence + 1
      /\ Heard(NewMoved(s)) = Said("stock.moved", x)
  BY DEF NewMoved, EventOf, Heard, Said, NewMovement
<1>6. \A e \in NewCrossed(s) : e.line = Line(s) /\ e.kind \in Crossed(s)
                               /\ e.sequence = sequence + 2
  BY DEF NewCrossed, EventOf
<1>7. Crossed(s) \subseteq EventKind \ {"stock.moved"}
  BY DEF Crossed, Thresholds, EventKind
<1>8. ASSUME NEW l \in Lines, l # Line(s)
      PROVE  /\ \A i \in DOMAIN moves'[s][l] : moves'[s][l][i].by = s
             /\ Tell(About(events'[s], l, {"stock.moved"}), News(moves'[s][l]))
             /\ Tell(About(events'[s], l, EventKind \ {"stock.moved"}),
                     Crossings(l, moves'[s][l], quantity'[l]))
  <2>1. \A kinds : About(events'[s], l, kinds) = About(events[s], l, kinds)
    BY <1>2, <1>5, <1>6, <1>8 DEF Applied, About
  <2>2. moves'[s][l] = moves[s][l]
    BY <1>2, <1>8 DEF Applied
  <2> QED
    BY <1>3, <1>4, <2>1, <2>2 DEF StagedTold
<1>9. /\ moves'[s][Line(s)] = m \o <<x>> /\ <<x>> \in Seq(Movement)
      /\ DOMAIN <<x>> = {1} /\ <<x>>[1] = x /\ x.by = s
  <2>1. moves'[s][Line(s)] = Append(m, x)
    BY <1>2 DEF Applied
  <2>2. Append(m, x) = m \o <<x>>
    <3> HIDE DEF m, x
    <3> QED
      BY <1>1, AppendIsConcat
  <2>3. <<x>> \in Seq(Movement)
    BY <1>1
  <2> QED
    BY <2>1, <2>2, <2>3 DEF NewMovement
<1>10. \A i \in DOMAIN (m \o <<x>>) : (m \o <<x>>)[i].by = s
  <2>1. /\ DOMAIN (m \o <<x>>) = 1..Len(m) + 1 /\ Len(m) \in Nat
        /\ \A i \in 1..Len(m) + 1 :
              (m \o <<x>>)[i] = IF i <= Len(m) THEN m[i] ELSE <<x>>[i - Len(m)]
    <3> HIDE DEF m, x
    <3>1. Len(<<x>>) = 1
      OBVIOUS
    <3> QED
      BY <1>1, <1>9, <3>1, ConcatProperties
  <2>2. \A i \in 1..Len(m) : m[i].by = s
    BY <1>1, <1>3 DEF StagedTold
  <2> HIDE DEF m, x
  <2> QED
    BY <1>9, <2>1, <2>2
<1>11. Tell(About(events'[s], Line(s), {"stock.moved"}), News(m \o <<x>>))
  <2> DEFINE old == About(events[s], Line(s), {"stock.moved"})
  <2>1. About(events'[s], Line(s), {"stock.moved"}) = old \cup {NewMoved(s)}
    BY <1>2, <1>5, <1>6, <1>7 DEF Applied, About
  <2>2. Tell(old, News(m))
    BY <1>1, <1>3 DEF StagedTold
  <2>3. Tell({NewMoved(s)}, News(<<x>>))
    <3>1. DOMAIN News(<<x>>) = {1} /\ News(<<x>>)[1] = Said("stock.moved", x)
      BY <1>9, SessionsAssumption DEF News
    <3> QED
      BY <1>5, <3>1, TellOne
  <2>4. Joins(News(m \o <<x>>), News(m), Len(m), News(<<x>>))
    <3> HIDE DEF m, x
    <3> QED
      BY <1>1, <1>9, NewsJoin
  <2>5. /\ \A e \in old \cup {NewMoved(s)} : e.sequence \in Nat
        /\ \A e \in old, f \in {NewMoved(s)} : e.sequence < f.sequence
        /\ Len(m) \in Nat
    BY <1>1, <1>3, <1>5 DEF About, Event
  <2> HIDE DEF old, m, x
  <2>6. Tell(old \cup {NewMoved(s)}, News(m \o <<x>>))
    BY <2>2, <2>3, <2>4, <2>5, TellOn
  <2> QED
    BY <2>1, <2>6
<1>12. Tell(About(events'[s], Line(s), EventKind \ {"stock.moved"}),
            Crossings(Line(s), m \o <<x>>, q))
  <2> DEFINE old == About(events[s], Line(s), EventKind \ {"stock.moved"})
             later == Crossings(Line(s), <<x>>, EndsAt(m, q))
  <2>1. About(events'[s], Line(s), EventKind \ {"stock.moved"}) = old \cup NewCrossed(s)
    BY <1>2, <1>5, <1>6, <1>7 DEF Applied, About
  <2>2. Tell(old, Crossings(Line(s), m, q))
    BY <1>1, <1>3 DEF StagedTold
  <2>3. Tell(NewCrossed(s), later)
    <3> DEFINE c == Crossing(Line(s), seen[s], NewQuantity(s))
    <3>1. Crosses(Line(s), <<x>>, EndsAt(m, q), 1) = c
      BY <1>1, <1>9 DEF Crosses, Visible, NewMovement
    <3>2. Crossed(s) = IF c = "nothing" THEN {} ELSE {c}
      BY <1>1, AnnouncedIsCrossing DEF Crossed
    <3> HIDE DEF c
    <3>3. CASE c = "nothing"
      <4>1. NewCrossed(s) = {}
        BY <3>2, <3>3 DEF NewCrossed
      <4>2. DOMAIN later = {}
        BY <1>9, <3>1, <3>3 DEF Crossings
      <4> HIDE DEF later
      <4> QED
        BY <4>1, <4>2, NothingToTell
    <3>4. CASE c # "nothing"
      <4>1. NewCrossed(s) = {EventOf(s, sequence + 2, c)}
        BY <3>2, <3>4 DEF NewCrossed
      <4>2. DOMAIN later = {1} /\ later[1] = Said(c, x)
        BY <1>9, <3>1, <3>4 DEF Crossings
      <4>3. Heard(EventOf(s, sequence + 2, c)) = Said(c, x)
        BY DEF EventOf, Heard, Said, NewMovement
      <4> HIDE DEF later
      <4> QED
        BY <4>1, <4>2, <4>3, TellOne
    <3> QED
      BY <3>3, <3>4
  <2>4. Joins(Crossings(Line(s), m \o <<x>>, q), Crossings(Line(s), m, q), Len(m), later)
    <3> HIDE DEF m, x, q
    <3> QED
      BY <1>1, <1>9, CrossingsJoin
  <2>5. /\ \A e \in old \cup NewCrossed(s) : e.sequence \in Nat
        /\ \A e \in old, f \in NewCrossed(s) : e.sequence < f.sequence
        /\ Len(m) \in Nat
    BY <1>1, <1>3, <1>6 DEF About, Event
  <2> HIDE DEF old, later, m, x, q
  <2>6. Tell(old \cup NewCrossed(s), Crossings(Line(s), m \o <<x>>, q))
    BY <2>2, <2>3, <2>4, <2>5, TellOn
  <2> QED
    BY <2>1, <2>6
<1>13. /\ \A i \in DOMAIN moves'[s][Line(s)] : moves'[s][Line(s)][i].by = s
       /\ Tell(About(events'[s], Line(s), {"stock.moved"}), News(moves'[s][Line(s)]))
       /\ Tell(About(events'[s], Line(s), EventKind \ {"stock.moved"}),
               Crossings(Line(s), moves'[s][Line(s)], quantity'[Line(s)]))
  <2>1. moves'[s][Line(s)] = m \o <<x>> /\ quantity'[Line(s)] = q
    BY <1>4, <1>9
  <2> HIDE DEF m, x, q
  <2> QED
    BY <1>10, <1>11, <1>12, <2>1
<1> HIDE DEF m, x, q
<1> QED
  BY <1>8, <1>13 DEF StagedTold

LEMMA ApplyKeepsHistory ==
    ASSUME IInv, HInv, NEW s \in Sessions, ApplyLine(s)
    PROVE  HInv'
<1>1. Applied(s) /\ sequence \in Nat /\ pc[s] = "apply"
  BY ApplyEffect
<1>2. /\ pc'[s] \in {"find", "ready"} /\ pc[s] = "apply"
      /\ \A t \in Sessions : t # s => /\ pc'[t] = pc[t] /\ pos'[t] = pos[t]
                                     /\ moves'[t] = moves[t]
                                     /\ events'[t] = events[t]
      /\ UNCHANGED <<quantity, ledger, outbox, plan>>
  BY <1>1 DEF Applied
<1>3. OwnLine'
  BY <1>2 DEF HInv, OwnLine, Line, Item
<1>4. \A e \in events'[s] : \/ e \in events[s]
                            \/ e.sequence > sequence /\ e.sequence <= sequence'
  BY <1>1 DEF Applied, NewMoved, NewCrossed, EventOf
<1>5. sequence < sequence' /\ sequence' \in Nat
  BY <1>1 DEF Applied
<1>6. /\ \A e \in outbox : e.sequence \in Nat /\ e.sequence <= sequence
      /\ \A t \in Sessions : \A e \in events[t] : e.sequence \in Nat /\ e.sequence <= sequence
  <2>1. Numbered /\ outbox \subseteq Event /\ events \in [Sessions -> SUBSET Event]
    BY DEF HInv, IInv, TypeOK
  <2>2. \A e \in Event : e.sequence \in Nat
    BY DEF Event
  <2> QED
    BY <2>1, <2>2 DEF Numbered
<1>7. Numbered'
  <2>1. \A e \in outbox' : e.sequence <= sequence'
    BY <1>1, <1>2, <1>5, <1>6
  <2>2. ASSUME NEW t \in Sessions, NEW e \in events'[t] PROVE e.sequence <= sequence'
    <3>1. CASE e \in events[t]
      BY <1>1, <1>5, <1>6, <3>1
    <3>2. CASE e \notin events[t]
      BY <1>2, <1>4, <2>2, <3>2
    <3> QED
      BY <3>1, <3>2
  <2> QED
    BY <2>1, <2>2 DEF Numbered
<1>8. Finite'
  <2>1. {t \in Sessions : pc'[t] # "idle"} = {t \in Sessions : pc[t] # "idle"}
    BY <1>2
  <2> QED
    BY <2>1 DEF HInv, Finite
<1>9. ASSUME NEW t \in Sessions
      PROVE  AtRest(t)' /\ Follows(t)' /\ Newer(t)' /\ StagedTold(t)'
  <2>1. AtRest(t) /\ Follows(t) /\ Newer(t) /\ StagedTold(t)
    BY DEF HInv
  <2>2. CASE t = s
    <3>1. Newer(s)'
      <4> SUFFICES ASSUME NEW e \in events'[s], NEW f \in outbox', e.line = f.line
                   PROVE  f.sequence < e.sequence
        BY DEF Newer
      <4>1. f \in outbox
        BY <1>2
      <4>2. CASE e \in events[s]
        BY <2>1, <2>2, <4>1, <4>2 DEF Newer
      <4>3. CASE e \notin events[s]
        <5>1. f.sequence \in Nat /\ f.sequence <= sequence
          BY <1>6, <4>1
        <5>2. e.sequence \in {sequence + 1, sequence + 2}
          BY <1>1, <4>3 DEF Applied, NewMoved, NewCrossed, EventOf
        <5> QED
          BY <1>1, <5>1, <5>2
      <4> QED
        BY <4>2, <4>3
    <3>2. AtRest(s)'
      BY <1>2 DEF AtRest, Active
    <3> QED
      BY <2>2, <3>1, <3>2, ApplyFollows, ApplyTells
  <2>3. CASE t # s
    <3>1. \A l \in Lines : quantity'[l] = quantity[l] /\ quantity'[l] \in Nat
      BY <1>2 DEF IInv, TypeOK
    <3>2. Follows(t)' /\ StagedTold(t)'
      BY <1>2, <2>1, <2>3, <3>1, FollowsStill, ToldStill
    <3>3. AtRest(t)' /\ Newer(t)'
      BY <1>2, <2>1, <2>3 DEF AtRest, Newer
    <3> QED
      BY <3>2, <3>3
  <2> QED
    BY <2>2, <2>3
<1>10. {t \in Sessions : pc'[t] = "committed"} = {t \in Sessions : pc[t] = "committed"}
  BY <1>2
<1>11. ConservationOfStock' /\ EventsTellTheLedger' /\ ThresholdsMarkCrossings'
  BY <1>2, <1>10, CommittedStill
<1> QED
  BY <1>3, <1>7, <1>8, <1>9, <1>11 DEF HInv

-----------------------------------------------------------------------------
(* Commit: what was staged becomes history.                                *)

\* What Commit does to the variables the history is about.
Settled(s) ==
    /\ pc[s] = "ready" /\ pc'[s] = "committed"
    /\ moves'[s] = NoMoves /\ events'[s] = {}
    /\ \A t \in Sessions : t # s => /\ pc'[t] = pc[t] /\ moves'[t] = moves[t]
                                   /\ events'[t] = events[t]
    /\ \A l \in Lines : /\ quantity'[l] = Visible(s, l)
                        /\ ledger'[l] = ledger[l] \o moves[s][l]
    /\ outbox' = outbox \cup events[s]
    /\ UNCHANGED <<sequence, plan, pos>>

LEMMA CommitEffect ==
    ASSUME IInv, NEW s \in Sessions, Commit(s)
    PROVE  Settled(s)
BY DEF IInv, TypeOK, Commit, Goto, Settled

\* Only what was moved is talked about.
LEMMA ToldHasMoved ==
    ASSUME NEW t \in Sessions, StagedTold(t), events[t] \in SUBSET Event,
           NEW e \in events[t]
    PROVE  e.line \in Lines /\ moves[t][e.line] # <<>>
<1>1. e.line \in Lines /\ e.kind \in EventKind
  BY DEF Event
<1> SUFFICES ASSUME moves[t][e.line] = <<>> PROVE FALSE
  BY <1>1
<1>2. /\ DOMAIN News(<<>>) = {}
      /\ DOMAIN Crossings(e.line, <<>>, quantity[e.line]) = {}
  BY DEF News, Crossings
<1>3. /\ Tell(About(events[t], e.line, {"stock.moved"}), News(<<>>))
      /\ Tell(About(events[t], e.line, EventKind \ {"stock.moved"}),
              Crossings(e.line, <<>>, quantity[e.line]))
  BY <1>1 DEF StagedTold
<1>4. /\ About(events[t], e.line, {"stock.moved"}) = {}
      /\ About(events[t], e.line, EventKind \ {"stock.moved"}) = {}
  BY <1>2, <1>3, NothingToTell
<1>5. \/ e \in About(events[t], e.line, {"stock.moved"})
      \/ e \in About(events[t], e.line, EventKind \ {"stock.moved"})
  BY <1>1 DEF About
<1> QED
  BY <1>4, <1>5

\* Two sessions never have something staged on the same line.
LEMMA Apart ==
    ASSUME IInv, NEW s \in Sessions, NEW t \in Sessions, t # s,
           NEW l \in Lines, moves[t][l] # <<>>
    PROVE  moves[s][l] = <<>> /\ Visible(s, l) = quantity[l]
<1>1. lock[l] = t /\ (moves[s][l] # <<>> => lock[l] = s)
  BY DEF IInv, StagedUnderLock
<1> QED
  BY <1>1 DEF Visible, EndsAt

\* The sessions that go on do so as before.
LEMMA CommitLeavesOthers ==
    ASSUME IInv, HInv, NEW s \in Sessions, Commit(s),
           NEW t \in Sessions, t # s
    PROVE  AtRest(t)' /\ Follows(t)' /\ Newer(t)' /\ StagedTold(t)'
<1>1. Settled(s)
  BY CommitEffect
<1>2. AtRest(t) /\ Follows(t) /\ Newer(t) /\ StagedTold(t) /\ StagedTold(s)
  BY DEF HInv
<1>3. /\ pc'[t] = pc[t] /\ plan'[t] = plan[t] /\ pos'[t] = pos[t]
      /\ moves'[t] = moves[t] /\ events'[t] = events[t]
  BY <1>1 DEF Settled
<1>4. \A l \in Lines : /\ quantity'[l] \in Nat
                       /\ moves[t][l] # <<>> => quantity'[l] = quantity[l]
  BY <1>1, VisibleType, Apart DEF Settled, IInv
<1>5. Follows(t)' /\ StagedTold(t)'
  BY <1>2, <1>3, <1>4, FollowsStill, ToldStill
<1>6. AtRest(t)'
  BY <1>2, <1>3 DEF AtRest
<1>7. Newer(t)'
  <2> SUFFICES ASSUME NEW e \in events[t], NEW f \in outbox \cup events[s],
                      e.line = f.line
               PROVE  f.sequence < e.sequence
    BY <1>1, <1>3 DEF Settled, Newer
  <2>1. CASE f \in outbox
    BY <1>2, <2>1 DEF Newer
  <2>2. CASE f \in events[s]
    <3>1. events[t] \in SUBSET Event /\ events[s] \in SUBSET Event
      BY DEF IInv, TypeOK
    <3>2. e.line \in Lines /\ moves[t][e.line] # <<>>
      BY <1>2, <3>1, ToldHasMoved
    <3>3. moves[s][f.line] # <<>>
      BY <1>2, <2>2, <3>1, ToldHasMoved
    <3> QED
      BY <3>2, <3>3, Apart
  <2> QED
    BY <2>1, <2>2
<1> QED
  BY <1>5, <1>6, <1>7

\* The stock changes by what the request asked, all of it.
LEMMA CommitChanges ==
    ASSUME IInv, HInv, NEW s \in Sessions, Commit(s), NEW l \in Lines
    PROVE  quantity'[l] = quantity[l] + ChangeOf(s, l)
<1>1. Settled(s)
  BY CommitEffect
<1>2. /\ plan[s] \in Seq(Adjustment) /\ quantity[l] \in Int
      /\ pos[s] - 1 = Len(plan[s]) /\ Len(plan[s]) \in 0..Len(plan[s])
  BY <1>1 DEF Settled, HInv, Follows, Active, IInv, TypeOK
<1>3. Visible(s, l) = Atomic!Level(plan[s], l, quantity[l])[pos[s] - 1]
  BY <1>1 DEF Settled, HInv, Follows, FollowsOn, Active
<1>4. Atomic!Level(plan[s], l, quantity[l])[Len(plan[s])]
         = quantity[l] + Adds(plan[s], l, Len(plan[s]))
  BY <1>2, LevelIsSum
<1>5. quantity'[l] = Visible(s, l)
  BY <1>1 DEF Settled
<1>6. ChangeOf(s, l) = Adds(plan[s], l, Len(plan[s]))
  BY ChangeIsSum
<1> QED
  BY <1>2, <1>3, <1>4, <1>5, <1>6

LEMMA CommitConserves ==
    ASSUME IInv, HInv, NEW s \in Sessions, Commit(s)
    PROVE  ConservationOfStock'
<1> DEFINE C == {t \in Sessions : pc[t] = "committed"}
<1>1. Settled(s)
  BY CommitEffect
<1>2. {t \in Sessions : pc'[t] = "committed"} = C \cup {s} /\ s \notin C
  BY <1>1 DEF Settled
<1>3. IsFiniteSet(C)
  BY FinitelyCommitted DEF HInv
<1> SUFFICES ASSUME NEW l \in Lines
             PROVE  quantity'[l] = OpeningStock[l]
                       + SumFunctionOnSet([t \in Sessions |-> ChangeOf(t, l)'], C \cup {s})
  BY <1>2 DEF ConservationOfStock
<1> DEFINE f == [t \in Sessions |-> ChangeOf(t, l)]
<1>4. [t \in Sessions |-> ChangeOf(t, l)'] = f
  <2>1. plan' = plan
    BY <1>1 DEF Settled
  <2> QED
    BY <2>1 DEF ChangeOf
<1>5. \A t \in C \cup {s} : f[t] \in Int
  <2>1. \A t \in Sessions : ChangeOf(t, l) \in Int
    BY ChangeIsSum
  <2> QED
    BY <2>1
<1>6. quantity[l] = OpeningStock[l] + SumFunctionOnSet(f, C)
  BY DEF HInv, ConservationOfStock
<1>7. quantity'[l] = quantity[l] + f[s]
  <2>1. quantity'[l] = quantity[l] + ChangeOf(s, l) /\ f[s] = ChangeOf(s, l)
    BY CommitChanges
  <2> QED
    BY <2>1
<1> HIDE DEF f, C
<1>8. SumFunctionOnSet(f, C \cup {s}) = SumFunctionOnSet(f, C) + f[s]
  BY <1>2, <1>3, <1>5, SumAdds
<1>9. SumFunctionOnSet(f, C) \in Int /\ f[s] \in Int /\ OpeningStock[l] \in Int
  BY <1>3, <1>5, SumType, LinesAssumption
<1> QED
  BY <1>4, <1>6, <1>7, <1>8, <1>9

\* The outbox goes on where it was.
LEMMA CommitTells ==
    ASSUME IInv, HInv, NEW s \in Sessions, Commit(s)
    PROVE  EventsTellTheLedger' /\ ThresholdsMarkCrossings'
<1>1. Settled(s)
  BY CommitEffect
<1>2. ASSUME NEW l \in Lines
      PROVE  /\ Tell(About(outbox', l, {"stock.moved"}), News(ledger'[l]))
             /\ Tell(About(outbox', l, EventKind \ {"stock.moved"}),
                     Crossings(l, ledger'[l], 0))
  <2> DEFINE m == ledger[l]
             n == moves[s][l]
             old(kinds) == About(outbox, l, kinds)
             new(kinds) == About(events[s], l, kinds)
             moved == {"stock.moved"}
             crossed == EventKind \ {"stock.moved"}
  <2>1. /\ m \in Seq(Movement) /\ n \in Seq(Movement) /\ Len(m) \in Nat
        /\ EndsAt(m, 0) = quantity[l]
        /\ outbox \subseteq Event /\ events[s] \subseteq Event
    BY DEF IInv, TypeOK, LedgerExplainsStock
  <2>2. /\ Tell(old(moved), News(m)) /\ Tell(old(crossed), Crossings(l, m, 0))
        /\ Tell(new(moved), News(n)) /\ Tell(new(crossed), Crossings(l, n, quantity[l]))
    BY DEF HInv, EventsTellTheLedger, ThresholdsMarkCrossings, StagedTold
  <2>3. ASSUME NEW kinds
        PROVE  /\ About(outbox', l, kinds) = old(kinds) \cup new(kinds)
               /\ \A e \in old(kinds) \cup new(kinds) : e.sequence \in Nat
               /\ \A e \in old(kinds), f \in new(kinds) : e.sequence < f.sequence
    <3>1. About(outbox', l, kinds) = old(kinds) \cup new(kinds)
      BY <1>1 DEF Settled, About
    <3>2. \A e \in old(kinds) \cup new(kinds) : e.sequence \in Nat
      BY <2>1 DEF Event, About
    <3>3. Newer(s)
      BY DEF HInv
    <3>4. \A e \in old(kinds), f \in new(kinds) : e.sequence < f.sequence
      BY <3>3 DEF Newer, About
    <3> QED
      BY <3>1, <3>2, <3>4
  <2>4. ledger'[l] = m \o n
    BY <1>1 DEF Settled
  <2> HIDE DEF m, n, moved, crossed
  <2>5. Joins(News(m \o n), News(m), Len(m), News(n))
    BY <2>1, NewsJoin
  <2>6. Joins(Crossings(l, m \o n, 0), Crossings(l, m, 0), Len(m),
              Crossings(l, n, quantity[l]))
    <3>1. Joins(Crossings(l, m \o n, 0), Crossings(l, m, 0), Len(m),
                Crossings(l, n, EndsAt(m, 0)))
      BY <2>1, CrossingsJoin
    <3> QED
      BY <2>1, <3>1
  <2> HIDE DEF old, new
  <2>7. Tell(old(moved) \cup new(moved), News(m \o n))
    BY <2>1, <2>2, <2>3, <2>5, TellOn
  <2>8. Tell(old(crossed) \cup new(crossed), Crossings(l, m \o n, 0))
    BY <2>1, <2>2, <2>3, <2>6, TellOn
  <2>9. /\ Tell(About(outbox', l, moved), News(ledger'[l]))
        /\ Tell(About(outbox', l, crossed), Crossings(l, ledger'[l], 0))
    BY <2>3, <2>4, <2>7, <2>8
  <2> QED
    BY <2>9 DEF moved, crossed
<1> QED
  BY <1>2 DEF EventsTellTheLedger, ThresholdsMarkCrossings

LEMMA CommitKeepsHistory ==
    ASSUME IInv, HInv, NEW s \in Sessions, Commit(s)
    PROVE  HInv'
<1>1. Settled(s)
  BY CommitEffect
<1>2. OwnLine'
  BY <1>1 DEF Settled, HInv, OwnLine, Line, Item
<1>3. Numbered'
  <2>1. /\ outbox' = outbox \cup events[s] /\ sequence' = sequence
        /\ \A t \in Sessions : events'[t] = {} \/ events'[t] = events[t]
    BY <1>1 DEF Settled
  <2> QED
    BY <2>1 DEF HInv, Numbered
<1>4. Finite'
  <2>1. {t \in Sessions : pc'[t] # "idle"} = {t \in Sessions : pc[t] # "idle"}
    BY <1>1 DEF Settled
  <2> QED
    BY <2>1 DEF HInv, Finite
<1>5. ASSUME NEW t \in Sessions
      PROVE  AtRest(t)' /\ Follows(t)' /\ Newer(t)' /\ StagedTold(t)'
  <2>1. CASE t = s
    <3>1. pc'[s] = "committed" /\ moves'[s] = NoMoves /\ events'[s] = {}
      BY <1>1 DEF Settled
    <3> QED
      BY <2>1, <3>1, NothingStaged DEF AtRest, Follows, Newer, Active
  <2>2. CASE t # s
    BY <2>2, CommitLeavesOthers
  <2> QED
    BY <2>1, <2>2
<1> QED
  BY <1>2, <1>3, <1>4, <1>5, CommitConserves, CommitTells DEF HInv

-----------------------------------------------------------------------------
(* Every step keeps the history.                                           *)

\* A step of a session either begins a request, only reads and locks, sets a
\* level, or ends the transaction.
LEMMA KindsOfStep ==
    ASSUME IInv, HInv, NEW s \in Sessions, Adjust(s) \/ Interrupt(s)
    PROVE  \/ /\ pc[s] \in Active /\ Rollback(s)
           \/ /\ pc[s] \in Calling /\ Line(s) \in Tenant
              /\ \E x \in {"insert", "lock", "apply"} : pc' = [pc EXCEPT ![s] = x]
              /\ UNCHANGED <<quantity, ledger, outbox, sequence, plan, pos, moves, events>>
           \/ ApplyLine(s)
<1>1. CASE Adjust(s)
  <2>1. CASE RefuseForeignLine(s) \/ InsertConflict(s) \/ RefuseShortage(s)
    BY <2>1 DEF RefuseForeignLine, InsertConflict, RefuseShortage, Active
  <2>2. CASE FindLine(s)
    <3>1. pc' = [pc EXCEPT ![s] = IF Line(s) \in present \/ lock[Line(s)] = s
                                  THEN "lock" ELSE "insert"]
      BY <2>2 DEF FindLine, Goto
    <3> QED
      BY <2>2, <3>1 DEF FindLine, database, Calling
  <2>3. CASE InsertLine(s)
    BY <2>3 DEF InsertLine, Goto, database, Calling, HInv, OwnLine
  <2>4. CASE LockLine(s)
    BY <2>4 DEF LockLine, Goto, database, Calling, HInv, OwnLine
  <2> QED
    BY <1>1, <2>1, <2>2, <2>3, <2>4 DEF Adjust
<1>2. CASE Interrupt(s)
  BY <1>2 DEF Interrupt, DeadlockAbort, Fail, Deadlocked, Blocked, Active
<1> QED
  BY <1>1, <1>2

LEMMA NextHInv == IInv /\ HInv /\ [Next]_vars => HInv'
<1> SUFFICES ASSUME IInv, HInv, [Next]_vars PROVE HInv'
  OBVIOUS
<1>1. ASSUME NEW s \in Sessions, NEW p \in Plans, Begin(s, p) PROVE HInv'
  BY <1>1, BeginKeepsHistory
<1>2. ASSUME NEW s \in Sessions, Adjust(s) \/ Interrupt(s) PROVE HInv'
  <2>1. CASE pc[s] \in Active /\ Rollback(s)
    BY <2>1, RollbackKeepsHistory
  <2>2. ASSUME pc[s] \in Calling, Line(s) \in Tenant,
               NEW x \in {"insert", "lock", "apply"}, pc' = [pc EXCEPT ![s] = x],
               UNCHANGED <<quantity, ledger, outbox, sequence, plan, pos, moves, events>>
        PROVE  HInv'
    BY <2>2, QuietStep
  <2>3. CASE ApplyLine(s)
    BY <2>3, ApplyKeepsHistory
  <2> QED
    BY <1>2, <2>1, <2>2, <2>3, KindsOfStep
<1>3. ASSUME NEW s \in Sessions, Commit(s) PROVE HInv'
  BY <1>3, CommitKeepsHistory
<1>4. CASE UNCHANGED vars
  <2>1. ASSUME NEW t \in Sessions
        PROVE  AtRest(t)' /\ Follows(t)' /\ Newer(t)' /\ StagedTold(t)'
    BY <1>4 DEF vars, HInv, AtRest, Follows, FollowsOn, Visible, Newer, StagedTold
  <2>2. OwnLine' /\ Numbered' /\ Finite'
    BY <1>4 DEF vars, HInv, OwnLine, Line, Item, Numbered, Finite
  <2>3. ConservationOfStock' /\ EventsTellTheLedger' /\ ThresholdsMarkCrossings'
    BY <1>4, CommittedStill DEF vars
  <2> QED
    BY <2>1, <2>2, <2>3 DEF HInv
<1> QED
  BY <1>1, <1>2, <1>3, <1>4 DEF Next

\* The invariants of the ledger and of its history hold together.
THEOREM History == Spec => [](IInv /\ HInv)
<1>1. Init => IInv /\ HInv
  BY InitIInv, InitHInv
<1>2. (IInv /\ HInv) /\ [Next]_vars => (IInv /\ HInv)'
  BY NextIInv, NextHInv
<1> QED
  BY <1>1, <1>2, PTL DEF Spec

\* No unit appears or disappears, whatever the sessions and their plans: the
\* stock of every line is what it opened with plus what the requests that
\* committed asked for, whole requests and nothing else.
THEOREM StockIsConserved == Spec => []ConservationOfStock
<1>1. HInv => ConservationOfStock
  BY DEF HInv
<1> QED
  BY <1>1, History, PTL

\* The outbox tells every committed movement once, in the order of the ledger,
\* and nothing a rollback took back.
THEOREM OutboxTellsTheLedger == Spec => []EventsTellTheLedger
<1>1. HInv => EventsTellTheLedger
  BY DEF HInv
<1> QED
  BY <1>1, History, PTL

\* Depletion and reorder events mark exactly the crossings of the committed
\* level.
THEOREM OutboxMarksTheCrossings == Spec => []ThresholdsMarkCrossings
<1>1. HInv => ThresholdsMarkCrossings
  BY DEF HInv
<1> QED
  BY <1>1, History, PTL

-----------------------------------------------------------------------------
(* The refinement.                                                         *)

Answer == [s \in Sessions |-> IF pc[s] \in Active THEN "open" ELSE pc[s]]

LEMMA InitIsAtomic == Init => Atomic!Init
<1> SUFFICES ASSUME Init PROVE Atomic!Init
  OBVIOUS
<1>1. \A l \in Lines : OpeningMovements(l) = Atomic!Opening(l)
  BY DEF OpeningMovements, Atomic!Opening
<1>2. [s \in Sessions |-> IF pc[s] \in Active THEN "open" ELSE pc[s]]
         = [s \in Sessions |-> "idle"]
  BY DEF Init, Active
<1> QED
  BY <1>1, <1>2 DEF Init, Atomic!Init

\* A commit carries out the whole plan, from the levels it finds.
LEMMA CommitPerforms ==
    ASSUME IInv, HInv, NEW s \in Sessions, Commit(s)
    PROVE  Atomic!Perform(s)
<1> DEFINE p == plan[s]
<1>1. /\ pc[s] = "ready" /\ pc' = [pc EXCEPT ![s] = "committed"]
      /\ quantity' = [l \in Lines |-> Visible(s, l)]
      /\ ledger' = [l \in Lines |-> ledger[l] \o moves[s][l]]
      /\ plan' = plan
  BY DEF Commit, Goto
<1>2. /\ pos[s] - 1 = Len(p) /\ \A i \in 1..Len(p) : p[i].line \in Tenant
  BY <1>1 DEF HInv, Follows, Active, IInv, TypeOK
<1>3. ASSUME NEW l \in Lines
      PROVE  /\ moves[s][l] = Atomic!Entries(s, p, l, quantity[l])[Len(p)]
             /\ Visible(s, l) = Atomic!Level(p, l, quantity[l])[Len(p)]
             /\ \A i \in 1..Len(p) : Atomic!Level(p, l, quantity[l])[i] >= 0
  BY <1>1, <1>2 DEF HInv, Follows, FollowsOn, Active
<1>4. /\ Answer[s] = "open" /\ Answer' = [Answer EXCEPT ![s] = "committed"]
  BY <1>1 DEF Answer, Active, IInv, TypeOK
<1>5. /\ quantity' = [l \in Lines |-> Atomic!Level(p, l, quantity[l])[Len(p)]]
      /\ ledger' = [l \in Lines |->
                       ledger[l] \o Atomic!Entries(s, p, l, quantity[l])[Len(p)]]
  BY <1>1, <1>3
<1> QED
  BY <1>1, <1>2, <1>3, <1>4, <1>5 DEF Atomic!Perform, Answer

LEMMA StepIsAtomic ==
    ASSUME IInv, HInv, [Next]_vars PROVE [Atomic!Next]_(Atomic!vars)
<1>1. ASSUME NEW s \in Sessions, NEW p \in Plans, Begin(s, p) PROVE Atomic!Ask(s, p)
  <2>1. /\ pc[s] = "idle" /\ plan' = [plan EXCEPT ![s] = p]
        /\ pc' = [pc EXCEPT ![s] = NextCall(p, 1)]
        /\ UNCHANGED <<quantity, ledger>>
    BY <1>1 DEF Begin, Goto, database
  <2>2. Answer[s] = "idle" /\ Answer' = [Answer EXCEPT ![s] = "open"]
    BY <2>1 DEF Answer, NextCall, Active, IInv, TypeOK
  <2> QED
    BY <2>1, <2>2 DEF Atomic!Ask, Answer
<1>2. ASSUME NEW s \in Sessions, pc[s] \in Active, Rollback(s) PROVE Atomic!Refuse(s)
  <2>1. /\ pc' = [pc EXCEPT ![s] = "rolled_back"] /\ UNCHANGED <<quantity, ledger, plan>>
    BY <1>2 DEF Rollback, Goto, database
  <2>2. Answer[s] = "open" /\ Answer' = [Answer EXCEPT ![s] = "rolled_back"]
    BY <1>2, <2>1 DEF Answer, Active, IInv, TypeOK
  <2> QED
    BY <2>1, <2>2 DEF Atomic!Refuse, Answer
<1>3. ASSUME NEW s \in Sessions, pc[s] \in Active,
             NEW x \in Active, pc' = [pc EXCEPT ![s] = x],
             UNCHANGED <<quantity, ledger, plan>>
      PROVE  UNCHANGED Atomic!vars
  <2>1. Answer' = Answer
    BY <1>3 DEF Answer, IInv, TypeOK
  <2> QED
    BY <1>3, <2>1 DEF Atomic!vars, Answer
<1>4. ASSUME NEW s \in Sessions, ApplyLine(s) PROVE UNCHANGED Atomic!vars
  <2>1. /\ pc[s] \in Active /\ UNCHANGED <<quantity, ledger, plan>>
        /\ pc' = [pc EXCEPT ![s] = NextCall(plan[s], pos[s] + 1)]
        /\ NextCall(plan[s], pos[s] + 1) \in Active
    BY <1>4 DEF ApplyLine, SetLevel, Goto, NextCall, database, Active
  <2> QED
    BY <1>3, <2>1
<1>5. ASSUME NEW s \in Sessions, Adjust(s) \/ Interrupt(s)
      PROVE  Atomic!Refuse(s) \/ UNCHANGED Atomic!vars
  <2>1. \/ /\ pc[s] \in Active /\ Rollback(s)
        \/ /\ pc[s] \in Active
           /\ \E x \in Active : pc' = [pc EXCEPT ![s] = x]
           /\ UNCHANGED <<quantity, ledger, plan>>
        \/ ApplyLine(s)
    BY <1>5, KindsOfStep DEF Calling, Active
  <2> QED
    BY <1>2, <1>3, <1>4, <2>1
<1>6. CASE UNCHANGED vars
  BY <1>6 DEF vars, Atomic!vars
<1> QED
  BY <1>1, <1>5, <1>6, CommitPerforms DEF Next, Atomic!Next

\* Whatever the interleaving, the failures and the deadlocks, the stock core
\* does what AtomicStock does: a request takes effect at its commit, as if it
\* were alone, or not at all.
THEOREM StockIsAtomic == Spec => RequestsAreAtomic
<1>1. Init => Atomic!Init
  BY InitIsAtomic
<1>2. IInv /\ HInv /\ [Next]_vars => [Atomic!Next]_(Atomic!vars)
  BY StepIsAtomic
<1> QED
  BY <1>1, <1>2, History, PTL DEF Spec, RequestsAreAtomic, Atomic!Spec

-----------------------------------------------------------------------------
(* Refinement.                                                             *)

\* Every request is one that StockLedger allows.
LEMMA RequestBegins ==
    ASSUME NEW s \in Sessions, NEW d \in Docs, Request(s, d)
    PROVE  \E p \in Plans : Begin(s, p)
  BY ContentAssumption DEF Request, Deliver, Ship, Complete, Approve, Reject,
     Sell, Scan, CarryOut

LEMMA DocumentStep == [DocNext]_allVars => [Next]_vars
<1> SUFFICES ASSUME DocNext PROVE [Next]_vars
  BY DEF allVars
<1>1. CASE \E d \in Docs : CreateOrder(d) \/ CreateTransfer(d) \/ CreateCount(d)
  BY <1>1 DEF CreateOrder, CreateTransfer, CreateCount, Create
<1>2. CASE \E s \in Sessions, d \in Docs : Request(s, d)
  BY <1>2, RequestBegins DEF Next
<1>3. CASE \E s \in Sessions : Adjust(s) \/ Interrupt(s)
  BY <1>3 DEF Next
<1>4. CASE \E s \in Sessions : Finish(s)
  BY <1>4 DEF Next, Finish
<1> QED
  BY <1>1, <1>2, <1>3, <1>4 DEF DocNext

\* Every step of a document handler is a step of the stock core, by the way
\* the handlers are built on it: what is proved there can be cited here.
LEMMA DocumentsAreStock == DocSpec => Spec
<1>1. DocInit => Init
  BY DEF DocInit
<1> QED
  BY <1>1, DocumentStep, PTL DEF DocSpec, Spec

\* Whatever orders, transfers, counts, sales and scans do concurrently, the
\* ledger still explains the stock.
THEOREM DocumentsKeepLedger == DocSpec => []LedgerExplainsStock
  BY DocumentsAreStock, LedgerIntegrity, PTL

-----------------------------------------------------------------------------
(* Statuses.                                                               *)

\* A session has a task from its first statement on, of its document's kind,
\* and completes a transfer only after somebody shipped it.
TasksFit ==
    \A s \in Sessions :
        /\ pc[s] = "idle" <=> doing[s] = NoTask
        /\ doing[s].op = "deliver" => doing[s].doc \in OfKind("order")
        /\ doing[s].op \in {"ship", "complete"} =>
              doing[s].doc \in OfKind("transfer")
        /\ doing[s].op \in {"approve", "reject"} =>
              doing[s].doc \in OfKind("count")
        /\ doing[s].op = "sell" => doing[s].doc \in OfKind("sale")
        /\ doing[s].op = "scan" => doing[s].doc \in OfKind("scan")
        /\ doing[s].op = "complete" => Done(doing[s].doc, "ship") # {}

DInv == DocTypeOK /\ TasksFit /\ StatusHasItsStock

LEMMA InitDInv == DocInit => DInv
<1> SUFFICES ASSUME DocInit PROVE DInv
  OBVIOUS
<1>1. DocTypeOK
  BY DEF DocInit, DocTypeOK, Statuses
<1>2. \A d \in Docs, op \in Operations : Done(d, op) = {}
  BY DEF DocInit, Init, Done
<1>3. TasksFit
  BY DEF DocInit, Init, TasksFit, NoTask
<1>4. StatusHasItsStock
  BY <1>2 DEF DocInit, StatusHasItsStock, Operations
<1> QED
  BY <1>1, <1>3, <1>4 DEF DInv

\* A step inside a request moves one active session to another active place or
\* to a rollback.
LEMMA InsideRequest ==
    ASSUME TypeOK, NEW s \in Sessions, Adjust(s) \/ Interrupt(s)
    PROVE  /\ pc[s] \in Active
           /\ \E x \in Active \cup {"rolled_back"} : pc' = [pc EXCEPT ![s] = x]
  BY DEF TypeOK, Adjust, Interrupt, RefuseForeignLine, FindLine, InsertLine,
     InsertConflict, LockLine, RefuseShortage, ApplyLine, SetLevel,
     DeadlockAbort, Deadlocked, Blocked, Fail, Rollback, Goto, NextCall, Active

\* Nothing is undone or done by a step inside a request.
LEMMA InsideRequestKeeps ==
    ASSUME TypeOK, DInv, NEW s \in Sessions, Adjust(s) \/ Interrupt(s),
           UNCHANGED docVars
    PROVE  DInv'
<1>1. PICK x \in Active \cup {"rolled_back"} : pc' = [pc EXCEPT ![s] = x]
  BY InsideRequest
<1>2. pc[s] \in Active
  BY InsideRequest
<1>3. \A t \in Sessions : /\ pc'[t] = "committed" <=> pc[t] = "committed"
                          /\ pc'[t] = "idle" <=> pc[t] = "idle"
  BY <1>1, <1>2 DEF TypeOK, Active
<1>4. \A d, op : Done(d, op)' = Done(d, op)
  BY <1>3 DEF Done, docVars
<1>5. DocTypeOK'
  BY DEF DInv, DocTypeOK, docVars
<1>6. TasksFit'
  BY <1>3, <1>4 DEF DInv, TasksFit, docVars
<1>7. StatusHasItsStock'
  BY <1>4 DEF DInv, StatusHasItsStock, docVars
<1> QED
  BY <1>5, <1>6, <1>7 DEF DInv

LEMMA CreationKeeps ==
    ASSUME DInv, NEW d \in Docs,
           CreateOrder(d) \/ CreateTransfer(d) \/ CreateCount(d)
    PROVE  DInv'
<1>1. PICK initial \in {"draft", "pending"} : Create(d, initial)
  BY DEF CreateOrder, CreateTransfer, CreateCount
<1>2. \A e, op : Done(e, op)' = Done(e, op)
  BY <1>1 DEF Create, Done, vars
<1>3. DocTypeOK'
  BY <1>1 DEF DInv, DocTypeOK, Create, Statuses
<1>4. TasksFit'
  BY <1>1, <1>2 DEF DInv, TasksFit, Create, vars
<1>5. StatusHasItsStock'
  BY <1>1, <1>2 DEF DInv, DocTypeOK, StatusHasItsStock, Create
<1> QED
  BY <1>3, <1>4, <1>5 DEF DInv

\* A request that begins has a task that fits its document.
LEMMA RequestKeeps ==
    ASSUME TypeOK, DInv, NEW s \in Sessions, NEW d \in Docs, Request(s, d)
    PROVE  DInv'
<1>1. PICK op \in Operations, p \in Plans : CarryOut(s, d, op, p)
  BY ContentAssumption DEF Request, Deliver, Ship, Complete, Approve, Reject,
     Sell, Scan, Operations
<1>2. doing' = [doing EXCEPT ![s] = [doc |-> d, op |-> op]]
  BY <1>1 DEF CarryOut
<1>3. /\ pc[s] = "idle"
      /\ \E x \in Active : pc' = [pc EXCEPT ![s] = x]
  BY <1>1 DEF CarryOut, Begin, Goto, NextCall, Active
<1>4. DocTypeOK'
  BY <1>1 DEF DInv, DocTypeOK, CarryOut, Task
<1>5. \A e, o : Done(e, o)' = Done(e, o)
  BY <1>2, <1>3 DEF DInv, DocTypeOK, TypeOK, Done, Active
<1>6. StatusHasItsStock'
  BY <1>1, <1>5 DEF DInv, StatusHasItsStock, CarryOut
<1>7. /\ op = "deliver" => d \in OfKind("order")
      /\ op \in {"ship", "complete"} => d \in OfKind("transfer")
      /\ op \in {"approve", "reject"} => d \in OfKind("count")
      /\ op = "sell" => d \in OfKind("sale")
      /\ op = "scan" => d \in OfKind("scan")
      /\ op = "complete" => status[d] = "in_transit"
  <2>1. doing'[s].op = op
    BY <1>2 DEF DInv, DocTypeOK
  <2> QED
    BY <2>1 DEF Request, Deliver, Ship, Complete, Approve, Reject, Sell, Scan,
       CarryOut, DInv, DocTypeOK
<1>8. op = "complete" => Done(d, "ship") # {}
  BY <1>7 DEF DInv, StatusHasItsStock
<1>9. TasksFit'
  <2> SUFFICES ASSUME NEW t \in Sessions
               PROVE  TasksFit!(t)'
    BY DEF TasksFit
  <2>1. CASE t = s
    BY <2>1, <1>2, <1>3, <1>5, <1>7, <1>8
       DEF DInv, DocTypeOK, TypeOK, NoTask, Active, Operations
  <2>2. CASE t # s
    BY <2>2, <1>2, <1>3, <1>5 DEF DInv, TasksFit, DocTypeOK, TypeOK
  <2> QED
    BY <2>1, <2>2
<1> QED
  BY <1>4, <1>6, <1>9 DEF DInv

\* The status a commit writes is that of the operation it commits.
LEMMA FinishKeeps ==
    ASSUME TypeOK, DInv, NEW s \in Sessions, Finish(s)
    PROVE  DInv'
<1>1. pc[s] = "ready" /\ pc' = [pc EXCEPT ![s] = "committed"]
  BY DEF Finish, Commit, Goto
<1>2. doing[s] \in Task
  BY <1>1 DEF DInv, TasksFit, DocTypeOK
<1>3. PICK d \in Docs, op \in Operations : doing[s] = [doc |-> d, op |-> op]
  BY <1>2 DEF Task
<1>4. /\ status' = [status EXCEPT ![d] = Outcome(op)]
      /\ doing' = doing
      /\ overlapped' = overlapped
  BY <1>3 DEF Finish
<1>5. \A e, o : Done(e, o) \subseteq Done(e, o)'
  BY <1>1, <1>4 DEF TypeOK, Done
<1>6. \A e, o : e # d => Done(e, o)' = Done(e, o)
  BY <1>1, <1>3, <1>4 DEF TypeOK, Done
<1>6a. \A e, o : o # op => Done(e, o)' = Done(e, o)
  BY <1>1, <1>3, <1>4 DEF TypeOK, Done
<1>7. Done(d, op)' # {}
  BY <1>1, <1>3, <1>4 DEF TypeOK, Done
<1>8. DocTypeOK'
  BY <1>3, <1>4 DEF DInv, DocTypeOK, Outcome, Operations, Statuses
<1>9. TasksFit'
  BY <1>1, <1>4, <1>5 DEF DInv, TasksFit, TypeOK
<1>10. StatusHasItsStock'
  <2> SUFFICES ASSUME NEW e \in Docs
               PROVE  StatusHasItsStock!(e)'
    BY DEF StatusHasItsStock
  <2>1. CASE e # d
    BY <2>1, <1>3, <1>4, <1>6 DEF DInv, DocTypeOK, StatusHasItsStock
  <2>2. CASE e = d
    <3>1. status'[e] = Outcome(op)
      BY <2>2, <1>3, <1>4 DEF DInv, DocTypeOK
    <3>2. op = "complete" => Done(e, "ship")' # {}
      BY <2>2, <1>3, <1>5 DEF DInv, TasksFit
    <3>3. op = "sell" => e \notin OfKind("transfer")
      BY <2>2, <1>3 DEF DInv, TasksFit, OfKind
    <3>4. op # "scan" => Done(e, "scan")' = {}
      <4> SUFFICES ASSUME NEW t \in Sessions, doing[t] = [doc |-> e, op |-> "scan"]
                   PROVE  op = "scan"
        BY <1>4 DEF Done
      <4>1. doing[t].op = "scan" /\ doing[t].doc = e
        OBVIOUS
      <4>2. e \in OfKind("scan")
        BY <4>1 DEF DInv, TasksFit
      <4> QED
        BY <4>2, <2>2, <1>3 DEF DInv, TasksFit, OfKind, Operations
    <3> QED
      BY <3>1, <3>2, <3>3, <3>4, <1>3, <1>7, <2>2 DEF StatusHasItsStock, Outcome, Operations
  <2> QED
    BY <2>1, <2>2
<1> QED
  BY <1>8, <1>9, <1>10 DEF DInv

LEMMA NextDInv == TypeOK /\ DInv /\ [DocNext]_allVars => DInv'
<1> SUFFICES ASSUME TypeOK, DInv, [DocNext]_allVars PROVE DInv'
  OBVIOUS
<1>1. CASE \E d \in Docs : CreateOrder(d) \/ CreateTransfer(d) \/ CreateCount(d)
  BY <1>1, CreationKeeps
<1>2. CASE \E s \in Sessions, d \in Docs : Request(s, d)
  BY <1>2, RequestKeeps
<1>3. CASE \E s \in Sessions : (Adjust(s) \/ Interrupt(s)) /\ UNCHANGED docVars
  BY <1>3, InsideRequestKeeps
<1>4. CASE \E s \in Sessions : Finish(s)
  BY <1>4, FinishKeeps
<1>5. CASE UNCHANGED allVars
  <2>1. \A e, o : Done(e, o)' = Done(e, o)
    BY <1>5 DEF allVars, vars, docVars, Done
  <2> QED
    BY <1>5, <2>1 DEF DInv, DocTypeOK, TasksFit, StatusHasItsStock, allVars,
       vars, docVars
<1> QED
  BY <1>1, <1>2, <1>3, <1>4, <1>5 DEF DocNext

\* A status and the stock it stands for are committed together: no document
\* shows stock that was not moved, none that looks untouched has moved any.
THEOREM StatusIntegrity == DocSpec => []StatusHasItsStock
<1>1. DocSpec => []TypeOK
  BY DocumentsAreStock, TypeCorrect, PTL
<1>2. DInv => StatusHasItsStock
  BY DEF DInv
<1> QED
  BY <1>1, <1>2, InitDInv, NextDInv, PTL DEF DocSpec

\* The stock core's whole history holds of what documents do to it: no unit
\* appears or disappears, and the outbox tells it all.
THEOREM DocumentsKeepHistory ==
    DocSpec => [](ConservationOfStock /\ EventsTellTheLedger /\ ThresholdsMarkCrossings)
  BY DocumentsAreStock, StockIsConserved, OutboxTellsTheLedger,
     OutboxMarksTheCrossings, PTL

-----------------------------------------------------------------------------
(* Stock and statuses.                                                     *)

\* What an operation asks of the stock, and the status it expects to find.
PlanOf(d, op) ==
    CASE op = "deliver"  -> Received(d)
      [] op = "ship"     -> Shipped(d)
      [] op = "complete" -> Received(d)
      [] op = "approve"  -> Discrepancies(d)
      [] op = "reject"   -> <<>>
      [] op = "sell"     -> Sold(d)
      [] op = "scan"     -> Scanned(d)
Expected(op) ==
    CASE op = "deliver"  -> "draft"
      [] op = "ship"     -> "pending"
      [] op = "complete" -> "in_transit"
      [] op \in {"approve", "reject"} -> "pending"
      [] op \in {"sell", "scan"}      -> "none"

\* A document's status is one of its kind's.
StatusesFit ==
    \A d \in Docs :
        \/ status[d] = "none"
        \/ d \in OfKind("order") /\ status[d] \in {"draft", "delivered"}
        \/ d \in OfKind("transfer")
              /\ status[d] \in {"pending", "in_transit", "completed"}
        \/ d \in OfKind("count")
              /\ status[d] \in {"pending", "approved", "rejected"}
        \/ d \in OfKind("sale") /\ status[d] = "completed"
        \/ d \in OfKind("scan") /\ status[d] = "recorded"

\* A request carries out the plan of its task, and, as long as no two were
\* under way on one document, alone and on the status it read.
PlansFit ==
    \A s \in Sessions :
        pc[s] \in Active => plan[s] = PlanOf(doing[s].doc, doing[s].op)
Undisturbed ==
    overlapped = {} =>
        \A s \in Sessions : pc[s] \in Active =>
            /\ status[doing[s].doc] = Expected(doing[s].op)
            /\ \A t \in Sessions :
                  pc[t] \in Active /\ doing[t].doc = doing[s].doc => t = s

\* However many documents there may be, finitely many exist.
Existing == {d \in Docs : status[d] # "none"}
FinitelyMany == IsFiniteSet(Existing)

\* A sale that exists was made by the one request that names it.
SalesAreMade ==
    \A d \in OfKind("sale") : status[d] # "none" =>
        \E s \in Sessions : doing[s] = [doc |-> d, op |-> "sell"]

SInv == /\ StatusesFit /\ PlansFit /\ Undisturbed /\ FinitelyMany
        /\ SalesAreMade /\ StockFollowsDocuments

\* An operation is one for its document's kind.
Fits(d, op) ==
    \/ op = "deliver" /\ d \in OfKind("order")
    \/ op \in {"ship", "complete"} /\ d \in OfKind("transfer")
    \/ op \in {"approve", "reject"} /\ d \in OfKind("count")
    \/ op = "sell" /\ d \in OfKind("sale")
    \/ op = "scan" /\ d \in OfKind("scan")

LEMMA TotalsType ==
    ASSUME NEW d \in Docs, NEW l
    PROVE  /\ TotalAt(<<>>, l) = 0
           /\ d \in OfKind("order") => TotalAt(Received(d), l) \in Int
           /\ d \in OfKind("transfer") => /\ TotalAt(Shipped(d), l) \in Int
                                          /\ TotalAt(Received(d), l) \in Int
           /\ d \in OfKind("count") => TotalAt(Discrepancies(d), l) \in Int
           /\ d \in OfKind("sale") => TotalAt(Sold(d), l) \in Int
           /\ d \in OfKind("scan") => TotalAt(Scanned(d), l) \in Int
<1>1. \A p \in Plans : p \in Seq(Adjustment)
  BY PlansAssumption
<1>2. \A p \in Plans : TotalAt(p, l) \in Int
  BY <1>1, TotalIsSum
<1>3. TotalAt(<<>>, l) = 0
  <2>1. {i \in DOMAIN <<>> : <<>>[i].line = l} = {}
    OBVIOUS
  <2> QED
    BY <2>1, SumOfNothing DEF TotalAt
<1> QED
  BY <1>2, <1>3, ContentAssumption

EffectsTyped ==
    \A d \in Docs, l \in Lines :
        /\ Effect(d, l) \in Int
        /\ status[d] = "none" => Effect(d, l) = 0

LEMMA EffectType == StatusesFit => EffectsTyped
<1> SUFFICES ASSUME StatusesFit, NEW d \in Docs, NEW l \in Lines
             PROVE  Effect(d, l) \in Int /\ (status[d] = "none" => Effect(d, l) = 0)
  BY DEF EffectsTyped
<1>1. CASE status[d] \in {"none", "draft", "pending", "rejected"}
  BY <1>1 DEF Effect
<1>2. CASE d \in OfKind("order") /\ status[d] = "delivered"
  BY <1>2, TotalsType DEF Effect
<1>3. CASE d \in OfKind("transfer") /\ status[d] = "in_transit"
  BY <1>3, TotalsType DEF Effect
<1>4. CASE d \in OfKind("transfer") /\ status[d] = "completed"
  BY <1>4, TotalsType DEF Effect, OfKind
<1>5. CASE d \in OfKind("count") /\ status[d] = "approved"
  BY <1>5, TotalsType DEF Effect
<1>6. CASE d \in OfKind("sale") /\ status[d] = "completed"
  BY <1>6, TotalsType DEF Effect, OfKind
<1>7. CASE d \in OfKind("scan") /\ status[d] = "recorded"
  BY <1>7, TotalsType DEF Effect
<1> QED
  BY <1>1, <1>2, <1>3, <1>4, <1>5, <1>6, <1>7 DEF StatusesFit

\* An operation changes its document's effect by what it asks of the stock.
LEMMA EffectMoves ==
    ASSUME NEW d \in Docs, NEW op, NEW l, Fits(d, op),
           status[d] = Expected(op), status'[d] = Outcome(op)
    PROVE  Effect(d, l)' = Effect(d, l) + TotalAt(PlanOf(d, op), l)
<1>1. CASE op = "deliver"
  BY <1>1, TotalsType DEF Fits, Expected, Outcome, PlanOf, Effect
<1>2. CASE op = "ship"
  BY <1>2, TotalsType DEF Fits, Expected, Outcome, PlanOf, Effect
<1>3. CASE op = "complete"
  <2>1. /\ d \in OfKind("transfer") /\ status[d] = "in_transit"
        /\ status'[d] = "completed" /\ PlanOf(d, op) = Received(d)
        /\ d \notin OfKind("sale")
    BY <1>3 DEF Fits, Expected, Outcome, PlanOf, OfKind
  <2>2. Effect(d, l) = TotalAt(Shipped(d), l)
    BY <2>1 DEF Effect
  <2>3. Effect(d, l)' = TotalAt(Shipped(d), l) + TotalAt(Received(d), l)
    BY <2>1 DEF Effect
  <2> QED
    BY <2>1, <2>2, <2>3
<1>4. CASE op = "approve"
  BY <1>4, TotalsType DEF Fits, Expected, Outcome, PlanOf, Effect
<1>5. CASE op = "reject"
  BY <1>5, TotalsType DEF Fits, Expected, Outcome, PlanOf, Effect
<1>6. CASE op = "sell"
  <2>1. d \in OfKind("sale") /\ d \notin OfKind("transfer")
    BY <1>6 DEF Fits, OfKind
  <2> QED
    BY <1>6, <2>1, TotalsType DEF Expected, Outcome, PlanOf, Effect
<1>7. CASE op = "scan"
  BY <1>7, TotalsType DEF Fits, Expected, Outcome, PlanOf, Effect
<1> QED
  BY <1>1, <1>2, <1>3, <1>4, <1>5, <1>6, <1>7 DEF Fits

\* When one document's status changes the total changes by its effect.
LEMMA TotalEffect ==
    ASSUME StatusesFit, StatusesFit', FinitelyMany, NEW d \in Docs, NEW l \in Lines,
           Existing' = Existing \cup {d},
           \A e \in Docs : e # d => status'[e] = status[e]
    PROVE  SumFunctionOnSet([e \in Docs |-> Effect(e, l)], Existing)'
              = SumFunctionOnSet([e \in Docs |-> Effect(e, l)], Existing)
                  + (Effect(d, l)' - Effect(d, l))
<1> DEFINE f == [e \in Docs |-> Effect(e, l)]
           g == [e \in Docs |-> Effect(e, l)']
           E == Existing
           D == Existing \cup {d}
<1>1. /\ \A e \in Docs : f[e] \in Int /\ g[e] \in Int
      /\ \A e \in Docs : status[e] = "none" => f[e] = 0
  <2>1. EffectsTyped /\ EffectsTyped'
    BY EffectType, PTL
  <2> QED
    BY <2>1 DEF EffectsTyped
<1>2. \A e \in D \ {d} : f[e] = g[e]
  BY DEF Existing, Effect
<1>3. IsFiniteSet(E) /\ IsFiniteSet(D) /\ d \in D /\ D \subseteq Docs
  BY FS_AddElement DEF FinitelyMany, Existing
<1>4. f[d] = Effect(d, l) /\ g[d] = Effect(d, l)'
  OBVIOUS
<1>5. d \notin E => f[d] = 0
  BY <1>1 DEF Existing
<1> HIDE DEF f, g
<1>6. SumFunctionOnSet(f, D) = SumFunctionOnSet(f, E)
  <2>1. CASE d \in E
    <3>1. D = E
      BY <2>1
    <3> QED
      BY <3>1
  <2>2. CASE d \notin E
    <3>1. \A y \in E \cup {d} : f[y] \in Int
      BY <1>1, <1>3
    <3> HIDE DEF E
    <3>2. SumFunctionOnSet(f, E \cup {d}) = SumFunctionOnSet(f, E) + f[d]
      BY <1>3, <2>2, <3>1, SumAdds
    <3>3. SumFunctionOnSet(f, E) \in Int
      BY <1>3, <3>1, SumType
    <3> QED
      BY <1>5, <2>2, <3>2, <3>3 DEF E
  <2> QED
    BY <2>1, <2>2
<1> HIDE DEF D, E
<1>7. SumFunctionOnSet(g, D) = SumFunctionOnSet(f, D) - f[d] + g[d]
  <2>1. \A y \in D : f[y] \in Int /\ g[y] \in Int
    BY <1>1, <1>3
  <2> QED
    BY <1>2, <1>3, <2>1, SumChanges
<1>8. SumFunctionOnSet(f, E) \in Int /\ f[d] \in Int /\ g[d] \in Int
  <2>1. \A y \in D : f[y] \in Int
    BY <1>1, <1>3
  <2> QED
    BY <1>1, <1>3, <1>6, <2>1, SumType
<1>9. SumFunctionOnSet(g, D) = SumFunctionOnSet(f, E) + (g[d] - f[d])
  BY <1>6, <1>7, <1>8
<1> QED
  BY <1>4, <1>9 DEF f, g, D, E

LEMMA InitSInv == DocInit => SInv
<1> SUFFICES ASSUME DocInit PROVE SInv
  OBVIOUS
<1>1. /\ \A d \in Docs : status[d] = "none"
      /\ \A s \in Sessions : pc[s] = "idle"
      /\ quantity = OpeningStock
  BY DEF DocInit, Init
<1>2. Existing = {}
  BY <1>1 DEF Existing
<1>3. StatusesFit /\ PlansFit /\ Undisturbed /\ SalesAreMade
  BY <1>1 DEF StatusesFit, PlansFit, Undisturbed, SalesAreMade, Active, OfKind
<1>4. FinitelyMany
  BY <1>2, FS_EmptySet DEF FinitelyMany
<1>5. StockFollowsDocuments
  <2>1. \A l \in Lines : OpeningStock[l] \in Int
    BY LinesAssumption
  <2>2. {d \in Docs : status[d] # "none"} = {}
    BY <1>1
  <2> QED
    BY <1>1, <2>1, <2>2, SumOfNothing DEF StockFollowsDocuments
<1> QED
  BY <1>3, <1>4, <1>5 DEF SInv

\* The stock follows a change of one document's status by its effect.
LEMMA StockFollowsOn ==
    ASSUME IInv, SInv, StatusesFit', NEW d \in Docs,
           Existing' = Existing \cup {d},
           \A e \in Docs : e # d => status'[e] = status[e],
           overlapped' = overlapped,
           overlapped = {} => \A l \in Lines :
               quantity'[l] = quantity[l] + (Effect(d, l)' - Effect(d, l))
    PROVE  StockFollowsDocuments'
<1> SUFFICES ASSUME overlapped = {}, NEW l \in Lines
             PROVE  quantity'[l] = OpeningStock[l]
                       + SumFunctionOnSet([e \in Docs |-> Effect(e, l)], Existing)'
  BY DEF StockFollowsDocuments, Existing
<1> DEFINE total == SumFunctionOnSet([e \in Docs |-> Effect(e, l)], Existing)
<1>1. quantity[l] = OpeningStock[l] + total
  BY DEF SInv, StockFollowsDocuments, Existing
<1>2. SumFunctionOnSet([e \in Docs |-> Effect(e, l)], Existing)'
         = total + (Effect(d, l)' - Effect(d, l))
  BY TotalEffect DEF SInv
<1>3. Effect(d, l) \in Int /\ Effect(d, l)' \in Int
  <2>1. EffectsTyped /\ EffectsTyped'
    BY EffectType, PTL DEF SInv
  <2> QED
    BY <2>1 DEF EffectsTyped
<1>4. total \in Int
  <2>1. EffectsTyped
    BY EffectType DEF SInv
  <2>2. \A e \in Existing : [x \in Docs |-> Effect(x, l)][e] \in Int
    BY <2>1 DEF EffectsTyped, Existing
  <2>3. IsFiniteSet(Existing)
    BY DEF SInv, FinitelyMany
  <2> QED
    BY <2>2, <2>3, SumType
<1>5. quantity'[l] = quantity[l] + (Effect(d, l)' - Effect(d, l)) /\ OpeningStock[l] \in Int
  BY LinesAssumption
<1> HIDE DEF total
<1> QED
  BY <1>1, <1>2, <1>3, <1>4, <1>5

LEMMA CreationKeepsStock ==
    ASSUME IInv, DInv, SInv, NEW d \in Docs,
           CreateOrder(d) \/ CreateTransfer(d) \/ CreateCount(d)
    PROVE  SInv'
<1>1. PICK initial \in {"draft", "pending"} : Create(d, initial)
  BY DEF CreateOrder, CreateTransfer, CreateCount
<1>2. /\ status[d] = "none" /\ status'[d] = initial
      /\ \A e \in Docs : e # d => status'[e] = status[e]
      /\ UNCHANGED <<quantity, pc, plan, doing, overlapped>>
  BY <1>1 DEF Create, vars, DInv, DocTypeOK
<1>3. \/ d \in OfKind("order") /\ initial = "draft"
      \/ d \in OfKind("transfer") /\ initial = "pending"
      \/ d \in OfKind("count") /\ initial = "pending"
  BY <1>2 DEF CreateOrder, CreateTransfer, CreateCount, Create, DInv, DocTypeOK
<1>4. StatusesFit'
  BY <1>2, <1>3 DEF SInv, StatusesFit
<1>5. PlansFit' /\ SalesAreMade'
  <2>1. d \notin OfKind("sale")
    BY <1>3 DEF OfKind
  <2> QED
    BY <1>2, <2>1 DEF SInv, PlansFit, SalesAreMade, OfKind
<1>6. Undisturbed'
  <2> SUFFICES ASSUME overlapped = {}, NEW s \in Sessions, pc[s] \in Active
               PROVE  doing[s].doc # d
    BY <1>2 DEF SInv, Undisturbed, DInv, DocTypeOK, TasksFit, Task, Active
  <2> SUFFICES ASSUME doing[s].doc = d PROVE FALSE
    OBVIOUS
  <2>1. Expected(doing[s].op) = "none"
    BY <1>2 DEF SInv, Undisturbed
  <2>2. doing[s] \in Task
    BY DEF DInv, DocTypeOK, TasksFit, Active
  <2>3. doing[s].op \in {"sell", "scan"}
    BY <2>1, <2>2 DEF Expected, Task, Operations
  <2>4. d \in OfKind("sale") \/ d \in OfKind("scan")
    BY <2>3 DEF DInv, TasksFit
  <2> QED
    BY <1>3, <2>4 DEF OfKind
<1>7. Existing' = Existing \cup {d}
  BY <1>2 DEF Existing
<1>8. FinitelyMany'
  BY <1>7, FS_AddElement DEF SInv, FinitelyMany
<1>9. StockFollowsDocuments'
  <2>1. \A l : Effect(d, l) = 0 /\ Effect(d, l)' = 0
    BY <1>2 DEF Effect
  <2>2. \A l \in Lines : quantity'[l] = quantity[l] + (Effect(d, l)' - Effect(d, l))
    BY <1>2, <2>1 DEF IInv, TypeOK
  <2> QED
    BY <1>2, <1>4, <1>7, <2>2, StockFollowsOn
<1> QED
  BY <1>4, <1>5, <1>6, <1>8, <1>9 DEF SInv

\* The status a request has read is the one its operation starts from.
LEMMA RequestExpects ==
    ASSUME DInv, SInv, NEW s \in Sessions, NEW d \in Docs, Request(s, d)
    PROVE  \E op \in Operations :
              /\ CarryOut(s, d, op, PlanOf(d, op))
              /\ status[d] = Expected(op)
<1>1. CASE Deliver(s, d)
  <2>1. status[d] = "draft"
    BY <1>1 DEF Deliver, SInv, StatusesFit, OfKind
  <2> QED
    BY <1>1, <2>1 DEF Deliver, PlanOf, Expected, Operations
<1>2. CASE Ship(s, d) \/ Complete(s, d)
  BY <1>2 DEF Ship, Complete, PlanOf, Expected, Operations
<1>3. CASE Approve(s, d) \/ Reject(s, d)
  BY <1>3 DEF Approve, Reject, PlanOf, Expected, Operations
<1>4. CASE Sell(s, d)
  <2>1. status[d] = "none"
    <3> SUFFICES ASSUME status[d] # "none" PROVE FALSE
      OBVIOUS
    <3>1. PICK t \in Sessions : doing[t] = [doc |-> d, op |-> "sell"]
      BY <1>4 DEF Sell, SInv, SalesAreMade
    <3> QED
      BY <1>4, <3>1 DEF Sell
  <2> QED
    BY <1>4, <2>1 DEF Sell, PlanOf, Expected, Operations
<1>5. CASE Scan(s, d)
  BY <1>5 DEF Scan, PlanOf, Expected, Operations
<1> QED
  BY <1>1, <1>2, <1>3, <1>4, <1>5 DEF Request

LEMMA RequestKeepsStock ==
    ASSUME IInv, DInv, SInv, NEW s \in Sessions, NEW d \in Docs, Request(s, d)
    PROVE  SInv'
<1>1. PICK op \in Operations : CarryOut(s, d, op, PlanOf(d, op)) /\ status[d] = Expected(op)
  BY RequestExpects
<1>2. /\ doing'[s] = [doc |-> d, op |-> op] /\ plan'[s] = PlanOf(d, op)
      /\ pc[s] = "idle"
      /\ \A t \in Sessions : t # s => /\ doing'[t] = doing[t] /\ plan'[t] = plan[t]
                                     /\ pc'[t] = pc[t]
      /\ overlapped' = overlapped \cup (IF Working(d) = {} THEN {} ELSE {d})
      /\ UNCHANGED <<quantity, status>>
  BY <1>1 DEF CarryOut, Begin, Goto, database, IInv, TypeOK, DInv, DocTypeOK
<1>3. StatusesFit' /\ FinitelyMany' /\ PlansFit'
  BY <1>2 DEF SInv, StatusesFit, FinitelyMany, Existing, PlansFit
<1>4. SalesAreMade'
  <2>1. doing[s] = NoTask
    BY <1>2 DEF DInv, TasksFit
  <2>2. \A e : doing[s] # [doc |-> e, op |-> "sell"]
    BY <2>1 DEF NoTask
  <2>3. ASSUME NEW e \in OfKind("sale"), status[e] # "none"
        PROVE  \E t \in Sessions : doing'[t] = [doc |-> e, op |-> "sell"]
    <3>1. PICK t \in Sessions : doing[t] = [doc |-> e, op |-> "sell"]
      BY <2>3 DEF SInv, SalesAreMade
    <3>2. doing'[t] = doing[t]
      BY <1>2, <2>2, <3>1
    <3> QED
      BY <3>1, <3>2
  <2> QED
    BY <1>2, <2>3 DEF SalesAreMade, OfKind
<1>5. Undisturbed'
  <2> SUFFICES ASSUME overlapped' = {} PROVE Undisturbed'
    BY DEF Undisturbed
  <2>1. overlapped = {} /\ \A t \in Sessions : pc[t] \in Active => doing[t].doc # d
    BY <1>2 DEF Working
  <2>2. ASSUME NEW t \in Sessions, pc'[t] \in Active
        PROVE  status'[doing'[t].doc] = Expected(doing'[t].op)
    BY <1>1, <1>2, <2>1, <2>2 DEF SInv, Undisturbed
  <2>3. ASSUME NEW t \in Sessions, pc'[t] \in Active,
               NEW u \in Sessions, pc'[u] \in Active, doing'[u].doc = doing'[t].doc
        PROVE  u = t
    BY <1>2, <2>1, <2>3 DEF SInv, Undisturbed
  <2> QED
    BY <2>2, <2>3 DEF Undisturbed
<1>6. StockFollowsDocuments'
  <2>1. overlapped' = {} => overlapped = {}
    BY <1>2
  <2> QED
    BY <1>2, <2>1 DEF SInv, StockFollowsDocuments, Effect
<1> QED
  BY <1>3, <1>4, <1>5, <1>6 DEF SInv

LEMMA InsideRequestKeepsStock ==
    ASSUME IInv, DInv, SInv, NEW s \in Sessions, Adjust(s) \/ Interrupt(s),
           UNCHANGED docVars
    PROVE  SInv'
<1>1. /\ pc[s] \in Active
      /\ \A t \in Sessions : pc'[t] \in Active => pc[t] \in Active
  BY InsideRequest DEF IInv, TypeOK
<1>2. UNCHANGED <<quantity, plan>>
  BY DEF Adjust, Interrupt, RefuseForeignLine, FindLine, InsertLine,
     InsertConflict, LockLine, RefuseShortage, ApplyLine, SetLevel,
     DeadlockAbort, Fail, Rollback, database
<1>3. UNCHANGED <<status, doing, overlapped>>
  BY DEF docVars
<1>4. StatusesFit' /\ FinitelyMany' /\ SalesAreMade'
  BY <1>3 DEF SInv, StatusesFit, FinitelyMany, Existing, SalesAreMade, OfKind
<1>5. PlansFit' /\ Undisturbed'
  BY <1>1, <1>2, <1>3 DEF SInv, PlansFit, Undisturbed
<1>6. StockFollowsDocuments'
  BY <1>2, <1>3 DEF SInv, StockFollowsDocuments, Effect
<1> QED
  BY <1>4, <1>5, <1>6 DEF SInv

LEMMA FinishKeepsStock ==
    ASSUME IInv, HInv, DInv, SInv, NEW s \in Sessions, Finish(s)
    PROVE  SInv'
<1>1. /\ pc[s] = "ready" /\ pc'[s] = "committed"
      /\ \A t \in Sessions : t # s => pc'[t] = pc[t]
      /\ UNCHANGED <<plan, doing, overlapped>>
      /\ Commit(s)
  BY DEF Finish, Commit, Goto, IInv, TypeOK
<1>2. doing[s] \in Task
  BY <1>1 DEF DInv, TasksFit, DocTypeOK
<1>3. PICK d \in Docs, op \in Operations : doing[s] = [doc |-> d, op |-> op]
  BY <1>2 DEF Task
<1>4. /\ status'[d] = Outcome(op)
      /\ \A e \in Docs : e # d => status'[e] = status[e]
  BY <1>3 DEF Finish, DInv, DocTypeOK
<1>5. Fits(d, op) /\ plan[s] = PlanOf(d, op)
  BY <1>1, <1>3 DEF DInv, TasksFit, Operations, Fits, SInv, PlansFit, Active
<1>6. Outcome(op) # "none"
  BY DEF Outcome, Operations
<1>7. StatusesFit'
  <2>1. \/ d \in OfKind("order") /\ status'[d] = "delivered"
        \/ d \in OfKind("transfer") /\ status'[d] \in {"in_transit", "completed"}
        \/ d \in OfKind("count") /\ status'[d] \in {"approved", "rejected"}
        \/ d \in OfKind("sale") /\ status'[d] = "completed"
        \/ d \in OfKind("scan") /\ status'[d] = "recorded"
    BY <1>4, <1>5 DEF Fits, Outcome
  <2> QED
    BY <1>4, <2>1 DEF SInv, StatusesFit
<1>8. Existing' = Existing \cup {d}
  BY <1>4, <1>6 DEF Existing
<1>9. FinitelyMany'
  BY <1>8, FS_AddElement DEF SInv, FinitelyMany
<1>10. SalesAreMade'
  <2>1. d \in OfKind("sale") => op = "sell"
    BY <1>5 DEF Fits, OfKind
  <2>2. OfKind("sale")' = OfKind("sale") /\ OfKind("sale") \subseteq Docs
    BY DEF OfKind
  <2> QED
    BY <1>1, <1>3, <1>4, <2>1, <2>2 DEF SInv, SalesAreMade
<1>11. PlansFit'
  BY <1>1 DEF SInv, PlansFit, Active
<1>12. Undisturbed'
  <2> SUFFICES ASSUME overlapped = {}, NEW t \in Sessions, pc'[t] \in Active
               PROVE  /\ status'[doing[t].doc] = Expected(doing[t].op)
                      /\ \A u \in Sessions :
                           pc'[u] \in Active /\ doing[u].doc = doing[t].doc => u = t
    BY <1>1 DEF Undisturbed
  <2>1. t # s /\ pc[t] \in Active /\ \A u \in Sessions : pc'[u] \in Active => pc[u] \in Active
    BY <1>1 DEF Active
  <2>2. doing[t].doc # d /\ doing[t].doc \in Docs
    <3>1. pc[s] \in Active /\ doing[s].doc = d
      BY <1>1, <1>3 DEF Active
    <3>2. doing[t].doc # d
      BY <2>1, <3>1 DEF SInv, Undisturbed
    <3>3. doing[t] \in Task
      BY <2>1 DEF DInv, TasksFit, DocTypeOK, Active
    <3> QED
      BY <3>2, <3>3 DEF Task
  <2> QED
    BY <1>4, <2>1, <2>2 DEF SInv, Undisturbed
<1>13. StockFollowsDocuments'
  <2>1. ASSUME overlapped = {}, NEW l \in Lines
        PROVE  quantity'[l] = quantity[l] + (Effect(d, l)' - Effect(d, l))
    <3>1. status[d] = Expected(op)
      <4>1. doing[s].doc = d /\ doing[s].op = op /\ pc[s] \in Active
        BY <1>1, <1>3 DEF Active
      <4> QED
        BY <2>1, <4>1 DEF SInv, Undisturbed
    <3>2. Effect(d, l)' = Effect(d, l) + TotalAt(PlanOf(d, op), l)
      BY <1>4, <1>5, <3>1, EffectMoves
    <3>3. quantity'[l] = quantity[l] + TotalAt(PlanOf(d, op), l)
      BY <1>1, <1>5, CommitChanges DEF ChangeOf
    <3>4. TotalAt(PlanOf(d, op), l) \in Int
      BY <1>5, ChangeIsSum DEF ChangeOf
    <3>5. EffectsTyped
      BY EffectType DEF SInv
    <3>6. Effect(d, l) \in Int /\ quantity[l] \in Int
      BY <3>5 DEF EffectsTyped, IInv, TypeOK
    <3> QED
      BY <3>2, <3>3, <3>4, <3>6
  <2> QED
    BY <1>1, <1>4, <1>7, <1>8, <2>1, StockFollowsOn
<1> QED
  BY <1>7, <1>9, <1>10, <1>11, <1>12, <1>13 DEF SInv

LEMMA NextSInv == IInv /\ HInv /\ DInv /\ SInv /\ [DocNext]_allVars => SInv'
<1> SUFFICES ASSUME IInv, HInv, DInv, SInv, [DocNext]_allVars PROVE SInv'
  OBVIOUS
<1>1. CASE \E d \in Docs : CreateOrder(d) \/ CreateTransfer(d) \/ CreateCount(d)
  BY <1>1, CreationKeepsStock
<1>2. CASE \E s \in Sessions, d \in Docs : Request(s, d)
  BY <1>2, RequestKeepsStock
<1>3. CASE \E s \in Sessions : (Adjust(s) \/ Interrupt(s)) /\ UNCHANGED docVars
  BY <1>3, InsideRequestKeepsStock
<1>4. CASE \E s \in Sessions : Finish(s)
  BY <1>4, FinishKeepsStock
<1>5. CASE UNCHANGED allVars
  <2>1. UNCHANGED <<quantity, pc, plan, status, doing, overlapped>>
    BY <1>5 DEF allVars, vars, docVars
  <2>2. StatusesFit' /\ PlansFit' /\ Undisturbed'
    BY <2>1 DEF SInv, StatusesFit, PlansFit, Undisturbed
  <2>3. FinitelyMany' /\ SalesAreMade' /\ StockFollowsDocuments'
    BY <2>1 DEF SInv, FinitelyMany, Existing, SalesAreMade, OfKind,
                StockFollowsDocuments, Effect
  <2> QED
    BY <2>2, <2>3 DEF SInv
<1> QED
  BY <1>1, <1>2, <1>3, <1>4, <1>5 DEF DocNext

\* As long as no two operations on one document overlapped, the stock is what
\* the documents' statuses say, for any documents of any content and any number
\* of requests: each document took effect once, whole and in the status it shows.
THEOREM StockIsWhatDocumentsSay == DocSpec => []StockFollowsDocuments
<1>1. DocSpec => [](IInv /\ HInv)
  BY DocumentsAreStock, History, PTL
<1>2. IInv => TypeOK
  BY DEF IInv
<1>3. SInv => StockFollowsDocuments
  BY DEF SInv
<1> QED
  BY <1>1, <1>2, <1>3, InitDInv, NextDInv, InitSInv, NextSInv, PTL DEF DocSpec
=============================================================================
