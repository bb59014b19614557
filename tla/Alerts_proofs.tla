---------------------------- MODULE Alerts_proofs ----------------------------
(***************************************************************************)
(* For any number of workers and managers, any movements of the line and   *)
(* any failures: never two open alerts of a kind, and the mails about      *)
(* critical ones; and where nothing failed or overlapped, the open alerts  *)
(* tell the stock.                                                         *)
(***************************************************************************)
EXTENDS Alerts, FiniteSetTheorems, SequenceTheorems, TLAPS

-----------------------------------------------------------------------------
(* What a worker has to do about an event.                                 *)

HandlerStatement == {"raise", "select", "update"} \X Kinds

LEMMA StatementKinds ==
  ASSUME NEW s \in Statement
  PROVE  /\ s[1] = "ack" <=> s = <<"ack">>
         /\ s[1] = "commit" <=> s = <<"commit">>
         /\ s[1] \in {"raise", "select", "update"} => s[2] \in Kinds
  BY DEF Statement

LEMMA HandlersAreStatements ==
  ASSUME NEW e \in Event
  PROVE  Handlers(e) \in Seq(HandlerStatement)
  <1>1. \A k \in Kinds : Resolve(k) \in Seq(HandlerStatement)
                         /\ <<<<"raise", k>>>> \in Seq(HandlerStatement)
    BY DEF Resolve, HandlerStatement
  <1>2. <<>> \in Seq(HandlerStatement)
    BY EmptySeq
  <1>3. "low_stock" \in Kinds /\ "out_of_stock" \in Kinds
    BY DEF Kinds
  <1>4. CASE e.type = "stock.below_reorder_point"
    BY <1>1, <1>3, <1>4 DEF Handlers
  <1>5. CASE e.type = "stock.depleted"
    BY <1>1, <1>3, <1>5, ConcatProperties DEF Handlers
  <1>6. CASE e.type = "stock.moved"
    <2> DEFINE out == When(e.after > 0, Resolve("out_of_stock"))
               low == When(ReorderPoint > 0 /\ e.after > ReorderPoint,
                           Resolve("low_stock"))
    <2>1. out \in Seq(HandlerStatement) /\ low \in Seq(HandlerStatement)
      BY <1>1, <1>2, <1>3 DEF When
    <2>2. Handlers(e) = out \o low
      BY <1>6 DEF Handlers
    <2> HIDE DEF out, low
    <2> QED
      BY <2>1, <2>2, ConcatProperties
  <1> QED
    BY <1>4, <1>5, <1>6 DEF Event, EventType

\* A turn ends with the commit and the acknowledgement, and has one of each.
Ordered(list) ==
    /\ \A k \in 1..Len(list) : list[k] = <<"ack">> <=> k = Len(list)
    /\ \A k \in 1..Len(list) : list[k] = <<"commit">> <=> k = Len(list) - 1

LEMMA TurnIsOrdered ==
  ASSUME NEW h \in Seq(HandlerStatement)
  PROVE  /\ h \o Epilogue \in Seq(Statement)
         /\ Len(h \o Epilogue) >= 2
         /\ Ordered(h \o Epilogue)
  <1>1. h \in Seq(Statement)
    BY SeqMonotonic DEF HandlerStatement, Statement
  <1>2. /\ Epilogue \in Seq(Statement) /\ Len(Epilogue) = 2
        /\ Epilogue[1] = <<"commit">> /\ Epilogue[2] = <<"ack">>
    BY DEF Epilogue, Statement
  <1>3. /\ h \o Epilogue \in Seq(Statement)
        /\ Len(h \o Epilogue) = Len(h) + 2 /\ Len(h) \in Nat
        /\ \A i \in 1..Len(h) + 2 : (h \o Epilogue)[i] =
              IF i <= Len(h) THEN h[i] ELSE Epilogue[i - Len(h)]
    <2>1. h \o Epilogue \in Seq(Statement) /\ Len(h \o Epilogue) = Len(h) + Len(Epilogue)
      BY <1>1, <1>2, ConcatProperties
    <2>2. \A i \in 1..Len(h) + Len(Epilogue) : (h \o Epilogue)[i] =
              IF i <= Len(h) THEN h[i] ELSE Epilogue[i - Len(h)]
      BY <1>1, <1>2, ConcatProperties
    <2>3. Len(h) \in Nat
      BY <1>1, LenProperties
    <2> QED
      BY <1>2, <2>1, <2>2, <2>3
  <1>4. \A i \in 1..Len(h) : h[i] # <<"ack">> /\ h[i] # <<"commit">>
    BY ElementOfSeq DEF HandlerStatement
  <1>5. <<"ack">> # <<"commit">>
    OBVIOUS
  <1> DEFINE t == h \o Epilogue
  <1>6. \A k \in 1..Len(h) + 2 : k <= Len(h) => t[k] = h[k]
    BY <1>3
  <1>7. t[Len(h) + 1] = <<"commit">> /\ t[Len(h) + 2] = <<"ack">>
    BY <1>2, <1>3
  <1>8. \A k \in 1..Len(h) + 2 : k <= Len(h) \/ k = Len(h) + 1 \/ k = Len(h) + 2
    BY <1>3
  <1> HIDE DEF t
  <1>9. \A k \in 1..Len(h) + 2 :
           /\ t[k] = <<"ack">> <=> k = Len(h) + 2
           /\ t[k] = <<"commit">> <=> k = Len(h) + 1
    BY <1>3, <1>4, <1>5, <1>6, <1>7, <1>8
  <1>10. Len(t) = Len(h) + 2 /\ t \in Seq(Statement)
    BY <1>3 DEF t
  <1>11. Ordered(t)
    BY <1>3, <1>9, <1>10 DEF Ordered
  <1> QED
    BY <1>3, <1>10, <1>11 DEF t

LEMMA TailIsOrdered ==
  ASSUME NEW list \in Seq(Statement), list # <<>>, Ordered(list)
  PROVE  /\ Tail(list) \in Seq(Statement)
         /\ Len(Tail(list)) = Len(list) - 1
         /\ Ordered(Tail(list))
  <1>1. /\ Tail(list) \in Seq(Statement) /\ Len(Tail(list)) = Len(list) - 1
        /\ Len(list) \in Nat
        /\ \A k \in 1..Len(list) - 1 : Tail(list)[k] = list[k + 1]
    OBVIOUS
  <1> DEFINE t == Tail(list)
             n == Len(list)
  <1>2. n \in Nat /\ \A k \in 1..n - 1 : k + 1 \in 1..n /\ t[k] = list[k + 1]
    BY <1>1
  <1>3. \A k \in 1..n : /\ list[k] = <<"ack">> <=> k = n
                        /\ list[k] = <<"commit">> <=> k = n - 1
    BY DEF Ordered
  <1>4. Len(t) = n - 1
    BY <1>1
  <1> HIDE DEF t, n
  <1>5. \A k \in 1..n - 1 : /\ t[k] = <<"ack">> <=> k = n - 1
                            /\ t[k] = <<"commit">> <=> k = n - 2
    <2> TAKE k \in 1..n - 1
    <2>1. k + 1 \in 1..n /\ t[k] = list[k + 1]
      BY <1>2
    <2>2. (list[k + 1] = <<"ack">> <=> k + 1 = n)
          /\ (list[k + 1] = <<"commit">> <=> k + 1 = n - 1)
      BY <1>3, <2>1
    <2>3. (k + 1 = n <=> k = n - 1) /\ (k + 1 = n - 1 <=> k = n - 2)
      BY <1>2
    <2> QED
      BY <2>1, <2>2, <2>3
  <1>6. Ordered(t)
    BY <1>2, <1>4, <1>5 DEF Ordered
  <1> QED
    BY <1>1, <1>6 DEF t

-----------------------------------------------------------------------------
(* The invariant.                                                          *)

\* A worker with an event in hand has the rest of its turn before it; once it
\* has committed, or has nothing in hand, it holds nothing uncommitted.
TurnSound ==
    \A w \in Workers :
        /\ todo[w] = <<>> <=> Idle(w)
        /\ Ordered(todo[w])
        /\ Len(todo[w]) <= 1 => opened[w] = {} /\ closed[w] = {}

\* What a worker has inserted nobody else has, and it has closed every open
\* alert of the kind it inserts.
InsertSound ==
    \A w \in Workers : \A k \in opened[w] :
        /\ OpenAlerts(k) \subseteq closed[w]
        /\ \A u \in Workers \ {w} : k \notin opened[u]

OneOpen == \A k \in Kinds : \A i, j \in OpenAlerts(k) : i = j

MailSound ==
    \A w \in Workers : "out_of_stock" \in opened[w] =>
        hand[w] \in mailed \cup unheard

IInv ==
    /\ TypeOK
    /\ TurnSound
    /\ InsertSound
    /\ OneOpen
    /\ MailSound
    /\ AlertsOutliveTheirMail

LEMMA InitIInv == Init => IInv
  <1> SUFFICES ASSUME Init PROVE IInv
    OBVIOUS
  <1>1. TypeOK
    <2>1. log \in Seq(Event) /\ alerts \in Seq(Alert) /\ Len(log) = 0
          /\ Len(alerts) = 0 /\ <<>> \in Seq(Statement)
      BY EmptySeq DEF Init
    <2>2. /\ cursor \in 0..Len(log) /\ pending \subseteq 1..cursor
          /\ mailed \subseteq 1..cursor /\ unheard \subseteq 1..cursor
          /\ hand \in [Workers -> 0..cursor]
          /\ decided \in [Managers -> 0..Len(alerts)]
      BY <2>1 DEF Init
    <2>3. todo \in [Workers -> Seq(Statement)]
      BY <2>1 DEF Init
    <2>4. /\ picked \in [Workers -> SUBSET (1..Len(alerts))]
          /\ opened \in [Workers -> SUBSET Kinds]
          /\ closed \in [Workers -> SUBSET (1..Len(alerts))]
      BY DEF Init
    <2>5. level \in Levels /\ movements \in 0..MaxMovements
          /\ failures \in 0..MaxFailures
      BY AlertsAssumption DEF Init
    <2>6. overlapped \in BOOLEAN /\ swallowed \in BOOLEAN
      BY Zenon DEF Init
    <2> QED
      BY <2>1, <2>2, <2>3, <2>4, <2>5, <2>6 DEF TypeOK
  <1>2. TurnSound
    BY DEF Init, TurnSound, Idle, Ordered
  <1>3. InsertSound /\ OneOpen /\ MailSound
    BY DEF Init, InsertSound, OneOpen, MailSound, OpenAlerts
  <1>4. AlertsOutliveTheirMail
    BY DEF Init, AlertsOutliveTheirMail
  <1> QED
    BY <1>1, <1>2, <1>3, <1>4 DEF IInv

LEMMA MoveStep ==
  ASSUME IInv, NEW q \in Levels, Move(q)
  PROVE  IInv'
  <1>1. level \in Nat /\ q \in Nat
    BY AlertsAssumption DEF IInv, TypeOK
  <1>2. /\ <<Fact("stock.moved", q)>> \in Seq(Event)
        /\ Crossing(level, q) \in Seq(Event)
    <2>1. \A type \in EventType : Fact(type, q) \in Event
      BY <1>1 DEF Fact, Event
    <2>2. \A e \in Event : <<e>> \in Seq(Event)
      OBVIOUS
    <2>3. \A type \in EventType : <<Fact(type, q)>> \in Seq(Event)
      BY <2>1, <2>2
    <2> QED
      BY <2>3, EmptySeq DEF Crossing, EventType
  <1>3. log \in Seq(Event) /\ log \o <<Fact("stock.moved", q)>> \in Seq(Event)
        /\ Len(log \o <<Fact("stock.moved", q)>>) = Len(log) + 1
    BY <1>2, ConcatProperties DEF IInv, TypeOK
  <1>4. log' \in Seq(Event) /\ Len(log') >= Len(log)
    BY <1>2, <1>3, ConcatProperties, LenProperties DEF Move
  <1>5. cursor \in 0..Len(log')
    BY <1>3, <1>4, LenProperties DEF IInv, TypeOK
  <1>6. TypeOK'
    BY <1>4, <1>5, AlertsAssumption DEF IInv, TypeOK, Move, workerVars, countVars,
       mailVars
  <1> QED
    BY <1>6 DEF IInv, Move, workerVars, countVars, TurnSound, InsertSound, OneOpen,
               MailSound, AlertsOutliveTheirMail, Idle, OpenAlerts, mailVars
-----------------------------------------------------------------------------
(* Delivery.                                                               *)

LEMMA TakeUpStep ==
  ASSUME IInv, NEW w \in Workers, NEW i \in 1..cursor', TakeUp(w, i),
         cursor <= cursor', cursor' \in 0..Len(log), pending' \subseteq 1..cursor'
  PROVE  IInv'
  <1>1. log[i] \in Event /\ cursor \in Nat /\ cursor' \in Nat
    BY DEF IInv, TypeOK
  <1>2. Handlers(log[i]) \in Seq(HandlerStatement)
    BY <1>1, HandlersAreStatements
  <1>3. /\ Turn(log[i]) \in Seq(Statement) /\ Len(Turn(log[i])) >= 2
        /\ Ordered(Turn(log[i]))
    BY <1>2, TurnIsOrdered DEF Turn
  <1>4. /\ Idle(w) /\ hand' = [hand EXCEPT ![w] = i]
        /\ todo' = [todo EXCEPT ![w] = Turn(log[i])]
        /\ UNCHANGED <<level, log, movements, alerts, mailVars, picked, opened,
                       closed, decided, failures, swallowed>>
    BY DEF TakeUp
  <1> HIDE DEF Turn
  <1>5. TypeOK'
    <2>1. /\ hand' \in [Workers -> 0..cursor'] /\ mailed' \subseteq 1..cursor'
          /\ unheard' \subseteq 1..cursor'
      BY <1>1, <1>4 DEF IInv, TypeOK, mailVars
    <2>2. todo' \in [Workers -> Seq(Statement)]
      BY <1>3, <1>4 DEF IInv, TypeOK
    <2>3. overlapped' \in BOOLEAN
      BY DEF TakeUp
    <2> QED
      BY <1>4, <2>1, <2>2, <2>3 DEF IInv, TypeOK
  <1>6. /\ hand'[w] = i /\ todo'[w] = Turn(log[i])
        /\ \A u \in Workers : u # w => hand'[u] = hand[u] /\ todo'[u] = todo[u]
    BY <1>4 DEF IInv, TypeOK
  <1>7. Turn(log[i]) # <<>> /\ ~(Len(Turn(log[i])) <= 1)
    BY <1>3
  <1>8. TurnSound'
    <2> SUFFICES ASSUME NEW u \in Workers
                 PROVE  /\ todo'[u] = <<>> <=> hand'[u] = 0
                        /\ Ordered(todo'[u])
                        /\ Len(todo'[u]) <= 1 => opened[u] = {} /\ closed[u] = {}
      BY <1>4 DEF TurnSound, Idle, Ordered
    <2>1. CASE u = w
      BY <1>3, <1>6, <1>7, <2>1
    <2>2. CASE u # w
      BY <1>6, <2>2 DEF IInv, TurnSound, Idle
    <2> QED
      BY <2>1, <2>2
  <1>9. opened[w] = {} /\ hand[w] = 0
    <2>1. todo[w] = <<>>
      BY <1>4 DEF IInv, TurnSound
    <2>2. Len(todo[w]) <= 1
      BY <2>1
    <2> QED
      BY <1>4, <2>2 DEF IInv, TurnSound, Idle
  <1>10. InsertSound' /\ OneOpen'
    BY <1>4 DEF IInv, InsertSound, OneOpen, OpenAlerts
  <1>11. MailSound'
    BY <1>4, <1>6, <1>9 DEF IInv, MailSound, mailVars
  <1>12. AlertsOutliveTheirMail'
    BY <1>4, <1>6, <1>9 DEF IInv, AlertsOutliveTheirMail, mailVars
  <1> QED
    BY <1>5, <1>8, <1>10, <1>11, <1>12 DEF IInv

LEMMA DeliveryStep ==
  ASSUME IInv, NEW w \in Workers, Receive(w) \/ Redeliver(w)
  PROVE  IInv'
  <1>1. cursor \in 0..Len(log) /\ Len(log) \in Nat /\ pending \subseteq 1..cursor
    BY LenProperties DEF IInv, TypeOK
  <1>2. CASE Receive(w)
    BY <1>1, <1>2, TakeUpStep DEF Receive
  <1>3. CASE Redeliver(w)
    BY <1>1, <1>3, TakeUpStep DEF Redeliver
  <1> QED
    BY <1>2, <1>3

-----------------------------------------------------------------------------
(* Statements.                                                             *)

\* A statement other than the commit and the acknowledgement leaves the
\* worker's turn in order.
LEMMA StatementTurn ==
  ASSUME IInv, NEW w \in Workers, NEW s \in {"raise", "select", "update"}, At(w, s),
         todo' = [todo EXCEPT ![w] = Tail(@)], hand' = hand,
         \A u \in Workers \ {w} : opened'[u] = opened[u] /\ closed'[u] = closed[u]
  PROVE  /\ todo' \in [Workers -> Seq(Statement)]
         /\ TurnSound'
         /\ hand[w] # 0
  <1>1. todo[w] \in Seq(Statement) /\ todo[w] # <<>> /\ Len(todo[w]) \in Nat
    BY LenProperties DEF IInv, TypeOK, At
  <1>2. Head(todo[w]) = todo[w][1] /\ 1 \in 1..Len(todo[w]) /\ todo[w][1] \in Statement
    BY <1>1
  <1>3. todo[w][1] # <<"ack">> /\ todo[w][1] # <<"commit">>
    BY <1>2 DEF At
  <1>4. Ordered(todo[w])
    BY DEF IInv, TurnSound
  <1>5. Len(todo[w]) # 1 /\ Len(todo[w]) # 2
    BY <1>2, <1>3, <1>4 DEF Ordered
  <1>6. /\ Tail(todo[w]) \in Seq(Statement)
        /\ Len(Tail(todo[w])) = Len(todo[w]) - 1
        /\ Ordered(Tail(todo[w]))
    BY <1>1, <1>4, TailIsOrdered
  <1>7. Len(Tail(todo[w])) # 0 /\ ~(Len(Tail(todo[w])) <= 1)
    <2>1. \A n \in Nat : 1 \in 1..n /\ n # 1 /\ n # 2 => n - 1 # 0 /\ ~(n - 1 <= 1)
      OBVIOUS
    <2> QED
      BY <1>1, <1>2, <1>5, <1>6, <2>1
  <1>8. /\ todo'[w] = Tail(todo[w])
        /\ \A u \in Workers : u # w => todo'[u] = todo[u]
    BY DEF IInv, TypeOK
  <1>9. hand[w] # 0
    BY <1>1 DEF IInv, TurnSound, Idle
  <1>10. Tail(todo[w]) # <<>>
    BY <1>7, EmptySeq
  <1>11. TurnSound'
    <2> SUFFICES ASSUME NEW u \in Workers
                 PROVE  /\ todo'[u] = <<>> <=> hand[u] = 0
                        /\ Ordered(todo'[u])
                        /\ Len(todo'[u]) <= 1 => opened'[u] = {} /\ closed'[u] = {}
      BY DEF TurnSound, Idle, Ordered
    <2>1. CASE u = w
      BY <1>6, <1>7, <1>8, <1>9, <1>10, <2>1
    <2>2. CASE u # w
      BY <1>8, <2>2 DEF IInv, TurnSound, Idle
    <2> QED
      BY <2>1, <2>2
  <1>12. todo' \in [Workers -> Seq(Statement)]
    BY <1>6 DEF IInv, TypeOK
  <1> QED
    BY <1>9, <1>11, <1>12
LEMMA RaiseStep ==
  ASSUME IInv, NEW w \in Workers, Raise(w)
  PROVE  IInv'
  <1> DEFINE k == Kind(w)
             new == OpenAlerts(k) \ closed[w] = {}
  <1>1. k \in Kinds
    <2>1. todo[w] \in Seq(Statement) /\ todo[w] # <<>>
      BY DEF IInv, TypeOK, Raise, At
    <2>2. Head(todo[w]) \in Statement
      BY <2>1, HeadTailProperties
    <2> QED
      BY <2>2, StatementKinds DEF Raise, At, Kind
  <1>2. /\ \A u \in Workers \ {w} : k \notin opened[u]
        /\ opened' = [opened EXCEPT ![w] = IF new THEN @ \cup {k} ELSE @]
        /\ UNCHANGED <<level, streamVars, alerts, hand, picked, closed, decided,
                       countVars>>
        /\ mailed \subseteq mailed' /\ unheard \subseteq unheard'
        /\ mailed' \cup unheard' =
              (mailed \cup unheard)
                 \cup (IF new /\ k = "out_of_stock" THEN {hand[w]} ELSE {})
    BY DEF Raise, Others, Notify, mailVars
  <1> HIDE DEF k, new
  <1>3. /\ todo' \in [Workers -> Seq(Statement)] /\ TurnSound' /\ hand[w] # 0
    <2>1. \A u \in Workers \ {w} : opened'[u] = opened[u]
      BY <1>2 DEF IInv, TypeOK
    <2> QED
      BY <1>2, <2>1, StatementTurn DEF Raise
  <1>4. /\ opened'[w] = IF new THEN opened[w] \cup {k} ELSE opened[w]
        /\ \A u \in Workers : u # w => opened'[u] = opened[u]
    BY <1>2 DEF IInv, TypeOK
  <1>5. TypeOK'
    <2>1. opened' \in [Workers -> SUBSET Kinds]
      <3>1. (IF new THEN opened[w] \cup {k} ELSE opened[w]) \subseteq Kinds
        BY <1>1 DEF IInv, TypeOK
      <3> QED
        BY <1>2, <3>1 DEF IInv, TypeOK
    <2>2. mailed' \subseteq 1..cursor /\ unheard' \subseteq 1..cursor
      <3>1. mailed \cup unheard \subseteq 1..cursor /\ hand[w] \in 1..cursor
        BY <1>3 DEF IInv, TypeOK
      <3> QED
        BY <1>2, <3>1
    <2> QED
      BY <1>2, <1>3, <2>1, <2>2 DEF IInv, TypeOK, streamVars, countVars
  <1>6. InsertSound'
    <2> SUFFICES ASSUME NEW u \in Workers, NEW x \in opened'[u]
                 PROVE  /\ OpenAlerts(x) \subseteq closed[u]
                        /\ \A v \in Workers \ {u} : x \notin opened'[v]
      BY <1>2 DEF InsertSound, OpenAlerts
    <2>1. CASE u = w /\ x \notin opened[w]
      BY <1>2, <1>4, <2>1 DEF new
    <2>2. CASE u = w /\ x \in opened[w]
      BY <1>4, <2>2 DEF IInv, InsertSound
    <2>3. CASE u # w
      BY <1>2, <1>4, <2>3 DEF IInv, InsertSound
    <2> QED
      BY <2>1, <2>2, <2>3
  <1>7. OneOpen'
    BY <1>2 DEF IInv, OneOpen, OpenAlerts
  <1>8. MailSound'
    BY <1>2, <1>4 DEF IInv, MailSound
  <1>9. AlertsOutliveTheirMail'
    <2>1. \A a \in 1..Len(alerts) :
             alerts[a].kind = "out_of_stock" => alerts[a].cause \in mailed' \cup unheard'
      BY <1>2 DEF IInv, AlertsOutliveTheirMail
    <2>2. ASSUME failures = 0, NEW i \in mailed' \cup unheard'
          PROVE  \/ \E a \in 1..Len(alerts) : alerts[a].cause = i
                 \/ \E u \in Workers : hand[u] = i /\ "out_of_stock" \in opened'[u]
      <3>1. CASE i \in mailed \cup unheard
        BY <1>4, <2>2, <3>1 DEF IInv, AlertsOutliveTheirMail
      <3>2. CASE i \notin mailed \cup unheard
        BY <1>2, <1>4, <3>2
      <3> QED
        BY <3>1, <3>2
    <2> QED
      BY <1>2, <2>1, <2>2 DEF AlertsOutliveTheirMail, countVars
  <1> QED
    BY <1>3, <1>5, <1>6, <1>7, <1>8, <1>9 DEF IInv

LEMMA SelectUpdateStep ==
  ASSUME IInv, NEW w \in Workers, Select(w) \/ Update(w)
  PROVE  IInv'
  <1>1. /\ UNCHANGED <<level, streamVars, alerts, mailVars, hand, opened, decided,
                       countVars>>
        /\ \A u \in Workers : closed[u] \subseteq closed'[u]
        /\ \A u \in Workers \ {w} : closed'[u] = closed[u]
    <2>1. /\ closed \in [Workers -> SUBSET (1..Len(alerts))]
          /\ picked \in [Workers -> SUBSET (1..Len(alerts))]
      BY DEF IInv, TypeOK
    <2>2. closed' = closed \/ closed' = [closed EXCEPT ![w] = @ \cup picked[w]]
      BY DEF Select, Update
    <2>3. /\ \A u \in Workers : closed[u] \subseteq closed'[u]
          /\ \A u \in Workers \ {w} : closed'[u] = closed[u]
      BY <2>1, <2>2
    <2> QED
      BY <2>3 DEF Select, Update
  <1>2. /\ todo' \in [Workers -> Seq(Statement)] /\ TurnSound'
    BY <1>1, StatementTurn DEF Select, Update
  <1>3. /\ picked' \in [Workers -> SUBSET (1..Len(alerts))]
        /\ closed' \in [Workers -> SUBSET (1..Len(alerts))]
    <2> DEFINE ids == 1..Len(alerts)
    <2>1. picked \in [Workers -> SUBSET ids] /\ closed \in [Workers -> SUBSET ids]
      BY DEF IInv, TypeOK
    <2>2. \A k : OpenAlerts(k) \subseteq ids
      BY DEF OpenAlerts
    <2>3. \/ /\ picked' = [picked EXCEPT ![w] = OpenAlerts(Kind(w)) \ closed[w]]
             /\ closed' = closed
          \/ /\ picked' = [picked EXCEPT ![w] = {}]
             /\ closed' = [closed EXCEPT ![w] = @ \cup picked[w]]
      BY DEF Select, Update
    <2> HIDE DEF ids
    <2>4. picked' \in [Workers -> SUBSET ids] /\ closed' \in [Workers -> SUBSET ids]
      BY <2>1, <2>2, <2>3
    <2> QED
      BY <2>4 DEF ids
  <1>4. TypeOK'
    BY <1>1, <1>2, <1>3 DEF IInv, TypeOK, streamVars, countVars, mailVars
  <1>5. InsertSound' /\ OneOpen' /\ MailSound'
    BY <1>1 DEF IInv, InsertSound, OneOpen, MailSound, OpenAlerts, mailVars
  <1>6. AlertsOutliveTheirMail'
    BY <1>1 DEF IInv, AlertsOutliveTheirMail, countVars, mailVars
  <1> QED
    BY <1>2, <1>4, <1>5, <1>6 DEF IInv

-----------------------------------------------------------------------------
(* Commit.                                                                 *)

\* What a worker's commit does to the table.
LEMMA CommitShape ==
  ASSUME IInv, NEW w \in Workers, Commit(w)
  PROVE  /\ alerts' \in Seq(Alert)
         /\ Len(alerts') = Len(alerts) + (IF opened[w] = {} THEN 0 ELSE 1)
         /\ \A i \in 1..Len(alerts) :
               /\ alerts'[i].kind = alerts[i].kind
               /\ alerts'[i].cause = alerts[i].cause
               /\ alerts'[i].status = IF i \in closed[w] THEN "resolved"
                                      ELSE alerts[i].status
         /\ opened[w] # {} => \E k \in opened[w] :
               alerts'[Len(alerts) + 1] =
                  [kind |-> k, cause |-> hand[w], status |-> "open"]
  <1> DEFINE rewritten(i) == IF i \in closed[w]
                             THEN [alerts[i] EXCEPT !.status = "resolved"]
                             ELSE alerts[i]
             base == [i \in 1..Len(alerts) |-> rewritten(i)]
  <1>1. alerts \in Seq(Alert) /\ Len(alerts) \in Nat
        /\ \A i \in 1..Len(alerts) : alerts[i] \in Alert
    BY LenProperties, ElementOfSeq DEF IInv, TypeOK
  <1>2. \A i \in 1..Len(alerts) :
           /\ rewritten(i) \in Alert
           /\ rewritten(i).kind = alerts[i].kind
           /\ rewritten(i).cause = alerts[i].cause
           /\ rewritten(i).status = IF i \in closed[w] THEN "resolved"
                                    ELSE alerts[i].status
    BY <1>1 DEF Alert
  <1> HIDE DEF rewritten
  <1>3. base \in Seq(Alert) /\ Len(base) = Len(alerts)
        /\ \A i \in 1..Len(alerts) : base[i] = rewritten(i)
    <2>1. base \in [1..Len(alerts) -> Alert]
      BY <1>2
    <2>2. base \in Seq(Alert)
      BY <1>1, <2>1, SeqDef
    <2>3. Len(base) = Len(alerts)
      BY <1>1, <2>2, LenProperties
    <2> QED
      BY <2>2, <2>3
  <1>4. alerts' = base \o NewAlert(w)
    BY DEF Commit, rewritten
  <1> HIDE DEF base
  <1>5. hand[w] \in Nat \ {0}
    BY DEF Commit, At, IInv, TypeOK, TurnSound, Idle
  <1>6. CASE opened[w] = {}
    <2>1. NewAlert(w) = <<>>
      BY <1>6 DEF NewAlert
    <2>2. alerts' = base
      BY <1>3, <1>4, <2>1, ConcatEmptySeq
    <2> QED
      BY <1>1, <1>2, <1>3, <1>6, <2>2
  <1>7. CASE opened[w] # {}
    <2>1. PICK k \in opened[w] :
             NewAlert(w) = <<[kind |-> k, cause |-> hand[w], status |-> "open"]>>
      BY <1>7 DEF NewAlert
    <2> DEFINE row == [kind |-> k, cause |-> hand[w], status |-> "open"]
    <2>2. row \in Alert
      BY <1>5 DEF IInv, TypeOK, Alert
    <2> HIDE DEF row
    <2>3. <<row>> \in Seq(Alert) /\ Len(<<row>>) = 1 /\ <<row>>[1] = row
      BY <2>2
    <2>4. alerts' = base \o <<row>>
      BY <1>4, <2>1 DEF row
    <2>5. /\ alerts' \in Seq(Alert) /\ Len(alerts') = Len(alerts) + 1
          /\ \A i \in 1..Len(alerts) + 1 : alerts'[i] =
                IF i <= Len(alerts) THEN base[i] ELSE <<row>>[i - Len(alerts)]
      BY <1>3, <2>3, <2>4, ConcatProperties
    <2>6. alerts'[Len(alerts) + 1] = row
      BY <1>1, <2>3, <2>5
    <2>7. \A i \in 1..Len(alerts) : alerts'[i] = rewritten(i)
      BY <1>1, <1>3, <2>5
    <2> QED
      BY <1>2, <1>7, <2>5, <2>6, <2>7 DEF row
  <1> QED
    BY <1>6, <1>7

LEMMA CommitStep ==
  ASSUME IInv, NEW w \in Workers, Commit(w)
  PROVE  IInv'
  <1> DEFINE n == Len(alerts)
  <1>1. /\ alerts' \in Seq(Alert)
        /\ Len(alerts') = n + (IF opened[w] = {} THEN 0 ELSE 1)
        /\ \A i \in 1..n :
               /\ alerts'[i].kind = alerts[i].kind
               /\ alerts'[i].cause = alerts[i].cause
               /\ alerts'[i].status = IF i \in closed[w] THEN "resolved"
                                      ELSE alerts[i].status
        /\ opened[w] # {} => \E k \in opened[w] :
               alerts'[n + 1] = [kind |-> k, cause |-> hand[w], status |-> "open"]
    BY CommitShape
  <1>2. n \in Nat /\ Len(alerts') \in Nat /\ n <= Len(alerts')
    BY <1>1, LenProperties DEF IInv, TypeOK
  <1>3. /\ opened' = [opened EXCEPT ![w] = {}] /\ closed' = [closed EXCEPT ![w] = {}]
        /\ todo' = [todo EXCEPT ![w] = Tail(@)] /\ At(w, "commit")
        /\ UNCHANGED <<level, streamVars, mailVars, hand, picked, decided, countVars>>
    BY DEF Commit
  <1>4. /\ opened'[w] = {} /\ closed'[w] = {} /\ todo'[w] = Tail(todo[w])
        /\ \A u \in Workers : u # w =>
              opened'[u] = opened[u] /\ closed'[u] = closed[u] /\ todo'[u] = todo[u]
    BY <1>3 DEF IInv, TypeOK
  <1> HIDE DEF n
  <1>5. /\ todo[w] \in Seq(Statement) /\ todo[w] # <<>> /\ Ordered(todo[w])
        /\ Len(todo[w]) = 2 /\ hand[w] # 0
    <2>1. todo[w] \in Seq(Statement) /\ todo[w] # <<>> /\ Ordered(todo[w])
      BY <1>3 DEF IInv, TypeOK, TurnSound, At
    <2>2. /\ Len(todo[w]) \in Nat /\ 1 \in 1..Len(todo[w]) /\ todo[w][1] \in Statement
          /\ Head(todo[w]) = todo[w][1]
      BY <2>1
    <2>3. todo[w][1] = <<"commit">>
      BY <1>3, <2>2, StatementKinds DEF At
    <2>4. 1 = Len(todo[w]) - 1
      BY <2>1, <2>2, <2>3 DEF Ordered
    <2>5. Len(todo[w]) = 2
      BY <2>2, <2>4
    <2> QED
      BY <2>1, <2>5 DEF IInv, TurnSound, Idle
  <1>6. /\ Tail(todo[w]) \in Seq(Statement) /\ Len(Tail(todo[w])) = 1
        /\ Ordered(Tail(todo[w])) /\ Tail(todo[w]) # <<>>
    <2>1. /\ Tail(todo[w]) \in Seq(Statement) /\ Len(Tail(todo[w])) = 1
          /\ Ordered(Tail(todo[w]))
      BY <1>5, TailIsOrdered
    <2>2. Len(Tail(todo[w])) # 0
      <3>1. \A m : m = 1 => m # 0
        OBVIOUS
      <3> QED
        BY <2>1, <3>1, Zenon
    <2> QED
      BY <2>1, <2>2, EmptySeq
  <1>7. TypeOK'
    <2>1. /\ opened' \in [Workers -> SUBSET Kinds]
          /\ todo' \in [Workers -> Seq(Statement)]
      BY <1>3, <1>6 DEF IInv, TypeOK
    <2>2. 1..n \subseteq 1..Len(alerts') /\ 0..n \subseteq 0..Len(alerts')
      BY <1>2
    <2>3. /\ picked \in [Workers -> SUBSET (1..Len(alerts'))]
          /\ closed' \in [Workers -> SUBSET (1..Len(alerts'))]
          /\ decided \in [Managers -> 0..Len(alerts')]
      BY <1>3, <2>2 DEF IInv, TypeOK, n
    <2> QED
      BY <1>1, <1>3, <2>1, <2>3 DEF IInv, TypeOK, streamVars, countVars,
         mailVars
  <1>8. TurnSound'
    <2> SUFFICES ASSUME NEW u \in Workers
                 PROVE  /\ todo'[u] = <<>> <=> hand[u] = 0
                        /\ Ordered(todo'[u])
                        /\ Len(todo'[u]) <= 1 => opened'[u] = {} /\ closed'[u] = {}
      BY <1>3 DEF TurnSound, Idle, Ordered
    <2>1. CASE u = w
      BY <1>4, <1>5, <1>6, <2>1
    <2>2. CASE u # w
      BY <1>4, <2>2 DEF IInv, TurnSound, Idle
    <2> QED
      BY <2>1, <2>2
  <1>9. ASSUME NEW k \in Kinds, k \notin opened[w]
        PROVE  OpenAlerts(k)' \subseteq OpenAlerts(k)
    <2> SUFFICES ASSUME NEW i \in 1..Len(alerts'), alerts'[i].kind = k,
                        alerts'[i].status = "open"
                 PROVE  i \in 1..n /\ alerts[i].kind = k /\ alerts[i].status = "open"
      BY DEF OpenAlerts, n
    <2>1. CASE i \in 1..n
      BY <1>1, <2>1
    <2>2. CASE i \notin 1..n
      <3>1. i = n + 1 /\ opened[w] # {}
        BY <1>1, <1>2, <2>2
      <3>2. PICK x \in opened[w] :
               alerts'[i] = [kind |-> x, cause |-> hand[w], status |-> "open"]
        BY <1>1, <3>1
      <3> QED
        BY <1>9, <3>2
    <2> QED
      BY <2>1, <2>2
  <1>10. ASSUME NEW k \in Kinds, k \in opened[w]
         PROVE  OpenAlerts(k)' \subseteq {n + 1}
    <2>1. OpenAlerts(k) \subseteq closed[w]
      BY <1>10 DEF IInv, InsertSound
    <2> QED
      BY <1>1, <1>2, <2>1 DEF OpenAlerts, n
  <1>11. InsertSound'
    <2> SUFFICES ASSUME NEW u \in Workers, NEW k \in opened'[u]
                 PROVE  /\ OpenAlerts(k)' \subseteq closed'[u]
                        /\ \A v \in Workers \ {u} : k \notin opened'[v]
      BY DEF InsertSound
    <2>1. u # w /\ k \in opened[u] /\ k \in Kinds
      BY <1>4, <1>7 DEF TypeOK
    <2>2. /\ OpenAlerts(k) \subseteq closed[u]
          /\ \A v \in Workers \ {u} : k \notin opened[v]
      BY <2>1 DEF IInv, InsertSound
    <2>3. OpenAlerts(k)' \subseteq OpenAlerts(k)
      BY <1>9, <2>1, <2>2
    <2> QED
      BY <1>4, <2>1, <2>2, <2>3
  <1>12. OneOpen'
    <2> SUFFICES ASSUME NEW k \in Kinds, NEW i \in OpenAlerts(k)',
                        NEW j \in OpenAlerts(k)'
                 PROVE  i = j
      BY DEF OneOpen
    <2> QED
      BY <1>9, <1>10 DEF IInv, OneOpen
  <1>13. MailSound'
    BY <1>3, <1>4 DEF IInv, MailSound, mailVars
  <1>14. AlertsOutliveTheirMail'
    <2>1. ASSUME NEW a \in 1..Len(alerts'), alerts'[a].kind = "out_of_stock"
          PROVE  alerts'[a].cause \in mailed \cup unheard
      <3>1. CASE a \in 1..n
        BY <1>1, <2>1, <3>1 DEF IInv, AlertsOutliveTheirMail, n
      <3>2. CASE a \notin 1..n
        <4>1. a = n + 1 /\ opened[w] # {}
          BY <1>1, <1>2, <2>1, <3>2
        <4>2. PICK k \in opened[w] :
                 alerts'[a] = [kind |-> k, cause |-> hand[w], status |-> "open"]
          BY <1>1, <4>1
        <4> QED
          BY <2>1, <4>2 DEF IInv, MailSound
      <3> QED
        BY <3>1, <3>2
    <2>2. ASSUME failures = 0, NEW i \in mailed \cup unheard
          PROVE  \/ \E a \in 1..Len(alerts') : alerts'[a].cause = i
                 \/ \E u \in Workers : hand[u] = i /\ "out_of_stock" \in opened'[u]
      <3>1. CASE \E a \in 1..n : alerts[a].cause = i
        BY <1>1, <1>2, <3>1
      <3>2. CASE hand[w] = i /\ "out_of_stock" \in opened[w]
        <4>1. opened[w] # {} /\ n + 1 \in 1..Len(alerts')
          BY <1>1, <1>2, <3>2
        <4>2. PICK x \in opened[w] :
                 alerts'[n + 1] = [kind |-> x, cause |-> hand[w], status |-> "open"]
          BY <1>1, <4>1
        <4>3. alerts'[n + 1].cause = hand[w]
          BY <4>2
        <4> QED
          BY <3>2, <4>1, <4>3
      <3>3. CASE \E u \in Workers \ {w} :
                   hand[u] = i /\ "out_of_stock" \in opened[u]
        BY <1>4, <3>3
      <3> QED
        BY <2>2, <3>1, <3>2, <3>3 DEF IInv, AlertsOutliveTheirMail, n
    <2> QED
      BY <1>3, <2>1, <2>2 DEF AlertsOutliveTheirMail, countVars, mailVars
  <1> QED
    BY <1>7, <1>8, <1>11, <1>12, <1>13, <1>14 DEF IInv
-----------------------------------------------------------------------------
(* The end of a turn, failures, and managers.                              *)

LEMMA AckStep ==
  ASSUME IInv, NEW w \in Workers, Ack(w)
  PROVE  IInv'
  <1>1. /\ At(w, "ack") /\ hand' = [hand EXCEPT ![w] = 0]
        /\ todo' = [todo EXCEPT ![w] = Tail(@)] /\ pending' \subseteq pending
        /\ UNCHANGED <<level, log, movements, cursor, alerts, mailVars, picked,
                       opened, closed, decided, countVars>>
    BY DEF Ack
  <1>2. todo[w] \in Seq(Statement) /\ todo[w] # <<>> /\ Ordered(todo[w])
    BY <1>1 DEF IInv, TypeOK, TurnSound, At
  <1>3. Len(todo[w]) = 1
    <2>1. /\ Len(todo[w]) \in Nat /\ 1 \in 1..Len(todo[w]) /\ todo[w][1] \in Statement
          /\ Head(todo[w]) = todo[w][1]
      BY <1>2
    <2>2. todo[w][1] = <<"ack">>
      BY <1>1, <2>1, StatementKinds DEF At
    <2> QED
      BY <1>2, <2>1, <2>2 DEF Ordered
  <1>4. opened[w] = {} /\ closed[w] = {}
    <2>1. \A n : n = 1 => n <= 1
      OBVIOUS
    <2>2. Len(todo[w]) <= 1
      BY <1>3, <2>1, Zenon
    <2> QED
      BY <2>2 DEF IInv, TurnSound
  <1>5. Tail(todo[w]) = <<>> /\ Ordered(Tail(todo[w]))
        /\ Tail(todo[w]) \in Seq(Statement)
    <2>1. Len(Tail(todo[w])) = 0 /\ Ordered(Tail(todo[w]))
          /\ Tail(todo[w]) \in Seq(Statement)
      BY <1>2, <1>3, TailIsOrdered
    <2> QED
      BY <2>1, EmptySeq
  <1>6. /\ hand'[w] = 0 /\ todo'[w] = <<>> /\ Ordered(todo'[w])
        /\ \A u \in Workers : u # w => hand'[u] = hand[u] /\ todo'[u] = todo[u]
    BY <1>1, <1>5 DEF IInv, TypeOK
  <1>7. TypeOK'
    BY <1>1, <1>5 DEF IInv, TypeOK, countVars, mailVars
  <1>8. TurnSound'
    <2> SUFFICES ASSUME NEW u \in Workers
                 PROVE  /\ todo'[u] = <<>> <=> hand'[u] = 0
                        /\ Ordered(todo'[u])
                        /\ Len(todo'[u]) <= 1 => opened[u] = {} /\ closed[u] = {}
      BY <1>1 DEF TurnSound, Idle, Ordered
    <2>1. CASE u = w
      BY <1>4, <1>6, <2>1
    <2>2. CASE u # w
      BY <1>6, <2>2 DEF IInv, TurnSound, Idle
    <2> QED
      BY <2>1, <2>2
  <1>9. InsertSound' /\ OneOpen'
    BY <1>1 DEF IInv, InsertSound, OneOpen, OpenAlerts
  <1>10. MailSound' /\ AlertsOutliveTheirMail'
    BY <1>1, <1>4, <1>6 DEF IInv, MailSound, AlertsOutliveTheirMail, countVars,
       mailVars
  <1> QED
    BY <1>7, <1>8, <1>9, <1>10 DEF IInv

\* A failure costs a worker the rest of its handlers, or its whole turn.
LEMMA FailureStep ==
  ASSUME IInv, NEW w \in Workers, Swallow(w) \/ LeavePending(w)
  PROVE  IInv'
  <1>1. /\ hand[w] # 0 /\ Fails
        /\ picked' = [picked EXCEPT ![w] = {}]
        /\ UNCHANGED <<level, streamVars, alerts, mailVars, decided, overlapped>>
        /\ \/ opened' = opened /\ closed' = closed /\ Swallow(w)
           \/ /\ opened' = [opened EXCEPT ![w] = {}]
              /\ closed' = [closed EXCEPT ![w] = {}]
        /\ \/ hand' = hand /\ todo' = [todo EXCEPT ![w] = Epilogue]
           \/ /\ hand' = [hand EXCEPT ![w] = 0]
              /\ todo' = [todo EXCEPT ![w] = <<>>]
              /\ opened' = [opened EXCEPT ![w] = {}]
              /\ closed' = [closed EXCEPT ![w] = {}]
    BY DEF Swallow, LeavePending, Idle
  <1>2. failures \in Nat /\ failures' = failures + 1 /\ failures' \in 0..MaxFailures
    BY <1>1, AlertsAssumption DEF Fails, IInv, TypeOK
  <1>3. /\ <<>> \in Seq(HandlerStatement) /\ <<>> \in Seq(Statement)
        /\ Ordered(<<>>) /\ Len(<<>>) = 0
    BY EmptySeq DEF Ordered
  <1>4. /\ Epilogue \in Seq(Statement) /\ Ordered(Epilogue)
        /\ ~(Len(Epilogue) <= 1) /\ Epilogue # <<>>
    BY DEF Epilogue, Statement, Ordered
  <1>5. \A u \in Workers : u # w =>
           /\ hand'[u] = hand[u] /\ todo'[u] = todo[u]
           /\ opened'[u] = opened[u] /\ closed'[u] = closed[u]
    BY <1>1 DEF IInv, TypeOK
  <1>6. \/ hand'[w] = hand[w] /\ todo'[w] = Epilogue
        \/ hand'[w] = 0 /\ todo'[w] = <<>> /\ opened'[w] = {} /\ closed'[w] = {}
    BY <1>1 DEF IInv, TypeOK
  <1>7. \/ opened'[w] = opened[w] /\ closed'[w] = closed[w] /\ hand'[w] = hand[w]
        \/ opened'[w] = {} /\ closed'[w] = {}
    BY <1>1 DEF IInv, TypeOK
  <1>8. TypeOK'
    <2>1. /\ hand' \in [Workers -> 0..cursor] /\ todo' \in [Workers -> Seq(Statement)]
      <3>1. 0 \in 0..cursor
        BY LenProperties DEF IInv, TypeOK
      <3>2. hand' \in [Workers -> 0..cursor]
        BY <1>1, <3>1 DEF IInv, TypeOK
      <3>3. todo' \in [Workers -> Seq(Statement)]
        BY <1>1, <1>3, <1>4 DEF IInv, TypeOK
      <3> QED
        BY <3>2, <3>3
    <2>2. /\ picked' \in [Workers -> SUBSET (1..Len(alerts))]
          /\ opened' \in [Workers -> SUBSET Kinds]
          /\ closed' \in [Workers -> SUBSET (1..Len(alerts))]
      BY <1>1 DEF IInv, TypeOK
    <2>3. swallowed' \in BOOLEAN
      BY DEF Swallow, LeavePending, IInv, TypeOK
    <2> QED
      BY <1>1, <1>2, <2>1, <2>2, <2>3 DEF IInv, TypeOK, streamVars, mailVars
  <1>9. TurnSound'
    <2> SUFFICES ASSUME NEW u \in Workers
                 PROVE  /\ todo'[u] = <<>> <=> hand'[u] = 0
                        /\ Ordered(todo'[u])
                        /\ Len(todo'[u]) <= 1 => opened'[u] = {} /\ closed'[u] = {}
      BY DEF TurnSound, Idle, Ordered
    <2>1. CASE u = w
      BY <1>1, <1>3, <1>4, <1>6, <2>1
    <2>2. CASE u # w
      BY <1>5, <2>2 DEF IInv, TurnSound, Idle
    <2> QED
      BY <2>1, <2>2
  <1>10. InsertSound' /\ MailSound'
    <2> SUFFICES ASSUME NEW u \in Workers, NEW k \in opened'[u]
                 PROVE  /\ OpenAlerts(k) \subseteq closed'[u]
                        /\ \A v \in Workers \ {u} : k \notin opened'[v]
                        /\ k = "out_of_stock" => hand'[u] \in mailed \cup unheard
      BY <1>1 DEF InsertSound, MailSound, OpenAlerts, mailVars
    <2>1. /\ k \in opened[u] /\ closed'[u] = closed[u] /\ hand'[u] = hand[u]
      BY <1>5, <1>7
    <2>2. \A v \in Workers : opened'[v] \subseteq opened[v]
      BY <1>5, <1>7
    <2> QED
      BY <2>1, <2>2 DEF IInv, InsertSound, MailSound
  <1>11. OneOpen' /\ AlertsOutliveTheirMail'
    BY <1>1, <1>2 DEF IInv, OneOpen, OpenAlerts, AlertsOutliveTheirMail,
       mailVars
  <1> QED
    BY <1>8, <1>9, <1>10, <1>11 DEF IInv

LEMMA ManagerStep ==
  ASSUME IInv, NEW m \in Managers,
         Dismiss(m) \/ \E i \in 1..Len(alerts) : FindOpen(m, i)
  PROVE  IInv'
  <1>1. UNCHANGED <<level, streamVars, mailVars, workerVars, countVars>>
    BY DEF Dismiss, FindOpen
  <1>2. alerts \in Seq(Alert) /\ Len(alerts) \in Nat
        /\ \A i \in 1..Len(alerts) : alerts[i] \in Alert
    BY LenProperties, ElementOfSeq DEF IInv, TypeOK
  <1>3. /\ alerts' \in Seq(Alert) /\ Len(alerts') = Len(alerts)
        /\ \A i \in 1..Len(alerts) :
              /\ alerts'[i].kind = alerts[i].kind
              /\ alerts'[i].cause = alerts[i].cause
              /\ alerts'[i].status = "open" => alerts[i].status = "open"
        /\ decided' \in [Managers -> 0..Len(alerts)]
    <2>1. CASE Dismiss(m)
      <3> DEFINE d == decided[m]
                 row == [alerts[d] EXCEPT !.status = "dismissed"]
      <3>1. d \in 1..Len(alerts) /\ alerts' = [alerts EXCEPT ![d] = row]
            /\ decided' = [decided EXCEPT ![m] = 0]
        BY <1>2, <2>1 DEF Dismiss, IInv, TypeOK
      <3>2. /\ row \in Alert /\ row.kind = alerts[d].kind
            /\ row.cause = alerts[d].cause /\ row.status = "dismissed"
        BY <1>2, <3>1 DEF Alert
      <3>3. decided' \in [Managers -> 0..Len(alerts)]
        BY <1>2, <3>1 DEF IInv, TypeOK
      <3> HIDE DEF row, d
      <3>4. /\ alerts' \in Seq(Alert) /\ Len(alerts') = Len(alerts)
            /\ \A i \in 1..Len(alerts) :
                  alerts'[i] = IF i = d THEN row ELSE alerts[i]
        BY <1>2, <3>1, <3>2, ExceptSeq
      <3> QED
        BY <3>2, <3>3, <3>4
    <2>2. CASE \E i \in 1..Len(alerts) : FindOpen(m, i)
      <3>1. alerts' = alerts
        BY <2>2 DEF FindOpen
      <3>2. decided' \in [Managers -> 0..Len(alerts)]
        BY <1>2, <2>2 DEF FindOpen, IInv, TypeOK
      <3> QED
        BY <1>2, <3>1, <3>2
    <2> QED
      BY <2>1, <2>2
  <1>4. TypeOK'
    BY <1>1, <1>3 DEF IInv, TypeOK, streamVars, workerVars, countVars, mailVars
  <1>5. TurnSound' /\ MailSound'
    BY <1>1 DEF IInv, TurnSound, MailSound, Idle, Ordered, workerVars, mailVars
  <1>6. \A k : OpenAlerts(k)' \subseteq OpenAlerts(k)
    BY <1>3 DEF OpenAlerts
  <1>7. InsertSound' /\ OneOpen'
    BY <1>1, <1>6 DEF IInv, InsertSound, OneOpen, workerVars
  <1>8. AlertsOutliveTheirMail'
    BY <1>1, <1>3 DEF IInv, AlertsOutliveTheirMail, workerVars, countVars,
       mailVars
  <1> QED
    BY <1>4, <1>5, <1>7, <1>8 DEF IInv

LEMMA NextIInv == IInv /\ [Next]_vars => IInv'
  <1> SUFFICES ASSUME IInv, [Next]_vars PROVE IInv'
    OBVIOUS
  <1>1. CASE UNCHANGED vars
    <2>1. UNCHANGED <<level, streamVars, alerts, mailVars, workerVars, decided,
                      countVars>>
      BY <1>1 DEF vars
    <2>2. TypeOK'
      BY <2>1 DEF IInv, TypeOK, streamVars, workerVars, countVars, mailVars
    <2>3. TurnSound'
      BY <2>1 DEF IInv, TurnSound, Idle, Ordered, workerVars
    <2>4. InsertSound' /\ OneOpen' /\ MailSound' /\ AlertsOutliveTheirMail'
      BY <2>1 DEF IInv, InsertSound, OneOpen, MailSound, AlertsOutliveTheirMail,
                  OpenAlerts, workerVars, countVars, mailVars
    <2> QED
      BY <2>2, <2>3, <2>4 DEF IInv
  <1> QED
    BY <1>1, MoveStep, DeliveryStep, RaiseStep, SelectUpdateStep, CommitStep,
       AckStep, FailureStep, ManagerStep DEF Next, Execute

\* Every turn of a worker keeps its order, and what several of them insert and
\* close at once never collides (handlers.py; service.py, open_alert).
THEOREM AlertsInvariance == Spec => []IInv
  BY InitIInv, NextIInv, PTL DEF Spec

\* "at most one alert may be OPEN per (company, alert_type, subject) at a time",
\* for any number of workers raising, resolving, failing and being handed
\* events again, and managers dismissing (models.py, uq_one_open_alert_per_subject).
THEOREM OneOpenAlert == Spec => []OneOpenAlertPerKind
  <1>1. IInv => OneOpenAlertPerKind
    <2> SUFFICES ASSUME IInv, NEW k \in Kinds
                 PROVE  Cardinality(OpenAlerts(k)) <= 1
      BY DEF OneOpenAlertPerKind
    <2>1. CASE OpenAlerts(k) = {}
      BY <2>1, FS_EmptySet
    <2>2. CASE OpenAlerts(k) # {}
      <3>1. PICK i : OpenAlerts(k) = {i}
        BY <2>2 DEF IInv, OneOpen
      <3>2. Cardinality({i}) = 1
        BY FS_Singleton
      <3> QED
        BY <3>1, <3>2
    <2> QED
      BY <2>1, <2>2
  <1> QED
    BY <1>1, AlertsInvariance, PTL

\* Every critical alert was announced, whether or not a mail reached anybody, and
\* until something fails whatever was announced has its alert in the table or
\* about to be there: no outcome of the mail takes one back (open_alert,
\* notify_critical).
THEOREM AlertsSurviveTheirMail == Spec => []AlertsOutliveTheirMail
  BY AlertsInvariance, PTL DEF IInv

-----------------------------------------------------------------------------
(* What the alerts say of the line.                                        *)

\* What the line holds after its first c events, and whether the movement the
\* last of them is about has had its say.
LevelAt(c) == IF c = 0 THEN OpeningLevel ELSE log[c].after
Whole(c) == c = Len(log) \/ log[c + 1].type = "stock.moved"

RunsOut(before, q) == q = 0 /\ before > 0
RunsLow(before, q) == q > 0 /\ q <= ReorderPoint /\ before > ReorderPoint

\* The stream tells every level the line has had, a threshold event follows the
\* movement that crosses it, and nothing else is on it.
MovedSound(i) ==
    /\ log[i].after # LevelAt(i - 1)
    /\ Whole(i) <=> ~RunsOut(LevelAt(i - 1), log[i].after)
                    /\ ~RunsLow(LevelAt(i - 1), log[i].after)

ThresholdSound(i) ==
    /\ i > 1 /\ log[i - 1].type = "stock.moved"
    /\ log[i - 1].after = log[i].after
    /\ IF log[i].type = "stock.depleted" THEN log[i].after = 0
       ELSE log[i].after \in 1..ReorderPoint
    /\ Whole(i)

LogSound ==
    /\ level = LevelAt(Len(log))
    /\ \A i \in 1..Len(log) :
          IF log[i].type = "stock.moved" THEN MovedSound(i) ELSE ThresholdSound(i)

\* The kinds of alert an event raises, and those it clears.
Raised(e) ==
    IF e.type = "stock.depleted" THEN {"out_of_stock"}
    ELSE IF e.type = "stock.moved" THEN {} ELSE {"low_stock"}

Clears(e, k) ==
    \/ k = "low_stock" /\ \/ e.type = "stock.depleted"
                          \/ /\ e.type = "stock.moved"
                             /\ ReorderPoint > 0 /\ e.after > ReorderPoint
    \/ k = "out_of_stock" /\ e.type = "stock.moved" /\ e.after > 0

\* The turns, and what may be left of them.
AckLeft == <<<<"ack">>>>
CommitLeft == <<<<"commit">>, <<"ack">>>>
LowUpdateLeft == <<<<"update", "low_stock">>, <<"commit">>, <<"ack">>>>
LowLeft == <<<<"select", "low_stock">>, <<"update", "low_stock">>,
             <<"commit">>, <<"ack">>>>
OutUpdateLeft == <<<<"update", "out_of_stock">>, <<"commit">>, <<"ack">>>>
OutLeft == <<<<"select", "out_of_stock">>, <<"update", "out_of_stock">>,
             <<"commit">>, <<"ack">>>>
BothUpdateLeft == <<<<"update", "out_of_stock">>, <<"select", "low_stock">>,
                    <<"update", "low_stock">>, <<"commit">>, <<"ack">>>>
BothLeft == <<<<"select", "out_of_stock">>, <<"update", "out_of_stock">>,
              <<"select", "low_stock">>, <<"update", "low_stock">>,
              <<"commit">>, <<"ack">>>>
DepletedLeft == <<<<"raise", "out_of_stock">>, <<"select", "low_stock">>,
                  <<"update", "low_stock">>, <<"commit">>, <<"ack">>>>
BelowLeft == <<<<"raise", "low_stock">>, <<"commit">>, <<"ack">>>>

Remaining(e) ==
    {CommitLeft, AckLeft} \cup
    (IF e.type = "stock.depleted" THEN {DepletedLeft, LowLeft, LowUpdateLeft}
     ELSE IF e.type = "stock.below_reorder_point" THEN {BelowLeft}
     ELSE IF Clears(e, "low_stock")
          THEN {BothLeft, BothUpdateLeft, LowLeft, LowUpdateLeft}
     ELSE IF Clears(e, "out_of_stock") THEN {OutLeft, OutUpdateLeft}
     ELSE {})

ToRaise == {DepletedLeft, BelowLeft}
ToClear(k) == IF k = "low_stock"
              THEN {DepletedLeft, LowLeft, LowUpdateLeft, BothLeft, BothUpdateLeft}
              ELSE {OutLeft, OutUpdateLeft, BothLeft, BothUpdateLeft}
ToUpdate(k) == IF k = "low_stock" THEN {LowUpdateLeft}
               ELSE {OutUpdateLeft, BothUpdateLeft}

\* How far a worker has got with its event.
Progress(w) ==
    LET e == log[hand[w]] IN
    /\ todo[w] \in Remaining(e)
    /\ opened[w] = IF todo[w] \in ToRaise \cup {AckLeft} THEN {} ELSE Raised(e)
    /\ \A k \in Kinds :
          /\ Clears(e, k) /\ todo[w] \notin ToClear(k) \cup {AckLeft} =>
                OpenAlerts(k) \subseteq closed[w]
          /\ todo[w] \in ToUpdate(k) =>
                /\ OpenAlerts(k) \subseteq picked[w] \cup closed[w]
                /\ \A a \in picked[w] : alerts[a].kind = k
    /\ \A a \in closed[w] : Clears(e, alerts[a].kind)

\* Workers take turns, and nothing is left pending between them.
OneAtATime ==
    /\ \A w \in Workers : ~Idle(w) =>
          /\ hand[w] = cursor /\ pending = {cursor}
          /\ \A u \in Workers \ {w} : Idle(u)
    /\ (\A w \in Workers : Idle(w)) => pending = {}

Busy == \E w \in Workers : ~Idle(w) /\ todo[w] # AckLeft
Handled == IF Busy THEN cursor - 1 ELSE cursor

\* Every alert is about the event it names.
CausesSound ==
    \A a \in 1..Len(alerts) :
        /\ alerts[a].cause \in 1..cursor
        /\ alerts[a].kind \in Raised(log[alerts[a].cause])

LastThreshold(i, c) ==
    /\ i \in 1..c /\ log[i].type # "stock.moved"
    /\ \A j \in 1..c : j > i => log[j].type = "stock.moved"

StandingAt(i, q) ==
    IF log[i].type = "stock.depleted" THEN q = 0 ELSE q \in 1..ReorderPoint

\* What the alerts say after the first c events have been handled: a movement
\* that crosses a threshold leaves them as they were until its threshold event.
TrueAfter(c) ==
    /\ OpenAlerts("out_of_stock") # {} => LevelAt(c) = 0 /\ Whole(c)
    /\ OpenAlerts("low_stock") # {} =>
          IF Whole(c) THEN LevelAt(c) \in 1..ReorderPoint ELSE LevelAt(c) = 0
    /\ Whole(c) => \A i \in 1..c : LastThreshold(i, c) =>
          /\ StandingAt(i, LevelAt(c)) => \E a \in 1..Len(alerts) :
                alerts[a].cause = i /\ alerts[a].status # "resolved"
          /\ log[i].type = "stock.below_reorder_point" => LevelAt(c) # 0

Calm == failures = 0 /\ ~overlapped

CalmSound ==
    /\ OneAtATime
    /\ \A w \in Workers : ~Idle(w) => Progress(w)
    /\ CausesSound
    /\ TrueAfter(Handled)

TellingInv == LogSound /\ (Calm => CalmSound)

LEMMA LeftTails ==
  /\ Tail(CommitLeft) = AckLeft
  /\ Tail(LowUpdateLeft) = CommitLeft
  /\ Tail(LowLeft) = LowUpdateLeft
  /\ Tail(OutUpdateLeft) = CommitLeft
  /\ Tail(OutLeft) = OutUpdateLeft
  /\ Tail(BothUpdateLeft) = LowLeft
  /\ Tail(BothLeft) = BothUpdateLeft
  /\ Tail(DepletedLeft) = LowLeft
  /\ Tail(BelowLeft) = CommitLeft
  BY DEF AckLeft, CommitLeft, LowUpdateLeft, LowLeft, OutUpdateLeft, OutLeft,
         BothUpdateLeft, BothLeft, DepletedLeft, BelowLeft

LEMMA LeftHeads ==
  /\ Head(AckLeft)[1] = "ack"
  /\ Head(CommitLeft)[1] = "commit"
  /\ Head(LowUpdateLeft)[1] = "update" /\ Head(LowUpdateLeft)[2] = "low_stock"
  /\ Head(LowLeft)[1] = "select" /\ Head(LowLeft)[2] = "low_stock"
  /\ Head(OutUpdateLeft)[1] = "update" /\ Head(OutUpdateLeft)[2] = "out_of_stock"
  /\ Head(OutLeft)[1] = "select" /\ Head(OutLeft)[2] = "out_of_stock"
  /\ Head(BothUpdateLeft)[1] = "update" /\ Head(BothUpdateLeft)[2] = "out_of_stock"
  /\ Head(BothLeft)[1] = "select" /\ Head(BothLeft)[2] = "out_of_stock"
  /\ Head(DepletedLeft)[1] = "raise" /\ Head(DepletedLeft)[2] = "out_of_stock"
  /\ Head(BelowLeft)[1] = "raise" /\ Head(BelowLeft)[2] = "low_stock"
  BY DEF AckLeft, CommitLeft, LowUpdateLeft, LowLeft, OutUpdateLeft, OutLeft,
         BothUpdateLeft, BothLeft, DepletedLeft, BelowLeft

LEMMA LeftLengths ==
  /\ Len(AckLeft) = 1 /\ Len(CommitLeft) = 2
  /\ Len(LowUpdateLeft) = 3
  /\ Len(LowLeft) = 4
  /\ Len(OutUpdateLeft) = 3
  /\ Len(OutLeft) = 4
  /\ Len(BothUpdateLeft) = 5
  /\ Len(BothLeft) = 6
  /\ Len(DepletedLeft) = 5
  /\ Len(BelowLeft) = 3
  BY DEF AckLeft, CommitLeft, LowUpdateLeft, LowLeft, OutUpdateLeft, OutLeft,
         BothUpdateLeft, BothLeft, DepletedLeft, BelowLeft

LEMMA LeftsDiffer ==
  /\ AckLeft \notin {CommitLeft, LowUpdateLeft, LowLeft, OutUpdateLeft,
                     OutLeft, BothUpdateLeft, BothLeft, DepletedLeft,
                     BelowLeft}
  /\ CommitLeft \notin {LowUpdateLeft, LowLeft, OutUpdateLeft, OutLeft,
                        BothUpdateLeft, BothLeft, DepletedLeft, BelowLeft}
  /\ LowUpdateLeft \notin {LowLeft, OutUpdateLeft, OutLeft, BothUpdateLeft,
                           BothLeft, DepletedLeft, BelowLeft}
  /\ LowLeft \notin {OutUpdateLeft, OutLeft, BothUpdateLeft, BothLeft,
                     DepletedLeft, BelowLeft}
  /\ OutUpdateLeft \notin {OutLeft, BothUpdateLeft, BothLeft, DepletedLeft,
                           BelowLeft}
  /\ OutLeft \notin {BothUpdateLeft, BothLeft, DepletedLeft, BelowLeft}
  /\ BothUpdateLeft \notin {BothLeft, DepletedLeft, BelowLeft}
  /\ BothLeft \notin {DepletedLeft, BelowLeft}
  /\ DepletedLeft \notin {BelowLeft}
  BY LeftHeads, LeftLengths

-----------------------------------------------------------------------------
(* The stream.                                                             *)

\* What the line has been through is not changed by what it goes through next.
SamePast(c) ==
    /\ \A i \in 1..c : log'[i] = log[i]
    /\ \A i \in 0..c : LevelAt(i)' = LevelAt(i) /\ (Whole(i)' <=> Whole(i))

LEMMA MoveShape ==
  ASSUME TypeOK, NEW q \in Levels, Move(q)
  PROVE  /\ Len(log) \in Nat /\ SamePast(Len(log))
         /\ log'[Len(log) + 1] = Fact("stock.moved", q)
         /\ \/ /\ Len(log') = Len(log) + 1
               /\ ~RunsOut(level, q) /\ ~RunsLow(level, q)
            \/ /\ Len(log') = Len(log) + 2 /\ RunsOut(level, q)
               /\ log'[Len(log) + 2] = Fact("stock.depleted", q)
            \/ /\ Len(log') = Len(log) + 2 /\ RunsLow(level, q)
               /\ log'[Len(log) + 2] = Fact("stock.below_reorder_point", q)
         /\ level' = q /\ q # level /\ q \in Nat
         /\ UNCHANGED <<cursor, pending, alerts, workerVars, countVars>>
  <1> DEFINE t == Crossing(level, q)
  <1>0. PICK n \in Nat : n = Len(log)
    BY DEF TypeOK
  <1>1. /\ level \in Nat /\ q \in Nat /\ ReorderPoint \in Nat
        /\ log \in Seq(Event) /\ Len(log) = n
    BY <1>0, AlertsAssumption DEF TypeOK
  <1>2. log' = (log \o <<Fact("stock.moved", q)>>) \o t
    BY DEF Move
  <1>3. \/ t = <<>> /\ ~RunsOut(level, q) /\ ~RunsLow(level, q)
        \/ t = <<Fact("stock.depleted", q)>> /\ RunsOut(level, q)
        \/ t = <<Fact("stock.below_reorder_point", q)>> /\ RunsLow(level, q)
    BY <1>1 DEF Crossing, RunsOut, RunsLow
  <1> HIDE DEF t
  <1>4. /\ Fact("stock.moved", q) \in Event /\ Fact("stock.depleted", q) \in Event
        /\ Fact("stock.below_reorder_point", q) \in Event
    BY <1>1 DEF Fact, Event, EventType
  <1>5. t \in Seq(Event) /\ Len(t) \in Nat
    <2>1. \A e \in Event : <<e>> \in Seq(Event)
      OBVIOUS
    <2> QED
      BY <1>3, <1>4, <2>1, EmptySeq, LenProperties
  <1> DEFINE p == log \o <<Fact("stock.moved", q)>>
  <1>6. /\ p \in Seq(Event) /\ Len(p) = n + 1
        /\ \A i \in 1..n : p[i] = log[i]
        /\ p[n + 1] = Fact("stock.moved", q)
    BY <1>1, <1>4
  <1> HIDE DEF p
  <1>7. /\ Len(log') = n + 1 + Len(t)
        /\ \A i \in 1..n + 1 : log'[i] = p[i]
        /\ \A i \in 1..Len(t) : log'[n + 1 + i] = t[i]
    <2>1. log' = p \o t
      BY <1>2 DEF p
    <2>2. /\ Len(log') = Len(p) + Len(t)
          /\ \A i \in 1..Len(p) + Len(t) : log'[i] =
                IF i <= Len(p) THEN p[i] ELSE t[i - Len(p)]
      BY <1>5, <1>6, <2>1, ConcatProperties
    <2>3. ASSUME NEW i \in 1..Len(t)
          PROVE  log'[n + 1 + i] = t[i]
      <3>1. /\ n + 1 + i \in 1..n + 1 + Len(t) /\ ~(n + 1 + i <= n + 1)
            /\ n + 1 + i - (n + 1) = i
        BY <1>1, <1>5
      <3> QED
        BY <1>6, <2>2, <3>1
    <2>4. ASSUME NEW i \in 1..n + 1
          PROVE  log'[i] = p[i]
      <3>1. i \in 1..n + 1 + Len(t) /\ i <= n + 1
        BY <1>1, <1>5
      <3> QED
        BY <1>6, <2>2, <3>1
    <2> QED
      BY <1>6, <2>2, <2>3, <2>4
  <1>8. (\A i \in 1..n : log'[i] = log[i]) /\ log'[n + 1] = Fact("stock.moved", q)
    BY <1>1, <1>6, <1>7
  <1>9. SamePast(n)
    <2>1. \A i \in 0..n : LevelAt(i)' = LevelAt(i)
      BY <1>1, <1>8 DEF LevelAt
    <2>2. Whole(n)' /\ Whole(n)
      BY <1>1, <1>8 DEF Whole, Fact
    <2>3. \A i \in 0..n : i # n => (Whole(i)' <=> Whole(i))
      <3> SUFFICES ASSUME NEW i \in 0..n, i # n PROVE Whole(i)' <=> Whole(i)
        OBVIOUS
      <3>1. i + 1 \in 1..n /\ i # Len(log')
        BY <1>1, <1>5, <1>7
      <3>2. log'[i + 1] = log[i + 1] /\ i # Len(log)
        BY <1>1, <1>8, <3>1
      <3> QED
        BY <3>1, <3>2 DEF Whole
    <2> QED
      BY <1>8, <2>1, <2>2, <2>3 DEF SamePast
  <1>10. \/ t = <<>> /\ Len(log') = n + 1
         \/ /\ t # <<>> /\ Len(log') = n + 2 /\ log'[n + 2] = t[1]
    <2>1. t = <<>> => Len(t) = 0
      OBVIOUS
    <2>2. t # <<>> => Len(t) = 1
      BY <1>3
    <2>3. \A x \in Nat : x = 1 => n + 1 + x = n + 2 /\ n + 1 + 1 = n + 2 /\ 1 \in 1..x
      BY <1>1
    <2>4. n + 1 + 0 = n + 1
      BY <1>1
    <2> QED
      BY <1>5, <1>7, <2>1, <2>2, <2>3, <2>4
  <1>11. \/ /\ Len(log') = n + 1
            /\ ~RunsOut(level, q) /\ ~RunsLow(level, q)
         \/ /\ Len(log') = n + 2 /\ RunsOut(level, q)
            /\ log'[n + 2] = Fact("stock.depleted", q)
         \/ /\ Len(log') = n + 2 /\ RunsLow(level, q)
            /\ log'[n + 2] = Fact("stock.below_reorder_point", q)
    BY <1>3, <1>10
  <1> QED
    BY <1>0, <1>1, <1>8, <1>9, <1>11 DEF Move

LEMMA MoveKeepsLog ==
  ASSUME TypeOK, LogSound, NEW q \in Levels, Move(q)
  PROVE  LogSound'
  <1>0. PICK n : n = Len(log)
    OBVIOUS
  <1>1. /\ n \in Nat /\ SamePast(n)
        /\ log'[n + 1] = Fact("stock.moved", q)
        /\ \/ /\ Len(log') = n + 1
              /\ ~RunsOut(level, q) /\ ~RunsLow(level, q)
           \/ /\ Len(log') = n + 2 /\ RunsOut(level, q)
              /\ log'[n + 2] = Fact("stock.depleted", q)
           \/ /\ Len(log') = n + 2 /\ RunsLow(level, q)
              /\ log'[n + 2] = Fact("stock.below_reorder_point", q)
        /\ level' = q /\ q # level /\ q \in Nat
    BY <1>0, MoveShape
  <1>2. level = LevelAt(n) /\ LevelAt(n)' = level
    BY <1>0, <1>1 DEF LogSound, SamePast
  <1>3. LevelAt(n + 1)' = q
    BY <1>1 DEF LevelAt, Fact
  <1>4. ASSUME NEW i \in 1..n
        PROVE  IF log'[i].type = "stock.moved" THEN MovedSound(i)'
               ELSE ThresholdSound(i)'
    <2>1. /\ log'[i] = log[i] /\ LevelAt(i - 1)' = LevelAt(i - 1)
          /\ (Whole(i)' <=> Whole(i)) /\ (i > 1 => log'[i - 1] = log[i - 1])
      <3>1. i - 1 \in 0..n /\ i \in 0..n /\ (i > 1 => i - 1 \in 1..n)
        BY <1>1
      <3> QED
        BY <1>1, <3>1 DEF SamePast
    <2>2. IF log[i].type = "stock.moved" THEN MovedSound(i) ELSE ThresholdSound(i)
      BY <1>0 DEF LogSound
    <2> QED
      BY <2>1, <2>2 DEF MovedSound, ThresholdSound
  <1>5. log'[n + 1].type = "stock.moved" /\ MovedSound(n + 1)'
    <2>1. log'[n + 1].type = "stock.moved" /\ log'[n + 1].after = q
      BY <1>1 DEF Fact
    <2>2. n + 1 - 1 = n /\ n + 1 # n + 2 /\ n + 1 + 1 = n + 2
      BY <1>1
    <2>3. Whole(n + 1)' <=> ~RunsOut(level, q) /\ ~RunsLow(level, q)
      <3>1. CASE Len(log') = n + 1 /\ ~RunsOut(level, q) /\ ~RunsLow(level, q)
        BY <3>1 DEF Whole
      <3>2. CASE Len(log') = n + 2 /\ RunsOut(level, q)
                 /\ log'[n + 2] = Fact("stock.depleted", q)
        BY <2>2, <3>2 DEF Whole, Fact
      <3>3. CASE Len(log') = n + 2 /\ RunsLow(level, q)
                 /\ log'[n + 2] = Fact("stock.below_reorder_point", q)
        BY <2>2, <3>3 DEF Whole, Fact
      <3> QED
        BY <1>1, <3>1, <3>2, <3>3
    <2> QED
      BY <1>1, <1>2, <2>1, <2>2, <2>3 DEF MovedSound
  <1>6. ASSUME Len(log') = n + 2
        PROVE  log'[n + 2].type # "stock.moved" /\ ThresholdSound(n + 2)'
               /\ LevelAt(n + 2)' = q
    <2>1. n + 2 > 1 /\ n + 2 - 1 = n + 1 /\ n + 1 # n + 2 /\ n + 2 # 0
      BY <1>1
    <2>2. log'[n + 2].type # "stock.moved" /\ log'[n + 2].after = q
      BY <1>1, <1>6, <2>1 DEF Fact
    <2>3. Whole(n + 2)'
      BY <1>6 DEF Whole
    <2>4. IF log'[n + 2].type = "stock.depleted" THEN q = 0 ELSE q \in 1..ReorderPoint
      BY <1>1, <1>6, <2>1, AlertsAssumption DEF Fact, RunsOut, RunsLow
    <2> QED
      BY <1>5, <1>1, <2>1, <2>2, <2>3, <2>4 DEF ThresholdSound, LevelAt, Fact
  <1>7. level' = LevelAt(Len(log))'
    BY <1>1, <1>3, <1>6
  <1>8. ASSUME NEW i \in 1..Len(log')
        PROVE  IF log'[i].type = "stock.moved" THEN MovedSound(i)'
               ELSE ThresholdSound(i)'
    <2>1. i \in 1..n \/ i = n + 1 \/ (i = n + 2 /\ Len(log') = n + 2)
      BY <1>1
    <2> QED
      BY <1>4, <1>5, <1>6, <2>1
  <1> QED
    BY <1>7, <1>8 DEF LogSound

-----------------------------------------------------------------------------
(* A turn.                                                                 *)

LEMMA LeftSets ==
  /\ \A x \in {DepletedLeft, BelowLeft} : x # CommitLeft /\ x # AckLeft
  /\ \A k \in Kinds : CommitLeft \notin ToClear(k) /\ AckLeft \notin ToClear(k)
  /\ CommitLeft # AckLeft /\ CommitLeft \notin ToRaise /\ AckLeft \notin ToRaise
  /\ \A k \in Kinds : \A x \in ToUpdate(k) : x \in ToClear(k) /\ x \notin ToRaise
  BY LeftLengths, LeftHeads DEF ToClear, ToUpdate, ToRaise, Kinds

LEMMA Join ==
  ASSUME NEW S, NEW s \in Seq(S), NEW r \in Seq(S), NEW t \in Seq(S),
         Len(t) = Len(s) + Len(r),
         \A i \in 1..Len(s) : t[i] = s[i],
         \A i \in 1..Len(r) : t[Len(s) + i] = r[i]
  PROVE  s \o r = t
  <1>1. /\ s \o r \in Seq(S) /\ Len(s \o r) = Len(s) + Len(r)
        /\ \A i \in 1..Len(s) + Len(r) :
              (s \o r)[i] = IF i <= Len(s) THEN s[i] ELSE r[i - Len(s)]
        /\ Len(s) \in Nat /\ Len(r) \in Nat
    BY ConcatProperties, LenProperties
  <1>2. ASSUME NEW i \in 1..Len(s) + Len(r)
        PROVE  (s \o r)[i] = t[i]
    <2>1. CASE i <= Len(s)
      BY <1>1, <2>1
    <2>2. CASE ~(i <= Len(s))
      <3>1. i - Len(s) \in 1..Len(r) /\ Len(s) + (i - Len(s)) = i
        BY <1>1, <2>2
      <3>2. t[Len(s) + (i - Len(s))] = r[i - Len(s)]
        BY <3>1
      <3> QED
        BY <1>1, <2>2, <3>1, <3>2
    <2> QED
      BY <2>1, <2>2
  <1> QED
    BY <1>1, <1>2, SeqEqual

LEMMA JoinOne ==
  ASSUME NEW a, NEW b, NEW c
  PROVE  <<a>> \o <<b, c>> = <<a, b, c>>
  <1> DEFINE S == {a, b, c}
             s == <<a>>
             r == <<b, c>>
             t == <<a, b, c>>
  <1>1. /\ s \in Seq(S) /\ r \in Seq(S) /\ t \in Seq(S)
        /\ Len(s) = 1 /\ Len(r) = 2 /\ Len(t) = 3
        /\ t[1] = s[1]
        /\ t[2] = r[1] /\ t[3] = r[2]
    OBVIOUS
  <1> HIDE DEF S, s, r, t
  <1>2. /\ Len(t) = Len(s) + Len(r)
        /\ \A i \in 1..Len(s) : t[i] = s[i]
        /\ \A i \in 1..Len(r) : t[Len(s) + i] = r[i]
    BY <1>1
  <1>3. s \o r = t
    BY <1>1, <1>2, Join
  <1> QED
    BY <1>3 DEF s, r, t

LEMMA JoinTwo ==
  ASSUME NEW a, NEW b, NEW c, NEW d
  PROVE  <<a, b>> \o <<c, d>> = <<a, b, c, d>>
  <1> DEFINE S == {a, b, c, d}
             s == <<a, b>>
             r == <<c, d>>
             t == <<a, b, c, d>>
  <1>1. /\ s \in Seq(S) /\ r \in Seq(S) /\ t \in Seq(S)
        /\ Len(s) = 2 /\ Len(r) = 2 /\ Len(t) = 4
        /\ t[1] = s[1] /\ t[2] = s[2]
        /\ t[3] = r[1] /\ t[4] = r[2]
    OBVIOUS
  <1> HIDE DEF S, s, r, t
  <1>2. /\ Len(t) = Len(s) + Len(r)
        /\ \A i \in 1..Len(s) : t[i] = s[i]
        /\ \A i \in 1..Len(r) : t[Len(s) + i] = r[i]
    BY <1>1
  <1>3. s \o r = t
    BY <1>1, <1>2, Join
  <1> QED
    BY <1>3 DEF s, r, t

LEMMA JoinThree ==
  ASSUME NEW a, NEW b, NEW c, NEW d, NEW e
  PROVE  <<a, b, c>> \o <<d, e>> = <<a, b, c, d, e>>
  <1> DEFINE S == {a, b, c, d, e}
             s == <<a, b, c>>
             r == <<d, e>>
             t == <<a, b, c, d, e>>
  <1>1. /\ s \in Seq(S) /\ r \in Seq(S) /\ t \in Seq(S)
        /\ Len(s) = 3 /\ Len(r) = 2 /\ Len(t) = 5
        /\ t[1] = s[1] /\ t[2] = s[2] /\ t[3] = s[3]
        /\ t[4] = r[1] /\ t[5] = r[2]
    OBVIOUS
  <1> HIDE DEF S, s, r, t
  <1>2. /\ Len(t) = Len(s) + Len(r)
        /\ \A i \in 1..Len(s) : t[i] = s[i]
        /\ \A i \in 1..Len(r) : t[Len(s) + i] = r[i]
    BY <1>1
  <1>3. s \o r = t
    BY <1>1, <1>2, Join
  <1> QED
    BY <1>3 DEF s, r, t

LEMMA JoinFour ==
  ASSUME NEW a, NEW b, NEW c, NEW d, NEW e, NEW f
  PROVE  <<a, b, c, d>> \o <<e, f>> = <<a, b, c, d, e, f>>
  <1> DEFINE S == {a, b, c, d, e, f}
             s == <<a, b, c, d>>
             r == <<e, f>>
             t == <<a, b, c, d, e, f>>
  <1>1. /\ s \in Seq(S) /\ r \in Seq(S) /\ t \in Seq(S)
        /\ Len(s) = 4 /\ Len(r) = 2 /\ Len(t) = 6
        /\ t[1] = s[1] /\ t[2] = s[2] /\ t[3] = s[3] /\ t[4] = s[4]
        /\ t[5] = r[1] /\ t[6] = r[2]
    OBVIOUS
  <1> HIDE DEF S, s, r, t
  <1>2. /\ Len(t) = Len(s) + Len(r)
        /\ \A i \in 1..Len(s) : t[i] = s[i]
        /\ \A i \in 1..Len(r) : t[Len(s) + i] = r[i]
    BY <1>1
  <1>3. s \o r = t
    BY <1>1, <1>2, Join
  <1> QED
    BY <1>3 DEF s, r, t

LEMMA JoinNone ==
  ASSUME NEW a, NEW b
  PROVE  <<a, b>> \o <<>> = <<a, b>>
  <1>1. <<a, b>> \in Seq({a, b})
    OBVIOUS
  <1> QED
    BY <1>1, ConcatEmptySeq

LEMMA TurnLeft ==
  ASSUME NEW e \in Event
  PROVE  /\ Turn(e) \in Remaining(e) /\ Turn(e) # AckLeft
         /\ Turn(e) \in ToRaise <=> Raised(e) # {}
         /\ \A k \in Kinds : /\ Clears(e, k) => Turn(e) \in ToClear(k)
                             /\ Turn(e) \notin ToUpdate(k)
  <1>1. e.type \in EventType /\ e.after \in Nat /\ ReorderPoint \in Nat
    BY AlertsAssumption DEF Event
  <1>2. CASE e.type = "stock.depleted"
    <2>1. Turn(e) = DepletedLeft
      <3>1. Handlers(e) = <<<<"raise", "out_of_stock">>, <<"select", "low_stock">>,
                           <<"update", "low_stock">>>>
        BY <1>2, JoinOne DEF Handlers, Resolve
      <3>2. <<<<"raise", "out_of_stock">>, <<"select", "low_stock">>,
             <<"update", "low_stock">>>> \o Epilogue = DepletedLeft
        BY JoinThree DEF Epilogue, DepletedLeft
      <3> QED
        BY <3>1, <3>2 DEF Turn
    <2> QED
      BY <1>2, <2>1, LeftLengths, LeftHeads DEF Remaining, ToRaise, Raised, Clears,
         ToClear, ToUpdate, Kinds
  <1>3. CASE e.type = "stock.below_reorder_point"
    <2>1. Turn(e) = BelowLeft
      <3>1. Handlers(e) = <<<<"raise", "low_stock">>>>
        BY <1>3 DEF Handlers
      <3>2. <<<<"raise", "low_stock">>>> \o Epilogue = BelowLeft
        BY JoinOne DEF Epilogue, BelowLeft
      <3> QED
        BY <3>1, <3>2 DEF Turn
    <2> QED
      BY <1>3, <2>1, LeftLengths, LeftHeads DEF Remaining, ToRaise, Raised, Clears,
         ToClear, ToUpdate, Kinds
  <1>4. CASE e.type = "stock.moved" /\ Clears(e, "low_stock")
    <2>1. e.after > 0 /\ ReorderPoint > 0 /\ e.after > ReorderPoint
      BY <1>1, <1>4 DEF Clears
    <2>2. Turn(e) = BothLeft
      <3>1. Handlers(e) = <<<<"select", "out_of_stock">>, <<"update", "out_of_stock">>,
                           <<"select", "low_stock">>, <<"update", "low_stock">>>>
        BY <1>4, <2>1, JoinTwo DEF Handlers, When, Resolve
      <3>2. <<<<"select", "out_of_stock">>, <<"update", "out_of_stock">>,
             <<"select", "low_stock">>, <<"update", "low_stock">>>> \o Epilogue = BothLeft
        BY JoinFour DEF Epilogue, BothLeft
      <3> QED
        BY <3>1, <3>2 DEF Turn
    <2> QED
      BY <1>4, <2>1, <2>2, LeftLengths, LeftHeads DEF Remaining, ToRaise, Raised,
         Clears, ToClear, ToUpdate, Kinds
  <1>5. CASE e.type = "stock.moved" /\ ~Clears(e, "low_stock") /\ e.after > 0
    <2>1. ~(ReorderPoint > 0 /\ e.after > ReorderPoint)
      BY <1>5 DEF Clears
    <2>2. Turn(e) = OutLeft
      <3>1. Handlers(e) = <<<<"select", "out_of_stock">>, <<"update", "out_of_stock">>>>
        BY <1>5, <2>1, JoinNone DEF Handlers, When, Resolve
      <3>2. <<<<"select", "out_of_stock">>, <<"update", "out_of_stock">>>>
            \o Epilogue = OutLeft
        BY JoinTwo DEF Epilogue, OutLeft
      <3> QED
        BY <3>1, <3>2 DEF Turn
    <2> QED
      BY <1>5, <2>2, LeftLengths, LeftHeads DEF Remaining, ToRaise, Raised,
         Clears, ToClear, ToUpdate, Kinds
  <1>6. CASE e.type = "stock.moved" /\ ~Clears(e, "low_stock") /\ ~(e.after > 0)
    <2>1. ~(ReorderPoint > 0 /\ e.after > ReorderPoint)
      BY <1>6 DEF Clears
    <2>2. Turn(e) = CommitLeft
      <3>1. Handlers(e) = <<>>
        BY <1>6, <2>1 DEF Handlers, When
      <3>2. <<>> \o Epilogue = CommitLeft
        BY DEF Epilogue, CommitLeft
      <3> QED
        BY <3>1, <3>2 DEF Turn
    <2> QED
      BY <1>6, <2>2, LeftLengths, LeftHeads DEF Remaining, ToRaise, Raised,
         Clears, ToClear, ToUpdate, Kinds
  <1> QED
    BY <1>1, <1>2, <1>3, <1>4, <1>5, <1>6 DEF EventType

\* A worker about to execute a statement is where the statement is.
LEMMA WhereRaise ==
  ASSUME NEW e \in Event, NEW t \in Remaining(e), Head(t)[1] = "raise"
  PROVE  /\ t \in ToRaise /\ t \notin {AckLeft, CommitLeft}
         /\ Tail(t) \in Remaining(e) /\ Tail(t) \notin ToRaise \cup {AckLeft}
         /\ Raised(e) = {Head(t)[2]} /\ Head(t)[2] \in Kinds
         /\ \/ e.type = "stock.depleted" /\ Head(t)[2] = "out_of_stock"
            \/ e.type = "stock.below_reorder_point" /\ Head(t)[2] = "low_stock"
         /\ \A k \in Kinds : /\ Tail(t) \notin ToUpdate(k)
                             /\ Clears(e, k) => Tail(t) \in ToClear(k)
  <1>1. \/ e.type = "stock.depleted" /\ t = DepletedLeft
        \/ e.type = "stock.below_reorder_point" /\ t = BelowLeft
    BY LeftHeads DEF Remaining
  <1>2. CASE e.type = "stock.depleted" /\ t = DepletedLeft
    <2>1. Tail(t) = LowLeft /\ Head(t)[2] = "out_of_stock"
      BY <1>2, LeftTails, LeftHeads
    <2>2. Tail(t) \in Remaining(e) /\ Raised(e) = {"out_of_stock"}
      BY <1>2, <2>1 DEF Remaining, Raised
    <2>3. \A k \in Kinds : /\ Tail(t) \notin ToUpdate(k)
                           /\ Clears(e, k) => Tail(t) \in ToClear(k)
      BY <1>2, <2>1, LeftsDiffer DEF ToUpdate, Clears, ToClear, Kinds
    <2>4. /\ t \in ToRaise /\ t \notin {AckLeft, CommitLeft}
          /\ Tail(t) \notin ToRaise \cup {AckLeft} /\ "out_of_stock" \in Kinds
      BY <1>2, <2>1, LeftsDiffer DEF ToRaise, Kinds
    <2>5. Raised(e) = {Head(t)[2]} /\ Head(t)[2] \in Kinds
      BY <2>1, <2>2, <2>4
    <2> QED
      BY <1>2, <2>1, <2>2, <2>3, <2>4, <2>5
  <1>3. CASE e.type = "stock.below_reorder_point" /\ t = BelowLeft
    <2>1. Tail(t) = CommitLeft /\ Head(t)[2] = "low_stock"
      BY <1>3, LeftTails, LeftHeads
    <2>2. Tail(t) \in Remaining(e) /\ Raised(e) = {"low_stock"}
      BY <1>3, <2>1 DEF Remaining, Raised
    <2>3. \A k \in Kinds : CommitLeft \notin ToUpdate(k) /\ ~Clears(e, k)
      BY <1>3, LeftsDiffer DEF ToUpdate, Clears, Kinds
    <2> QED
      BY <1>3, <2>1, <2>2, <2>3, LeftsDiffer DEF ToRaise, Kinds
  <1> QED
    BY <1>1, <1>2, <1>3

\* What a statement that clears a kind leaves.
OneOn(e, t, k, u) ==
  /\ t \notin ToRaise \cup {AckLeft, CommitLeft}
  /\ Tail(t) \in Remaining(e) /\ Tail(t) \notin ToRaise \cup {AckLeft}
  /\ Head(t)[2] = k /\ k \in Kinds /\ Clears(e, k)
  /\ \A x \in Kinds : /\ Tail(t) \in ToUpdate(x) <=> u /\ x = k
                      /\ t \in ToUpdate(x) <=> ~u /\ x = k
                      /\ t \in ToClear(x) => Tail(t) \in ToClear(x) \/ (~u /\ x = k)

LEMMA WhereSelect ==
  ASSUME NEW e \in Event, NEW t \in Remaining(e), Head(t)[1] = "select"
  PROVE  OneOn(e, t, Head(t)[2], TRUE)
  <1>1. \/ t = LowLeft /\ Clears(e, "low_stock") /\ LowUpdateLeft \in Remaining(e)
        \/ t = OutLeft /\ Clears(e, "out_of_stock") /\ OutUpdateLeft \in Remaining(e)
        \/ t = BothLeft /\ Clears(e, "out_of_stock") /\ BothUpdateLeft \in Remaining(e)
    <2>1. e.after \in Nat /\ ReorderPoint \in Nat
      BY AlertsAssumption DEF Event
    <2>2. \/ e.type = "stock.depleted"
          \/ e.type = "stock.below_reorder_point"
          \/ e.type = "stock.moved" /\ Clears(e, "low_stock") /\ e.after > 0
          \/ e.type = "stock.moved" /\ ~Clears(e, "low_stock") /\ e.after > 0
          \/ e.type = "stock.moved" /\ ~Clears(e, "low_stock") /\ ~(e.after > 0)
      BY <2>1 DEF Event, EventType, Clears
    <2> QED
      BY <2>2, LeftHeads DEF Remaining, Clears
  <1>2. CASE t = LowLeft /\ Clears(e, "low_stock") /\ LowUpdateLeft \in Remaining(e)
    <2>1. Tail(t) = LowUpdateLeft /\ Head(t)[2] = "low_stock"
      BY <1>2, LeftTails, LeftHeads
    <2>2. /\ t \notin ToRaise \cup {AckLeft, CommitLeft}
          /\ Tail(t) \notin ToRaise \cup {AckLeft} /\ "low_stock" \in Kinds
      BY <1>2, <2>1, LeftsDiffer DEF ToRaise, Kinds
    <2>3. \A x \in Kinds :
             /\ Tail(t) \in ToUpdate(x) <=> x = "low_stock"
             /\ ~(t \in ToUpdate(x))
             /\ t \in ToClear(x) => Tail(t) \in ToClear(x)
      BY <1>2, <2>1, LeftsDiffer DEF ToUpdate, ToClear, Kinds
    <2> QED
      BY <1>2, <2>1, <2>2, <2>3 DEF OneOn
  <1>3. CASE t = OutLeft /\ Clears(e, "out_of_stock") /\ OutUpdateLeft \in Remaining(e)
    <2>1. Tail(t) = OutUpdateLeft /\ Head(t)[2] = "out_of_stock"
      BY <1>3, LeftTails, LeftHeads
    <2>2. /\ t \notin ToRaise \cup {AckLeft, CommitLeft}
          /\ Tail(t) \notin ToRaise \cup {AckLeft} /\ "out_of_stock" \in Kinds
      BY <1>3, <2>1, LeftsDiffer DEF ToRaise, Kinds
    <2>3. \A x \in Kinds :
             /\ Tail(t) \in ToUpdate(x) <=> x = "out_of_stock"
             /\ ~(t \in ToUpdate(x))
             /\ t \in ToClear(x) => Tail(t) \in ToClear(x)
      BY <1>3, <2>1, LeftsDiffer DEF ToUpdate, ToClear, Kinds
    <2> QED
      BY <1>3, <2>1, <2>2, <2>3 DEF OneOn
  <1>4. CASE t = BothLeft /\ Clears(e, "out_of_stock") /\ BothUpdateLeft \in Remaining(e)
    <2>1. Tail(t) = BothUpdateLeft /\ Head(t)[2] = "out_of_stock"
      BY <1>4, LeftTails, LeftHeads
    <2>2. /\ t \notin ToRaise \cup {AckLeft, CommitLeft}
          /\ Tail(t) \notin ToRaise \cup {AckLeft} /\ "out_of_stock" \in Kinds
      BY <1>4, <2>1, LeftsDiffer DEF ToRaise, Kinds
    <2>3. \A x \in Kinds :
             /\ Tail(t) \in ToUpdate(x) <=> x = "out_of_stock"
             /\ ~(t \in ToUpdate(x))
             /\ t \in ToClear(x) => Tail(t) \in ToClear(x)
      BY <1>4, <2>1, LeftsDiffer DEF ToUpdate, ToClear, Kinds
    <2> QED
      BY <1>4, <2>1, <2>2, <2>3 DEF OneOn
  <1> QED
    BY <1>1, <1>2, <1>3, <1>4

LEMMA WhereUpdate ==
  ASSUME NEW e \in Event, NEW t \in Remaining(e), Head(t)[1] = "update"
  PROVE  OneOn(e, t, Head(t)[2], FALSE)
  <1>1. \/ t = LowUpdateLeft /\ Clears(e, "low_stock") /\ CommitLeft \in Remaining(e)
        \/ t = OutUpdateLeft /\ Clears(e, "out_of_stock") /\ CommitLeft \in Remaining(e)
        \/ t = BothUpdateLeft /\ Clears(e, "out_of_stock") /\ LowLeft \in Remaining(e)
    <2>1. e.after \in Nat /\ ReorderPoint \in Nat
      BY AlertsAssumption DEF Event
    <2>2. \/ e.type = "stock.depleted"
          \/ e.type = "stock.below_reorder_point"
          \/ e.type = "stock.moved" /\ Clears(e, "low_stock") /\ e.after > 0
          \/ e.type = "stock.moved" /\ ~Clears(e, "low_stock") /\ e.after > 0
          \/ e.type = "stock.moved" /\ ~Clears(e, "low_stock") /\ ~(e.after > 0)
      BY <2>1 DEF Event, EventType, Clears
    <2> QED
      BY <2>2, LeftHeads DEF Remaining, Clears
  <1>2. CASE t = LowUpdateLeft /\ Clears(e, "low_stock") /\ CommitLeft \in Remaining(e)
    <2>1. Tail(t) = CommitLeft /\ Head(t)[2] = "low_stock"
      BY <1>2, LeftTails, LeftHeads
    <2>2. /\ t \notin ToRaise \cup {AckLeft, CommitLeft}
          /\ Tail(t) \notin ToRaise \cup {AckLeft} /\ "low_stock" \in Kinds
      BY <1>2, <2>1, LeftsDiffer DEF ToRaise, Kinds
    <2>3. \A x \in Kinds :
             /\ ~(Tail(t) \in ToUpdate(x))
             /\ t \in ToUpdate(x) <=> x = "low_stock"
             /\ t \in ToClear(x) => Tail(t) \in ToClear(x) \/ x = "low_stock"
      BY <1>2, <2>1, LeftsDiffer DEF ToUpdate, ToClear, Kinds
    <2> QED
      BY <1>2, <2>1, <2>2, <2>3 DEF OneOn
  <1>3. CASE t = OutUpdateLeft /\ Clears(e, "out_of_stock") /\ CommitLeft \in Remaining(e)
    <2>1. Tail(t) = CommitLeft /\ Head(t)[2] = "out_of_stock"
      BY <1>3, LeftTails, LeftHeads
    <2>2. /\ t \notin ToRaise \cup {AckLeft, CommitLeft}
          /\ Tail(t) \notin ToRaise \cup {AckLeft} /\ "out_of_stock" \in Kinds
      BY <1>3, <2>1, LeftsDiffer DEF ToRaise, Kinds
    <2>3. \A x \in Kinds :
             /\ ~(Tail(t) \in ToUpdate(x))
             /\ t \in ToUpdate(x) <=> x = "out_of_stock"
             /\ t \in ToClear(x) => Tail(t) \in ToClear(x) \/ x = "out_of_stock"
      BY <1>3, <2>1, LeftsDiffer DEF ToUpdate, ToClear, Kinds
    <2> QED
      BY <1>3, <2>1, <2>2, <2>3 DEF OneOn
  <1>4. CASE t = BothUpdateLeft /\ Clears(e, "out_of_stock") /\ LowLeft \in Remaining(e)
    <2>1. Tail(t) = LowLeft /\ Head(t)[2] = "out_of_stock"
      BY <1>4, LeftTails, LeftHeads
    <2>2. /\ t \notin ToRaise \cup {AckLeft, CommitLeft}
          /\ Tail(t) \notin ToRaise \cup {AckLeft} /\ "out_of_stock" \in Kinds
      BY <1>4, <2>1, LeftsDiffer DEF ToRaise, Kinds
    <2>3. \A x \in Kinds :
             /\ ~(Tail(t) \in ToUpdate(x))
             /\ t \in ToUpdate(x) <=> x = "out_of_stock"
             /\ t \in ToClear(x) => Tail(t) \in ToClear(x) \/ x = "out_of_stock"
      BY <1>4, <2>1, LeftsDiffer DEF ToUpdate, ToClear, Kinds
    <2> QED
      BY <1>4, <2>1, <2>2, <2>3 DEF OneOn
  <1> QED
    BY <1>1, <1>2, <1>3, <1>4

LEMMA WhereCommit ==
  ASSUME NEW e \in Event, NEW t \in Remaining(e), Head(t)[1] = "commit"
  PROVE  t = CommitLeft
  BY LeftHeads DEF Remaining

LEMMA WhereAck ==
  ASSUME NEW e \in Event, NEW t \in Remaining(e), Head(t)[1] = "ack"
  PROVE  t = AckLeft
  BY LeftHeads DEF Remaining

-----------------------------------------------------------------------------
(* What a step that raises and resolves nothing leaves as it was.          *)

AlertsKept ==
    /\ Len(alerts') = Len(alerts)
    /\ \A a \in 1..Len(alerts) :
          /\ alerts'[a].kind = alerts[a].kind
          /\ alerts'[a].cause = alerts[a].cause
          /\ alerts'[a].status = "open" => alerts[a].status = "open"
          /\ alerts'[a].status = "resolved" => alerts[a].status = "resolved"

LEMMA SameLog ==
  ASSUME log' = log, NEW c
  PROVE  SamePast(c)
  BY DEF SamePast, LevelAt, Whole

LEMMA FewerOpen ==
  ASSUME AlertsKept, NEW k
  PROVE  OpenAlerts(k)' \subseteq OpenAlerts(k)
  BY DEF AlertsKept, OpenAlerts

LEMMA TruthStays ==
  ASSUME NEW c \in Nat, SamePast(c), AlertsKept, TrueAfter(c)
  PROVE  TrueAfter(c)'
  <1>1. /\ LevelAt(c)' = LevelAt(c) /\ (Whole(c)' <=> Whole(c))
        /\ \A i \in 1..c : log'[i] = log[i]
    BY DEF SamePast
  <1>2. \A k : OpenAlerts(k)' \subseteq OpenAlerts(k)
    BY FewerOpen
  <1>3. /\ OpenAlerts("out_of_stock")' # {} => LevelAt(c)' = 0 /\ Whole(c)'
        /\ OpenAlerts("low_stock")' # {} =>
              IF Whole(c)' THEN LevelAt(c)' \in 1..ReorderPoint ELSE LevelAt(c)' = 0
    <2>1. \A k : OpenAlerts(k)' # {} => OpenAlerts(k) # {}
      BY <1>2
    <2> QED
      BY <1>1, <2>1 DEF TrueAfter
  <1>4. ASSUME Whole(c)', NEW i \in 1..c, LastThreshold(i, c)'
        PROVE  /\ StandingAt(i, LevelAt(c))' => \E a \in 1..Len(alerts') :
                     alerts'[a].cause = i /\ alerts'[a].status # "resolved"
               /\ log'[i].type = "stock.below_reorder_point" => LevelAt(c)' # 0
    <2>1. LastThreshold(i, c) /\ Whole(c)
      BY <1>1, <1>4 DEF LastThreshold
    <2>2. /\ StandingAt(i, LevelAt(c)) => \E a \in 1..Len(alerts) :
                alerts[a].cause = i /\ alerts[a].status # "resolved"
          /\ log[i].type = "stock.below_reorder_point" => LevelAt(c) # 0
      BY <2>1 DEF TrueAfter
    <2>3. StandingAt(i, LevelAt(c))' <=> StandingAt(i, LevelAt(c))
      BY <1>1 DEF StandingAt
    <2> QED
      BY <1>1, <2>2, <2>3 DEF AlertsKept
  <1> QED
    BY <1>3, <1>4 DEF TrueAfter

LEMMA ProgressStays ==
  ASSUME TypeOK, NEW w \in Workers, Progress(w), AlertsKept,
         hand'[w] = hand[w], todo'[w] = todo[w], opened'[w] = opened[w],
         closed'[w] = closed[w], picked'[w] = picked[w],
         log'[hand[w]] = log[hand[w]]
  PROVE  Progress(w)'
  <1> DEFINE e == log[hand[w]]
  <1>1. /\ todo[w] \in Remaining(e)
        /\ opened[w] = IF todo[w] \in ToRaise \cup {AckLeft} THEN {} ELSE Raised(e)
        /\ \A k \in Kinds :
              /\ Clears(e, k) /\ todo[w] \notin ToClear(k) \cup {AckLeft} =>
                    OpenAlerts(k) \subseteq closed[w]
              /\ todo[w] \in ToUpdate(k) =>
                    /\ OpenAlerts(k) \subseteq picked[w] \cup closed[w]
                    /\ \A a \in picked[w] : alerts[a].kind = k
        /\ \A a \in closed[w] : Clears(e, alerts[a].kind)
    BY DEF Progress
  <1>2. /\ closed[w] \subseteq 1..Len(alerts) /\ picked[w] \subseteq 1..Len(alerts)
    BY DEF TypeOK
  <1>3. \A a \in closed[w] \cup picked[w] : alerts'[a].kind = alerts[a].kind
    BY <1>2 DEF AlertsKept
  <1>4. \A k : OpenAlerts(k)' \subseteq OpenAlerts(k)
    BY FewerOpen
  <1>5. \A k \in Kinds :
           /\ Clears(e, k) /\ todo[w] \notin ToClear(k) \cup {AckLeft} =>
                 OpenAlerts(k)' \subseteq closed[w]
           /\ todo[w] \in ToUpdate(k) =>
                 /\ OpenAlerts(k)' \subseteq picked[w] \cup closed[w]
                 /\ \A a \in picked[w] : alerts'[a].kind = k
    <2> TAKE k \in Kinds
    <2>1. OpenAlerts(k)' \subseteq OpenAlerts(k)
      BY <1>4
    <2> QED
      BY <1>1, <1>3, <2>1
  <1>6. \A a \in closed[w] : Clears(e, alerts'[a].kind)
    BY <1>1, <1>3
  <1>7. log'[hand'[w]] = e
    OBVIOUS
  <1> HIDE DEF e
  <1>8. /\ todo'[w] \in Remaining(e)
        /\ opened'[w] = IF todo'[w] \in ToRaise \cup {AckLeft} THEN {} ELSE Raised(e)
        /\ \A k \in Kinds :
              /\ Clears(e, k) /\ todo'[w] \notin ToClear(k) \cup {AckLeft} =>
                    OpenAlerts(k)' \subseteq closed'[w]
              /\ todo'[w] \in ToUpdate(k) =>
                    /\ OpenAlerts(k)' \subseteq picked'[w] \cup closed'[w]
                    /\ \A a \in picked'[w] : alerts'[a].kind = k
        /\ \A a \in closed'[w] : Clears(e, alerts'[a].kind)
    BY <1>1, <1>5, <1>6
  <1> QED
    BY <1>7, <1>8 DEF Progress

LEMMA CausesStay ==
  ASSUME TypeOK, CausesSound, AlertsKept, SamePast(cursor),
         cursor' \in Nat, cursor <= cursor'
  PROVE  CausesSound'
  <1>1. cursor \in Nat
    BY LenProperties DEF TypeOK
  <1>2. ASSUME NEW a \in 1..Len(alerts)
        PROVE  /\ alerts'[a].cause \in 1..cursor'
               /\ alerts'[a].kind \in Raised(log'[alerts'[a].cause])
    <2>1. alerts'[a].cause = alerts[a].cause /\ alerts'[a].kind = alerts[a].kind
          /\ alerts[a].cause \in 1..cursor /\ alerts[a].kind \in Raised(log[alerts[a].cause])
      BY DEF AlertsKept, CausesSound
    <2>2. log'[alerts[a].cause] = log[alerts[a].cause]
      BY <2>1 DEF SamePast
    <2> QED
      BY <1>1, <2>1, <2>2
  <1> QED
    BY <1>2 DEF CausesSound, AlertsKept

-----------------------------------------------------------------------------
(* Steps when nothing has failed and workers have taken turns.             *)

LEMMA WorkersTurn ==
  ASSUME IInv, CalmSound, NEW w \in Workers, todo[w] # <<>>
  PROVE  /\ hand[w] = cursor /\ pending = {cursor}
         /\ cursor \in 1..Len(log) /\ log[cursor] \in Event /\ Len(log) \in Nat
         /\ \A u \in Workers \ {w} : Idle(u)
         /\ Progress(w)
         /\ Busy <=> todo[w] # AckLeft
  <1>1. ~Idle(w)
    BY DEF IInv, TurnSound
  <1>2. /\ hand[w] = cursor /\ pending = {cursor} /\ Progress(w)
        /\ \A u \in Workers \ {w} : Idle(u)
    BY <1>1 DEF CalmSound, OneAtATime
  <1>3. cursor \in 0..Len(log) /\ Len(log) \in Nat /\ hand[w] # 0
    BY <1>1, LenProperties DEF IInv, TypeOK, Idle
  <1>4. cursor \in 1..Len(log)
    BY <1>2, <1>3
  <1>5. log[cursor] \in Event
    BY <1>4 DEF IInv, TypeOK
  <1>6. Busy <=> todo[w] # AckLeft
    BY <1>1, <1>2 DEF Busy
  <1> QED
    BY <1>2, <1>3, <1>4, <1>5, <1>6

\* What is left of a calm system's step when the worker's own progress is known.
LEMMA StatementCalm ==
  ASSUME IInv, CalmSound, NEW w \in Workers,
         todo[w] # <<>>, todo[w] # AckLeft, todo'[w] # AckLeft,
         todo' = [todo EXCEPT ![w] = Tail(@)],
         UNCHANGED <<log, cursor, pending, alerts, hand>>,
         Progress(w)'
  PROVE  CalmSound'
  <1>1. /\ hand[w] = cursor /\ cursor \in 1..Len(log)
        /\ \A u \in Workers \ {w} : Idle(u)
        /\ Busy <=> todo[w] # AckLeft
    BY WorkersTurn
  <1>2. OneAtATime'
    BY DEF CalmSound, OneAtATime, Idle
  <1>3. Busy'
    BY <1>1 DEF Busy, Idle
  <1>4. Handled' = Handled /\ Handled \in Nat
    BY <1>1, <1>3 DEF Handled
  <1>5. AlertsKept /\ \A c : SamePast(c)
    BY SameLog DEF AlertsKept
  <1>6. TrueAfter(Handled)'
    <2>1. PICK c \in Nat : c = Handled
      BY <1>4
    <2>2. TrueAfter(c)'
      BY <1>5, <2>1, TruthStays DEF CalmSound
    <2>3. c = Handled'
      BY <1>4, <2>1
    <2> QED
      BY <2>2, <2>3 DEF TrueAfter
  <1>7. CausesSound'
    BY DEF CalmSound, CausesSound
  <1>8. \A u \in Workers : ~Idle(u)' => Progress(u)'
    BY <1>1 DEF Idle
  <1> QED
    BY <1>2, <1>6, <1>7, <1>8 DEF CalmSound

\* A threshold event meets no open alert but one its own handler closes.
LEMMA NothingToMeet ==
  ASSUME IInv, LogSound, CalmSound, NEW w \in Workers, At(w, "raise")
  PROVE  /\ OpenAlerts(Kind(w)) = {}
         /\ Progress(w) /\ todo[w] \in Remaining(log[hand[w]])
         /\ Head(todo[w])[1] = "raise" /\ log[hand[w]] \in Event
         /\ todo[w] # <<>> /\ Kind(w) = Head(todo[w])[2]
  <1> DEFINE e == log[cursor]
             k == Kind(w)
  <1>1. /\ todo[w] # <<>> /\ Head(todo[w])[1] = "raise" /\ k = Head(todo[w])[2]
    BY DEF At, Kind
  <1>2. /\ hand[w] = cursor /\ cursor \in 1..Len(log) /\ e \in Event
        /\ Progress(w) /\ (Busy <=> todo[w] # AckLeft) /\ Len(log) \in Nat
    BY <1>1, WorkersTurn
  <1>3. todo[w] \in Remaining(e)
    BY <1>2 DEF Progress
  <1>4. /\ todo[w] \notin {AckLeft, CommitLeft} /\ k \in Kinds
        /\ \/ e.type = "stock.depleted" /\ k = "out_of_stock"
           \/ e.type = "stock.below_reorder_point" /\ k = "low_stock"
    BY <1>1, <1>2, <1>3, WhereRaise
  <1>5. /\ cursor > 1 /\ log[cursor - 1].type = "stock.moved"
        /\ log[cursor - 1].after = e.after
        /\ IF e.type = "stock.depleted" THEN e.after = 0
           ELSE e.after \in 1..ReorderPoint
    BY <1>2, <1>4 DEF LogSound, ThresholdSound
  <1>6. PICK c \in Nat : c = cursor - 1 /\ c # 0 /\ c + 1 = cursor /\ c # Len(log)
    BY <1>2, <1>5
  <1>7. Handled = c
    BY <1>2, <1>4, <1>6 DEF Handled
  <1>8. ~Whole(c) /\ LevelAt(c) = e.after
    BY <1>4, <1>5, <1>6 DEF Whole, LevelAt
  <1>9. TrueAfter(c)
    BY <1>7 DEF CalmSound, TrueAfter
  <1> HIDE DEF e, k
  <1>10. OpenAlerts(k) = {}
    <2>1. OpenAlerts("out_of_stock") = {}
      BY <1>8, <1>9 DEF TrueAfter
    <2>2. CASE e.type = "stock.below_reorder_point" /\ k = "low_stock"
      <3>1. e.after # 0
        BY <1>5, <2>2
      <3> QED
        BY <1>8, <1>9, <2>2, <3>1 DEF TrueAfter
    <2> QED
      BY <1>4, <2>1, <2>2
  <1> QED
    BY <1>1, <1>2, <1>3, <1>10 DEF e, k

LEMMA RaiseCalm ==
  ASSUME IInv, LogSound, CalmSound, NEW w \in Workers, Raise(w)
  PROVE  CalmSound'
  <1> DEFINE e == log[hand[w]]
             k == Kind(w)
             t == todo[w]
  <1>1. /\ OpenAlerts(k) = {} /\ Progress(w) /\ t \in Remaining(e)
        /\ Head(t)[1] = "raise" /\ t # <<>> /\ e \in Event /\ k = Head(t)[2]
    BY NothingToMeet DEF Raise
  <1>2. /\ t \in ToRaise /\ t \notin {AckLeft, CommitLeft}
        /\ Tail(t) \in Remaining(e) /\ Tail(t) \notin ToRaise \cup {AckLeft}
        /\ Raised(e) = {k} /\ k \in Kinds
        /\ \A x \in Kinds : /\ Tail(t) \notin ToUpdate(x)
                            /\ Clears(e, x) => Tail(t) \in ToClear(x)
    BY <1>1, WhereRaise
  <1>3. /\ todo' = [todo EXCEPT ![w] = Tail(@)]
        /\ opened' = [opened EXCEPT ![w] = @ \cup {k}]
        /\ UNCHANGED <<log, cursor, pending, alerts, hand, picked, closed>>
    BY <1>1 DEF Raise, streamVars
  <1>4. opened[w] = {} /\ \A a \in closed[w] : Clears(e, alerts[a].kind)
    BY <1>1, <1>2 DEF Progress
  <1>5. todo'[w] = Tail(t) /\ opened'[w] = {k} /\ closed'[w] = closed[w]
        /\ log'[hand'[w]] = e
    BY <1>3, <1>4 DEF IInv, TypeOK
  <1>6. Progress(w)'
    <2> HIDE DEF e, k, t
    <2>1. /\ todo'[w] \in Remaining(e)
          /\ opened'[w] = IF todo'[w] \in ToRaise \cup {AckLeft} THEN {} ELSE Raised(e)
          /\ \A x \in Kinds :
                /\ ~(Clears(e, x) /\ todo'[w] \notin ToClear(x) \cup {AckLeft})
                /\ todo'[w] \notin ToUpdate(x)
          /\ \A a \in closed'[w] : Clears(e, alerts'[a].kind)
      BY <1>2, <1>3, <1>4, <1>5
    <2> QED
      BY <1>5, <2>1 DEF Progress
  <1>7. t # <<>> /\ t # AckLeft /\ todo'[w] # AckLeft
    BY <1>1, <1>2, <1>5
  <1> QED
    BY <1>3, <1>6, <1>7, StatementCalm

LEMMA SelectCalm ==
  ASSUME IInv, CalmSound, NEW w \in Workers, Select(w)
  PROVE  CalmSound'
  <1> DEFINE e == log[hand[w]]
             k == Kind(w)
             t == todo[w]
  <1>1. /\ t # <<>> /\ Head(t)[1] = "select" /\ k = Head(t)[2]
        /\ todo' = [todo EXCEPT ![w] = Tail(@)]
        /\ picked' = [picked EXCEPT ![w] = OpenAlerts(k) \ closed[w]]
        /\ UNCHANGED <<log, cursor, pending, alerts, hand, opened, closed>>
    BY DEF Select, At, Kind, streamVars
  <1>2. e \in Event /\ Progress(w) /\ t \in Remaining(e)
    BY <1>1, WorkersTurn DEF Progress
  <1>3. OneOn(e, t, k, TRUE)
    BY <1>1, <1>2, WhereSelect
  <1>4. /\ t \notin ToRaise \cup {AckLeft, CommitLeft}
        /\ Tail(t) \in Remaining(e) /\ Tail(t) \notin ToRaise \cup {AckLeft}
        /\ \A x \in Kinds : /\ Tail(t) \in ToUpdate(x) <=> x = k
                            /\ t \in ToClear(x) => Tail(t) \in ToClear(x)
    BY <1>3 DEF OneOn
  <1>5. /\ opened[w] = Raised(e) /\ \A a \in closed[w] : Clears(e, alerts[a].kind)
        /\ \A x \in Kinds : Clears(e, x) /\ t \notin ToClear(x) =>
              OpenAlerts(x) \subseteq closed[w]
    BY <1>2, <1>4 DEF Progress
  <1>6. /\ todo'[w] = Tail(t) /\ opened'[w] = opened[w] /\ closed'[w] = closed[w]
        /\ picked'[w] = OpenAlerts(k) \ closed[w] /\ log'[hand'[w]] = e
        /\ \A x : OpenAlerts(x)' = OpenAlerts(x)
    BY <1>1 DEF IInv, TypeOK, OpenAlerts
  <1>7. \A a \in OpenAlerts(k) : alerts'[a].kind = k
    BY <1>1 DEF OpenAlerts
  <1>8. Progress(w)'
    <2> HIDE DEF e, k, t
    <2>1. /\ todo'[w] \in Remaining(e)
          /\ opened'[w] = IF todo'[w] \in ToRaise \cup {AckLeft} THEN {} ELSE Raised(e)
          /\ \A a \in closed'[w] : Clears(e, alerts'[a].kind)
      BY <1>1, <1>4, <1>5, <1>6
    <2>2. ASSUME NEW x \in Kinds
          PROVE  /\ Clears(e, x) /\ todo'[w] \notin ToClear(x) \cup {AckLeft} =>
                       OpenAlerts(x)' \subseteq closed'[w]
                 /\ todo'[w] \in ToUpdate(x) =>
                       /\ OpenAlerts(x)' \subseteq picked'[w] \cup closed'[w]
                       /\ \A a \in picked'[w] : alerts'[a].kind = x
      BY <1>4, <1>5, <1>6, <1>7
    <2> QED
      BY <1>6, <2>1, <2>2 DEF Progress
  <1>9. t # <<>> /\ t # AckLeft /\ todo'[w] # AckLeft
    BY <1>1, <1>4, <1>6
  <1> QED
    BY <1>1, <1>8, <1>9, StatementCalm

LEMMA UpdateCalm ==
  ASSUME IInv, CalmSound, NEW w \in Workers, Update(w)
  PROVE  CalmSound'
  <1> DEFINE e == log[hand[w]]
             k == Kind(w)
             t == todo[w]
  <1>1. /\ t # <<>> /\ Head(t)[1] = "update" /\ k = Head(t)[2]
        /\ todo' = [todo EXCEPT ![w] = Tail(@)]
        /\ closed' = [closed EXCEPT ![w] = @ \cup picked[w]]
        /\ UNCHANGED <<log, cursor, pending, alerts, hand, opened>>
    BY DEF Update, At, Kind, streamVars
  <1>2. e \in Event /\ Progress(w) /\ t \in Remaining(e)
    BY <1>1, WorkersTurn DEF Progress
  <1>3. OneOn(e, t, k, FALSE)
    BY <1>1, <1>2, WhereUpdate
  <1>4. /\ t \notin ToRaise \cup {AckLeft, CommitLeft} /\ k \in Kinds
        /\ Tail(t) \in Remaining(e) /\ Tail(t) \notin ToRaise \cup {AckLeft}
        /\ Clears(e, k) /\ t \in ToUpdate(k)
        /\ \A x \in Kinds : /\ Tail(t) \notin ToUpdate(x)
                            /\ t \in ToClear(x) => Tail(t) \in ToClear(x) \/ x = k
    BY <1>3 DEF OneOn
  <1>5. /\ opened[w] = Raised(e) /\ \A a \in closed[w] : Clears(e, alerts[a].kind)
        /\ \A x \in Kinds : Clears(e, x) /\ t \notin ToClear(x) =>
              OpenAlerts(x) \subseteq closed[w]
        /\ OpenAlerts(k) \subseteq picked[w] \cup closed[w]
        /\ \A a \in picked[w] : alerts[a].kind = k
    BY <1>2, <1>4 DEF Progress
  <1>6. /\ todo'[w] = Tail(t) /\ opened'[w] = opened[w]
        /\ closed'[w] = closed[w] \cup picked[w] /\ log'[hand'[w]] = e
        /\ \A x : OpenAlerts(x)' = OpenAlerts(x)
    BY <1>1 DEF IInv, TypeOK, OpenAlerts
  <1>7. Progress(w)'
    <2> HIDE DEF e, k, t
    <2>1. /\ todo'[w] \in Remaining(e)
          /\ opened'[w] = IF todo'[w] \in ToRaise \cup {AckLeft} THEN {} ELSE Raised(e)
          /\ \A a \in closed'[w] : Clears(e, alerts'[a].kind)
      BY <1>1, <1>4, <1>5, <1>6
    <2>2. ASSUME NEW x \in Kinds
          PROVE  /\ Clears(e, x) /\ todo'[w] \notin ToClear(x) \cup {AckLeft} =>
                       OpenAlerts(x)' \subseteq closed'[w]
                 /\ todo'[w] \notin ToUpdate(x)
      BY <1>4, <1>5, <1>6
    <2> QED
      BY <1>6, <2>1, <2>2 DEF Progress
  <1>8. t # <<>> /\ t # AckLeft /\ todo'[w] # AckLeft
    BY <1>1, <1>4, <1>6
  <1> QED
    BY <1>1, <1>7, <1>8, StatementCalm

\* What a commit in a calm system does to the alerts: those the event clears are
\* resolved, those it raises are there.
Settles(c) ==
    LET e == log[c] IN
    /\ \A k : OpenAlerts(k)' # {} =>
          k \in Raised(e) \/ (OpenAlerts(k) # {} /\ (k \in Kinds => ~Clears(e, k)))
    /\ \A a \in 1..Len(alerts) :
          /\ a \in 1..Len(alerts') /\ alerts'[a].cause = alerts[a].cause
          /\ alerts'[a].kind = alerts[a].kind
          /\ alerts[a].status # "resolved" /\ ~Clears(e, alerts[a].kind) =>
                alerts'[a].status # "resolved"
    /\ \A a \in 1..Len(alerts') :
          \/ a \in 1..Len(alerts)
          \/ alerts'[a].cause = c /\ alerts'[a].kind \in Raised(e)
    /\ Raised(e) # {} => \E a \in 1..Len(alerts') :
          alerts'[a].cause = c /\ alerts'[a].status # "resolved"

LEMMA CommitSettles ==
  ASSUME IInv, CalmSound, NEW w \in Workers, Commit(w)
  PROVE  Settles(cursor)
  <1> DEFINE e == log[cursor]
             n == Len(alerts)
  <1>1. todo[w] # <<>> /\ Head(todo[w])[1] = "commit"
    BY DEF Commit, At
  <1>2. /\ hand[w] = cursor /\ e \in Event /\ Progress(w)
    BY <1>1, WorkersTurn
  <1>3. todo[w] = CommitLeft
    BY <1>1, <1>2, WhereCommit DEF Progress
  <1>4. /\ opened[w] = Raised(e)
        /\ \A k \in Kinds : Clears(e, k) => OpenAlerts(k) \subseteq closed[w]
        /\ \A a \in closed[w] : Clears(e, alerts[a].kind)
    <2>1. \A k \in Kinds : CommitLeft \notin ToClear(k)
      BY LeftSets
    <2>2. CommitLeft # AckLeft /\ CommitLeft \notin ToRaise
      BY LeftSets
    <2> QED
      BY <1>2, <1>3, <2>1, <2>2 DEF Progress
  <1> HIDE DEF e
  <1>5. /\ n \in Nat
        /\ Len(alerts') = n + (IF opened[w] = {} THEN 0 ELSE 1)
        /\ \A i \in 1..n :
              /\ alerts'[i].kind = alerts[i].kind
              /\ alerts'[i].cause = alerts[i].cause
              /\ alerts'[i].status = IF i \in closed[w] THEN "resolved"
                                     ELSE alerts[i].status
        /\ opened[w] # {} => \E k \in opened[w] :
              alerts'[n + 1] = [kind |-> k, cause |-> hand[w], status |-> "open"]
    BY CommitShape, LenProperties DEF IInv, TypeOK
  <1>6. \A a \in 1..Len(alerts') : a \in 1..n \/ (a = n + 1 /\ opened[w] # {})
    BY <1>5
  <1>7. ASSUME opened[w] # {}
        PROVE  /\ n + 1 \in 1..Len(alerts') /\ alerts'[n + 1].cause = cursor
               /\ alerts'[n + 1].kind \in Raised(e) /\ alerts'[n + 1].status = "open"
    <2>1. PICK k \in opened[w] :
             alerts'[n + 1] = [kind |-> k, cause |-> hand[w], status |-> "open"]
      BY <1>5, <1>7
    <2>2. n + 1 \in 1..Len(alerts')
      BY <1>5, <1>7
    <2> QED
      BY <1>2, <1>4, <2>1, <2>2
  <1>8. ASSUME NEW k, OpenAlerts(k)' # {}
        PROVE  k \in Raised(e) \/ (OpenAlerts(k) # {} /\ (k \in Kinds => ~Clears(e, k)))
    <2>1. PICK a \in 1..Len(alerts') : alerts'[a].kind = k /\ alerts'[a].status = "open"
      BY <1>8 DEF OpenAlerts
    <2>2. CASE a \in 1..n
      <3>1. a \in OpenAlerts(k) /\ a \notin closed[w]
        BY <1>5, <2>1, <2>2 DEF OpenAlerts
      <3> QED
        BY <1>4, <3>1
    <2>3. CASE a = n + 1 /\ opened[w] # {}
      BY <1>7, <2>1, <2>3
    <2> QED
      BY <1>6, <2>2, <2>3
  <1>9. ASSUME NEW a \in 1..n
        PROVE  /\ a \in 1..Len(alerts') /\ alerts'[a].cause = alerts[a].cause
               /\ alerts'[a].kind = alerts[a].kind
               /\ alerts[a].status # "resolved" /\ ~Clears(e, alerts[a].kind) =>
                     alerts'[a].status # "resolved"
    <2>1. a \in 1..Len(alerts')
      BY <1>5
    <2> QED
      BY <1>4, <1>5, <2>1
  <1>10. \A a \in 1..Len(alerts') :
            \/ a \in 1..n
            \/ alerts'[a].cause = cursor /\ alerts'[a].kind \in Raised(e)
    BY <1>6, <1>7
  <1>11. Raised(e) # {} => \E a \in 1..Len(alerts') :
            alerts'[a].cause = cursor /\ alerts'[a].status # "resolved"
    <2>1. "open" # "resolved"
      OBVIOUS
    <2> QED
      BY <1>4, <1>7, <2>1
  <1> QED
    BY <1>8, <1>9, <1>10, <1>11 DEF Settles, e

LEMMA MovedTruth ==
  ASSUME TypeOK, LogSound, CausesSound, NEW c \in 1..Len(log), cursor = c,
         log[c].type = "stock.moved",
         TrueAfter(c - 1), Settles(c), log' = log
  PROVE  TrueAfter(c)'
  <1> DEFINE e == log[c]
             L == LevelAt(c - 1)
             q == e.after
  <1>0. Len(log) \in Nat /\ c - 1 \in 0..Len(log) /\ c # 0 /\ c - 1 + 1 = c
    BY DEF TypeOK
  <1>1. e \in Event /\ q \in Nat /\ L \in Nat /\ ReorderPoint \in Nat
    <2>1. \A i \in 1..Len(log) : log[i] \in Event /\ log[i].after \in Nat
      <3>1. \A i \in 1..Len(log) : log[i] \in Event
        BY DEF TypeOK
      <3> QED
        BY <3>1 DEF Event
    <2>2. OpeningLevel \in Nat /\ ReorderPoint \in Nat
      BY AlertsAssumption
    <2>3. c - 1 = 0 \/ c - 1 \in 1..Len(log)
      BY <1>0
    <2> QED
      BY <2>1, <2>2, <2>3 DEF LevelAt
  <1>2. /\ q # L /\ (Whole(c) <=> ~RunsOut(L, q) /\ ~RunsLow(L, q))
    BY DEF LogSound, MovedSound
  <1>3. Whole(c - 1) /\ LevelAt(c) = q
    BY <1>0 DEF Whole, LevelAt
  <1>4. (Whole(c)' <=> Whole(c)) /\ LevelAt(c)' = LevelAt(c)
    BY DEF Whole, LevelAt
  <1>5. /\ OpenAlerts("out_of_stock") # {} => L = 0
        /\ OpenAlerts("low_stock") # {} => L \in 1..ReorderPoint
    BY <1>3 DEF TrueAfter
  <1>6. /\ Raised(e) = {}
        /\ q > 0 => Clears(e, "out_of_stock")
        /\ Clears(e, "low_stock") <=> ReorderPoint > 0 /\ q > ReorderPoint
    BY DEF Raised, Clears
  <1>7. /\ OpenAlerts("out_of_stock")' = {}
        /\ OpenAlerts("low_stock")' # {} =>
              L \in 1..ReorderPoint /\ ~(ReorderPoint > 0 /\ q > ReorderPoint)
    <2>1. /\ OpenAlerts("out_of_stock")' # {} => L = 0 /\ ~(q > 0)
          /\ OpenAlerts("low_stock")' # {} =>
                L \in 1..ReorderPoint /\ ~Clears(e, "low_stock")
      BY <1>5, <1>6 DEF Settles, Kinds
    <2> HIDE DEF e, L, q
    <2> QED
      BY <1>1, <1>2, <1>6, <2>1
  <1> HIDE DEF L, q
  <1>8. OpenAlerts("low_stock")' # {} =>
           IF Whole(c) THEN q \in 1..ReorderPoint ELSE q = 0
    BY <1>1, <1>2, <1>7 DEF RunsOut, RunsLow
  <1>9. ASSUME Whole(c), NEW i \in 1..c, LastThreshold(i, c)
        PROVE  /\ StandingAt(i, q) => \E a \in 1..Len(alerts') :
                     alerts'[a].cause = i /\ alerts'[a].status # "resolved"
               /\ log[i].type = "stock.below_reorder_point" => q # 0
    <2>1. i \in 1..c - 1 /\ LastThreshold(i, c - 1)
      BY <1>0, <1>9 DEF LastThreshold
    <2>2. /\ StandingAt(i, L) => \E a \in 1..Len(alerts) :
                alerts[a].cause = i /\ alerts[a].status # "resolved"
          /\ log[i].type = "stock.below_reorder_point" => L # 0
      BY <1>3, <2>1 DEF TrueAfter, L
    <2>3. ~RunsOut(L, q) /\ ~RunsLow(L, q)
      BY <1>2, <1>9
    <2>4. log[i].type \in EventType /\ log[i].type # "stock.moved"
      <3>1. log[i] \in Event
        BY <1>0, <2>1 DEF TypeOK
      <3> QED
        BY <1>9, <3>1 DEF LastThreshold, Event
    <2>5. log[i].type = "stock.below_reorder_point" => q # 0
      BY <1>1, <1>2, <2>2, <2>3 DEF RunsOut
    <2>6. ASSUME StandingAt(i, q)
          PROVE  log[i].type = "stock.below_reorder_point" /\ q \in 1..ReorderPoint
      BY <1>1, <1>2, <2>3, <2>4, <2>6 DEF StandingAt, RunsOut, EventType
    <2>7. ASSUME StandingAt(i, q)
          PROVE  \E a \in 1..Len(alerts') :
                    alerts'[a].cause = i /\ alerts'[a].status # "resolved"
      <3>1. log[i].type = "stock.below_reorder_point" /\ q \in 1..ReorderPoint
        BY <2>6, <2>7
      <3>2. L \in 1..ReorderPoint
        BY <1>1, <2>2, <2>3, <3>1 DEF RunsLow
      <3>3. PICK a \in 1..Len(alerts) : alerts[a].cause = i /\ alerts[a].status # "resolved"
        BY <2>2, <3>1, <3>2 DEF StandingAt
      <3>4. alerts[a].kind = "low_stock"
        BY <3>1, <3>3 DEF CausesSound, Raised
      <3>5. ~Clears(e, alerts[a].kind)
        BY <1>1, <1>6, <3>1, <3>4
      <3> QED
        BY <3>3, <3>5 DEF Settles
    <2> QED
      BY <2>5, <2>7
  <1>10. \A i : /\ LastThreshold(i, c)' <=> LastThreshold(i, c)
                /\ StandingAt(i, LevelAt(c))' <=> StandingAt(i, LevelAt(c))
    BY DEF LastThreshold, StandingAt, LevelAt
  <1> HIDE DEF e
  <1> QED
    BY <1>3, <1>4, <1>7, <1>8, <1>9, <1>10 DEF TrueAfter

LEMMA ThresholdTruth ==
  ASSUME TypeOK, LogSound, NEW c \in 1..Len(log), log[c].type # "stock.moved",
         TrueAfter(c - 1), Settles(c), log' = log
  PROVE  TrueAfter(c)'
  <1> DEFINE e == log[c]
             q == e.after
  <1>0. Len(log) \in Nat /\ c - 1 # Len(log) /\ c # 0 /\ c - 1 + 1 = c
    BY DEF TypeOK
  <1>1. e.type \in EventType
    <2>1. e \in Event
      BY DEF TypeOK
    <2> QED
      BY <2>1 DEF Event
  <1>2. /\ c > 1 /\ log[c - 1].after = q /\ Whole(c)
        /\ IF e.type = "stock.depleted" THEN q = 0 ELSE q \in 1..ReorderPoint
    BY DEF LogSound, ThresholdSound
  <1>3. LevelAt(c - 1) = q /\ ~Whole(c - 1) /\ LevelAt(c) = q
    BY <1>0, <1>2 DEF LevelAt, Whole
  <1>4. Whole(c)' /\ LevelAt(c)' = q
    BY <1>2, <1>3 DEF Whole, LevelAt
  <1>5. OpenAlerts("out_of_stock") = {} /\ (OpenAlerts("low_stock") # {} => q = 0)
    BY <1>3 DEF TrueAfter
  <1>6. Raised(e) # {} /\ (e.type = "stock.depleted" => Clears(e, "low_stock"))
        /\ ("out_of_stock" \in Raised(e) => e.type = "stock.depleted")
        /\ ("low_stock" \in Raised(e) => e.type # "stock.depleted")
    BY DEF Raised, Clears
  <1>7. /\ OpenAlerts("out_of_stock")' # {} => e.type = "stock.depleted"
        /\ OpenAlerts("low_stock")' # {} => e.type # "stock.depleted"
    BY <1>5, <1>6 DEF Settles, Kinds
  <1>8. \E a \in 1..Len(alerts') : alerts'[a].cause = c /\ alerts'[a].status # "resolved"
    BY <1>6 DEF Settles
  <1>9. \A i \in 1..c : LastThreshold(i, c)' => i = c
    BY <1>0 DEF LastThreshold
  <1>10. log'[c].type = "stock.below_reorder_point" => q # 0
    BY <1>2
  <1> HIDE DEF e, q
  <1> QED
    BY <1>2, <1>4, <1>7, <1>8, <1>9, <1>10 DEF TrueAfter

LEMMA CommitCalm ==
  ASSUME IInv, LogSound, CalmSound, NEW w \in Workers, Commit(w)
  PROVE  CalmSound'
  <1>1. /\ todo[w] # <<>> /\ Head(todo[w])[1] = "commit"
        /\ opened' = [opened EXCEPT ![w] = {}]
        /\ closed' = [closed EXCEPT ![w] = {}]
        /\ todo' = [todo EXCEPT ![w] = Tail(@)]
        /\ UNCHANGED <<log, cursor, pending, hand>>
    BY DEF Commit, At, streamVars
  <1>2. /\ hand[w] = cursor /\ cursor \in 1..Len(log) /\ log[cursor] \in Event
        /\ Len(log) \in Nat /\ (\A u \in Workers \ {w} : Idle(u))
        /\ Progress(w) /\ (Busy <=> todo[w] # AckLeft)
    BY <1>1, WorkersTurn
  <1>3. todo[w] = CommitLeft
    BY <1>1, <1>2, WhereCommit DEF Progress
  <1>4. /\ todo'[w] = AckLeft /\ opened'[w] = {} /\ closed'[w] = {}
        /\ \A u \in Workers \ {w} : hand'[u] = 0
    BY <1>1, <1>2, <1>3, LeftTails DEF IInv, TypeOK, Idle
  <1>5. Settles(cursor)
    BY CommitSettles
  <1>6. PICK c \in 1..Len(log) : c = cursor
    BY <1>2
  <1>7. Handled = c - 1 /\ Handled' = c
    <2>1. Busy /\ ~Busy'
      BY <1>1, <1>2, <1>3, <1>4, LeftSets DEF Busy, Idle
    <2> QED
      BY <1>1, <1>6, <2>1 DEF Handled
  <1>8. TrueAfter(c)'
    <2>1. TrueAfter(c - 1) /\ CausesSound /\ TypeOK
      BY <1>7 DEF CalmSound, IInv, TrueAfter
    <2> QED
      BY <1>1, <1>5, <1>6, <2>1, MovedTruth, ThresholdTruth
  <1>9. TrueAfter(Handled)'
    BY <1>7, <1>8 DEF TrueAfter
  <1>10. OneAtATime'
    BY <1>1 DEF CalmSound, OneAtATime, Idle
  <1>11. CausesSound'
    <2> SUFFICES ASSUME NEW a \in 1..Len(alerts')
                 PROVE  /\ alerts'[a].cause \in 1..cursor
                        /\ alerts'[a].kind \in Raised(log[alerts'[a].cause])
      BY <1>1 DEF CausesSound
    <2>1. CASE a \in 1..Len(alerts)
      <3>1. alerts'[a].cause = alerts[a].cause /\ alerts'[a].kind = alerts[a].kind
        BY <1>5, <2>1 DEF Settles
      <3> QED
        BY <2>1, <3>1 DEF CalmSound, CausesSound
    <2>2. CASE alerts'[a].cause = cursor /\ alerts'[a].kind \in Raised(log[cursor])
      BY <1>2, <2>2
    <2> QED
      BY <1>5, <2>1, <2>2 DEF Settles
  <1>12. Progress(w)'
    <2>1. AckLeft \in Remaining(log[hand[w]]) /\ \A k \in Kinds : AckLeft \notin ToUpdate(k)
      <3>1. \A k \in Kinds : AckLeft \notin ToClear(k)
        BY LeftSets
      <3>2. \A k \in Kinds : \A x \in ToUpdate(k) : x \in ToClear(k)
        BY LeftSets
      <3> QED
        BY <3>1, <3>2 DEF Remaining
    <2> QED
      BY <1>1, <1>4, <2>1 DEF Progress
  <1> QED
    BY <1>4, <1>9, <1>10, <1>11, <1>12 DEF CalmSound, Idle

LEMMA AckCalm ==
  ASSUME IInv, CalmSound, NEW w \in Workers, Ack(w)
  PROVE  CalmSound'
  <1>1. /\ todo[w] # <<>> /\ Head(todo[w])[1] = "ack"
        /\ pending' = pending \ {hand[w]}
        /\ hand' = [hand EXCEPT ![w] = 0]
        /\ UNCHANGED <<log, cursor, alerts>>
    BY DEF Ack, At
  <1>2. /\ hand[w] = cursor /\ pending = {cursor} /\ log[cursor] \in Event
        /\ (\A u \in Workers \ {w} : Idle(u)) /\ cursor \in 1..Len(log)
        /\ Progress(w) /\ (Busy <=> todo[w] # AckLeft)
    BY <1>1, WorkersTurn
  <1>3. todo[w] = AckLeft
    BY <1>1, <1>2, WhereAck DEF Progress
  <1>4. (\A u \in Workers : Idle(u)') /\ pending' = {}
    BY <1>1, <1>2 DEF IInv, TypeOK, Idle
  <1>5. OneAtATime' /\ \A u \in Workers : ~Idle(u)' => Progress(u)'
    BY <1>4 DEF OneAtATime, Idle
  <1>6. PICK c \in Nat : c = cursor
    BY <1>2
  <1>7. Handled = c /\ Handled' = c
    BY <1>1, <1>2, <1>3, <1>4, <1>6 DEF Handled, Busy
  <1>8. AlertsKept /\ SamePast(c)
    BY <1>1, SameLog DEF AlertsKept
  <1>9. TrueAfter(Handled)'
    <2>1. TrueAfter(c)
      BY <1>7 DEF CalmSound, TrueAfter
    <2>2. TrueAfter(c)'
      BY <1>8, <2>1, TruthStays
    <2> QED
      BY <1>7, <2>2 DEF TrueAfter
  <1>10. CausesSound'
    BY <1>1 DEF CalmSound, CausesSound
  <1> QED
    BY <1>5, <1>9, <1>10 DEF CalmSound

\* Only a worker that finds the others idle takes up an event, and it is the next.
LEMMA DeliveryCalm ==
  ASSUME IInv, CalmSound, NEW w \in Workers, Receive(w) \/ Redeliver(w), ~overlapped'
  PROVE  CalmSound'
  <1>1. Idle(w) /\ \A u \in Workers \ {w} : Idle(u)
    BY DEF Receive, Redeliver, TakeUp
  <1>2. pending = {} /\ ~Busy
    BY <1>1 DEF CalmSound, OneAtATime, Busy
  <1>3. PICK c \in Nat : c = cursor
    BY LenProperties DEF IInv, TypeOK
  <1>4. /\ c + 1 \in 1..Len(log) /\ cursor' = c + 1 /\ pending' = {c + 1}
        /\ TakeUp(w, c + 1)
    <2>1. ~Redeliver(w)
      BY <1>2 DEF Redeliver
    <2>2. Len(log) \in Nat
      BY LenProperties DEF IInv, TypeOK
    <2> QED
      BY <1>2, <1>3, <2>1, <2>2 DEF Receive
  <1> DEFINE e == log[c + 1]
  <1>5. e \in Event
    BY <1>4 DEF IInv, TypeOK
  <1>6. /\ Turn(e) \in Remaining(e) /\ Turn(e) # AckLeft
        /\ Turn(e) \in ToRaise <=> Raised(e) # {}
        /\ \A k \in Kinds : /\ Clears(e, k) => Turn(e) \in ToClear(k)
                            /\ Turn(e) \notin ToUpdate(k)
    BY <1>5, TurnLeft
  <1>7. /\ hand' = [hand EXCEPT ![w] = c + 1]
        /\ todo' = [todo EXCEPT ![w] = Turn(e)]
        /\ UNCHANGED <<log, alerts, opened, closed, picked>>
    BY <1>4 DEF TakeUp
  <1> HIDE DEF e
  <1>8. /\ hand'[w] = c + 1 /\ todo'[w] = Turn(e)
        /\ \A u \in Workers \ {w} : hand'[u] = 0
    BY <1>1, <1>7 DEF IInv, TypeOK, Idle
  <1>9. opened[w] = {} /\ closed[w] = {}
    <2>1. todo[w] = <<>>
      BY <1>1 DEF IInv, TurnSound
    <2>2. Len(todo[w]) <= 1
      BY <2>1
    <2> QED
      BY <2>2 DEF IInv, TurnSound
  <1>10. OneAtATime'
    BY <1>3, <1>4, <1>8 DEF OneAtATime, Idle
  <1>11. Progress(w)'
    <2>1. log'[hand'[w]] = e
      BY <1>7, <1>8 DEF e
    <2>2. /\ todo'[w] \in Remaining(e)
          /\ opened'[w] = IF todo'[w] \in ToRaise \cup {AckLeft} THEN {} ELSE Raised(e)
          /\ closed'[w] = {}
          /\ \A k \in Kinds :
                /\ ~(Clears(e, k) /\ todo'[w] \notin ToClear(k) \cup {AckLeft})
                /\ todo'[w] \notin ToUpdate(k)
      BY <1>6, <1>7, <1>8, <1>9
    <2> QED
      BY <2>1, <2>2 DEF Progress
  <1>12. Handled = c /\ Handled' = c
    <2>1. Busy'
      BY <1>3, <1>6, <1>8 DEF Busy, Idle
    <2> QED
      BY <1>2, <1>3, <1>4, <2>1 DEF Handled
  <1>13. AlertsKept /\ \A d : SamePast(d)
    BY <1>7, SameLog DEF AlertsKept
  <1>14. TrueAfter(Handled)'
    <2>1. TrueAfter(c)
      BY <1>12 DEF CalmSound, TrueAfter
    <2>2. TrueAfter(c)'
      BY <1>13, <2>1, TruthStays
    <2> QED
      BY <1>12, <2>2 DEF TrueAfter
  <1>15. CausesSound'
    BY <1>3, <1>4, <1>13, CausesStay DEF CalmSound, IInv
  <1> QED
    BY <1>8, <1>10, <1>11, <1>14, <1>15 DEF CalmSound, Idle

\* Steps of the line and of managers, which no worker's step is.
LEMMA OutsideCalm ==
  ASSUME IInv, CalmSound, AlertsKept, SamePast(cursor),
         UNCHANGED <<cursor, pending, workerVars>>
  PROVE  CalmSound'
  <1>1. /\ cursor \in Nat /\ cursor' = cursor
        /\ UNCHANGED <<pending, hand, todo, picked, opened, closed>>
    BY LenProperties DEF IInv, TypeOK, workerVars
  <1>2. OneAtATime'
    BY <1>1 DEF CalmSound, OneAtATime, Idle
  <1>3. Busy' <=> Busy
    BY <1>1 DEF Busy, Idle
  <1>4. ASSUME NEW w \in Workers, ~Idle(w)'
        PROVE  Progress(w)'
    <2>1. Progress(w) /\ hand[w] = cursor /\ hand[w] # 0
      BY <1>1, <1>4 DEF CalmSound, OneAtATime, Idle
    <2>2. log'[hand[w]] = log[hand[w]]
      BY <1>1, <2>1 DEF SamePast
    <2> QED
      BY <1>1, <2>1, <2>2, ProgressStays DEF IInv
  <1>5. CausesSound'
    BY <1>1, CausesStay DEF CalmSound, IInv
  <1>6. PICK c \in Nat : c = Handled /\ c <= cursor
    <2>1. Busy => cursor \in Nat /\ cursor # 0
      <3>1. Busy => \E w \in Workers : hand[w] # 0 /\ hand[w] = cursor
        BY DEF Busy, Idle, CalmSound, OneAtATime
      <3> QED
        BY <1>1, <3>1
    <2> QED
      BY <1>1, <2>1 DEF Handled
  <1>7. c = Handled' /\ SamePast(c)
    BY <1>1, <1>3, <1>6 DEF Handled, SamePast
  <1>8. TrueAfter(Handled)'
    <2>1. TrueAfter(c)
      BY <1>6 DEF CalmSound, TrueAfter
    <2>2. TrueAfter(c)'
      BY <1>7, <2>1, TruthStays
    <2> QED
      BY <1>7, <2>2 DEF TrueAfter
  <1> QED
    BY <1>2, <1>4, <1>5, <1>8 DEF CalmSound

LEMMA MoveCalm ==
  ASSUME IInv, CalmSound, NEW q \in Levels, Move(q)
  PROVE  CalmSound'
  <1>1. SamePast(Len(log)) /\ UNCHANGED <<cursor, pending, alerts, workerVars>>
    BY MoveShape DEF IInv
  <1>2. cursor \in 0..Len(log) /\ Len(log) \in Nat
    BY LenProperties DEF IInv, TypeOK
  <1>3. SamePast(cursor) /\ AlertsKept
    BY <1>1, <1>2 DEF SamePast, AlertsKept
  <1> QED
    BY <1>1, <1>3, OutsideCalm

LEMMA ManagerCalm ==
  ASSUME IInv, CalmSound, NEW m \in Managers,
         Dismiss(m) \/ \E i \in 1..Len(alerts) : FindOpen(m, i)
  PROVE  CalmSound'
  <1>1. UNCHANGED <<streamVars, workerVars>>
    BY DEF Dismiss, FindOpen
  <1>2. SamePast(cursor) /\ UNCHANGED <<cursor, pending>>
    BY <1>1, SameLog DEF streamVars
  <1>3. AlertsKept
    <2>1. CASE Dismiss(m)
      <3> DEFINE d == decided[m]
                 row == [alerts[d] EXCEPT !.status = "dismissed"]
      <3>1. alerts \in Seq(Alert) /\ Len(alerts) \in Nat
        BY LenProperties DEF IInv, TypeOK
      <3>2. d \in 1..Len(alerts) /\ alerts' = [alerts EXCEPT ![d] = row]
        BY <2>1, <3>1 DEF Dismiss, IInv, TypeOK
      <3>3. alerts[d] \in Alert
        BY <3>1, <3>2
      <3>4. /\ row \in Alert /\ row.kind = alerts[d].kind
            /\ row.cause = alerts[d].cause /\ row.status = "dismissed"
        BY <3>3 DEF Alert
      <3> HIDE DEF row, d
      <3>5. /\ Len(alerts') = Len(alerts)
            /\ \A i \in 1..Len(alerts) :
                  alerts'[i] = IF i = d THEN row ELSE alerts[i]
        BY <3>1, <3>2, <3>4, ExceptSeq
      <3> QED
        BY <3>4, <3>5 DEF AlertsKept
    <2>2. CASE \E i \in 1..Len(alerts) : FindOpen(m, i)
      <3>1. alerts' = alerts
        BY <2>2 DEF FindOpen
      <3> QED
        BY <3>1 DEF AlertsKept
    <2> QED
      BY <2>1, <2>2
  <1> QED
    BY <1>1, <1>2, <1>3, OutsideCalm

LEMMA InitTelling == Init => TellingInv
  <1> SUFFICES ASSUME Init PROVE TellingInv
    OBVIOUS
  <1>1. /\ log = <<>> /\ level = OpeningLevel /\ cursor = 0 /\ pending = {}
        /\ alerts = <<>> /\ Len(log) = 0 /\ Len(alerts) = 0
        /\ \A w \in Workers : Idle(w)
    BY DEF Init, Idle
  <1>2. LogSound
    BY <1>1 DEF LogSound, LevelAt
  <1>3. OneAtATime /\ CausesSound
    BY <1>1 DEF OneAtATime, CausesSound
  <1>4. Handled = 0
    BY <1>1 DEF Handled, Busy
  <1>5. TrueAfter(0)
    <2>1. \A k : OpenAlerts(k) = {}
      BY <1>1 DEF OpenAlerts
    <2>2. 1..0 = {}
      OBVIOUS
    <2> QED
      BY <2>1, <2>2 DEF TrueAfter
  <1>6. TrueAfter(Handled)
    BY <1>4, <1>5
  <1> QED
    BY <1>1, <1>2, <1>3, <1>6 DEF TellingInv, CalmSound

LEMMA NextTelling == IInv /\ TellingInv /\ [Next]_vars => TellingInv'
  <1> SUFFICES ASSUME IInv, TellingInv, [Next]_vars PROVE TellingInv'
    OBVIOUS
  <1>1. LogSound /\ (Calm => CalmSound)
    BY DEF TellingInv
  <1>2. ASSUME Calm' PROVE Calm
    <2>1. failures \in Nat
      BY AlertsAssumption DEF IInv, TypeOK
    <2>2. CASE UNCHANGED countVars
      BY <1>2, <2>2 DEF Calm, countVars
    <2>3. CASE \E w \in Workers : Receive(w) \/ Redeliver(w)
      BY <1>2, <2>3 DEF Receive, Redeliver, TakeUp, Calm
    <2>4. CASE \E w \in Workers : Swallow(w) \/ LeavePending(w)
      BY <1>2, <2>1, <2>4 DEF Swallow, LeavePending, Fails, Calm
    <2>5. UNCHANGED vars \/ (\E q \in Levels : Move(q))
             \/ (\E w \in Workers : Execute(w))
             \/ (\E m \in Managers :
                    Dismiss(m) \/ \E i \in 1..Len(alerts) : FindOpen(m, i))
          => UNCHANGED countVars
      BY DEF vars, Move, Execute, Raise, Select, Update, Commit, Ack, Dismiss,
             FindOpen, countVars
    <2> QED
      BY <2>2, <2>3, <2>4, <2>5 DEF Next
  <1>3. CASE \E q \in Levels : Move(q)
    BY <1>1, <1>2, <1>3, MoveKeepsLog, MoveCalm DEF TellingInv, IInv
  <1>4. CASE UNCHANGED <<level, log>>
    <2>1. LogSound'
      BY <1>1, <1>4 DEF LogSound, MovedSound, ThresholdSound, LevelAt, Whole
    <2>2. ASSUME Calm' PROVE CalmSound'
      <3>1. CalmSound
        BY <1>1, <1>2, <2>2
      <3>2. CASE UNCHANGED vars
        <4>1. AlertsKept /\ SamePast(cursor) /\ UNCHANGED <<cursor, pending, workerVars>>
          BY <3>2, SameLog DEF vars, streamVars, AlertsKept
        <4> QED
          BY <3>1, <4>1, OutsideCalm
      <3>3. ~(\E w \in Workers : Swallow(w) \/ LeavePending(w))
        <4>1. failures \in Nat /\ failures' = 0
          BY <2>2, AlertsAssumption DEF IInv, TypeOK, Calm
        <4> QED
          BY <4>1 DEF Swallow, LeavePending, Fails
      <3>4. ~overlapped'
        BY <2>2 DEF Calm
      <3>5. CASE \E q \in Levels : Move(q)
        BY <3>1, <3>5, MoveCalm
      <3>6. CASE \E w \in Workers : Receive(w) \/ Redeliver(w)
        BY <3>1, <3>4, <3>6, DeliveryCalm
      <3>7. CASE \E w \in Workers : Execute(w)
        BY <1>1, <3>1, <3>7, RaiseCalm, SelectCalm, UpdateCalm, CommitCalm, AckCalm
           DEF Execute
      <3>8. CASE \E m \in Managers :
                    Dismiss(m) \/ \E i \in 1..Len(alerts) : FindOpen(m, i)
        BY <3>1, <3>8, ManagerCalm
      <3> QED
        BY <3>2, <3>3, <3>5, <3>6, <3>7, <3>8 DEF Next
    <2> QED
      BY <2>1, <2>2 DEF TellingInv
  <1>5. (\E q \in Levels : Move(q)) \/ UNCHANGED <<level, log>>
    BY DEF Next, vars, streamVars, Receive, Redeliver, TakeUp, Execute, Raise, Select,
           Update, Commit, Ack, Swallow, LeavePending, Dismiss, FindOpen
  <1> QED
    BY <1>3, <1>4, <1>5

\* "a list of what needs attention": for any number of workers, any reorder point
\* and any movements, once every event has been handled, each once and one at a
\* time, the open alerts tell what the line holds, and a shortage has been said
\* or waved away (handlers.py; service.py, open_alert, resolve_matching, dismiss).
THEOREM AlertsTell == Spec => []AlertsTellTheStock
  <1>1. IInv /\ TellingInv => AlertsTellTheStock
    <2> SUFFICES ASSUME IInv, TellingInv, Settled, Calm PROVE AlertsAreTrue
      BY DEF AlertsTellTheStock, Calm
    <2>1. LogSound /\ CalmSound
      BY DEF TellingInv
    <2>2. cursor = Len(log) /\ pending = {} /\ Len(log) \in Nat
      BY LenProperties DEF Settled, IInv, TypeOK
    <2>3. Handled = Len(log)
      BY <2>1, <2>2 DEF CalmSound, OneAtATime, Handled, Busy
    <2>4. PICK c \in Nat : c = Len(log)
      BY <2>2
    <2>5. TrueAfter(c) /\ Whole(c) /\ LevelAt(c) = level
      BY <2>1, <2>3, <2>4 DEF CalmSound, TrueAfter, Whole, LogSound
    <2>6. /\ OpenAlerts("out_of_stock") # {} => level = 0
          /\ OpenAlerts("low_stock") # {} => level \in 1..ReorderPoint
      BY <2>5 DEF TrueAfter
    <2>7. ASSUME NEW i \in Thresholds, IsLast(i), Standing(i)
          PROVE  \E a \in 1..Len(alerts) :
                    alerts[a].cause = i /\ alerts[a].status # "resolved"
      <3>1. i \in 1..c /\ LastThreshold(i, c)
        BY <2>4, <2>7 DEF Thresholds, IsLast, LastThreshold
      <3>2. StandingAt(i, level)
        BY <2>7 DEF Standing, StandingAt
      <3> QED
        BY <2>5, <3>1, <3>2 DEF TrueAfter
    <2> QED
      BY <2>6, <2>7 DEF AlertsAreTrue
  <1> QED
    BY <1>1, InitTelling, NextTelling, AlertsInvariance, PTL DEF Spec
=============================================================================
