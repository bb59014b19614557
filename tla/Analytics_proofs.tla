-------------------------- MODULE Analytics_proofs --------------------------
(***************************************************************************)
(* For any requests, workers and rebuilds: the daily metrics of a day that *)
(* nothing has disturbed are those of the source rows, once its events     *)
(* have been counted, and a rebuild nothing was committed under is exact.  *)
(*                                                                         *)
(* For any sales, stock and schedulers: forecasts are scored with what was *)
(* sold, suggestions follow the newest forecast, classes cut the revenue   *)
(* of a tenant where they say.                                             *)
(***************************************************************************)
EXTENDS Projections, Nightly, FoldTheorems

-----------------------------------------------------------------------------
(* The invariant.                                                          *)

Counters == {"orders", "units_sold", "stock_movements", "units_received"}

IsBusy(k) ==
    /\ \/ k.does = "handle" /\ DOMAIN k = {"does", "event"}
       \/ k.does = "commit" /\ DOMAIN k = {"does", "event", "day", "figures"}
       \/ k.does = "ack" /\ DOMAIN k = {"does", "event", "day"}
    /\ k.event \in Events
    /\ k.does # "handle" => k.day = DayOf(k.event)

RequestsSound ==
    /\ request \in [Requests -> {"none", "open", "written", "committed"}]
    /\ clock \in Days
    /\ began \in [Requests -> Days] /\ wrote \in [Requests -> Days]
    /\ Seeded \subseteq Committed
    /\ event \in [Events -> {"none", "ready", "taken", "done"}]
    /\ \A e \in Events : event[e] # "none" <=> e[1] \in Committed

\* An event is taken by one worker.
WorkersSound ==
    /\ DOMAIN worker = Workers
    /\ \A w \in Workers : worker[w] # Idle =>
          /\ IsBusy(worker[w])
          /\ event[worker[w].event] = "taken"
          /\ \A v \in Workers \ {w} :
                worker[v] # Idle => worker[v].event # worker[w].event

\* A worker about to commit has the row of its day, unchanged since it read it.
CountsOn(w) ==
    /\ holder[worker[w].day] = w
    /\ worker[w].figures =
          [c \in Counters |-> Stored(worker[w].day)[c]
                              + Increment(worker[w].event)[c]]

CountsSound ==
    /\ DOMAIN holder = Days /\ DOMAIN metrics = Days
    /\ \A d \in Days : metrics[d] # Absent => DOMAIN metrics[d] = Counters
    /\ \A w \in Workers : Does(w, "commit") => CountsOn(w)

Stages == Queries \cup {"delete", "insert", "commit"}

\* Between its DELETE and its commit the rebuild has the rows it will replace,
\* and a row it has not is one that a worker has inserted since.
RebuildSound ==
    /\ rebuild \in [does : {"nothing"}] \cup [does : Stages, since : Days]
    /\ read \in [Queries -> SUBSET Committed]
    /\ rebuild.does \in {"insert", "commit"} =>
          /\ doomed \subseteq Days
          /\ \A d \in doomed : InRange(d) /\ holder[d] = Operator
          /\ \A d \in Days : InRange(d) /\ metrics[d] # Absent => d \in doomed \cup behind
    /\ rebuild.does = "commit" => \A d \in Slots : holder[d] = Operator

\* The rows of a day that its figures include: those of its events that have
\* been counted, and those whose events are not filed under it.
Told(d) ==
    {e \in AllRows : /\ e[1] \in Committed /\ wrote[e[1]] = d
                     /\ ~(e \in Events /\ DayOf(e) = d /\ Outstanding(e))}

\* The figures of a set of rows.
Tally(T) ==
    LET sales == {e \in T : RowOf(e).kind = "sale"}
        moves == {e \in T : RowOf(e).kind = "movement"}
    IN  [orders |-> Cardinality(sales),
         units_sold |-> SumFunctionOnSet(Amount, sales),
         stock_movements |-> Cardinality(moves),
         units_received |-> SumFunctionOnSet(Received, moves)]

\* What is still to be added to an undisturbed day is of that day.
FiledRight(d) ==
    \A e \in Events : Outstanding(e) /\ DayOf(e) = d => wrote[e[1]] = d

FiguresSound ==
    \A d \in Days \ disturbed : FiledRight(d) /\ Stored(d) = Tally(Told(d))

IInv ==
    /\ RequestsSound /\ WorkersSound /\ CountsSound /\ RebuildSound
    /\ FiguresSound

-----------------------------------------------------------------------------
(* Rows and their figures.                                                 *)

LEMMA RowsFacts ==
  /\ \A e \in AllRows : /\ e[1] \in Requests /\ e \in EventsOf(e[1])
                        /\ RowOf(e) \in Row
  /\ \A r \in Requests : \A e \in EventsOf(r) : e \in AllRows /\ e[1] = r
  /\ Events = {e \in AllRows : e[1] \notin Seeded}
  <1>1. \A r \in Requests : \A i \in DOMAIN Rows[r] : Rows[r][i] \in Row
    <2>1. \A r \in Requests : Rows[r] \in Seq(Row)
      BY RowsAssumption
    <2> QED
      BY <2>1
  <1>2. \A r \in Requests : \A e \in EventsOf(r) :
           /\ e \in AllRows /\ e[1] = r /\ RowOf(e) \in Row
    BY <1>1 DEF EventsOf, AllRows, RowOf
  <1>3. \A e \in AllRows : \E r \in Requests : e \in EventsOf(r)
    BY DEF AllRows
  <1>4. Seeded \subseteq Requests
    BY RowsAssumption
  <1>5. \A e \in Events : \E r \in Requests \ Seeded : e \in EventsOf(r)
    BY DEF Events
  <1>6. \A r \in Requests \ Seeded : \A e \in EventsOf(r) : e \in Events
    BY DEF Events
  <1> QED
    BY <1>2, <1>3, <1>4, <1>5, <1>6

LEMMA RowsFinite == IsFiniteSet(AllRows)
  <1>1. ASSUME NEW r \in Requests PROVE IsFiniteSet(EventsOf(r))
    <2> DEFINE D == DOMAIN Rows[r]
               f == [i \in D |-> <<r, i>>]
    <2>1. Rows[r] \in Seq(Row)
      BY RowsAssumption
    <2>2. IsFiniteSet(D)
      <3>1. D = 1..Len(Rows[r]) /\ Len(Rows[r]) \in Int
        BY <2>1
      <3> QED
        BY <3>1, FS_Interval
    <2>3. f \in Surjection(D, EventsOf(r))
      BY DEF Surjection, EventsOf
    <2> QED
      BY <2>2, <2>3, FS_Surjection
  <1> DEFINE S == {EventsOf(r) : r \in Requests}
             g == [r \in Requests |-> EventsOf(r)]
  <1>2. g \in Surjection(Requests, S)
    BY DEF Surjection
  <1>3. IsFiniteSet(S)
    BY <1>2, RowsAssumption, FS_Surjection
  <1>4. \A T \in S : IsFiniteSet(T)
    BY <1>1
  <1> HIDE DEF S
  <1>5. IsFiniteSet(UNION S)
    BY <1>3, <1>4, FS_UNION
  <1> QED
    BY <1>5 DEF AllRows, S

LEMMA AmountsAreIntegers ==
  \A e \in AllRows : Amount[e] \in Int /\ Received[e] \in Int
  <1>1. \A e \in AllRows : Amount[e] \in Int
    BY RowsFacts DEF Amount, Row
  <1> QED
    BY <1>1 DEF Received

\* One more row adds its increment to the figures.
LEMMA TallyAdds ==
  ASSUME NEW T \in SUBSET AllRows, NEW e \in AllRows \ T
  PROVE  \A c \in Counters : Tally(T \cup {e})[c] = Tally(T)[c] + Increment(e)[c]
  <1> DEFINE sales(S) == {x \in S : RowOf(x).kind = "sale"}
             moves(S) == {x \in S : RowOf(x).kind = "movement"}
  <1>1. /\ IsFiniteSet(sales(T)) /\ IsFiniteSet(moves(T))
        /\ sales(T) \subseteq AllRows /\ moves(T) \subseteq AllRows
    BY RowsFinite, FS_Subset
  <1>2. RowOf(e).kind \in {"sale", "movement"}
    BY RowsFacts DEF Row
  <1>3. /\ Cardinality(sales(T)) \in Nat /\ Cardinality(moves(T)) \in Nat
        /\ SumFunctionOnSet(Amount, sales(T)) \in Int
        /\ SumFunctionOnSet(Received, moves(T)) \in Int
    <2>1. \A x \in sales(T) : Amount[x] \in Int
      BY AmountsAreIntegers
    <2>2. \A x \in moves(T) : Received[x] \in Int
      BY AmountsAreIntegers
    <2> HIDE DEF sales, moves
    <2> QED
      BY <1>1, <2>1, <2>2, FS_CardinalityType, SumType
  <1>4. \A S : Tally(S) = [orders |-> Cardinality(sales(S)),
                          units_sold |-> SumFunctionOnSet(Amount, sales(S)),
                          stock_movements |-> Cardinality(moves(S)),
                          units_received |-> SumFunctionOnSet(Received, moves(S))]
    BY DEF Tally
  <1>5. CASE RowOf(e).kind = "sale"
    <2>1. sales(T \cup {e}) = sales(T) \cup {e} /\ moves(T \cup {e}) = moves(T)
      BY <1>5
    <2>2. Increment(e) = [orders |-> 1, units_sold |-> Amount[e],
                          stock_movements |-> 0, units_received |-> 0]
      BY <1>5 DEF Increment, Zero
    <2>3. e \notin sales(T)
      OBVIOUS
    <2>4. \A x \in sales(T) \cup {e} : Amount[x] \in Int
      BY <1>1, AmountsAreIntegers
    <2> HIDE DEF sales, moves
    <2>5. /\ Cardinality(sales(T) \cup {e}) = Cardinality(sales(T)) + 1
          /\ SumFunctionOnSet(Amount, sales(T) \cup {e})
                = SumFunctionOnSet(Amount, sales(T)) + Amount[e]
      BY <1>1, <2>3, <2>4, FS_AddElement, SumAdds
    <2>6. /\ Tally(T \cup {e}).orders = Tally(T).orders + 1
          /\ Tally(T \cup {e}).units_sold = Tally(T).units_sold + Amount[e]
          /\ Tally(T \cup {e}).stock_movements = Tally(T).stock_movements + 0
          /\ Tally(T \cup {e}).units_received = Tally(T).units_received + 0
      BY <1>3, <1>4, <2>1, <2>5
    <2> QED
      BY <2>2, <2>6 DEF Counters
  <1>6. CASE RowOf(e).kind = "movement"
    <2>1. moves(T \cup {e}) = moves(T) \cup {e} /\ sales(T \cup {e}) = sales(T)
      BY <1>6
    <2>2. Increment(e) = [orders |-> 0, units_sold |-> 0,
                          stock_movements |-> 1, units_received |-> Received[e]]
      BY <1>6 DEF Increment, Zero
    <2>3. e \notin moves(T)
      OBVIOUS
    <2>4. \A x \in moves(T) \cup {e} : Received[x] \in Int
      BY <1>1, AmountsAreIntegers
    <2> HIDE DEF sales, moves
    <2>5. /\ Cardinality(moves(T) \cup {e}) = Cardinality(moves(T)) + 1
          /\ SumFunctionOnSet(Received, moves(T) \cup {e})
                = SumFunctionOnSet(Received, moves(T)) + Received[e]
      BY <1>1, <2>3, <2>4, FS_AddElement, SumAdds
    <2>6. /\ Tally(T \cup {e}).orders = Tally(T).orders + 0
          /\ Tally(T \cup {e}).units_sold = Tally(T).units_sold + 0
          /\ Tally(T \cup {e}).stock_movements = Tally(T).stock_movements + 1
          /\ Tally(T \cup {e}).units_received = Tally(T).units_received + Received[e]
      BY <1>3, <1>4, <2>1, <2>5
    <2> QED
      BY <2>2, <2>6 DEF Counters
  <1> QED
    BY <1>2, <1>5, <1>6
LEMMA TallyOfNothing == Tally({}) = Zero
  BY FS_EmptySet, SumOfNothing DEF Tally, Zero

\* A rebuild whose queries saw the same requests tallies their rows of the day.
LEMMA TotalsTally ==
  ASSUME NEW d, NEW R \in SUBSET Requests,
         read \in [Queries -> {R}]
  PROVE  Totals(d, read) = Tally({e \in AllRows : e[1] \in R /\ wrote[e[1]] = d})
  <1> DEFINE T == {e \in AllRows : e[1] \in R /\ wrote[e[1]] = d}
             on(q) == {r \in read[q] : wrote[r] = d}
  <1>1. ASSUME NEW q \in Queries, NEW kind
        PROVE  SourceRows(on(q), kind) = {e \in T : RowOf(e).kind = kind}
    <2>1. on(q) = {r \in R : wrote[r] = d}
      OBVIOUS
    <2>2. \A e \in SourceRows(on(q), kind) : e \in T /\ RowOf(e).kind = kind
      BY <2>1, RowsFacts DEF SourceRows
    <2>3. \A e \in T : e[1] \in on(q) /\ e \in EventsOf(e[1])
      BY <2>1, RowsFacts
    <2> HIDE DEF T, on
    <2> QED
      BY <2>2, <2>3 DEF SourceRows
  <1>2. {"sales", "units", "movements"} = Queries
    BY DEF Queries
  <1> HIDE DEF T
  <1>3. Tally(T) = Totals(d, read)
    BY <1>1, <1>2 DEF Totals, Tally
  <1> QED
    BY <1>3 DEF T

LEMMA SourceTally ==
  ASSUME NEW d
  PROVE  Source(d) = Tally({e \in AllRows : e[1] \in Committed /\ wrote[e[1]] = d})
  <1> DEFINE T == {e \in AllRows : e[1] \in Committed /\ wrote[e[1]] = d}
             on == {r \in Committed : wrote[r] = d}
  <1>1. ASSUME NEW kind
        PROVE  SourceRows(on, kind) = {e \in T : RowOf(e).kind = kind}
    <2>1. on \subseteq Requests
      BY DEF Committed
    <2>2. \A e \in SourceRows(on, kind) : e \in T /\ RowOf(e).kind = kind
      BY <2>1, RowsFacts DEF SourceRows
    <2>3. \A e \in T : e[1] \in on /\ e \in EventsOf(e[1])
      BY RowsFacts
    <2> HIDE DEF T, on
    <2> QED
      BY <2>2, <2>3 DEF SourceRows
  <1>2. \A q \in Queries : {r \in [p \in Queries |-> Committed][q] : wrote[r] = d} = on
    OBVIOUS
  <1> HIDE DEF T, on
  <1>3. Tally(T) = Source(d)
    BY <1>1, <1>2 DEF Totals, Tally, Source, Queries
  <1> QED
    BY <1>3 DEF T

-----------------------------------------------------------------------------
(* What a step leaves alone.                                               *)

\* What the invariant says of a worker that has an event.
LEMMA BusyFacts ==
  ASSUME IInv
  PROVE  /\ \A w \in Workers : worker[w] # Idle =>
               /\ worker[w].event \in Events
               /\ worker[w].event[1] \in Committed
               /\ DayOf(worker[w].event) \in Days
               /\ worker[w].does # "handle" =>
                     worker[w].day = DayOf(worker[w].event)
         /\ \A e \in Events : Outstanding(e) => e[1] \in Committed
         /\ \A e \in Events : e[1] \in Requests /\ DayOf(e) \in Days
         /\ Idle.does = "nothing"
  <1>1. \A e \in Events : e[1] \in Requests /\ DayOf(e) \in Days
    BY RowsFacts DEF IInv, RequestsSound, DayOf
  <1>2. Idle.does = "nothing"
    BY DEF Idle
  <1>3. \A w \in Workers : worker[w] # Idle =>
           /\ worker[w].event \in Events
           /\ worker[w].event[1] \in Committed
           /\ worker[w].does # "handle" => worker[w].day = DayOf(worker[w].event)
    BY DEF IInv, WorkersSound, RequestsSound, IsBusy
  <1>4. \A e \in Events : Outstanding(e) => e[1] \in Committed
    BY <1>3 DEF IInv, RequestsSound, Outstanding
  <1> QED
    BY <1>1, <1>2, <1>3, <1>4

\* The workers go on with what they have.
LEMMA WorkersKeep ==
  ASSUME IInv, worker' = worker,
         \A e \in Events : event[e] = "taken" => event'[e] = "taken",
         \A r \in Committed : began'[r] = began[r]
  PROVE  WorkersSound'
  <1>1. ASSUME NEW w \in Workers, worker[w] # Idle
        PROVE  IsBusy(worker[w])' /\ event'[worker[w].event] = "taken"
    <2>1. /\ IsBusy(worker[w]) /\ event[worker[w].event] = "taken"
          /\ worker[w].event \in Events /\ worker[w].event[1] \in Committed
      BY <1>1, BusyFacts DEF IInv, WorkersSound
    <2>2. DayOf(worker[w].event)' = DayOf(worker[w].event)
      BY <2>1 DEF DayOf
    <2> QED
      BY <2>1, <2>2 DEF IsBusy
  <1> QED
    BY <1>1 DEF IInv, WorkersSound

\* What a worker is about to commit is still what it should be.
LEMMA CountsKeep ==
  ASSUME IInv, metrics' = metrics, DOMAIN holder' = Days,
         \A w \in Workers : worker'[w].does = "commit" =>
            worker'[w] = worker[w] /\ holder'[worker[w].day] = w
  PROVE  CountsSound'
  <1>1. \A d : Stored(d)' = Stored(d)
    BY DEF Stored
  <1>2. \A w \in Workers : worker'[w].does = "commit" => CountsOn(w)'
    BY <1>1 DEF IInv, CountsSound, CountsOn, Does
  <1> QED
    BY <1>2 DEF IInv, CountsSound, Does, Days

\* What the rebuild has read does not change: the rows of a transaction that
\* has committed keep their day.
LEMMA TotalsStay ==
  ASSUME IInv, read' = read, \A r \in Committed : wrote'[r] = wrote[r],
         NEW d
  PROVE  Totals(d, read)' = Totals(d, read)
  <1>1. \A q \in Queries : {r \in read[q] : wrote[r] = d}'
                             = {r \in read[q] : wrote[r] = d}
    BY DEF IInv, RebuildSound
  <1> QED
    BY <1>1 DEF Totals, Queries

LEMMA RebuildKeeps ==
  ASSUME IInv, UNCHANGED <<rebuild, read, doomed>>, behind \subseteq behind',
         Committed \subseteq Committed',
         \A r \in Committed : wrote'[r] = wrote[r],
         \A d \in Days : holder[d] = Operator => holder'[d] = Operator,
         \A d \in Days : metrics'[d] # Absent =>
            \/ metrics[d] # Absent
            \/ rebuild.does \in {"insert", "commit"} => d \in behind'
  PROVE  RebuildSound'
  <1>1. Slots' = Slots
    <2>1. \A d \in Days : Totals(d, read)' = Totals(d, read)
      BY TotalsStay
    <2>2. \A d \in Days : InRange(d)' <=> InRange(d)
      BY DEF InRange
    <2> QED
      BY <2>1, <2>2 DEF Slots, Days
  <1>2. Slots \subseteq Days
    BY DEF Slots
  <1>3. rebuild.does \in {"insert", "commit"} => doomed \subseteq Days
    BY DEF IInv, RebuildSound
  <1> QED
    BY <1>1, <1>2, <1>3 DEF IInv, RebuildSound, InRange

\* The figures stay those of the rows they include, where nothing new is
\* outstanding and nothing has been counted.
LEMMA FiguresKeep ==
  ASSUME IInv, metrics' = metrics, disturbed \subseteq disturbed',
         Committed' = Committed,
         \A r \in Committed : began'[r] = began[r] /\ wrote'[r] = wrote[r],
         \A e \in Events : DayOf(e) \notin disturbed' =>
            (Outstanding(e)' <=> Outstanding(e)),
         \A e \in Events : Outstanding(e)' => e[1] \in Committed
  PROVE  FiguresSound'
  <1> SUFFICES ASSUME NEW d \in Days \ disturbed'
               PROVE  FiledRight(d)' /\ Stored(d)' = Tally(Told(d))'
    BY DEF FiguresSound, Days
  <1>1. FiledRight(d) /\ Stored(d) = Tally(Told(d))
    BY DEF IInv, FiguresSound
  <1>2. \A e \in Events : e[1] \in Committed => (DayOf(e)' = DayOf(e))
    BY DEF DayOf
  <1>3. FiledRight(d)'
    BY <1>1, <1>2 DEF FiledRight
  <1>4. Told(d)' = Told(d)
    BY <1>2 DEF Told
  <1>5. Stored(d)' = Stored(d)
    BY DEF Stored
  <1>6. Tally(Told(d))' = Tally(Told(d)')
    BY DEF Tally
  <1> QED
    BY <1>1, <1>3, <1>4, <1>5, <1>6

-----------------------------------------------------------------------------
(* The steps.                                                              *)

LEMMA InitSound == Init => IInv
  <1> SUFFICES ASSUME Init PROVE IInv
    OBVIOUS
  <1> USE DEF Init
  <1>1. RequestsSound
    <2>1. Seeded \subseteq Committed /\ Committed \subseteq Seeded
      BY RowsAssumption DEF Committed
    <2>2. \A e \in Events : e[1] \notin Committed
      BY <2>1, RowsFacts
    <2> QED
      BY <2>1, <2>2, BoundsAssumption DEF RequestsSound, Days
  <1>2. WorkersSound
    BY DEF WorkersSound
  <1>3. CountsSound
    BY DEF CountsSound, Does, Idle
  <1>4. RebuildSound
    BY DEF RebuildSound
  <1>5. FiguresSound
    <2> SUFFICES ASSUME NEW d \in Days \ disturbed
                 PROVE  FiledRight(d) /\ Stored(d) = Tally(Told(d))
      BY DEF FiguresSound
    <2>1. \A e \in Events : ~Outstanding(e)
      BY DEF Outstanding
    <2>2. Told(d) = {}
      <3>1. \A r \in Committed : r \in Seeded /\ wrote[r] = 0
        BY DEF Committed
      <3> QED
        BY <3>1 DEF Told
    <2>3. Stored(d) = Zero
      BY DEF Stored
    <2> QED
      BY <2>1, <2>2, <2>3, TallyOfNothing DEF FiledRight
  <1> QED
    BY <1>1, <1>2, <1>3, <1>4, <1>5 DEF IInv

LEMMA MidnightStep ==
  ASSUME IInv, Midnight
  PROVE  IInv'
  <1> USE DEF Midnight, sourceVars, rebuildVars
  <1>1. Committed' = Committed
    BY DEF Committed
  <1>2. RequestsSound'
    BY <1>1, BoundsAssumption DEF IInv, RequestsSound, Days
  <1>3. WorkersSound'
    BY WorkersKeep
  <1>4. CountsSound'
    BY CountsKeep DEF IInv, CountsSound, CountsOn, Does
  <1>5. RebuildSound'
    BY <1>1, RebuildKeeps
  <1>6. FiguresSound'
    BY <1>1, BusyFacts, FiguresKeep DEF Outstanding
  <1> QED
    BY <1>2, <1>3, <1>4, <1>5, <1>6 DEF IInv

\* A transaction that has not committed begins, or writes its rows: no event
\* and no query has seen it.
LEMMA BeginOrWriteStep ==
  ASSUME IInv, NEW r \in Requests, Begin(r) \/ Write(r)
  PROVE  IInv'
  <1> USE DEF sourceVars, rebuildVars
  <1>1. /\ Committed' = Committed /\ r \notin Committed
        /\ request' \in [Requests -> {"none", "open", "written", "committed"}]
    BY DEF Begin, Write, Committed, IInv, RequestsSound
  <1>2. /\ \A s \in Requests \ {r} : began'[s] = began[s] /\ wrote'[s] = wrote[s]
        /\ began' \in [Requests -> Days] /\ wrote' \in [Requests -> Days]
    BY DEF Begin, Write, IInv, RequestsSound
  <1>3. \A s \in Committed : began'[s] = began[s] /\ wrote'[s] = wrote[s]
    BY <1>1, <1>2 DEF Committed
  <1>4. UNCHANGED <<clock, event, worker, metrics, holder, rebuild, read,
                    doomed, behind, disturbed>>
    BY DEF Begin, Write
  <1>5. RequestsSound'
    BY <1>1, <1>2, <1>4 DEF IInv, RequestsSound, Days
  <1>6. WorkersSound'
    BY <1>3, <1>4, WorkersKeep
  <1>7. CountsSound'
    BY <1>4, CountsKeep DEF IInv, CountsSound, CountsOn, Does
  <1>8. RebuildSound'
    BY <1>1, <1>3, <1>4, RebuildKeeps
  <1>9. FiguresSound'
    BY <1>1, <1>3, <1>4, BusyFacts, FiguresKeep DEF Outstanding
  <1> QED
    BY <1>5, <1>6, <1>7, <1>8, <1>9 DEF IInv

\* Its events come with its rows: none of the rows counts before its event is
\* handled, if both are of the same day; if not, both days are disturbed.
LEMMA CommitStep ==
  ASSUME IInv, NEW r \in Requests, Commit(r)
  PROVE  IInv'
  <1> USE DEF Commit, rebuildVars
  <1>1. /\ Committed' = Committed \cup {r} /\ r \notin Committed
        /\ r \notin Seeded
        /\ request' \in [Requests -> {"none", "open", "written", "committed"}]
    BY DEF Committed, IInv, RequestsSound
  <1>2. \A e \in Events : event'[e] = IF e[1] = r THEN "ready" ELSE event[e]
    OBVIOUS
  <1>3. \A e \in Events : event[e] = "taken" => e[1] # r
    BY <1>1 DEF IInv, RequestsSound
  <1>4. RequestsSound'
    BY <1>1, <1>2 DEF IInv, RequestsSound, Days
  <1>5. WorkersSound'
    BY <1>2, <1>3, WorkersKeep
  <1>6. CountsSound'
    BY CountsKeep DEF IInv, CountsSound, CountsOn, Does
  <1>7. RebuildSound'
    BY <1>1, RebuildKeeps
  <1>8. FiguresSound'
    <2> SUFFICES ASSUME NEW d \in Days \ disturbed'
                 PROVE  FiledRight(d)' /\ Stored(d)' = Tally(Told(d))'
      BY DEF FiguresSound, Days
    <2>1. FiledRight(d) /\ Stored(d) = Tally(Told(d))
      BY DEF IInv, FiguresSound
    <2>2. d \in {began[r], wrote[r]} => began[r] = wrote[r]
      OBVIOUS
    <2>3. \A e \in Events : e[1] # r => (Outstanding(e)' <=> Outstanding(e))
      BY <1>2 DEF Outstanding
    <2>4. \A e \in Events : e[1] = r => Outstanding(e)'
      BY <1>2 DEF Outstanding
    <2>5. FiledRight(d)'
      BY <2>1, <2>2, <2>3 DEF FiledRight, DayOf
    <2>6. \A e \in AllRows : e[1] = r => e \in Events
      BY <1>1, RowsFacts
    <2>7. Told(d)' = Told(d)
      <3>1. \A e \in AllRows : e[1] = r => e \notin Told(d) /\ e \notin Told(d)'
        BY <1>1, <2>2, <2>4, <2>6 DEF Told, DayOf
      <3>2. \A e \in AllRows : e[1] # r => (e \in Told(d) <=> e \in Told(d)')
        BY <1>1, <2>3 DEF Told, DayOf
      <3> QED
        BY <3>1, <3>2 DEF Told, AllRows
    <2>8. Stored(d)' = Stored(d) /\ Tally(Told(d))' = Tally(Told(d)')
      BY DEF Stored, Tally
    <2> QED
      BY <2>1, <2>5, <2>7, <2>8
  <1> QED
    BY <1>4, <1>5, <1>6, <1>7, <1>8 DEF IInv

\* A step of one worker, w, after which it does k, with an event, e, that no
\* other worker has.
WorkerGoesOn(w, e, k) ==
    /\ DOMAIN worker' = Workers /\ worker'[w] = k
    /\ \A v \in Workers \ {w} : worker'[v] = worker[v]
    /\ e \in Events
    /\ event' \in [Events -> {"none", "ready", "taken", "done"}]
    /\ \A x \in Events \ {e} : event'[x] = event[x]
    /\ \A v \in Workers \ {w} : worker[v] # Idle => worker[v].event # e
    /\ worker[w] # Idle => worker[w].event = e
    /\ k # Idle => IsBusy(k) /\ k.event = e /\ event'[e] = "taken"

LEMMA OneWorker ==
  ASSUME IInv, NEW w \in Workers, NEW e, NEW k, WorkerGoesOn(w, e, k),
         UNCHANGED <<began, request>>
  PROVE  WorkersSound'
  <1> USE DEF WorkerGoesOn
  <1>1. \A x : DayOf(x)' = DayOf(x)
    BY DEF DayOf
  <1>2. \A j : IsBusy(j) => IsBusy(j)'
    BY <1>1 DEF IsBusy
  <1>3. DOMAIN worker' = Workers /\ worker'[w] = k
        /\ \A v \in Workers \ {w} : worker'[v] = worker[v]
    OBVIOUS
  <1>4. ASSUME NEW v \in Workers, worker'[v] # Idle
        PROVE  /\ IsBusy(worker'[v])
               /\ event'[worker'[v].event] = "taken"
               /\ \A u \in Workers \ {v} :
                     worker'[u] # Idle => worker'[u].event # worker'[v].event
    <2>1. CASE v = w
      BY <1>3, <1>4, <2>1
    <2>2. CASE v # w
      <3>1. /\ worker'[v] = worker[v] /\ worker[v] # Idle /\ worker[v].event # e
            /\ worker[v].event \in Events
        BY <1>3, <1>4, <2>2, BusyFacts
      <3>2. event'[worker[v].event] = event[worker[v].event]
        BY <3>1
      <3>3. ASSUME NEW u \in Workers \ {v}, worker'[u] # Idle
            PROVE  worker'[u].event # worker[v].event
        BY <1>3, <3>1, <3>3 DEF IInv, WorkersSound
      <3> QED
        BY <3>1, <3>2, <3>3 DEF IInv, WorkersSound
    <2> QED
      BY <2>1, <2>2
  <1> QED
    BY <1>2, <1>3, <1>4 DEF WorkersSound

\* Events other than the one a worker is busy with stay as outstanding as they were.
LEMMA OthersOutstanding ==
  ASSUME NEW w \in Workers, NEW e, NEW k, WorkerGoesOn(w, e, k)
  PROVE  \A x \in Events \ {e} : Outstanding(x)' <=> Outstanding(x)
  BY DEF WorkerGoesOn, Outstanding

LEMMA RequestsKeep ==
  ASSUME IInv, UNCHANGED <<clock, request, began, wrote>>,
         event' \in [Events -> {"none", "ready", "taken", "done"}],
         \A e \in Events : event'[e] # "none" <=> event[e] # "none"
  PROVE  RequestsSound' /\ Committed' = Committed
  BY DEF IInv, RequestsSound, Committed, Days

LEMMA DeliverStep ==
  ASSUME IInv, NEW w \in Workers, NEW e \in Events, Deliver(w, e)
  PROVE  IInv'
  <1> DEFINE k == [does |-> "handle", event |-> e]
  <1> USE DEF Deliver, sourceVars, rebuildVars
  <1>1. /\ event \in [Events -> {"none", "ready", "taken", "done"}]
        /\ e[1] \in Committed
    BY DEF IInv, RequestsSound
  <1>2. IsBusy(k) /\ k # Idle
    BY DEF IsBusy, Idle
  <1>3. \A v \in Workers \ {w} : worker[v] # Idle => worker[v].event # e
    BY DEF IInv, WorkersSound
  <1>4. WorkerGoesOn(w, e, k)
    <2>1. k.event = e /\ event'[e] = "taken"
      BY <1>1
    <2>2. /\ DOMAIN worker' = Workers /\ worker'[w] = k
          /\ \A v \in Workers \ {w} : worker'[v] = worker[v]
      BY DEF IInv, WorkersSound
    <2> HIDE DEF k
    <2> QED
      BY <1>1, <1>2, <1>3, <2>1, <2>2 DEF WorkerGoesOn
  <1>5. RequestsSound' /\ Committed' = Committed
    BY <1>1, RequestsKeep
  <1>6. WorkersSound'
    BY <1>4, OneWorker
  <1>7. CountsSound'
    <2>1. \A v \in Workers : worker'[v].does = "commit" =>
             worker'[v] = worker[v] /\ Does(v, "commit")
      BY <1>4 DEF WorkerGoesOn, Does
    <2> QED
      BY <2>1, CountsKeep DEF IInv, CountsSound, CountsOn
  <1>8. RebuildSound'
    BY <1>5, RebuildKeeps
  <1>9. FiguresSound'
    <2>1. \A x \in Events \ {e} : Outstanding(x)' <=> Outstanding(x)
      BY <1>4, OthersOutstanding
    <2>2. Outstanding(e) /\ Outstanding(e)'
      BY <1>2, <1>4 DEF Outstanding, WorkerGoesOn
    <2> QED
      BY <1>5, <2>1, <2>2, BusyFacts, FiguresKeep
  <1> QED
    BY <1>5, <1>6, <1>7, <1>8, <1>9 DEF IInv

LEMMA BumpStep ==
  ASSUME IInv, NEW w \in Workers, Bump(w)
  PROVE  IInv'
  <1>0. PICK e, d, f : /\ e = worker[w].event /\ d = DayOf(e)
                       /\ f = Plus(Stored(d), Increment(e))
    OBVIOUS
  <1> DEFINE k == [does |-> "commit", event |-> e, day |-> d, figures |-> f]
  <1>1. /\ worker[w] # Idle /\ worker[w].does = "handle"
        /\ e \in Events /\ e[1] \in Committed /\ d \in Days
        /\ event[e] = "taken"
        /\ \A v \in Workers \ {w} : worker[v] # Idle => worker[v].event # e
    BY <1>0, BusyFacts DEF Bump, Does, IInv, WorkersSound
  <1>2. /\ holder[d] = Nobody /\ holder' = [holder EXCEPT ![d] = w]
        /\ worker' = [worker EXCEPT ![w] = k]
        /\ UNCHANGED <<clock, sourceVars, event, metrics, rebuildVars,
                       disturbed>>
    BY <1>0 DEF Bump
  <1>3. f = [c \in Counters |-> Stored(d)[c] + Increment(e)[c]]
    BY <1>0 DEF Plus, Zero, Counters
  <1> USE DEF sourceVars, rebuildVars
  <1>4. IsBusy(k) /\ k # Idle
    BY <1>0, <1>1 DEF IsBusy, Idle
  <1>5. WorkerGoesOn(w, e, k)
    <2>1. k.event = e /\ event'[e] = "taken"
      BY <1>1, <1>2
    <2>2. /\ DOMAIN worker' = Workers /\ worker'[w] = k
          /\ \A v \in Workers \ {w} : worker'[v] = worker[v]
      BY <1>2 DEF IInv, WorkersSound
    <2>3. event' \in [Events -> {"none", "ready", "taken", "done"}]
      BY <1>2 DEF IInv, RequestsSound
    <2> HIDE DEF k
    <2> QED
      BY <1>0, <1>1, <1>2, <1>4, <2>1, <2>2, <2>3 DEF WorkerGoesOn
  <1>6. DOMAIN holder' = Days /\ holder'[d] = w
        /\ \A x \in Days \ {d} : holder'[x] = holder[x]
    BY <1>1, <1>2 DEF IInv, CountsSound
  <1>7. RequestsSound' /\ Committed' = Committed
    BY <1>2, RequestsKeep DEF IInv, RequestsSound
  <1>8. WorkersSound'
    BY <1>2, <1>5, OneWorker
  <1>9. CountsSound'
    <2>1. \A x : Stored(x)' = Stored(x)
      BY <1>2 DEF Stored
    <2>2. ASSUME NEW v \in Workers, worker'[v].does = "commit"
          PROVE  CountsOn(v)'
      <3>1. CASE v = w
        BY <1>3, <1>5, <1>6, <2>1, <3>1 DEF WorkerGoesOn, CountsOn
      <3>2. CASE v # w
        <4>1. worker'[v] = worker[v] /\ Does(v, "commit")
          BY <1>5, <2>2, <3>2 DEF Does, WorkerGoesOn
        <4>2. CountsOn(v)
          BY <4>1 DEF IInv, CountsSound
        <4>3. worker[v].day \in Days /\ worker[v].day # d
          BY <1>2, <4>1, <4>2, BusyFacts, RowsAssumption DEF Does, CountsOn
        <4>4. holder'[worker[v].day] = v
          BY <1>6, <4>2, <4>3 DEF CountsOn
        <4> QED
          BY <2>1, <4>1, <4>2, <4>4 DEF CountsOn
      <3> QED
        BY <3>1, <3>2
    <2> QED
      BY <1>2, <1>6, <2>2 DEF IInv, CountsSound, Does, Days
  <1>10. RebuildSound'
    <2>1. \A x \in Days : holder[x] = Operator => holder'[x] = Operator
      BY <1>2, <1>6 DEF Nobody, Operator
    <2> QED
      BY <1>2, <1>7, <2>1, RebuildKeeps
  <1>11. FiguresSound'
    <2>1. \A x \in Events \ {e} : Outstanding(x)' <=> Outstanding(x)
      BY <1>5, OthersOutstanding
    <2>2. Outstanding(e) /\ Outstanding(e)'
      <3>1. k.event = e /\ k.does # "ack"
        OBVIOUS
      <3> HIDE DEF k
      <3> QED
        BY <1>0, <1>1, <1>4, <1>5, <3>1 DEF Outstanding, WorkerGoesOn
    <2>3. \A x \in Events : /\ Outstanding(x)' <=> Outstanding(x)
                            /\ Outstanding(x)' => x[1] \in Committed
      BY <2>1, <2>2, BusyFacts
    <2>4. /\ metrics' = metrics /\ disturbed \subseteq disturbed'
          /\ \A r \in Committed : began'[r] = began[r] /\ wrote'[r] = wrote[r]
      BY <1>2
    <2> QED
      BY <1>7, <2>3, <2>4, FiguresKeep
  <1> QED
    BY <1>7, <1>8, <1>9, <1>10, <1>11 DEF IInv

\* A worker that has committed still has the event, and no longer the row.
LEMMA CommitBumpStep ==
  ASSUME IInv, NEW w \in Workers, CommitBump(w)
  PROVE  IInv'
  <1>0. PICK e, d, f : /\ e = worker[w].event /\ d = DayOf(e)
                       /\ f = worker[w].figures
    OBVIOUS
  <1> DEFINE k == [does |-> "ack", event |-> e, day |-> d]
  <1>1. /\ worker[w] # Idle /\ worker[w].does = "commit" /\ worker[w].day = d
        /\ e \in Events /\ e[1] \in Committed /\ d \in Days
        /\ event[e] = "taken"
        /\ \A v \in Workers \ {w} : worker[v] # Idle => worker[v].event # e
    BY <1>0, BusyFacts DEF CommitBump, Does, IInv, WorkersSound
  <1>2. /\ metrics' = [metrics EXCEPT ![d] = f]
        /\ holder' = Released(w)
        /\ worker' = [worker EXCEPT ![w] = k]
        /\ NoteInsertion(d)
        /\ UNCHANGED <<clock, request, began, wrote, event, rebuild, read,
                       doomed, disturbed>>
    BY <1>0, <1>1 DEF CommitBump, sourceVars
  <1>3. /\ holder[d] = w
        /\ f = [c \in Counters |-> Stored(d)[c] + Increment(e)[c]]
    BY <1>0, <1>1 DEF IInv, CountsSound, CountsOn, Does
  <1>4. IsBusy(k) /\ k # Idle
    BY <1>0, <1>1 DEF IsBusy, Idle
  <1>5. WorkerGoesOn(w, e, k)
    <2>1. k.event = e /\ event'[e] = "taken"
      BY <1>1, <1>2
    <2>2. /\ DOMAIN worker' = Workers /\ worker'[w] = k
          /\ \A v \in Workers \ {w} : worker'[v] = worker[v]
      BY <1>2 DEF IInv, WorkersSound
    <2>3. event' \in [Events -> {"none", "ready", "taken", "done"}]
      BY <1>2 DEF IInv, RequestsSound
    <2> HIDE DEF k
    <2> QED
      BY <1>0, <1>1, <1>2, <1>4, <2>1, <2>2, <2>3 DEF WorkerGoesOn
  <1>6. /\ metrics'[d] = f /\ f # Absent /\ Stored(d)' = f
        /\ \A x \in Days \ {d} : metrics'[x] = metrics[x] /\ Stored(x)' = Stored(x)
        /\ DOMAIN metrics' = Days
    <2>1. f # Absent
      BY <1>3 DEF Absent, Counters
    <2> QED
      BY <1>1, <1>2, <2>1 DEF IInv, CountsSound, Stored
  <1>7. /\ DOMAIN holder' = Days
        /\ \A x \in Days : holder'[x] = IF holder[x] = w THEN Nobody ELSE holder[x]
    BY <1>2 DEF Released
  <1>8. RequestsSound' /\ Committed' = Committed
    BY <1>2, RequestsKeep DEF IInv, RequestsSound
  <1>9. WorkersSound'
    BY <1>2, <1>5, OneWorker
  <1>10. CountsSound'
    <2>1. ASSUME NEW v \in Workers, worker'[v].does = "commit"
          PROVE  CountsOn(v)'
      <3>1. v # w
        BY <1>5, <2>1 DEF WorkerGoesOn
      <3>2. worker'[v] = worker[v] /\ Does(v, "commit")
        BY <1>5, <2>1, <3>1 DEF Does, WorkerGoesOn
      <3>3. CountsOn(v)
        BY <3>2 DEF IInv, CountsSound
      <3>4. PICK x : x = worker[v].day
        OBVIOUS
      <3>5. x \in Days /\ x # d
        BY <1>3, <3>1, <3>2, <3>3, <3>4, BusyFacts DEF Does, CountsOn
      <3>6. holder'[x] = v /\ Stored(x)' = Stored(x)
        BY <1>6, <1>7, <3>1, <3>3, <3>4, <3>5 DEF CountsOn
      <3> QED
        BY <3>2, <3>3, <3>4, <3>6 DEF CountsOn
    <2>2. \A x \in Days : metrics'[x] # Absent => DOMAIN metrics'[x] = Counters
      BY <1>3, <1>6 DEF IInv, CountsSound
    <2> QED
      BY <1>6, <1>7, <2>1, <2>2 DEF CountsSound, Does, Days
  <1>11. RebuildSound'
    <2>1. \A x \in Days : holder[x] = Operator => holder'[x] = Operator
      BY <1>7, RowsAssumption
    <2>2. behind \subseteq behind'
      BY <1>2 DEF NoteInsertion
    <2>3. \A x \in Days : metrics'[x] # Absent =>
             \/ metrics[x] # Absent
             \/ rebuild.does \in {"insert", "commit"} => x \in behind'
      BY <1>2, <1>6 DEF NoteInsertion
    <2> QED
      BY <1>2, <1>8, <2>1, <2>2, <2>3, RebuildKeeps
  <1>12. FiguresSound'
    <2> SUFFICES ASSUME NEW x \in Days \ disturbed
                 PROVE  FiledRight(x)' /\ Stored(x)' = Tally(Told(x))'
      BY <1>2 DEF FiguresSound, Days
    <2>1. FiledRight(x) /\ Stored(x) = Tally(Told(x))
      BY DEF IInv, FiguresSound
    <2>2. \A y \in Events \ {e} : Outstanding(y)' <=> Outstanding(y)
      BY <1>5, OthersOutstanding
    <2>3. Outstanding(e)
      BY <1>0, <1>1 DEF Outstanding
    <2>4. ~Outstanding(e)'
      <3>1. \A v \in Workers : worker'[v] # Idle /\ worker'[v].event = e
                               => worker'[v].does = "ack"
        BY <1>1, <1>5 DEF WorkerGoesOn
      <3>2. event'[e] # "ready"
        BY <1>1, <1>2
      <3> QED
        BY <3>1, <3>2 DEF Outstanding
    <2>5. FiledRight(x)'
      BY <1>2, <2>1, <2>2, <2>4 DEF FiledRight, DayOf
    <2>6. Tally(Told(x))' = Tally(Told(x)')
      BY DEF Tally
    <2>7. CASE x # d
      <3>1. Told(x)' = Told(x)
        BY <1>0, <1>2, <1>8, <2>2, <2>7 DEF Told, DayOf
      <3> QED
        BY <1>6, <2>1, <2>5, <2>6, <2>7, <3>1
    <2>8. CASE x = d
      <3>1. e \in AllRows /\ wrote[e[1]] = d
        BY <1>0, <1>1, <2>1, <2>3, <2>8, RowsFacts DEF FiledRight
      <3>2. e \notin Told(x) /\ e \in Told(x)'
        BY <1>0, <1>1, <1>2, <1>8, <2>3, <2>4, <2>8, <3>1 DEF Told
      <3>3. \A y \in AllRows \ {e} : y \in Told(x) <=> y \in Told(x)'
        BY <1>2, <1>8, <2>2 DEF Told, DayOf
      <3>4. Told(x)' = Told(x) \cup {e} /\ Told(x) \in SUBSET AllRows
        BY <3>1, <3>2, <3>3 DEF Told, AllRows
      <3>5. \A c \in Counters : Tally(Told(x) \cup {e})[c]
                                  = Tally(Told(x))[c] + Increment(e)[c]
        BY <3>1, <3>2, <3>4, TallyAdds
      <3>6. \A c \in Counters : f[c] = Tally(Told(x) \cup {e})[c]
        BY <1>3, <2>1, <2>8, <3>5
      <3>7. f = Tally(Told(x) \cup {e})
        <4>1. \A S : Tally(S) = [c \in Counters |-> Tally(S)[c]]
          BY DEF Tally, Counters
        <4> QED
          BY <1>3, <3>6, <4>1
      <3> QED
        BY <1>6, <2>5, <2>6, <2>8, <3>4, <3>7
    <2> QED
      BY <2>7, <2>8
  <1> QED
    BY <1>8, <1>9, <1>10, <1>11, <1>12 DEF IInv

\* A worker is done with its event, one way or another: where the event is
\* counted or not as before, or its day is disturbed.
LEMMA WorkerEnds ==
  ASSUME IInv, NEW w \in Workers, NEW e, e = worker[w].event,
         worker[w] # Idle, worker' = [worker EXCEPT ![w] = Idle],
         NEW s \in {"ready", "done"}, event' = [event EXCEPT ![e] = s],
         holder' = holder \/ holder' = Released(w),
         UNCHANGED <<clock, request, began, wrote, metrics, rebuild, read,
                     doomed, behind>>,
         disturbed \subseteq disturbed',
         DayOf(e) \notin disturbed' =>
            (s = "ready" <=> worker[w].does # "ack")
  PROVE  IInv'
  <1>1. /\ e \in Events /\ e[1] \in Committed
        /\ event[e] = "taken"
        /\ \A v \in Workers \ {w} : worker[v] # Idle => worker[v].event # e
    BY BusyFacts DEF IInv, WorkersSound
  <1>2. /\ event' \in [Events -> {"none", "ready", "taken", "done"}]
        /\ event'[e] = s /\ \A x \in Events \ {e} : event'[x] = event[x]
    BY <1>1 DEF IInv, RequestsSound
  <1>3. WorkerGoesOn(w, e, Idle)
    BY <1>1, <1>2 DEF WorkerGoesOn, IInv, WorkersSound
  <1>4. /\ DOMAIN holder' = Days
        /\ \A x \in Days : holder[x] # w => holder'[x] = holder[x]
    BY DEF IInv, CountsSound, Released
  <1>5. RequestsSound' /\ Committed' = Committed
    BY <1>1, <1>2, RequestsKeep
  <1>6. WorkersSound'
    BY <1>3, OneWorker
  <1>7. CountsSound'
    <2>1. ASSUME NEW v \in Workers, worker'[v].does = "commit"
          PROVE  worker'[v] = worker[v] /\ holder'[worker[v].day] = v
      <3>1. v # w
        BY <1>3, <2>1, BusyFacts DEF WorkerGoesOn
      <3>2. worker'[v] = worker[v] /\ Does(v, "commit")
        BY <1>3, <2>1, <3>1 DEF Does, WorkerGoesOn
      <3>3. holder[worker[v].day] = v /\ worker[v].day \in Days
        BY <3>2, BusyFacts DEF IInv, CountsSound, CountsOn, Does
      <3> QED
        BY <1>4, <3>1, <3>2, <3>3
    <2> QED
      BY <1>4, <2>1, CountsKeep
  <1>8. RebuildSound'
    <2>1. \A x \in Days : holder[x] = Operator => holder'[x] = Operator
      BY <1>4, RowsAssumption
    <2> QED
      BY <1>5, <2>1, RebuildKeeps
  <1>9. FiguresSound'
    <2>1. \A x \in Events \ {e} : Outstanding(x)' <=> Outstanding(x)
      BY <1>3, OthersOutstanding
    <2>2. Outstanding(e) <=> worker[w].does # "ack"
      BY <1>1 DEF Outstanding
    <2>3. Outstanding(e)' <=> s = "ready"
      BY <1>1, <1>2, <1>3 DEF Outstanding, WorkerGoesOn
    <2>4. \A x \in Events : Outstanding(x)' => x[1] \in Committed
      BY <1>1, <2>1, BusyFacts
    <2>5. \A x \in Events : DayOf(x) \notin disturbed' =>
             (Outstanding(x)' <=> Outstanding(x))
      BY <2>1, <2>2, <2>3
    <2> QED
      BY <1>5, <2>4, <2>5, FiguresKeep
  <1> QED
    BY <1>5, <1>6, <1>7, <1>8, <1>9 DEF IInv

LEMMA WorkerEndStep ==
  ASSUME IInv, NEW w \in Workers, Ack(w) \/ WorkerFails(w) \/ Swallow(w)
  PROVE  IInv'
  <1>0. PICK e : e = worker[w].event
    OBVIOUS
  <1>1. worker[w] # Idle
    BY BusyFacts DEF Ack, WorkerFails, Swallow, Does
  <1>2. worker' = [worker EXCEPT ![w] = Idle]
    BY DEF Ack, WorkerFails, Swallow
  <1>3. UNCHANGED <<clock, request, began, wrote, metrics, rebuild, read,
                    doomed, behind>>
    BY DEF Ack, WorkerFails, Swallow, sourceVars, rebuildVars
  <1>4. CASE Ack(w)
    <2>1. /\ event' = [event EXCEPT ![e] = "done"]
          /\ worker[w].does = "ack" /\ UNCHANGED <<holder, disturbed>>
      BY <1>0, <1>4 DEF Ack, Does
    <2> QED
      BY <1>0, <1>1, <1>2, <1>3, <2>1, WorkerEnds
  <1>5. CASE WorkerFails(w)
    <2>1. /\ event' = [event EXCEPT ![e] = "ready"]
          /\ holder' = Released(w) /\ disturbed \subseteq disturbed'
      BY <1>0, <1>5 DEF WorkerFails
    <2>2. worker[w].does = "ack" => DayOf(e) \in disturbed'
      BY <1>0, <1>1, <1>5, BusyFacts DEF WorkerFails, Does
    <2> QED
      BY <1>0, <1>1, <1>2, <1>3, <2>1, <2>2, WorkerEnds
  <1>6. CASE Swallow(w)
    <2>1. /\ event' = [event EXCEPT ![e] = "done"] /\ holder' = holder
          /\ disturbed \subseteq disturbed' /\ DayOf(e) \in disturbed'
      BY <1>0, <1>6 DEF Swallow
    <2> QED
      BY <1>0, <1>1, <1>2, <1>3, <2>1, WorkerEnds
  <1> QED
    BY <1>4, <1>5, <1>6

\* A step of the operator before the commit takes or gives up rows that no
\* worker has.
LEMMA OperatorStep ==
  ASSUME IInv,
         UNCHANGED <<clock, request, began, wrote, event, worker, metrics,
                     disturbed>>,
         DOMAIN holder' = Days,
         \A d \in Days : holder[d] \in Workers => holder'[d] = holder[d]
  PROVE  /\ RequestsSound' /\ WorkersSound' /\ CountsSound' /\ FiguresSound'
         /\ Committed' = Committed
  <1>1. RequestsSound' /\ Committed' = Committed
    BY RequestsKeep DEF IInv, RequestsSound
  <1>2. WorkersSound'
    BY WorkersKeep
  <1>3. CountsSound'
    <2>1. ASSUME NEW w \in Workers, worker'[w].does = "commit"
          PROVE  worker'[w] = worker[w] /\ holder'[worker[w].day] = w
      <3>1. Does(w, "commit")
        BY <2>1 DEF Does
      <3>2. holder[worker[w].day] = w /\ worker[w].day \in Days
        BY <3>1, BusyFacts DEF IInv, CountsSound, CountsOn, Does
      <3> QED
        BY <3>2
    <2> QED
      BY <2>1, CountsKeep
  <1>4. FiguresSound'
    <2>1. \A e \in Events : Outstanding(e)' <=> Outstanding(e)
      BY DEF Outstanding
    <2> QED
      BY <1>1, <2>1, BusyFacts, FiguresKeep
  <1> QED
    BY <1>1, <1>2, <1>3, <1>4

LEMMA ReadingStep ==
  ASSUME IInv, Query \/ \E since \in Days : StartRebuild(since)
  PROVE  IInv'
  <1>1. UNCHANGED <<clock, request, began, wrote, event, worker, metrics,
                    disturbed, holder>>
    BY DEF Query, StartRebuild, sourceVars
  <1>2. /\ RequestsSound' /\ WorkersSound' /\ CountsSound' /\ FiguresSound'
        /\ Committed' = Committed
    BY <1>1, OperatorStep DEF IInv, CountsSound
  <1>3. /\ rebuild' \in [does : Stages, since : Days]
        /\ rebuild'.does \notin {"insert", "commit"}
    <2>1. CASE Query
      <3>1. /\ rebuild \in [does : Stages, since : Days]
            /\ After[rebuild.does] \in {"units", "movements", "delete"}
        BY <2>1 DEF Query, IInv, RebuildSound, After, Queries
      <3> QED
        BY <2>1, <3>1 DEF Query, Stages, Queries
    <2>2. ASSUME NEW since \in Days, StartRebuild(since)
          PROVE  rebuild' = [does |-> "sales", since |-> since]
      BY <2>2 DEF StartRebuild
    <2> QED
      BY <2>1, <2>2 DEF Stages, Queries
  <1>4. read' \in [Queries -> SUBSET Committed]
    BY DEF Query, StartRebuild, IInv, RebuildSound
  <1>5. RebuildSound'
    BY <1>2, <1>3, <1>4 DEF RebuildSound, Days
  <1> QED
    BY <1>2, <1>5 DEF IInv

\* After the DELETE every row of the range is the operator's.
LEMMA DeleteStep ==
  ASSUME IInv, Delete
  PROVE  IInv'
  <1>0. PICK there : there = {d \in Days : InRange(d) /\ metrics[d] # Absent}
    OBVIOUS
  <1>1. /\ rebuild.does = "delete" /\ \A d \in there : holder[d] = Nobody
        /\ doomed' = there
        /\ holder' = [d \in Days |-> IF d \in there THEN Operator ELSE holder[d]]
        /\ rebuild' = [rebuild EXCEPT !.does = "insert"]
        /\ UNCHANGED <<clock, request, began, wrote, event, worker, metrics,
                       disturbed, read, behind>>
    BY <1>0 DEF Delete, sourceVars
  <1>2. /\ RequestsSound' /\ WorkersSound' /\ CountsSound' /\ FiguresSound'
        /\ Committed' = Committed
    BY <1>1, RowsAssumption, OperatorStep
  <1>3. /\ rebuild \in [does : Stages, since : Days]
        /\ rebuild' \in [does : Stages, since : Days]
        /\ rebuild'.since = rebuild.since /\ rebuild'.does = "insert"
    BY <1>1 DEF IInv, RebuildSound, Stages
  <1>4. \A d : InRange(d)' <=> InRange(d)
    BY <1>3 DEF InRange
  <1>5. RebuildSound'
    BY <1>0, <1>1, <1>2, <1>3, <1>4 DEF IInv, RebuildSound, Days
  <1> QED
    BY <1>2, <1>5 DEF IInv

\* After the INSERT the days of totals are too.
LEMMA InsertStep ==
  ASSUME IInv, Insert
  PROVE  IInv'
  <1>0. PICK S : S = Slots
    OBVIOUS
  <1>1. /\ rebuild.does = "insert"
        /\ \A d \in S : holder[d] \in {Nobody, Operator}
        /\ holder' = [d \in Days |-> IF d \in S THEN Operator ELSE holder[d]]
        /\ rebuild' = [rebuild EXCEPT !.does = "commit"]
        /\ UNCHANGED <<clock, request, began, wrote, event, worker, metrics,
                       disturbed, read, doomed, behind>>
    BY <1>0 DEF Insert, sourceVars
  <1>2. /\ RequestsSound' /\ WorkersSound' /\ CountsSound' /\ FiguresSound'
        /\ Committed' = Committed
    BY <1>1, RowsAssumption, OperatorStep
  <1>3. /\ rebuild \in [does : Stages, since : Days]
        /\ rebuild' \in [does : Stages, since : Days]
        /\ rebuild'.since = rebuild.since /\ rebuild'.does = "commit"
    BY <1>1 DEF IInv, RebuildSound, Stages
  <1>4. \A d : InRange(d)' <=> InRange(d)
    BY <1>3 DEF InRange
  <1>5. Slots' = S
    <2>1. \A d \in Days : Totals(d, read)' = Totals(d, read)
      BY <1>1, TotalsStay
    <2> QED
      BY <1>0, <1>4, <2>1 DEF Slots, Days
  <1>6. S \subseteq Days
    BY <1>0 DEF Slots
  <1>7. RebuildSound'
    BY <1>1, <1>2, <1>3, <1>4, <1>5, <1>6 DEF IInv, RebuildSound, Days
  <1> QED
    BY <1>2, <1>7 DEF IInv

LEMMA StopSound ==
  ASSUME Stop
  PROVE  /\ RebuildSound' /\ DOMAIN holder' = Days
         /\ \A d \in Days : holder'[d] = IF holder[d] = Operator THEN Nobody
                                         ELSE holder[d]
  BY DEF Stop, RebuildSound, Released

LEMMA GiveUpStep ==
  ASSUME IInv, InsertConflict \/ RebuildFails
  PROVE  IInv'
  <1>1. /\ UNCHANGED <<clock, request, began, wrote, event, worker, metrics,
                       disturbed>>
        /\ Stop
    BY DEF InsertConflict, RebuildFails, sourceVars
  <1>2. /\ RequestsSound' /\ WorkersSound' /\ CountsSound' /\ FiguresSound'
    BY <1>1, RowsAssumption, StopSound, OperatorStep
  <1> QED
    BY <1>1, <1>2, StopSound DEF IInv

\* What a rebuild leaves of a day: if its queries saw what is committed and no
\* worker has inserted the row behind its DELETE, what the source says.
LEMMA RebuiltDay ==
  ASSUME IInv, CommitRebuild, NEW d \in Days, InRange(d), Replaced(d),
         \A q \in Queries : read[q] = Committed
  PROVE  Stored(d)' = Source(d)
  <1>1. Totals(d, read) = Source(d)
    <2>1. read = [q \in Queries |-> Committed]
      BY DEF IInv, RebuildSound
    <2> QED
      BY <2>1 DEF Source
  <1>2. metrics'[d] = IF d \in Slots THEN Totals(d, read)
                      ELSE IF d \in doomed THEN Absent ELSE metrics[d]
    BY DEF CommitRebuild
  <1>3. CASE d \in Slots
    <2>1. metrics'[d] = Totals(d, read)
      BY <1>2, <1>3
    <2>2. Totals(d, read) # Absent
      <3>1. "orders" \in DOMAIN Totals(d, read)
        BY DEF Totals
      <3>2. "orders" \notin DOMAIN Absent
        BY DEF Absent
      <3> QED
        BY <3>1, <3>2
    <2> QED
      BY <1>1, <2>1, <2>2 DEF Stored
  <1>4. CASE d \notin Slots
    <2>1. Totals(d, read) = Zero
      BY <1>4 DEF Slots
    <2>2. metrics'[d] = Absent
      BY <1>2, <1>4 DEF CommitRebuild, Replaced, IInv, RebuildSound
    <2> QED
      BY <1>1, <2>1, <2>2 DEF Stored
  <1> QED
    BY <1>3, <1>4

LEMMA CommitRebuildStep ==
  ASSUME IInv, CommitRebuild
  PROVE  IInv'
  <1>1. /\ rebuild.does = "commit" /\ Stop
        /\ UNCHANGED <<clock, request, began, wrote, event, worker>>
    BY DEF CommitRebuild, sourceVars
  <1>2. /\ DOMAIN metrics' = Days
        /\ \A d \in Days :
              metrics'[d] = IF d \in Slots THEN Totals(d, read)
                            ELSE IF d \in doomed THEN Absent ELSE metrics[d]
    BY DEF CommitRebuild
  <1>3. \A d \in Slots \cup doomed : holder[d] = Operator
    BY <1>1 DEF IInv, RebuildSound
  <1>4. RequestsSound' /\ Committed' = Committed
    BY <1>1, RequestsKeep DEF IInv, RequestsSound
  <1>5. WorkersSound'
    BY <1>1, WorkersKeep
  <1>6. CountsSound'
    <2>1. ASSUME NEW w \in Workers, Does(w, "commit")
          PROVE  CountsOn(w)'
      <3>1. PICK x : x = worker[w].day
        OBVIOUS
      <3>2. CountsOn(w) /\ x \in Days /\ holder[x] = w
        BY <2>1, <3>1, BusyFacts DEF IInv, CountsSound, CountsOn, Does
      <3>3. x \notin Slots /\ x \notin doomed /\ holder'[x] = w
        BY <1>1, <1>3, <3>2, RowsAssumption, StopSound
      <3>4. Stored(x)' = Stored(x)
        BY <1>2, <3>2, <3>3 DEF Stored
      <3> QED
        BY <1>1, <3>1, <3>2, <3>3, <3>4 DEF CountsOn
    <2>2. \A d : DOMAIN Totals(d, read) = Counters
      BY DEF Totals, Counters
    <2>3. \A d \in Days : metrics'[d] # Absent => DOMAIN metrics'[d] = Counters
      BY <1>2, <2>2 DEF IInv, CountsSound
    <2> QED
      BY <1>1, <1>2, <2>1, <2>3, StopSound DEF CountsSound, Does, Days
  <1>7. FiguresSound'
    <2> SUFFICES ASSUME NEW d \in Days \ disturbed'
                 PROVE  FiledRight(d)' /\ Stored(d)' = Tally(Told(d))'
      BY DEF FiguresSound, Days
    <2>1. \A e \in Events : Outstanding(e)' <=> Outstanding(e)
      BY <1>1 DEF Outstanding
    <2>2. Told(d)' = Told(d) /\ Tally(Told(d))' = Tally(Told(d)')
      BY <1>1, <1>4, <2>1 DEF Told, Tally, DayOf
    <2>3. CASE ~InRange(d)
      <3>1. d \notin disturbed
        BY <2>3 DEF CommitRebuild
      <3>2. FiledRight(d) /\ Stored(d) = Tally(Told(d))
        BY <3>1 DEF IInv, FiguresSound
      <3>3. d \notin Slots /\ d \notin doomed
        BY <1>1, <2>3 DEF IInv, RebuildSound, Slots
      <3>4. Stored(d)' = Stored(d)
        BY <1>2, <3>3 DEF Stored
      <3>5. FiledRight(d)'
        BY <1>1, <2>1, <3>2 DEF FiledRight, DayOf
      <3> QED
        BY <2>2, <3>2, <3>4, <3>5
    <2>4. CASE InRange(d)
      <3>1. UpToDate(d)
        BY <2>4 DEF CommitRebuild
      <3>2. \A e \in Events : Outstanding(e) =>
               DayOf(e) # d /\ wrote[e[1]] # d
        BY <3>1, BusyFacts DEF UpToDate, DayOf
      <3>3. FiledRight(d)'
        BY <1>1, <2>1, <3>2 DEF FiledRight, DayOf
      <3>4. Told(d) = {e \in AllRows : e[1] \in Committed /\ wrote[e[1]] = d}
        BY <3>2 DEF Told
      <3>5. Stored(d)' = Source(d)
        BY <2>4, <3>1, RebuiltDay DEF UpToDate
      <3> QED
        BY <2>2, <3>3, <3>4, <3>5, SourceTally
    <2> QED
      BY <2>3, <2>4
  <1> QED
    BY <1>1, <1>4, <1>5, <1>6, <1>7, StopSound DEF IInv

-----------------------------------------------------------------------------
(* The theorems.                                                           *)

LEMMA NextSound == IInv /\ [Next]_vars => IInv'
  <1> SUFFICES ASSUME IInv, [Next]_vars PROVE IInv'
    OBVIOUS
  <1>1. CASE UNCHANGED vars
    <2> USE <1>1 DEF vars, sourceVars, rebuildVars
    <2>1. /\ RequestsSound' /\ WorkersSound' /\ CountsSound' /\ FiguresSound'
          /\ Committed' = Committed
      BY OperatorStep DEF IInv, CountsSound
    <2>2. RebuildSound'
      BY <2>1, RebuildKeeps
    <2> QED
      BY <2>1, <2>2 DEF IInv
  <1>2. ASSUME NEW w \in Workers,
               \/ \E e \in Events : Deliver(w, e)
               \/ WorkerStep(w) \/ WorkerFails(w) \/ Swallow(w)
        PROVE  IInv'
    BY <1>2, DeliverStep, BumpStep, CommitBumpStep, WorkerEndStep DEF WorkerStep
  <1>3. ASSUME \/ RebuildStep \/ RebuildFails
               \/ \E since \in Days : StartRebuild(since)
        PROVE  IInv'
    BY <1>3, ReadingStep, DeleteStep, InsertStep, GiveUpStep, CommitRebuildStep
       DEF RebuildStep
  <1>4. ASSUME NEW r \in Requests, Begin(r) \/ Write(r) \/ Commit(r) PROVE IInv'
    BY <1>4, BeginOrWriteStep, CommitStep
  <1> QED
    BY <1>1, <1>2, <1>3, <1>4, MidnightStep DEF Next

\* Requests commit with their events, an event is one worker's, a worker about
\* to commit has the row of its day unchanged since it read it, the rows a
\* rebuild replaces are its own, and the figures of an undisturbed day are those
\* of exactly the rows whose events have been counted (analytics/projections.py,
\* the upserts of apply_sale and apply_movement and rebuild_daily_metrics).
THEOREM ProjectionsInvariance == Spec => []IInv
  BY InitSound, NextSound, PTL DEF Spec

\* Counting event by event and rebuilding from the source arrive at the same
\* figures, whatever the interleaving, for any number of requests, workers and
\* days: once the events of an undisturbed day have been counted, its row says
\* what the source tables say (projections.py, recent_metrics).
THEOREM FiguresAreTheSource == Spec => []FiguresAgree
  <1>1. IInv => FiguresAgree
    <2> SUFFICES ASSUME IInv, NEW d \in Days \ disturbed,
                        \A r \in Committed : d \in {began[r], wrote[r]} =>
                           \A e \in Events : e[1] = r => ~Outstanding(e)
                 PROVE  Stored(d) = Source(d)
      BY DEF FiguresAgree, Figures
    <2>1. \A e \in Events : Outstanding(e) => DayOf(e) # d /\ wrote[e[1]] # d
      BY BusyFacts DEF DayOf
    <2>2. Told(d) = {e \in AllRows : e[1] \in Committed /\ wrote[e[1]] = d}
      BY <2>1 DEF Told
    <2>3. Stored(d) = Tally(Told(d))
      BY DEF IInv, FiguresSound
    <2> QED
      BY <2>2, <2>3, SourceTally
  <1> QED
    BY <1>1, ProjectionsInvariance, PTL

\* A rebuild under which nothing was committed leaves what the source says on
\* every day of its range, also where the source has nothing any more
\* (rebuild_daily_metrics: the DELETE of the range before the INSERT).
THEOREM RebuildsAreExact == Spec => RebuildIsExact
  <1> DEFINE Exact ==
         (/\ rebuild.does = "commit"
          /\ metrics' # metrics
          /\ rebuild'.does = "nothing"
          /\ \A q \in Queries : read[q] = Committed)
         => \A d \in Days : InRange(d) /\ Replaced(d) =>
               (IF metrics'[d] = Absent THEN Zero ELSE metrics'[d]) = Source(d)
  <1>1. ASSUME IInv, [Next]_vars PROVE [Exact]_vars
    <2> SUFFICES ASSUME Next, rebuild.does = "commit", metrics' # metrics,
                        rebuild'.does = "nothing",
                        \A q \in Queries : read[q] = Committed
                 PROVE  \A d \in Days : InRange(d) /\ Replaced(d) =>
                           (IF metrics'[d] = Absent THEN Zero
                            ELSE metrics'[d]) = Source(d)
      BY <1>1
    <2>1. rebuild' # rebuild
      OBVIOUS
    <2>2. \A w \in Workers :
             ~(\/ \E e \in Events : Deliver(w, e)
               \/ WorkerStep(w) \/ WorkerFails(w) \/ Swallow(w))
      BY <2>1 DEF Deliver, WorkerStep, Bump, CommitBump, Ack, WorkerFails,
                  Swallow, rebuildVars
    <2>3. ~Midnight /\ \A r \in Requests : ~(Begin(r) \/ Write(r) \/ Commit(r))
      BY DEF Midnight, Begin, Write, Commit
    <2>4. CommitRebuild
      BY <2>2, <2>3 DEF Next, RebuildStep, StartRebuild, Query, Delete, Insert,
                        InsertConflict, RebuildFails
    <2> QED
      BY <1>1, <2>4, RebuiltDay DEF Stored
  <1> QED
    BY <1>1, ProjectionsInvariance, PTL DEF RebuildIsExact, Spec

-----------------------------------------------------------------------------
(* The nightly job: the invariant.                                         *)

Steps == {"load", "classify", "forecast", "classes", "recommend", "record",
          "commit"}
IsFrame(f) == DOMAIN f \subseteq Pairs /\ f \in [DOMAIN f -> Nat]

ClockSound ==
    /\ now \in Nat /\ jobs \in Nat /\ extras \in Nat /\ manuals \in Nat
    /\ sale \in [Sales -> [state : {"none", "open", "committed"}, stamp : Nat]]
    /\ lake \subseteq Sales

\* What the next steps of a job need.
IsJob(j) ==
    /\ j.at \in Steps
    /\ j.at = "load" => j.rows \subseteq Sales
    /\ j.at \notin {"load", "classify"} => j.ranked \subseteq Sales
    /\ j.at \in {"classes", "recommend"} => DOMAIN j = {"at", "by", "ranked", "frame"}
    /\ j.at \in {"classes", "recommend", "record"} => IsFrame(j.frame)

\* A job at work has a number of its own.
JobsSound ==
    /\ DOMAIN job = Schedulers
    /\ \A c \in Schedulers : job[c] # Resting =>
          /\ IsJob(job[c])
          /\ job[c].by \in 1 .. jobs
          /\ \A d \in Schedulers \ {c} :
                job[d] # Resting => job[d].by # job[c].by

\* Rows of products are locked by one transaction.
OneInTransaction ==
    \A c, d \in Schedulers : InTransaction(c) /\ InTransaction(d) => c = d

Sound == ClockSound /\ JobsSound /\ OneInTransaction

-----------------------------------------------------------------------------
(* The constants, and the sums the job is about.                           *)

LEMMA SaleFacts ==
  \A s \in Sales : /\ Content[s].pair \in Pairs
                   /\ Content[s].quantity \in Nat /\ Content[s].price \in Nat
                   /\ Quantity[s] \in Nat /\ Price[s] \in Nat
  <1>1. \A s \in Sales : Content[s] \in [pair : Pairs, quantity : Nat \ {0}, price : Nat]
    BY SalesAssumption
  <1>2. \A s \in Sales : /\ Content[s].pair \in Pairs
                         /\ Content[s].quantity \in Nat /\ Content[s].price \in Nat
    BY <1>1
  <1>3. \A x, y \in Nat : x * y \in Nat
    OBVIOUS
  <1> QED
    BY <1>2, <1>3 DEF Quantity, Price

LEMMA PairFacts ==
  /\ IsFiniteSet(Pairs) /\ IsFiniteSet(Products) /\ IsFiniteSet(Sales)
  /\ \A p \in Pairs : ProductOf[p] \in Products /\ Delivered[p] \in Nat
  <1> DEFINE f == [p \in Pairs |-> ProductOf[p]]
  <1>1. f \in Surjection(Pairs, Products)
    BY DEF Surjection, Products
  <1>2. IsFiniteSet(Products)
    BY <1>1, PairsAssumption, FS_Surjection
  <1> QED
    BY <1>2, PairsAssumption, SalesAssumption DEF Products

LEMMA UnitsGrow ==
  \A S \in SUBSET Sales : /\ Units(S) \in Nat
                          /\ \A U \in SUBSET S : Units(U) <= Units(S)
  <1> TAKE S \in SUBSET Sales
  <1>1. IsFiniteSet(S) /\ \A s \in S : Quantity[s] \in Nat
    BY SaleFacts, SalesAssumption, FS_Subset
  <1>2. \A U \in SUBSET S : /\ SumFunctionOnSet(Quantity, S) \in Nat
                            /\ SumFunctionOnSet(Quantity, U) <= SumFunctionOnSet(Quantity, S)
    BY <1>1, SumMonotone
  <1> QED
    BY <1>2 DEF Units

LEMMA StockCovers == \A p \in Pairs : OnHand(p) \in Nat
  <1> TAKE p \in Pairs
  <1>1. /\ Of(CommittedSales, p) \in SUBSET Of(Sales, p)
        /\ Of(Sales, p) \in SUBSET Sales
    BY DEF Of, CommittedSales
  <1>2. /\ Units(Of(CommittedSales, p)) \in Nat
        /\ Units(Of(CommittedSales, p)) <= Units(Of(Sales, p))
        /\ Units(Of(Sales, p)) \in Nat
    BY <1>1, UnitsGrow
  <1>3. Units(Of(Sales, p)) <= Delivered[p] /\ Delivered[p] \in Nat
    BY StockAssumption, PairFacts
  <1> QED
    BY <1>2, <1>3 DEF OnHand

LEMMA RoundedType == \A n \in Nat, d \in Nat \ {0} : Rounded(n, d) \in Nat
  BY DEF Rounded

LEMMA ForecastIsFrame ==
  ASSUME NEW S \in SUBSET Sales, NEW asOf
  PROVE  IsFrame(DemandForecast(S, asOf))
  <1> DEFINE window == {s \in S : /\ sale[s].stamp > asOf - 2 * Lookback
                                  /\ sale[s].stamp <= asOf}
             D == {Content[s].pair : s \in window}
  <1>1. window \in SUBSET Sales
    OBVIOUS
  <1>2. D \subseteq Pairs
    BY <1>1, SaleFacts
  <1>3. ASSUME NEW p \in D
        PROVE  Rounded(Units(Of(window, p)) * Horizon, Lookback) \in Nat
    <2>1. Of(window, p) \in SUBSET Sales
      BY <1>1 DEF Of
    <2>2. Units(Of(window, p)) \in Nat
      BY <2>1, UnitsGrow
    <2>3. Horizon \in Nat /\ Lookback \in Nat \ {0}
      BY WindowsAssumption
    <2>4. \A x, y \in Nat : x * y \in Nat
      OBVIOUS
    <2> HIDE DEF D, window
    <2>5. Units(Of(window, p)) * Horizon \in Nat
      BY <2>2, <2>3, <2>4
    <2> QED
      BY <2>3, <2>5, RoundedType
  <1>4. DemandForecast(S, asOf)
          = [p \in D |-> Rounded(Units(Of(window, p)) * Horizon, Lookback)]
    BY DEF DemandForecast
  <1> HIDE DEF D, window
  <1> QED
    BY <1>2, <1>3, <1>4 DEF IsFrame
-----------------------------------------------------------------------------
(* Whoever runs the job, its steps are those of one job at a time.         *)

LEMMA AtWork ==
  \A c \in Schedulers : \A step \in Steps : At(c, step) => job[c] # Resting
  BY DEF At, Steps, Resting

LEMMA JobMoves ==
  ASSUME JobsSound, NEW c \in Schedulers, job[c] # Resting,
         NEW j, job' = [job EXCEPT ![c] = j], jobs' = jobs,
         j = Resting \/ (IsJob(j) /\ j.by = job[c].by)
  PROVE  JobsSound'
  <1>1. DOMAIN job' = Schedulers /\ job'[c] = j
        /\ \A d \in Schedulers \ {c} : job'[d] = job[d]
    BY DEF JobsSound
  <1> SUFFICES ASSUME NEW d \in Schedulers, job'[d] # Resting
               PROVE  /\ IsJob(job'[d])
                      /\ job'[d].by \in 1 .. jobs
                      /\ \A e \in Schedulers \ {d} :
                            job'[e] # Resting => job'[e].by # job'[d].by
    BY <1>1 DEF JobsSound
  <1>2. \A e \in Schedulers : job'[e] # Resting =>
           job[e] # Resting /\ job'[e].by = job[e].by
    BY <1>1
  <1>3. IsJob(job'[d])
    BY <1>1 DEF JobsSound
  <1> QED
    BY <1>2, <1>3 DEF JobsSound

LEMMA JobsStay == JobsSound /\ UNCHANGED <<job, jobs>> => JobsSound'
  BY DEF JobsSound

LEMMA TurnsStay ==
  ASSUME OneInTransaction, \A d \in Schedulers : InTransaction(d)' => InTransaction(d)
  PROVE  OneInTransaction'
  BY DEF OneInTransaction

\* A job that fails, or is done, is at rest.
LEMMA JobRests ==
  ASSUME Sound, NEW c \in Schedulers, ~At(c, "idle"), job' = [job EXCEPT ![c] = Resting],
         jobs' = jobs
  PROVE  JobsSound' /\ OneInTransaction'
  <1>1. job[c] # Resting
    BY DEF At, Resting
  <1>2. JobsSound'
    BY <1>1, JobMoves DEF Sound
  <1>3. \A d \in Schedulers : InTransaction(d)' => InTransaction(d)
    BY DEF Sound, JobsSound, InTransaction, Resting
  <1> QED
    BY <1>2, <1>3, TurnsStay DEF Sound

LEMMA NightlyInitSound == NightlyInit => Sound
  <1> SUFFICES ASSUME NightlyInit PROVE Sound
    OBVIOUS
  <1>1. ClockSound
    BY DEF NightlyInit, ClockSound
  <1>2. JobsSound
    BY DEF NightlyInit, JobsSound
  <1>3. OneInTransaction
    BY DEF NightlyInit, OneInTransaction, InTransaction, Resting
  <1> QED
    BY <1>1, <1>2, <1>3 DEF Sound

LEMMA SaleSound ==
  ASSUME Sound, NEW s \in Sales, WriteSale(s) \/ CommitSale(s)
  PROVE  Sound'
  <1>1. ClockSound'
    BY DEF Sound, ClockSound, WriteSale, CommitSale, counters
  <1>2. UNCHANGED <<job, jobs>>
    BY DEF WriteSale, CommitSale, counters
  <1> QED
    BY <1>1, <1>2, JobsStay, TurnsStay DEF Sound, InTransaction

LEMMA TickSound == Sound /\ Tick => Sound'
  <1> SUFFICES ASSUME Sound, Tick PROVE Sound'
    OBVIOUS
  <1>1. ClockSound'
    BY DEF Sound, ClockSound, Tick, counters
  <1>2. UNCHANGED <<job, jobs>>
    BY DEF Tick, counters
  <1> QED
    BY <1>1, <1>2, JobsStay, TurnsStay DEF Sound, InTransaction

\* The operator and the managers do not touch the jobs.
LEMMA AsideSound ==
  ASSUME Sound, UNCHANGED <<now, sale, lake, job, jobs>>,
         extras' \in Nat, manuals' \in Nat
  PROVE  Sound'
  <1>1. ClockSound'
    BY DEF Sound, ClockSound
  <1> QED
    BY <1>1, JobsStay, TurnsStay DEF Sound, InTransaction

LEMMA FireSound ==
  ASSUME Sound, NEW c \in Schedulers, Fire(c)
  PROVE  Sound'
  <1>1. ClockSound'
    BY DEF Sound, ClockSound, Fire
  <1> DEFINE j == [at |-> "load", by |-> jobs + 1, rows |-> Extract]
  <1>2. /\ DOMAIN job' = Schedulers /\ job'[c] = j
        /\ \A d \in Schedulers \ {c} : job'[d] = job[d]
        /\ jobs' = jobs + 1 /\ jobs \in Nat
    BY DEF Sound, JobsSound, ClockSound, Fire
  <1>3. IsJob(j) /\ j.by = jobs + 1
    BY DEF IsJob, Steps, Extract, CommittedSales
  <1> HIDE DEF j
  <1>4. JobsSound'
    <2> SUFFICES ASSUME NEW d \in Schedulers, job'[d] # Resting
                 PROVE  /\ IsJob(job'[d])
                        /\ job'[d].by \in 1 .. jobs'
                        /\ \A e \in Schedulers \ {d} :
                              job'[e] # Resting => job'[e].by # job'[d].by
      BY <1>2 DEF JobsSound
    <2>1. \A e \in Schedulers \ {c} : job'[e] # Resting =>
             IsJob(job'[e]) /\ job'[e].by \in 1 .. jobs
      BY <1>2 DEF Sound, JobsSound
    <2>2. CASE d = c
      BY <1>2, <1>3, <2>1, <2>2
    <2>3. CASE d # c
      <3>1. \A e \in Schedulers \ {c, d} :
               job'[e] # Resting => job'[e].by # job'[d].by
        BY <1>2, <2>3 DEF Sound, JobsSound
      <3> QED
        BY <1>2, <1>3, <2>1, <2>3, <3>1
    <2> QED
      BY <2>2, <2>3
  <1>5. \A d \in Schedulers : InTransaction(d)' => InTransaction(d)
    BY <1>2 DEF InTransaction, j
  <1> QED
    BY <1>1, <1>4, <1>5, TurnsStay DEF Sound

\* The steps before the transaction.
LEMMA ReadingSound ==
  ASSUME Sound, NEW c \in Schedulers, Load(c) \/ Classify(c) \/ Forecast(c)
  PROVE  Sound'
  <1>0. job[c] # Resting /\ IsJob(job[c]) /\ DOMAIN job = Schedulers /\ lake \subseteq Sales
    BY AtWork DEF Sound, JobsSound, ClockSound, Load, Classify, Forecast, Steps
  <1>1. ClockSound'
    BY <1>0 DEF Sound, ClockSound, IsJob, Load, Classify, Forecast, At, counters
  <1>2. ASSUME NEW j, job' = [job EXCEPT ![c] = j], IsJob(j), j.by = job[c].by,
               j.at \in {"classify", "forecast", "classes"}, jobs' = jobs
        PROVE  JobsSound' /\ OneInTransaction'
    <2>1. JobsSound'
      BY <1>0, <1>2, JobMoves DEF Sound
    <2>2. \A d \in Schedulers : InTransaction(d)' => InTransaction(d)
      BY <1>0, <1>2 DEF InTransaction
    <2> QED
      BY <2>1, <2>2, TurnsStay DEF Sound
  <1>3. CASE Load(c)
    <2> DEFINE j == [at |-> "classify", by |-> job[c].by]
    <2>1. IsJob(j) /\ job' = [job EXCEPT ![c] = j] /\ jobs' = jobs /\ j.by = job[c].by
          /\ j.at \in {"classify", "forecast", "classes"}
      BY <1>3 DEF Load, IsJob, Steps, counters
    <2> QED
      BY <1>1, <1>2, <2>1 DEF Sound
  <1>4. CASE Classify(c)
    <2> DEFINE j == [at |-> "forecast", by |-> job[c].by, ranked |-> lake]
    <2>1. IsJob(j) /\ job' = [job EXCEPT ![c] = j] /\ jobs' = jobs /\ j.by = job[c].by
          /\ j.at \in {"classify", "forecast", "classes"}
      BY <1>0, <1>4 DEF Classify, IsJob, Steps, counters
    <2> QED
      BY <1>1, <1>2, <2>1 DEF Sound
  <1>5. CASE Forecast(c)
    <2> DEFINE j == [at |-> "classes", by |-> job[c].by, ranked |-> job[c].ranked,
                     frame |-> DemandForecast(lake, now)]
    <2>1. IsFrame(DemandForecast(lake, now))
      BY <1>0, ForecastIsFrame
    <2>2. job[c].ranked \subseteq Sales
      BY <1>0, <1>5 DEF Forecast, At, IsJob
    <2>3. DOMAIN j = {"at", "by", "ranked", "frame"}
      OBVIOUS
    <2>4. IsJob(j) /\ job' = [job EXCEPT ![c] = j] /\ jobs' = jobs /\ j.by = job[c].by
          /\ j.at \in {"classify", "forecast", "classes"}
      BY <2>1, <2>2, <2>3, <1>5 DEF Forecast, IsJob, Steps, counters
    <2> QED
      BY <1>1, <1>2, <2>4 DEF Sound
  <1> QED
    BY <1>3, <1>4, <1>5

\* One job at a time gets past its classes.
LEMMA ClassesTurn ==
  ASSUME Sound, NEW c \in Schedulers, PersistClasses(c)
  PROVE  Sound'
  <1>0. job[c] # Resting /\ IsJob(job[c]) /\ DOMAIN job = Schedulers /\ job[c].at = "classes"
    BY AtWork DEF Sound, JobsSound, PersistClasses, Steps, At
  <1> DEFINE j == [job[c] EXCEPT !.at = "recommend"]
  <1>1. ClockSound'
    BY DEF Sound, ClockSound, PersistClasses, counters
  <1>2. /\ job' = [job EXCEPT ![c] = j] /\ jobs' = jobs
        /\ DOMAIN j = DOMAIN job[c]
        /\ j.at = "recommend" /\ j.by = job[c].by
        /\ j.ranked = job[c].ranked /\ j.frame = job[c].frame
    BY <1>0 DEF PersistClasses, IsJob, counters
  <1>3. IsJob(j)
    BY <1>0, <1>2 DEF IsJob, Steps
  <1> HIDE DEF j
  <1>4. JobsSound'
    BY <1>0, <1>2, <1>3, JobMoves DEF Sound
  <1>5. \A d \in Schedulers : InTransaction(d)' => d = c
    BY <1>0, <1>2 DEF PersistClasses, InTransaction
  <1> QED
    BY <1>1, <1>4, <1>5 DEF Sound, OneInTransaction

LEMMA WritingSound ==
  ASSUME Sound, NEW c \in Schedulers, PersistRecommendations(c) \/ RecordAndScore(c)
  PROVE  Sound'
  <1>0. /\ job[c] # Resting /\ IsJob(job[c]) /\ DOMAIN job = Schedulers
        /\ job[c].at \in {"recommend", "record"}
    BY AtWork DEF Sound, JobsSound, PersistRecommendations, RecordAndScore, Steps, At
  <1>1. ClockSound'
    BY DEF Sound, ClockSound, PersistRecommendations, RecordAndScore, counters
  <1>2. ASSUME NEW j, job' = [job EXCEPT ![c] = j], IsJob(j), j.by = job[c].by
        PROVE  Sound'
    <2>1. JobsSound'
      BY <1>0, <1>2, JobMoves
         DEF Sound, PersistRecommendations, RecordAndScore, counters
    <2>2. \A d \in Schedulers : InTransaction(d)' => InTransaction(d)
      BY <1>0, <1>2 DEF InTransaction
    <2> QED
      BY <1>1, <2>1, <2>2, TurnsStay DEF Sound
  <1>3. CASE PersistRecommendations(c)
    <2>1. PICK deleted, added :
             job' = [job EXCEPT ![c] =
                       [at |-> "record", by |-> job[c].by, ranked |-> job[c].ranked,
                        frame |-> job[c].frame, deleted |-> deleted, added |-> added]]
      BY <1>3 DEF PersistRecommendations
    <2> DEFINE j == [at |-> "record", by |-> job[c].by, ranked |-> job[c].ranked,
                     frame |-> job[c].frame, deleted |-> deleted, added |-> added]
    <2>2. IsJob(j) /\ j.by = job[c].by
      BY <1>0 DEF IsJob, Steps
    <2> QED
      BY <1>2, <2>1, <2>2
  <1>4. CASE RecordAndScore(c)
    <2>1. PICK new, scored :
             job' = [job EXCEPT ![c] =
                       [at |-> "commit", by |-> job[c].by, ranked |-> job[c].ranked,
                        deleted |-> job[c].deleted, added |-> job[c].added,
                        new |-> new, scored |-> scored]]
      BY <1>4 DEF RecordAndScore
    <2> DEFINE j == [at |-> "commit", by |-> job[c].by, ranked |-> job[c].ranked,
                     deleted |-> job[c].deleted, added |-> job[c].added,
                     new |-> new, scored |-> scored]
    <2>2. IsJob(j) /\ j.by = job[c].by
      BY <1>0 DEF IsJob, Steps
    <2> QED
      BY <1>2, <2>1, <2>2
  <1> QED
    BY <1>3, <1>4

LEMMA EndSound ==
  ASSUME Sound, NEW c \in Schedulers, CommitJob(c) \/ ScoredRowGone(c) \/ JobFails(c)
  PROVE  Sound'
  <1>1. ClockSound'
    BY DEF Sound, ClockSound, CommitJob, ScoredRowGone, JobFails, Extra, counters
  <1>2. /\ ~At(c, "idle") /\ job' = [job EXCEPT ![c] = Resting] /\ jobs' = jobs
    BY DEF CommitJob, ScoredRowGone, JobFails, At, counters
  <1> QED
    BY <1>1, <1>2, JobRests DEF Sound

LEMMA StepSound == Sound /\ [NightlyNext]_nightlyVars => Sound'
  <1> SUFFICES ASSUME Sound, [NightlyNext]_nightlyVars PROVE Sound'
    OBVIOUS
  <1>0. extras \in Nat /\ manuals \in Nat
    BY DEF Sound, ClockSound
  <1>1. CASE Tick
    BY <1>1, TickSound
  <1>2. CASE \E s \in Sales : WriteSale(s) \/ CommitSale(s)
    BY <1>2, SaleSound
  <1>3. CASE \E c \in Schedulers : Fire(c)
    BY <1>3, FireSound
  <1>4. CASE \E c \in Schedulers : JobStep(c) \/ JobFails(c)
    BY <1>4, ReadingSound, ClassesTurn, WritingSound, EndSound DEF JobStep
  <1>5. CASE \E replace \in BOOLEAN : StartBackfill(replace)
    BY <1>0, <1>5, AsideSound DEF StartBackfill, Extra
  <1>6. CASE CommitBackfill
    BY <1>0, <1>6, AsideSound DEF CommitBackfill, counters
  <1>7. CASE BackfillFails
    BY <1>0, <1>7, AsideSound DEF BackfillFails, counters
  <1>8. CASE \E p \in ByHand : Recommend(p)
    BY <1>0, <1>8, AsideSound DEF Recommend, Extra
  <1>9. CASE UNCHANGED nightlyVars
    BY <1>0, <1>9, AsideSound DEF nightlyVars, counters
  <1> QED
    BY <1>1, <1>2, <1>3, <1>4, <1>5, <1>6, <1>7, <1>8, <1>9 DEF NightlyNext

-----------------------------------------------------------------------------
(* Forecasts and their outcomes.                                           *)

\* The rows of forecast_runs, committed or about to be.
RowsOf(t) == IF t.at = "commit" THEN t.new \cup t.scored ELSE {}
JobRows == UNION {RowsOf(job[c]) : c \in Schedulers}
AllRuns == runs \cup JobRows \cup RowsOf(backfill)

IsRun(r) ==
    /\ r \in [pair : Pairs, forecast : Nat, day : Nat, end : Int,
              actual : Int, scoredAt : Int, by : Int]
    /\ r.end = HorizonEnd(r.day)
    /\ r.day <= Day(now)

\* Unless it is late, each sale of the window is in the outcome, and no other.
Outcome(r) ==
    /\ r.end < Day(now)
    /\ Units(Demand(r) \ late) <= r.actual
    /\ r.actual <= Units(Demand(r))

Settled(r) == IsRun(r) /\ (r.actual # Unscored => Outcome(r))

Newly(t) == t.at = "commit" => /\ IsFiniteSet(t.new) /\ IsFiniteSet(t.scored)
                               /\ \A r \in t.new : r.actual = Unscored
                               /\ \A r \in t.scored : r.actual # Unscored

RunsSound ==
    /\ IsFiniteSet(runs)
    /\ \A r \in AllRuns : Settled(r)
    /\ \A c \in Schedulers : Newly(job[c])
    /\ Newly(backfill)

LEMMA DayFacts ==
  \A t \in Nat : /\ Day(t) \in Nat
                 /\ \A u \in Nat : t <= u => Day(t) <= Day(u)
  BY DEF Day

LEMMA DemandFacts ==
  ASSUME NEW r
  PROVE  /\ Demand(r) \in SUBSET Sales /\ Demand(r) \ late \in SUBSET Sales
         /\ Units(Demand(r)) \in Nat /\ Units(Demand(r) \ late) \in Nat
         /\ Units(Demand(r) \ late) <= Units(Demand(r))
  <1>1. Demand(r) \in SUBSET Sales /\ Demand(r) \ late \in SUBSET Demand(r)
    BY DEF Demand, CommittedSales
  <1>2. Demand(r) \ late \in SUBSET Sales
    BY <1>1
  <1> QED
    BY <1>1, <1>2, UnitsGrow

\* A sale committed after the outcome was read is late, so the sales that
\* count stay the same.
LEMMA SalesComeLate ==
  ASSUME Sound, NEW r \in AlreadyScored, IsRun(r), Outcome(r),
         NEW s \in Sales, WriteSale(s) \/ CommitSale(s)
  PROVE  Outcome(r)'
  <1>1. now' = now /\ sale \in [Sales -> [state : {"none", "open", "committed"}, stamp : Nat]]
        /\ now \in Nat
    BY DEF WriteSale, CommitSale, Sound, ClockSound
  <1>2. \A t \in Sales \ {s} : sale'[t] = sale[t]
    BY <1>1 DEF WriteSale, CommitSale
  <1>3. s \notin Demand(r)
    BY DEF Demand, CommittedSales, WriteSale, CommitSale
  <1>4. Demand(r)' \subseteq Demand(r) \cup {s} /\ Demand(r) \subseteq Demand(r)'
    BY <1>1, <1>2, <1>3 DEF Demand, CommittedSales
  <1>5. ASSUME s \in Demand(r)' PROVE late' = late \cup {s}
    <2>1. /\ sale'[s].state = "committed" /\ Content[s].pair = r.pair
          /\ Day(sale'[s].stamp) \in r.day .. (r.day + Horizon - 1)
      BY <1>5 DEF Demand, CommittedSales, Window
    <2>2. r.end = r.day + Horizon - 1 /\ r.day \in Nat /\ Horizon \in Nat
      BY WindowsAssumption DEF IsRun, HorizonEnd
    <2>3. Content[s].pair = r.pair /\ Day(sale'[s].stamp) >= r.day
          /\ Day(sale'[s].stamp) <= r.end
      BY <2>1, <2>2
    <2>4. CASE WriteSale(s)
      <3>1. s \in Quick
        <4>1. sale'[s] = [state |-> IF s \in Quick THEN "committed" ELSE "open",
                          stamp |-> now]
          BY <1>1, <2>4 DEF WriteSale
        <4> QED
          BY <2>1, <4>1
      <3>2. InWindow(s, r)'
        BY <2>3 DEF InWindow
      <3> QED
        BY <2>4, <3>1, <3>2 DEF WriteSale
    <2>5. CASE CommitSale(s)
      <3>1. sale'[s].stamp = sale[s].stamp
        BY <1>1, <2>5 DEF CommitSale
      <3>2. InWindow(s, r)
        BY <2>3, <3>1 DEF InWindow
      <3> QED
        BY <2>5, <3>2 DEF CommitSale
    <2> QED
      BY <2>4, <2>5
  <1>6. late \subseteq late' /\ late' \subseteq late \cup {s}
    BY DEF WriteSale, CommitSale
  <1>7. Demand(r)' \ late' \subseteq Demand(r) \ late
    BY <1>4, <1>5, <1>6
  <1>8. Demand(r)' \in SUBSET Sales
    BY DEF Demand, CommittedSales
  <1> DEFINE D == Demand(r)
             E == Demand(r)'
             L == late'
  <1>9. /\ Units(E \ L) <= Units(D \ late)
        /\ Units(D) <= Units(E)
        /\ Units(E \ L) \in Nat /\ Units(D \ late) \in Nat
        /\ Units(D) \in Nat /\ Units(E) \in Nat
    <2>1. D \ late \in SUBSET Sales /\ E \ L \in SUBSET (D \ late)
          /\ E \in SUBSET Sales /\ D \in SUBSET E /\ D \in SUBSET Sales
          /\ E \ L \in SUBSET Sales
      BY <1>4, <1>7, <1>8
    <2> HIDE DEF D, E, L
    <2> QED
      BY <2>1, UnitsGrow
  <1>10. /\ r.end < Day(now) /\ Units(D \ late) <= r.actual /\ r.actual <= Units(D)
         /\ r.actual \in Int
    BY DEF Outcome, IsRun
  <1>11. Units(E \ L) <= r.actual /\ r.actual <= Units(E)
    <2> HIDE DEF D, E, L
    <2> QED
      BY <1>9, <1>10
  <1>12. Outcome(r)' <=> /\ r.end < Day(now') /\ Units(E \ L) <= r.actual
                         /\ r.actual <= Units(E)
    BY DEF Outcome, Units
  <1> QED
    BY <1>1, <1>10, <1>11, <1>12

LEMMA ScoredRow ==
  ASSUME NEW q, IsRun(q), NEW u \in Int, NEW t \in Int
  PROVE  LET r == [q EXCEPT !.actual = u, !.scoredAt = t]
         IN  /\ r \in [pair : Pairs, forecast : Nat, day : Nat, end : Int,
                       actual : Int, scoredAt : Int, by : Int]
             /\ r.pair = q.pair /\ r.forecast = q.forecast /\ r.day = q.day
             /\ r.end = q.end /\ r.by = q.by /\ r.actual = u
  <1> DEFINE half == [q EXCEPT !.actual = u]
             r == [half EXCEPT !.scoredAt = t]
             Shape == [pair : Pairs, forecast : Nat, day : Nat, end : Int,
                      actual : Int, scoredAt : Int, by : Int]
  <1>1. q \in Shape
    BY DEF IsRun
  <1>2. /\ half \in Shape
        /\ half.pair = q.pair /\ half.forecast = q.forecast /\ half.day = q.day
        /\ half.end = q.end /\ half.by = q.by /\ half.actual = u
    BY <1>1
  <1> HIDE DEF half
  <1>3. /\ r \in Shape
        /\ r.pair = half.pair /\ r.forecast = half.forecast /\ r.day = half.day
        /\ r.end = half.end /\ r.by = half.by /\ r.actual = half.actual
    BY <1>2
  <1>4. r = [q EXCEPT !.actual = u, !.scoredAt = t]
    BY DEF half
  <1> HIDE DEF r
  <1> QED
    BY <1>2, <1>3, <1>4

\* What is read is exactly what was sold.
LEMMA ScoredSettled ==
  ASSUME Sound, NEW R, \A q \in R : IsRun(q)
  PROVE  \A r \in Scored(R) :
            /\ Settled(r) /\ r.actual # Unscored
            /\ \E q \in R : Key(q) = Key(r) /\ q.forecast = r.forecast
  <1> TAKE r \in Scored(R)
  <1>0. PICK q \in Due(R) :
           r = [q EXCEPT !.actual = Units({s \in CommittedSales : InWindow(s, q)}),
                         !.scoredAt = now]
    BY DEF Scored
  <1> DEFINE u == Units({s \in CommittedSales : InWindow(s, q)})
  <1>1. IsRun(q) /\ q.end < Day(now) /\ q \in R
    BY DEF Due
  <1>2. u \in Nat
    <2>1. {s \in CommittedSales : InWindow(s, q)} \in SUBSET Sales
      BY DEF CommittedSales
    <2> QED
      BY <2>1, UnitsGrow
  <1>3. r = [q EXCEPT !.actual = u, !.scoredAt = now] /\ now \in Int
    BY <1>0 DEF Sound, ClockSound
  <1> HIDE DEF u
  <1>4. /\ r \in [pair : Pairs, forecast : Nat, day : Nat, end : Int,
                  actual : Int, scoredAt : Int, by : Int]
        /\ r.pair = q.pair /\ r.forecast = q.forecast /\ r.day = q.day
        /\ r.end = q.end /\ r.by = q.by /\ r.actual = u
    <2> DEFINE z == [q EXCEPT !.actual = u, !.scoredAt = now]
    <2>1. /\ z \in [pair : Pairs, forecast : Nat, day : Nat, end : Int,
                   actual : Int, scoredAt : Int, by : Int]
          /\ z.pair = q.pair /\ z.forecast = q.forecast /\ z.day = q.day
          /\ z.end = q.end /\ z.by = q.by /\ z.actual = u
      <3>1. u \in Int /\ now \in Int /\ IsRun(q)
        BY <1>1, <1>2, <1>3
      <3> QED
        BY <3>1, ScoredRow
    <2>2. r = z
      BY <1>3
    <2> HIDE DEF z
    <2> QED
      BY <2>1, <2>2
  <1>5. IsRun(r)
    BY <1>1, <1>4 DEF IsRun
  <1>6. Demand(r) = {s \in CommittedSales : InWindow(s, q)}
    <2>1. \A s \in Sales : sale[s].stamp \in Nat
      BY DEF Sound, ClockSound
    <2>2. \A s \in Sales : Day(sale[s].stamp) \in Nat
      BY <2>1, DayFacts
    <2>3. q.end = q.day + Horizon - 1 /\ q.day \in Nat /\ Horizon \in Nat
      BY <1>1, WindowsAssumption DEF IsRun, HorizonEnd
    <2> QED
      BY <1>4, <2>2, <2>3 DEF Demand, InWindow, Window, CommittedSales
  <1>7. Units(Demand(r)) = r.actual
    BY <1>4, <1>6 DEF u
  <1>8. Outcome(r)
    <2>1. Units(Demand(r) \ late) <= Units(Demand(r)) /\ Units(Demand(r)) \in Nat
      BY DemandFacts
    <2> QED
      BY <1>1, <1>4, <1>7, <2>1 DEF Outcome
  <1>9. r.actual # Unscored
    BY <1>2, <1>4 DEF Unscored
  <1> QED
    BY <1>1, <1>4, <1>5, <1>8, <1>9 DEF Settled, Key

LEMMA ScoredFinite ==
  ASSUME NEW R, IsFiniteSet(R)
  PROVE  IsFiniteSet(Scored(R))
  <1> DEFINE f == [q \in Due(R) |->
                     [q EXCEPT !.actual = Units({s \in CommittedSales : InWindow(s, q)}),
                               !.scoredAt = now]]
  <1>1. IsFiniteSet(Due(R))
    BY FS_Subset DEF Due
  <1>2. f \in Surjection(Due(R), Scored(R))
    BY DEF Surjection, Scored
  <1> QED
    BY <1>1, <1>2, FS_Surjection

LEMMA RecordedSettled ==
  ASSUME NEW frame, IsFrame(frame), NEW day \in Nat, day <= Day(now), NEW by \in Int
  PROVE  LET new == ForecastRuns(frame, day, by)
         IN  /\ IsFiniteSet(new)
             /\ \A r \in new : /\ Settled(r) /\ r.actual = Unscored
                               /\ r.by = by /\ r.day = day
                               /\ r.pair \in DOMAIN frame
                               /\ r.forecast = frame[r.pair]
             /\ \A p \in DOMAIN frame : \E r \in new : r.pair = p
  <1> DEFINE row(p) == [pair |-> p, forecast |-> frame[p], day |-> day,
                        end |-> HorizonEnd(day), actual |-> Unscored,
                        scoredAt |-> Unscored, by |-> by]
             new == {row(p) : p \in DOMAIN frame}
             f == [p \in DOMAIN frame |-> row(p)]
  <1>1. IsFiniteSet(new)
    <2>1. IsFiniteSet(DOMAIN frame)
      BY PairFacts, FS_Subset DEF IsFrame
    <2>2. f \in Surjection(DOMAIN frame, new)
      BY DEF Surjection
    <2> QED
      BY <2>1, <2>2, FS_Surjection
  <1>2. HorizonEnd(day) \in Int
    BY WindowsAssumption DEF HorizonEnd
  <1>3. ASSUME NEW p \in DOMAIN frame
        PROVE  IsRun(row(p))
    <2>1. p \in Pairs /\ frame[p] \in Nat
      BY DEF IsFrame
    <2> QED
      BY <1>2, <2>1 DEF IsRun, Unscored
  <1>4. ASSUME NEW r \in new
        PROVE  /\ Settled(r) /\ r.actual = Unscored
               /\ r.by = by /\ r.day = day
               /\ r.pair \in DOMAIN frame /\ r.forecast = frame[r.pair]
    BY <1>3 DEF Settled
  <1>5. \A p \in DOMAIN frame : row(p) \in new /\ row(p).pair = p
    OBVIOUS
  <1>6. ForecastRuns(frame, day, by) = new
    BY DEF ForecastRuns
  <1> HIDE DEF new, row
  <1> QED
    BY <1>1, <1>4, <1>5, <1>6

LEMMA JobRowsMove ==
  ASSUME Sound, NEW c \in Schedulers, NEW j, job' = [job EXCEPT ![c] = j]
  PROVE  /\ job'[c] = j /\ \A d \in Schedulers \ {c} : job'[d] = job[d]
         /\ JobRows' \subseteq JobRows \cup RowsOf(j)
  BY DEF Sound, JobsSound, JobRows

LEMMA RestingRows == RowsOf(Resting) = {} /\ Newly(Resting)
  BY DEF RowsOf, Resting, Newly

\* What there was stays as it is when time and sales stand still.
LEMMA SettledStays ==
  ASSUME NEW r, Settled(r), UNCHANGED <<now, sale, late>>
  PROVE  Settled(r)'
  <1>1. Outcome(r)' = Outcome(r)
    BY DEF Outcome, Demand, CommittedSales
  <1>2. IsRun(r)'
    BY DEF Settled, IsRun
  <1> QED
    BY <1>1, <1>2 DEF Settled

\* Steps that add no row, or only settled ones.
LEMMA RunsFollow ==
  ASSUME RunsSound, UNCHANGED <<now, sale, late>>,
         IsFiniteSet(runs'), \A c \in Schedulers : Newly(job'[c]), Newly(backfill'),
         \A r \in AllRuns' : r \in AllRuns \/ Settled(r)'
  PROVE  RunsSound'
  <1>1. \A r \in AllRuns' : Settled(r)'
    BY SettledStays DEF RunsSound
  <1> QED
    BY <1>1 DEF RunsSound, Newly

LEMMA InitRuns == NightlyInit => RunsSound
  <1> SUFFICES ASSUME NightlyInit PROVE RunsSound
    OBVIOUS
  <1>1. runs = {} /\ backfill = Resting /\ \A c \in Schedulers : job[c] = Resting
    BY DEF NightlyInit
  <1>2. JobRows = {} /\ AllRuns = {}
    BY <1>1, RestingRows DEF JobRows, AllRuns
  <1> QED
    BY <1>1, <1>2, RestingRows, FS_EmptySet DEF RunsSound

LEMMA TickRuns == Sound /\ RunsSound /\ Tick => RunsSound'
  <1> SUFFICES ASSUME Sound, RunsSound, Tick PROVE RunsSound'
    OBVIOUS
  <1>1. now \in Nat /\ now' = now + 1 /\ UNCHANGED <<sale, late, job, runs, backfill, jobs, extras>>
    BY DEF Tick, Sound, ClockSound, tables, counters
  <1>2. Day(now) \in Nat /\ Day(now') \in Nat /\ Day(now) <= Day(now')
    BY <1>1, DayFacts
  <1>3. AllRuns' = AllRuns
    BY <1>1 DEF AllRuns, JobRows, RowsOf
  <1>4. ASSUME NEW r, Settled(r) PROVE Settled(r)'
    <2>1. Demand(r)' = Demand(r)
      BY <1>1 DEF Demand, CommittedSales
    <2>2. IsRun(r)'
      BY <1>1, <1>2, <1>4 DEF Settled, IsRun
    <2>3. Outcome(r) => Outcome(r)'
      BY <1>1, <1>2, <1>4, <2>1 DEF Outcome, Settled, IsRun
    <2> QED
      BY <1>4, <2>2, <2>3 DEF Settled
  <1> QED
    BY <1>1, <1>3, <1>4 DEF RunsSound, Newly

LEMMA SaleRuns ==
  ASSUME Sound, RunsSound, NEW s \in Sales, WriteSale(s) \/ CommitSale(s)
  PROVE  RunsSound'
  <1>1. UNCHANGED <<now, job, runs, backfill, jobs, extras>>
    BY DEF WriteSale, CommitSale, tables, counters
  <1>2. AllRuns' = AllRuns
    BY <1>1 DEF AllRuns, JobRows, RowsOf
  <1>3. ASSUME NEW r \in AllRuns, r.actual # Unscored PROVE r \in AlreadyScored
    <2>1. ASSUME NEW c \in Schedulers, r \in RowsOf(job[c]) PROVE r \in AlreadyScored
      <3>1. job[c].at = "commit" /\ r \in job[c].scored
        BY <1>3, <2>1 DEF RowsOf, RunsSound, Newly
      <3>2. job[c].scored \in {job[d].scored : d \in {e \in Schedulers : job[e].at = "commit"}}
        BY <3>1
      <3>3. r \in UNION {job[d].scored : d \in {e \in Schedulers : job[e].at = "commit"}}
        BY <3>1, <3>2
      <3> QED
        BY <3>3 DEF AlreadyScored
    <2>2. ASSUME r \in RowsOf(backfill) PROVE r \in AlreadyScored
      <3>1. backfill.at = "commit" /\ r \in backfill.scored
        BY <1>3, <2>2 DEF RowsOf, RunsSound, Newly
      <3>2. r \in IF backfill.at = "commit" THEN backfill.scored ELSE {}
        BY <3>1
      <3> QED
        BY <3>2, Zenon DEF AlreadyScored
    <2> QED
      BY <1>3, <2>1, <2>2 DEF AllRuns, JobRows, AlreadyScored
  <1>4. ASSUME NEW r \in AllRuns PROVE Settled(r)'
    <2>1. IsRun(r) /\ (r.actual # Unscored => Outcome(r))
      BY DEF RunsSound, Settled
    <2>2. IsRun(r)'
      BY <1>1, <2>1 DEF IsRun
    <2>3. r.actual # Unscored => Outcome(r)'
      BY <1>3, <2>1, SalesComeLate
    <2> QED
      BY <2>2, <2>3 DEF Settled
  <1> QED
    BY <1>1, <1>2, <1>4 DEF RunsSound, Newly

\* A job that has no rows to commit after its step.
LEMMA RowlessRuns ==
  ASSUME Sound, RunsSound, NEW c \in Schedulers, NEW j, j.at # "commit",
         job' = [job EXCEPT ![c] = j], UNCHANGED <<now, sale, late, runs, backfill>>
  PROVE  RunsSound'
  <1>1. RowsOf(j) = {} /\ Newly(j)
    BY DEF RowsOf, Newly
  <1>2. /\ job'[c] = j /\ \A d \in Schedulers \ {c} : job'[d] = job[d]
        /\ JobRows' \subseteq JobRows
    BY <1>1, JobRowsMove
  <1>3. AllRuns' \subseteq AllRuns
    BY <1>2 DEF AllRuns, RowsOf
  <1>4. \A d \in Schedulers : Newly(job'[d])
    BY <1>1, <1>2 DEF RunsSound
  <1>5. IsFiniteSet(runs') /\ Newly(backfill')
    BY DEF RunsSound
  <1> QED
    BY <1>3, <1>4, <1>5, RunsFollow

\* What PersistRecommendations leaves the job with.
SuggestedBy(c) ==
    LET frame == job[c].frame
        short(p) == frame[p] - OnHand(p)
    IN  [at |-> "record", by |-> job[c].by, ranked |-> job[c].ranked, frame |-> frame,
         deleted |-> {r \in recs : r.source = Pipeline /\ r.pair \in DOMAIN frame},
         added |-> {[pair |-> p, source |-> Pipeline, quantity |-> short(p),
                     day |-> Day(now), by |-> job[c].by] :
                       p \in {q \in DOMAIN frame : short(q) > 0}}]

LEMMA StepRowless ==
  ASSUME Sound, RunsSound, NEW c \in Schedulers,
         \/ Fire(c) \/ Load(c) \/ Classify(c) \/ Forecast(c) \/ PersistClasses(c)
         \/ PersistRecommendations(c) \/ ScoredRowGone(c) \/ JobFails(c)
  PROVE  RunsSound'
  <1>1. UNCHANGED <<now, sale, late, runs, backfill>>
    BY DEF Fire, Load, Classify, Forecast, PersistClasses, PersistRecommendations,
           ScoredRowGone, JobFails, tables
  <1>3. CASE PersistClasses(c)
    <2> DEFINE j == [job[c] EXCEPT !.at = "recommend"]
    <2>1. job[c] # Resting /\ job[c].at = "classes"
      BY <1>3, AtWork DEF PersistClasses, Steps, At
    <2>2. DOMAIN job[c] = {"at", "by", "ranked", "frame"}
      BY <2>1 DEF Sound, JobsSound, IsJob
    <2>3. j.at = "recommend" /\ job' = [job EXCEPT ![c] = j]
      BY <1>3, <2>2 DEF PersistClasses, Sound, JobsSound
    <2> HIDE DEF j
    <2> QED
      BY <1>1, <2>3, RowlessRuns
  <1>4. ASSUME NEW j, j.at # "commit", job' = [job EXCEPT ![c] = j] PROVE RunsSound'
    BY <1>1, <1>4, RowlessRuns
  <1>5. CASE Fire(c)
    <2> DEFINE j == [at |-> "load", by |-> jobs + 1, rows |-> Extract]
    <2>1. j.at # "commit" /\ job' = [job EXCEPT ![c] = j]
      BY <1>5 DEF Fire
    <2> QED
      BY <2>1, <1>4
  <1>6. CASE Load(c)
    <2> DEFINE j == [at |-> "classify", by |-> job[c].by]
    <2>1. j.at # "commit" /\ job' = [job EXCEPT ![c] = j]
      BY <1>6 DEF Load
    <2> QED
      BY <2>1, <1>4
  <1>7. CASE Classify(c)
    <2> DEFINE j == [at |-> "forecast", by |-> job[c].by, ranked |-> lake]
    <2>1. j.at # "commit" /\ job' = [job EXCEPT ![c] = j]
      BY <1>7 DEF Classify
    <2> QED
      BY <2>1, <1>4
  <1>8. CASE Forecast(c)
    <2> DEFINE j == [at |-> "classes", by |-> job[c].by, ranked |-> job[c].ranked,
                     frame |-> DemandForecast(lake, now)]
    <2>1. j.at # "commit" /\ job' = [job EXCEPT ![c] = j]
      BY <1>8 DEF Forecast
    <2> QED
      BY <2>1, <1>4
  <1>9. CASE PersistRecommendations(c)
    <2> DEFINE j == SuggestedBy(c)
    <2>1. j.at # "commit" /\ job' = [job EXCEPT ![c] = j]
      BY <1>9 DEF PersistRecommendations, SuggestedBy
    <2> QED
      BY <2>1, <1>4
  <1>10. CASE ScoredRowGone(c) \/ JobFails(c)
    <2>1. Resting.at # "commit" /\ job' = [job EXCEPT ![c] = Resting]
      BY <1>10 DEF ScoredRowGone, JobFails, Resting
    <2> QED
      BY <2>1, <1>4
  <1> QED
    BY <1>3, <1>5, <1>6, <1>7, <1>8, <1>9, <1>10

\* What RecordAndScore leaves the job with.
RecordedBy(c) ==
    LET new == ForecastRuns(job[c].frame, Day(now), job[c].by)
    IN  [at |-> "commit", by |-> job[c].by, ranked |-> job[c].ranked,
         deleted |-> job[c].deleted, added |-> job[c].added,
         new |-> new, scored |-> Scored(runs \cup new)]

LEMMA RecordFacts ==
  ASSUME Sound, RunsSound, NEW c \in Schedulers, RecordAndScore(c)
  PROVE  LET j == RecordedBy(c)
         IN  /\ job[c] # Resting /\ job[c].at = "record" /\ IsFrame(job[c].frame)
             /\ job' = [job EXCEPT ![c] = j]
             /\ j.at = "commit" /\ j.by = job[c].by
             /\ j.deleted = job[c].deleted /\ j.added = job[c].added
             /\ j.new = ForecastRuns(job[c].frame, Day(now), job[c].by)
             /\ j.scored = Scored(runs \cup j.new)
             /\ Newly(j)
             /\ \A r \in RowsOf(j) : Settled(r)
             /\ \A r \in runs \cup j.new : IsRun(r)
  <1> DEFINE j == RecordedBy(c)
  <1>1. /\ job[c] # Resting /\ job[c].at = "record"
        /\ job' = [job EXCEPT ![c] = j]
    BY AtWork DEF RecordAndScore, RecordedBy, At, Steps
  <1>2. IsFrame(job[c].frame) /\ job[c].by \in 1 .. jobs
    BY <1>1 DEF Sound, JobsSound, IsJob
  <1>3. /\ j.at = "commit" /\ j.by = job[c].by
        /\ j.deleted = job[c].deleted /\ j.added = job[c].added
        /\ j.new = ForecastRuns(job[c].frame, Day(now), job[c].by)
        /\ j.scored = Scored(runs \cup j.new)
    BY DEF RecordedBy
  <1> HIDE DEF j
  <1>4. /\ IsFiniteSet(j.new)
        /\ \A r \in j.new : Settled(r) /\ r.actual = Unscored
    <2>1. Day(now) \in Nat /\ Day(now) <= Day(now) /\ job[c].by \in Int
      BY <1>2, DayFacts DEF Sound, ClockSound
    <2> QED
      BY <1>2, <1>3, <2>1, RecordedSettled
  <1>5. \A r \in runs : Settled(r)
    BY DEF RunsSound, AllRuns
  <1>6. \A r \in runs \cup j.new : IsRun(r)
    BY <1>4, <1>5 DEF Settled
  <1>7. \A r \in j.scored : Settled(r) /\ r.actual # Unscored
    BY <1>3, <1>6, ScoredSettled
  <1>8. IsFiniteSet(j.scored)
    BY <1>3, <1>4, ScoredFinite, FS_Union DEF RunsSound
  <1>9. Newly(j) /\ \A r \in RowsOf(j) : Settled(r)
    BY <1>4, <1>7, <1>8 DEF Newly, RowsOf
  <1> QED
    BY <1>1, <1>2, <1>3, <1>6, <1>9 DEF j

LEMMA RecordRuns ==
  ASSUME Sound, RunsSound, NEW c \in Schedulers, RecordAndScore(c)
  PROVE  RunsSound'
  <1> DEFINE j == RecordedBy(c)
  <1>1. /\ job' = [job EXCEPT ![c] = j] /\ Newly(j) /\ \A r \in RowsOf(j) : Settled(r)
    BY RecordFacts
  <1>2. UNCHANGED <<now, sale, late, runs, backfill, jobs, extras>>
    BY DEF RecordAndScore, tables, counters
  <1> HIDE DEF j
  <1>3. /\ job'[c] = j /\ \A d \in Schedulers \ {c} : job'[d] = job[d]
        /\ JobRows' \subseteq JobRows \cup RowsOf(j)
    BY <1>1, JobRowsMove
  <1>4. AllRuns' \subseteq AllRuns \cup RowsOf(j)
    BY <1>2, <1>3 DEF AllRuns, RowsOf
  <1>6. \A r \in AllRuns' : r \in AllRuns \/ Settled(r)'
    BY <1>1, <1>2, <1>4, SettledStays
  <1>7. \A d \in Schedulers : Newly(job'[d])
    BY <1>1, <1>3 DEF RunsSound
  <1>8. IsFiniteSet(runs') /\ Newly(backfill')
    BY <1>2 DEF RunsSound
  <1> QED
    BY <1>2, <1>6, <1>7, <1>8, RunsFollow

LEMMA CommitRuns ==
  ASSUME Sound, RunsSound, NEW c \in Schedulers, CommitJob(c)
  PROVE  RunsSound'
  <1>1. /\ job[c].at = "commit" /\ job' = [job EXCEPT ![c] = Resting]
        /\ runs' = Updated(runs \cup job[c].new, job[c].scored)
        /\ UNCHANGED <<now, sale, late, backfill, jobs, extras>>
    BY DEF CommitJob, At, counters
  <1>2. /\ job'[c] = Resting /\ \A d \in Schedulers \ {c} : job'[d] = job[d]
        /\ JobRows' \subseteq JobRows
    BY <1>1, JobRowsMove, RestingRows
  <1>3. runs' \subseteq runs \cup RowsOf(job[c]) /\ RowsOf(job[c]) \subseteq JobRows
    BY <1>1 DEF Updated, RowsOf, JobRows
  <1>4. AllRuns' \subseteq AllRuns
    BY <1>1, <1>2, <1>3 DEF AllRuns, RowsOf
  <1>5. IsFiniteSet(runs')
    <2>1. IsFiniteSet(runs) /\ IsFiniteSet(RowsOf(job[c]))
      BY <1>1, FS_Union DEF RunsSound, Newly, RowsOf
    <2> QED
      BY <1>3, <2>1, FS_Union, FS_Subset
  <1>6. \A d \in Schedulers : Newly(job'[d])
    BY <1>2, RestingRows DEF RunsSound
  <1>7. Newly(backfill')
    BY <1>1 DEF RunsSound
  <1> QED
    BY <1>1, <1>4, <1>5, <1>6, <1>7, RunsFollow

-----------------------------------------------------------------------------
(* The operator's backfill.                                                *)

AsOf(k) == now - 2 * Horizon * k
Reached == {k \in 1 .. Weeks : AsOf(k) >= 0}
WeekRuns(k) == ForecastRuns(DemandForecast(lake, AsOf(k)), Day(AsOf(k)), -(extras + 1))
Backfilled == UNION {WeekRuns(k) : k \in Reached}
Kept(replace) == IF replace THEN {} ELSE runs

LEMMA WeeksSettled ==
  ASSUME Sound, NEW k \in Reached
  PROVE  /\ IsFiniteSet(WeekRuns(k))
         /\ \A r \in WeekRuns(k) : /\ Settled(r) /\ r.actual = Unscored
                                   /\ r.by = -(extras + 1) /\ r.day = Day(AsOf(k))
                                   /\ r.forecast = DemandForecast(lake, AsOf(k))[r.pair]
  <1>1. k \in Nat /\ Horizon \in Nat /\ now \in Nat /\ AsOf(k) >= 0 /\ extras \in Nat
    BY WindowsAssumption DEF Reached, Sound, ClockSound
  <1>2. \A x, y \in Nat : x * y \in Nat
    OBVIOUS
  <1>3. 2 * Horizon \in Nat
    BY <1>1
  <1>4. (2 * Horizon) * k \in Nat
    BY <1>1, <1>2, <1>3
  <1>5. AsOf(k) \in Nat /\ AsOf(k) <= now
    BY <1>1, <1>4 DEF AsOf
  <1>6. Day(AsOf(k)) \in Nat /\ Day(AsOf(k)) <= Day(now)
    BY <1>1, <1>5, DayFacts
  <1>7. IsFrame(DemandForecast(lake, AsOf(k)))
    BY ForecastIsFrame DEF Sound, ClockSound
  <1>8. -(extras + 1) \in Int
    BY <1>1
  <1> QED
    BY <1>6, <1>7, <1>8, RecordedSettled DEF WeekRuns

LEMMA BackfilledSettled ==
  ASSUME Sound
  PROVE  /\ IsFiniteSet(Backfilled)
         /\ \A r \in Backfilled : /\ Settled(r) /\ r.actual = Unscored
                                  /\ r.by = -(extras + 1)
  <1> DEFINE W == {WeekRuns(k) : k \in Reached}
             f == [k \in Reached |-> WeekRuns(k)]
  <1>1. IsFiniteSet(Reached)
    <2>1. IsFiniteSet(1 .. Weeks)
      BY WindowsAssumption, FS_Interval
    <2> QED
      BY <2>1, FS_Subset DEF Reached
  <1>2. f \in Surjection(Reached, W)
    BY DEF Surjection
  <1>3. IsFiniteSet(W)
    BY <1>1, <1>2, FS_Surjection
  <1>4. \A T \in W : IsFiniteSet(T)
    BY WeeksSettled
  <1>5. \A r \in Backfilled : \E k \in Reached : r \in WeekRuns(k)
    BY DEF Backfilled
  <1> HIDE DEF W
  <1>6. IsFiniteSet(UNION W)
    BY <1>3, <1>4, FS_UNION
  <1> QED
    BY <1>5, <1>6, WeeksSettled DEF Backfilled, W

LEMMA StartFacts ==
  ASSUME Sound, RunsSound, NEW replace \in BOOLEAN, StartBackfill(replace)
  PROVE  /\ backfill.at = "idle"
         /\ backfill' = [at |-> "commit", new |-> Backfilled,
                         deleted |-> IF replace THEN Keys(runs) ELSE {},
                         scored |-> Scored(Kept(replace) \cup Backfilled)]
         /\ extras' = extras + 1
         /\ UNCHANGED <<now, sale, late, runs, job, jobs>>
         /\ Newly(backfill')
         /\ \A r \in RowsOf(backfill') : Settled(r)
         /\ \A r \in Kept(replace) \cup Backfilled : IsRun(r)
  <1>1. extras' = extras + 1 /\ backfill.at = "idle"
        /\ UNCHANGED <<now, sale, late, runs, job, jobs>>
    BY DEF StartBackfill, Extra, tables
  <1>2. backfill' = [at |-> "commit", new |-> Backfilled,
                     deleted |-> IF replace THEN Keys(runs) ELSE {},
                     scored |-> Scored(Kept(replace) \cup Backfilled)]
    BY <1>1 DEF StartBackfill, Backfilled, Kept, Reached, WeekRuns, AsOf
  <1>3. Kept(replace) \subseteq runs /\ IsFiniteSet(Kept(replace))
    BY FS_Subset DEF Kept, RunsSound
  <1>4. \A r \in Kept(replace) \cup Backfilled : IsRun(r)
    BY <1>3, BackfilledSettled DEF RunsSound, AllRuns, Settled
  <1>5. \A r \in Scored(Kept(replace) \cup Backfilled) : Settled(r) /\ r.actual # Unscored
    BY <1>4, ScoredSettled
  <1>6. IsFiniteSet(Scored(Kept(replace) \cup Backfilled))
    BY <1>3, BackfilledSettled, ScoredFinite, FS_Union
  <1>7. Newly(backfill') /\ \A r \in RowsOf(backfill') : Settled(r)
    BY <1>2, <1>5, <1>6, BackfilledSettled DEF Newly, RowsOf
  <1> QED
    BY <1>1, <1>2, <1>4, <1>7

LEMMA StartRuns ==
  ASSUME Sound, RunsSound, NEW replace \in BOOLEAN, StartBackfill(replace)
  PROVE  RunsSound'
  <1>1. /\ UNCHANGED <<now, sale, late, runs, job>>
        /\ Newly(backfill') /\ \A r \in RowsOf(backfill') : Settled(r)
    BY StartFacts
  <1>2. AllRuns' \subseteq AllRuns \cup RowsOf(backfill')
    BY <1>1 DEF AllRuns, JobRows, RowsOf
  <1>3. \A r \in AllRuns' : r \in AllRuns \/ Settled(r)'
    BY <1>1, <1>2, SettledStays
  <1>4. IsFiniteSet(runs') /\ \A d \in Schedulers : Newly(job'[d])
    BY <1>1 DEF RunsSound
  <1> QED
    BY <1>1, <1>3, <1>4, RunsFollow

LEMMA CommitBackfillRuns == RunsSound /\ CommitBackfill => RunsSound'
  <1> SUFFICES ASSUME RunsSound, CommitBackfill PROVE RunsSound'
    OBVIOUS
  <1>1. UNCHANGED <<now, sale, late, job>> /\ backfill.at = "commit" /\ backfill' = Resting
    BY DEF CommitBackfill
  <1>2. runs' \subseteq runs \cup RowsOf(backfill)
    BY <1>1 DEF CommitBackfill, Updated, RowsOf
  <1>3. AllRuns' \subseteq AllRuns
    <2>1. RowsOf(backfill') = {} /\ JobRows' = JobRows
      BY <1>1, RestingRows DEF JobRows, RowsOf
    <2> QED
      BY <1>2, <2>1 DEF AllRuns, RowsOf
  <1>4. IsFiniteSet(runs')
    <2>1. IsFiniteSet(runs) /\ IsFiniteSet(RowsOf(backfill))
      BY <1>1, FS_Union DEF RunsSound, Newly, RowsOf
    <2> QED
      BY <1>2, <2>1, FS_Union, FS_Subset
  <1>5. Newly(backfill') /\ \A d \in Schedulers : Newly(job'[d])
    BY <1>1, RestingRows DEF RunsSound
  <1> QED
    BY <1>1, <1>3, <1>4, <1>5, RunsFollow

\* Nothing about forecasts, or a backfill given up.
LEMMA AsideRuns ==
  ASSUME RunsSound, UNCHANGED <<now, sale, late, runs, job>>,
         backfill' = backfill \/ backfill' = Resting
  PROVE  RunsSound'
  <1>1. AllRuns' \subseteq AllRuns
    BY RestingRows DEF AllRuns, JobRows, RowsOf
  <1>2. Newly(backfill') /\ IsFiniteSet(runs') /\ \A d \in Schedulers : Newly(job'[d])
    BY RestingRows DEF RunsSound
  <1> QED
    BY <1>1, <1>2, RunsFollow

LEMMA StepRuns == Sound /\ RunsSound /\ [NightlyNext]_nightlyVars => RunsSound'
  <1> SUFFICES ASSUME Sound, RunsSound, [NightlyNext]_nightlyVars PROVE RunsSound'
    OBVIOUS
  <1>1. CASE Tick
    BY <1>1, TickRuns
  <1>2. CASE \E s \in Sales : WriteSale(s) \/ CommitSale(s)
    BY <1>2, SaleRuns
  <1>3. CASE \E c \in Schedulers : Fire(c) \/ JobStep(c) \/ JobFails(c)
    BY <1>3, StepRowless, RecordRuns, CommitRuns DEF JobStep
  <1>4. CASE \E replace \in BOOLEAN : StartBackfill(replace)
    BY <1>4, StartRuns
  <1>5. CASE CommitBackfill
    BY <1>5, CommitBackfillRuns
  <1>6. CASE BackfillFails
    BY <1>6, AsideRuns DEF BackfillFails, tables
  <1>7. CASE \E p \in ByHand : Recommend(p)
    BY <1>7, AsideRuns DEF Recommend
  <1>8. CASE UNCHANGED nightlyVars
    BY <1>8, AsideRuns DEF nightlyVars, tables
  <1> QED
    BY <1>1, <1>2, <1>3, <1>4, <1>5, <1>6, <1>7, <1>8 DEF NightlyNext

\* What a tenant is shown adds up.
LEMMA SummaryAddsUp ==
  ASSUME RunsSound, NEW company,
         \A r \in Lately(company) : Demand(r) \cap late = {}
  PROVE  LET recent == Lately(company)
             sold == SumFunctionOnSet([r \in recent |-> Units(Demand(r))], recent)
             missed == SumFunctionOnSet(
                 [r \in recent |-> Miss(Units(Demand(r)), r.forecast)], recent)
             shown == AccuracySummary(company)
         IN  /\ shown.total_actual = sold
             /\ shown.weighted_ape = Ratio(100 * missed, sold)
             /\ shown.mae = Ratio(missed, Cardinality(recent))
  <1> DEFINE recent == Lately(company)
             told == [r \in recent |-> r.actual]
             sold == [r \in recent |-> Units(Demand(r))]
             wrong == [r \in recent |-> Miss(r.actual, r.forecast)]
             missed == [r \in recent |-> Miss(Units(Demand(r)), r.forecast)]
  <1>1. recent \subseteq runs /\ IsFiniteSet(recent)
    BY FS_Subset DEF RunsSound, Lately, Recorded
  <1>2. \A r \in recent : r.actual \in Int /\ r.actual = Units(Demand(r)) /\ r.forecast \in Int
    <2> TAKE r \in recent
    <2>1. IsRun(r) /\ Outcome(r)
      BY <1>1 DEF RunsSound, AllRuns, Settled, Lately
    <2>2. Demand(r) \ late = Demand(r)
      OBVIOUS
    <2>3. Units(Demand(r)) <= r.actual /\ r.actual <= Units(Demand(r))
          /\ r.actual \in Int /\ r.forecast \in Int
      BY <2>1, <2>2 DEF Outcome, IsRun
    <2>4. Units(Demand(r)) \in Nat
      BY DemandFacts
    <2> QED
      BY <2>3, <2>4
  <1>3. /\ \A r \in recent : told[r] \in Int /\ told[r] = sold[r]
        /\ \A r \in recent : wrong[r] \in Int /\ wrong[r] = missed[r]
    BY <1>2 DEF Miss
  <1>4. /\ AccuracySummary(company).total_actual = SumFunctionOnSet(told, recent)
        /\ AccuracySummary(company).weighted_ape =
              Ratio(100 * SumFunctionOnSet(wrong, recent), SumFunctionOnSet(told, recent))
        /\ AccuracySummary(company).mae =
              Ratio(SumFunctionOnSet(wrong, recent), Cardinality(recent))
    BY DEF AccuracySummary
  <1> HIDE DEF told, sold, wrong, missed, recent
  <1>5. /\ SumFunctionOnSet(told, recent) = SumFunctionOnSet(sold, recent)
        /\ SumFunctionOnSet(wrong, recent) = SumFunctionOnSet(missed, recent)
    BY <1>1, <1>3, SumExtensional
  <1> QED
    BY <1>4, <1>5 DEF sold, missed, recent

LEMMA RunsTell == Sound /\ RunsSound => ScoresTellWhatSold
  <1> SUFFICES ASSUME Sound, RunsSound PROVE ScoresTellWhatSold
    OBVIOUS
  <1>1. ASSUME NEW r \in runs, r.actual # Unscored
        PROVE  /\ \A d \in Window(r) : d < Day(now)
               /\ Units(Demand(r) \ late) <= r.actual
               /\ r.actual <= Units(Demand(r))
    <2>1. IsRun(r) /\ Outcome(r)
      BY <1>1 DEF RunsSound, AllRuns, Settled
    <2>2. r.end = r.day + Horizon - 1 /\ r.day \in Nat /\ Horizon \in Nat /\ r.end \in Int
      BY <2>1, WindowsAssumption DEF IsRun, HorizonEnd
    <2>3. r.end < Day(now)
      BY <2>1 DEF Outcome
    <2>4. ASSUME NEW d \in Window(r) PROVE d < Day(now)
      <3>1. d \in Int /\ d <= r.end /\ r.day <= Day(now)
        BY <2>1, <2>2 DEF Window, IsRun
      <3>2. Day(now) \in Nat
        BY DayFacts DEF Sound, ClockSound
      <3> QED
        BY <2>2, <2>3, <3>1, <3>2
    <2> QED
      BY <2>1, <2>4 DEF Outcome
  <1> QED
    BY <1>1, SummaryAddsUp DEF ScoresTellWhatSold

\* For any sales, schedulers and forecasts: a forecast is scored after its
\* window, against what was sold in it, but for sales that were still open.
THEOREM ScoresTell == NightlySpec => []ScoresTellWhatSold
  <1>1. NightlyInit => Sound /\ RunsSound
    BY NightlyInitSound, InitRuns
  <1>2. Sound /\ RunsSound /\ [NightlyNext]_nightlyVars => (Sound /\ RunsSound)'
    BY StepSound, StepRuns
  <1> QED
    BY <1>1, <1>2, RunsTell, PTL DEF NightlySpec

-----------------------------------------------------------------------------
(* Whose forecast a row is.                                                *)

\* A row says what was forecast under its key, and no row of a job is there
\* before the job commits.
KeysSound ==
    /\ \A r \in AllRuns : r.by <= jobs /\ r.by >= -extras
    /\ \A q, r \in AllRuns : Key(q) = Key(r) => q.forecast = r.forecast
    /\ \A c \in Schedulers : job[c] # Resting =>
          /\ \A r \in runs \cup RowsOf(backfill) : r.by # job[c].by
          /\ \A d \in Schedulers \ {c} : \A r \in RowsOf(job[d]) : r.by # job[c].by
    /\ backfill.at = "commit" =>
          /\ \A r \in backfill.new : r.by < 0
          /\ \A r \in backfill.scored : r.by > 0 => Key(r) \in Keys(runs)

LEMMA KeyParts ==
  ASSUME NEW q, NEW r
  PROVE  Key(q) = Key(r) <=> q.pair = r.pair /\ q.day = r.day /\ q.by = r.by
  BY DEF Key

LEMMA InitKeys == NightlyInit => KeysSound
  <1> SUFFICES ASSUME NightlyInit PROVE KeysSound
    OBVIOUS
  <1>1. runs = {} /\ backfill = Resting /\ \A c \in Schedulers : job[c] = Resting
    BY DEF NightlyInit
  <1>2. JobRows = {} /\ AllRuns = {}
    BY <1>1, RestingRows DEF JobRows, AllRuns
  <1> QED
    BY <1>1, <1>2, RestingRows DEF KeysSound, Resting

\* The numbers of rows are integers.
LEMMA RunNumbers ==
  ASSUME RunsSound
  PROVE  \A r \in AllRuns : r.by \in Int /\ r.forecast \in Nat
  BY DEF RunsSound, Settled, IsRun

LEMMA AsideKeys ==
  ASSUME Sound, RunsSound, KeysSound, UNCHANGED <<runs, job, jobs>>,
         backfill' = backfill \/ backfill' = Resting,
         extras' \in Nat, extras' >= extras
  PROVE  KeysSound'
  <1>1. AllRuns' \subseteq AllRuns /\ RowsOf(backfill') \subseteq RowsOf(backfill)
    BY RestingRows DEF AllRuns, JobRows, RowsOf
  <1>2. \A r \in AllRuns' : r.by <= jobs' /\ r.by >= -extras'
    <2> TAKE r \in AllRuns'
    <2>1. r.by <= jobs /\ r.by >= -extras /\ r.by \in Int
      BY <1>1, RunNumbers DEF KeysSound
    <2> QED
      BY <2>1 DEF Sound, ClockSound
  <1>3. \A c \in Schedulers : RowsOf(job'[c]) = RowsOf(job[c])
    BY DEF RowsOf
  <1>4. \A c \in Schedulers : job'[c] # Resting =>
           /\ \A r \in runs' \cup RowsOf(backfill') : r.by # job'[c].by
           /\ \A d \in Schedulers \ {c} : \A r \in RowsOf(job'[d]) : r.by # job'[c].by
    BY <1>1, <1>3 DEF KeysSound
  <1>5. backfill'.at = "commit" =>
          /\ \A r \in backfill'.new : r.by < 0
          /\ \A r \in backfill'.scored : r.by > 0 => Key(r) \in Keys(runs')
    BY DEF KeysSound, Resting
  <1> QED
    BY <1>1, <1>2, <1>4, <1>5 DEF KeysSound

LEMMA RowlessKeys ==
  ASSUME Sound, RunsSound, KeysSound, NEW c \in Schedulers, job[c] # Resting, NEW j,
         j.at # "commit", j = Resting \/ j.by = job[c].by,
         job' = [job EXCEPT ![c] = j], UNCHANGED <<runs, backfill, jobs>>,
         extras' \in Nat, extras' >= extras
  PROVE  KeysSound'
  <1>1. RowsOf(j) = {}
    BY DEF RowsOf
  <1>2. /\ job'[c] = j /\ \A d \in Schedulers \ {c} : job'[d] = job[d]
        /\ JobRows' \subseteq JobRows
    BY <1>1, JobRowsMove
  <1>3. AllRuns' \subseteq AllRuns
    BY <1>2 DEF AllRuns, RowsOf
  <1>4. \A r \in AllRuns' : r.by <= jobs' /\ r.by >= -extras'
    <2> TAKE r \in AllRuns'
    <2>1. r.by <= jobs /\ r.by >= -extras /\ r.by \in Int
      BY <1>3, RunNumbers DEF KeysSound
    <2> QED
      BY <2>1 DEF Sound, ClockSound
  <1>5. \A d \in Schedulers : /\ job'[d] # Resting => job[d] # Resting /\ job'[d].by = job[d].by
                              /\ RowsOf(job'[d]) \subseteq RowsOf(job[d])
    BY <1>1, <1>2
  <1>6. \A d \in Schedulers : job'[d] # Resting =>
           /\ \A r \in runs' \cup RowsOf(backfill') : r.by # job'[d].by
           /\ \A e \in Schedulers \ {d} : \A r \in RowsOf(job'[e]) : r.by # job'[d].by
    BY <1>5 DEF KeysSound
  <1> QED
    BY <1>3, <1>4, <1>6 DEF KeysSound

LEMMA FireKeys ==
  ASSUME Sound, RunsSound, KeysSound, NEW c \in Schedulers, Fire(c)
  PROVE  KeysSound'
  <1> DEFINE j == [at |-> "load", by |-> jobs + 1, rows |-> Extract]
  <1>1. /\ job' = [job EXCEPT ![c] = j] /\ UNCHANGED <<runs, backfill, extras>>
        /\ jobs' = jobs + 1 /\ jobs \in Nat /\ j.by = jobs + 1 /\ j.at # "commit"
    BY DEF Fire, tables, Sound, ClockSound
  <1> HIDE DEF j
  <1>2. RowsOf(j) = {}
    BY <1>1 DEF RowsOf
  <1>3. /\ job'[c] = j /\ \A d \in Schedulers \ {c} : job'[d] = job[d]
        /\ JobRows' \subseteq JobRows
    BY <1>1, <1>2, JobRowsMove
  <1>4. AllRuns' \subseteq AllRuns
    BY <1>1, <1>3 DEF AllRuns, RowsOf
  <1>5. \A r \in AllRuns : r.by <= jobs /\ r.by >= -extras /\ r.by \in Int
    BY RunNumbers DEF KeysSound
  <1>6. \A d \in Schedulers : RowsOf(job'[d]) \subseteq RowsOf(job[d])
                             /\ RowsOf(job[d]) \subseteq AllRuns
    BY <1>2, <1>3 DEF AllRuns, JobRows
  <1>7. ASSUME NEW d \in Schedulers, job'[d] # Resting
        PROVE  /\ \A r \in runs' \cup RowsOf(backfill') : r.by # job'[d].by
               /\ \A e \in Schedulers \ {d} : \A r \in RowsOf(job'[e]) : r.by # job'[d].by
    <2>1. CASE d = c
      BY <1>1, <1>3, <1>5, <1>6, <2>1 DEF AllRuns
    <2>2. CASE d # c
      BY <1>1, <1>3, <1>6, <1>7, <2>2 DEF KeysSound
    <2> QED
      BY <2>1, <2>2
  <1>8. \A r \in AllRuns' : r.by <= jobs' /\ r.by >= -extras'
    BY <1>1, <1>4, <1>5
  <1> QED
    BY <1>1, <1>4, <1>7, <1>8 DEF KeysSound

\* Rows derived from those there are, or new under keys of their own.
LEMMA DerivedKeys ==
  ASSUME KeysSound, NEW new, NEW more,
         \A q, r \in new : Key(q) = Key(r) => q.forecast = r.forecast,
         \A q \in new, r \in AllRuns : Key(q) # Key(r),
         \A r \in more : \E q \in AllRuns \cup new : Key(q) = Key(r) /\ q.forecast = r.forecast
  PROVE  \A q, r \in AllRuns \cup new \cup more : Key(q) = Key(r) => q.forecast = r.forecast
  <1>1. \A q, r \in AllRuns \cup new : Key(q) = Key(r) => q.forecast = r.forecast
    <2> SUFFICES ASSUME NEW q \in AllRuns \cup new, NEW r \in AllRuns \cup new, Key(q) = Key(r)
                 PROVE  q.forecast = r.forecast
      OBVIOUS
    <2>1. CASE q \in AllRuns /\ r \in AllRuns
      BY <2>1 DEF KeysSound
    <2>2. CASE q \in new \/ r \in new
      BY <2>2
    <2> QED
      BY <2>1, <2>2
  <1>2. \A r \in AllRuns \cup new \cup more :
           \E q \in AllRuns \cup new : Key(q) = Key(r) /\ q.forecast = r.forecast
    OBVIOUS
  <1> QED
    BY <1>1, <1>2

LEMMA RecordKeys ==
  ASSUME Sound, RunsSound, KeysSound, NEW c \in Schedulers, RecordAndScore(c)
  PROVE  KeysSound'
  <1> DEFINE j == RecordedBy(c)
  <1>1. /\ job[c] # Resting /\ job[c].at = "record" /\ IsFrame(job[c].frame)
        /\ job' = [job EXCEPT ![c] = j] /\ j.at = "commit" /\ j.by = job[c].by
        /\ j.new = ForecastRuns(job[c].frame, Day(now), job[c].by)
        /\ j.scored = Scored(runs \cup j.new)
        /\ \A r \in runs \cup j.new : IsRun(r)
    BY RecordFacts
  <1>2. UNCHANGED <<runs, backfill, jobs, extras>>
    BY DEF RecordAndScore, tables, counters
  <1> HIDE DEF j
  <1>3. /\ job'[c] = j /\ \A d \in Schedulers \ {c} : job'[d] = job[d]
        /\ JobRows' \subseteq JobRows \cup RowsOf(j)
    BY <1>1, JobRowsMove
  <1>4. RowsOf(j) = j.new \cup j.scored
    BY <1>1 DEF RowsOf
  <1>5. AllRuns' \subseteq AllRuns \cup j.new \cup j.scored
    BY <1>2, <1>3, <1>4 DEF AllRuns, RowsOf
  <1>6. \A r \in j.new : r.by = job[c].by /\ r.forecast = job[c].frame[r.pair]
    <2>1. Day(now) \in Nat /\ Day(now) <= Day(now) /\ job[c].by \in Int
      BY <1>1, DayFacts DEF Sound, ClockSound, JobsSound
    <2> QED
      BY <1>1, <2>1, RecordedSettled
  <1>7. \A r \in AllRuns : r.by # job[c].by
    <2>1. RowsOf(job[c]) = {}
      BY <1>1 DEF RowsOf
    <2> QED
      BY <1>1, <2>1 DEF AllRuns, JobRows, KeysSound
  <1>8. \A r \in j.scored : \E q \in runs \cup j.new : Key(q) = Key(r) /\ q.forecast = r.forecast
    BY <1>1, ScoredSettled
  <1>9. \A q, r \in AllRuns' : Key(q) = Key(r) => q.forecast = r.forecast
    <2>1. \A q, r \in j.new : Key(q) = Key(r) => q.forecast = r.forecast
      BY <1>6, KeyParts
    <2>2. \A q \in j.new, r \in AllRuns : Key(q) # Key(r)
      BY <1>6, <1>7, KeyParts
    <2>3. \A r \in j.scored : \E q \in AllRuns \cup j.new :
             Key(q) = Key(r) /\ q.forecast = r.forecast
      BY <1>8 DEF AllRuns
    <2>4. \A q, r \in AllRuns \cup j.new \cup j.scored : Key(q) = Key(r) => q.forecast = r.forecast
      BY <2>1, <2>2, <2>3, DerivedKeys
    <2> QED
      BY <1>5, <2>4
  <1>10. \A r \in j.new \cup j.scored : \E q \in runs \cup j.new : q.by = r.by
    BY <1>8, KeyParts
  <1>11. job[c].by \in 1 .. jobs /\ jobs \in Nat /\ extras \in Nat
    BY <1>1 DEF Sound, JobsSound, ClockSound
  <1>12. \A r \in runs \cup j.new : r.by <= jobs /\ r.by >= -extras
    BY <1>6, <1>11 DEF KeysSound, AllRuns
  <1>13. \A r \in AllRuns' : r.by <= jobs' /\ r.by >= -extras'
    <2> TAKE r \in AllRuns'
    <2>1. CASE r \in AllRuns
      BY <1>2, <2>1 DEF KeysSound
    <2>2. CASE r \in j.new \cup j.scored
      BY <1>2, <1>10, <1>12, <2>2
    <2> QED
      BY <1>5, <2>1, <2>2
  <1>14. ASSUME NEW d \in Schedulers, job'[d] # Resting
         PROVE  /\ \A r \in runs' \cup RowsOf(backfill') : r.by # job'[d].by
                /\ \A e \in Schedulers \ {d} : \A r \in RowsOf(job'[e]) : r.by # job'[d].by
    <2>1. CASE d = c
      BY <1>1, <1>2, <1>3, <2>1 DEF KeysSound
    <2>2. CASE d # c
      <3>1. job'[d] = job[d] /\ job[d] # Resting /\ job[d].by # job[c].by
        BY <1>1, <1>3, <1>14, <2>2 DEF Sound, JobsSound
      <3>2. \A r \in runs \cup j.new : r.by # job[d].by
        BY <1>6, <3>1 DEF KeysSound
      <3>3. \A r \in RowsOf(j) : r.by # job'[d].by
        BY <1>4, <1>10, <3>1, <3>2
      <3> QED
        BY <1>2, <1>3, <3>1, <3>3 DEF KeysSound
    <2> QED
      BY <2>1, <2>2
  <1> QED
    BY <1>2, <1>9, <1>13, <1>14 DEF KeysSound

\* UPDATE takes no key away.
LEMMA UpdateKeepsKeys ==
  ASSUME NEW R, NEW scored
  PROVE  Keys(R) \subseteq Keys(Updated(R, scored))
  <1> SUFFICES ASSUME NEW r \in R PROVE Key(r) \in Keys(Updated(R, scored))
    BY DEF Keys
  <1>1. CASE Key(r) \in Keys(scored)
    BY <1>1 DEF Keys, Updated
  <1>2. CASE Key(r) \notin Keys(scored)
    BY <1>2 DEF Keys, Updated
  <1> QED
    BY <1>1, <1>2

LEMMA CommitKeys ==
  ASSUME Sound, RunsSound, KeysSound, NEW c \in Schedulers, CommitJob(c)
  PROVE  KeysSound'
  <1>1. /\ job[c].at = "commit" /\ job' = [job EXCEPT ![c] = Resting]
        /\ runs' = Updated(runs \cup job[c].new, job[c].scored)
        /\ UNCHANGED <<backfill, jobs, extras>>
    BY DEF CommitJob, At, counters
  <1>2. /\ job'[c] = Resting /\ \A d \in Schedulers \ {c} : job'[d] = job[d]
        /\ JobRows' \subseteq JobRows
    BY <1>1, JobRowsMove, RestingRows
  <1>3. runs' \subseteq runs \cup RowsOf(job[c]) /\ RowsOf(job[c]) \subseteq JobRows
    BY <1>1 DEF Updated, RowsOf, JobRows
  <1>4. AllRuns' \subseteq AllRuns
    BY <1>1, <1>2, <1>3 DEF AllRuns, RowsOf
  <1>5. Keys(runs) \subseteq Keys(runs')
    <2>1. Keys(runs) \subseteq Keys(runs \cup job[c].new)
      BY DEF Keys
    <2> QED
      BY <1>1, <2>1, UpdateKeepsKeys
  <1>6. ASSUME NEW d \in Schedulers, job'[d] # Resting
        PROVE  /\ \A r \in runs' \cup RowsOf(backfill') : r.by # job'[d].by
               /\ \A e \in Schedulers \ {d} : \A r \in RowsOf(job'[e]) : r.by # job'[d].by
    <2>1. d # c /\ job'[d] = job[d] /\ job[d] # Resting
      BY <1>2, <1>6
    <2>2. \A r \in runs \cup RowsOf(backfill) \cup RowsOf(job[c]) : r.by # job[d].by
      BY <2>1 DEF KeysSound
    <2>3. \A e \in Schedulers : RowsOf(job'[e]) \subseteq RowsOf(job[e])
      BY <1>2, RestingRows
    <2>4. \A e \in Schedulers \ {d} : \A r \in RowsOf(job'[e]) : r.by # job'[d].by
      BY <2>1, <2>3 DEF KeysSound
    <2> QED
      BY <1>1, <1>3, <2>1, <2>2, <2>4
  <1> QED
    BY <1>1, <1>4, <1>5, <1>6 DEF KeysSound

\* Two weeks of a backfill end on different days.
LEMMA WeeksApart ==
  ASSUME Sound, NEW k \in Reached, NEW m \in Reached, Day(AsOf(k)) = Day(AsOf(m))
  PROVE  AsOf(k) = AsOf(m)
  <1>1. k \in Nat /\ m \in Nat /\ Horizon \in Nat /\ now \in Nat
    BY WindowsAssumption DEF Reached, Sound, ClockSound
  <1>2. \A x, y \in Nat : x * y \in Nat /\ 2 * x * y = 2 * (x * y)
    OBVIOUS
  <1>3. \A n, a, b \in Nat : (n - 2 * a) \div 2 = (n - 2 * b) \div 2 => a = b
    OBVIOUS
  <1> DEFINE a == Horizon * k
             b == Horizon * m
  <1>4. a \in Nat /\ b \in Nat /\ AsOf(k) = now - 2 * a /\ AsOf(m) = now - 2 * b
    BY <1>1, <1>2 DEF AsOf
  <1> HIDE DEF a, b
  <1> QED
    BY <1>1, <1>3, <1>4 DEF Day

LEMMA StartKeys ==
  ASSUME Sound, RunsSound, KeysSound, NEW replace \in BOOLEAN, StartBackfill(replace)
  PROVE  KeysSound'
  <1> DEFINE found == Kept(replace) \cup Backfilled
             scored == Scored(found)
  <1>1. /\ backfill' = [at |-> "commit", new |-> Backfilled,
                         deleted |-> IF replace THEN Keys(runs) ELSE {},
                         scored |-> scored]
        /\ extras' = extras + 1 /\ extras \in Nat /\ jobs \in Nat
        /\ UNCHANGED <<runs, job, jobs>>
        /\ \A r \in found : IsRun(r)
    BY StartFacts DEF Sound, ClockSound
  <1>2. /\ backfill'.at = "commit" /\ backfill'.new = Backfilled
        /\ backfill'.scored = scored
    BY <1>1
  <1>3. \A r \in scored : \E q \in found : Key(q) = Key(r) /\ q.forecast = r.forecast
    BY <1>1, ScoredSettled
  <1> HIDE DEF scored
  <1>4. RowsOf(backfill') = Backfilled \cup scored
    BY <1>2 DEF RowsOf
  <1>5. AllRuns' \subseteq AllRuns \cup Backfilled \cup scored
    BY <1>1, <1>4 DEF AllRuns, JobRows, RowsOf
  <1>6. \A r \in Backfilled : r.by = -(extras + 1)
    BY BackfilledSettled
  <1>7. Kept(replace) \subseteq runs /\ runs \subseteq AllRuns
    BY DEF Kept, AllRuns
  <1>8. \A r \in AllRuns : r.by <= jobs /\ r.by >= -extras /\ r.by \in Int
    BY RunNumbers DEF KeysSound
  <1>9. \A q, r \in Backfilled : Key(q) = Key(r) => q.forecast = r.forecast
    <2> SUFFICES ASSUME NEW q \in Backfilled, NEW r \in Backfilled, Key(q) = Key(r)
                 PROVE  q.forecast = r.forecast
      OBVIOUS
    <2>1. PICK k \in Reached : q \in WeekRuns(k)
      BY DEF Backfilled
    <2>2. PICK m \in Reached : r \in WeekRuns(m)
      BY DEF Backfilled
    <2>3. /\ q.day = Day(AsOf(k)) /\ q.forecast = DemandForecast(lake, AsOf(k))[q.pair]
          /\ r.day = Day(AsOf(m)) /\ r.forecast = DemandForecast(lake, AsOf(m))[r.pair]
          /\ q.day = r.day /\ q.pair = r.pair
      BY <2>1, <2>2, WeeksSettled, KeyParts
    <2>4. AsOf(k) = AsOf(m)
      BY <2>3, WeeksApart
    <2> QED
      BY <2>3, <2>4
  <1>10. \A q, r \in AllRuns' : Key(q) = Key(r) => q.forecast = r.forecast
    <2>1. \A q \in Backfilled, r \in AllRuns : Key(q) # Key(r)
      <3> TAKE q \in Backfilled, r \in AllRuns
      <3>1. q.by # r.by
        BY <1>1, <1>6, <1>8
      <3> QED
        BY <3>1, KeyParts
    <2>2. \A r \in scored : \E q \in AllRuns \cup Backfilled :
             Key(q) = Key(r) /\ q.forecast = r.forecast
      BY <1>3, <1>7
    <2>3. \A q, r \in AllRuns \cup Backfilled \cup scored :
             Key(q) = Key(r) => q.forecast = r.forecast
      BY <1>9, <2>1, <2>2, DerivedKeys
    <2> QED
      BY <1>5, <2>3
  <1>11. \A r \in Backfilled \cup scored : \E q \in found : q.by = r.by
    BY <1>3, KeyParts
  <1>12. \A r \in AllRuns \cup Backfilled : r.by <= jobs /\ r.by >= -(extras + 1)
    <2> TAKE r \in AllRuns \cup Backfilled
    <2>1. CASE r \in AllRuns
      BY <1>1, <1>8, <2>1
    <2>2. CASE r \in Backfilled
      BY <1>1, <1>6, <2>2
    <2> QED
      BY <2>1, <2>2
  <1>13. \A r \in AllRuns' : r.by <= jobs' /\ r.by >= -extras'
    BY <1>1, <1>5, <1>7, <1>11, <1>12
  <1>14. ASSUME NEW d \in Schedulers, job'[d] # Resting
         PROVE  /\ \A r \in runs' \cup RowsOf(backfill') : r.by # job'[d].by
                /\ \A e \in Schedulers \ {d} : \A r \in RowsOf(job'[e]) : r.by # job'[d].by
    <2>1. job[d].by \in 1 .. jobs /\ job[d] # Resting
      BY <1>1, <1>14 DEF Sound, JobsSound
    <2>2. \A r \in Backfilled : r.by # job[d].by
      BY <1>1, <1>6, <2>1
    <2>3. \A r \in found : r.by # job[d].by
      BY <1>7, <2>1, <2>2 DEF KeysSound
    <2>4. \A r \in runs' \cup RowsOf(backfill') : r.by # job'[d].by
      BY <1>1, <1>4, <1>11, <2>1, <2>3 DEF KeysSound
    <2>5. \A e \in Schedulers : RowsOf(job'[e]) = RowsOf(job[e])
      BY <1>1 DEF RowsOf
    <2>6. \A e \in Schedulers \ {d} : \A r \in RowsOf(job'[e]) : r.by # job'[d].by
      BY <1>1, <2>1, <2>5 DEF KeysSound
    <2> QED
      BY <2>4, <2>6
  <1>15. \A r \in backfill'.new : r.by < 0
    BY <1>1, <1>2, <1>6
  <1>16. ASSUME NEW r \in backfill'.scored, r.by > 0
         PROVE  Key(r) \in Keys(runs')
    <2>1. PICK q \in found : Key(q) = Key(r)
      BY <1>2, <1>3
    <2>2. q.by = r.by
      BY <2>1, KeyParts
    <2>3. q \notin Backfilled
      BY <1>1, <1>6, <1>16, <2>2
    <2>4. q \in runs'
      BY <1>1, <1>7, <2>3
    <2> QED
      BY <2>1, <2>4 DEF Keys
  <1> HIDE DEF found
  <1> QED
    BY <1>2, <1>10, <1>13, <1>14, <1>15, <1>16 DEF KeysSound

LEMMA CommitBackfillKeys == RunsSound /\ KeysSound /\ CommitBackfill => KeysSound'
  <1> SUFFICES ASSUME RunsSound, KeysSound, CommitBackfill PROVE KeysSound'
    OBVIOUS
  <1>1. UNCHANGED <<job, jobs, extras>> /\ backfill.at = "commit" /\ backfill' = Resting
    BY DEF CommitBackfill, counters
  <1>2. runs' \subseteq runs \cup RowsOf(backfill)
    BY <1>1 DEF CommitBackfill, Updated, RowsOf
  <1>3. RowsOf(backfill') = {} /\ JobRows' = JobRows
        /\ \A d \in Schedulers : RowsOf(job'[d]) = RowsOf(job[d])
    BY <1>1, RestingRows DEF JobRows, RowsOf
  <1>4. AllRuns' \subseteq AllRuns
    BY <1>2, <1>3 DEF AllRuns
  <1>5. \A d \in Schedulers : job'[d] # Resting =>
           /\ \A r \in runs' \cup RowsOf(backfill') : r.by # job'[d].by
           /\ \A e \in Schedulers \ {d} : \A r \in RowsOf(job'[e]) : r.by # job'[d].by
    BY <1>1, <1>2, <1>3 DEF KeysSound
  <1>6. backfill'.at # "commit"
    BY <1>1 DEF Resting
  <1> QED
    BY <1>1, <1>4, <1>5, <1>6 DEF KeysSound

LEMMA StepKeys ==
  ASSUME Sound, RunsSound, KeysSound, [NightlyNext]_nightlyVars
  PROVE  KeysSound'
  <1>0. extras \in Nat
    BY DEF Sound, ClockSound
  <1>1. CASE Tick
    BY <1>0, <1>1, AsideKeys DEF Tick, tables, counters
  <1>2. CASE \E s \in Sales : WriteSale(s) \/ CommitSale(s)
    BY <1>0, <1>2, AsideKeys DEF WriteSale, CommitSale, tables, counters
  <1>3. CASE \E c \in Schedulers : Fire(c) \/ RecordAndScore(c) \/ CommitJob(c)
    BY <1>3, FireKeys, RecordKeys, CommitKeys
  <1>4. ASSUME NEW c \in Schedulers,
               \/ Load(c) \/ Classify(c) \/ Forecast(c) \/ PersistClasses(c)
               \/ PersistRecommendations(c) \/ ScoredRowGone(c) \/ JobFails(c)
        PROVE  KeysSound'
    <2>1. job[c] # Resting
      BY <1>4, AtWork DEF Load, Classify, Forecast, PersistClasses, PersistRecommendations,
                          ScoredRowGone, JobFails, Steps, At, Resting
    <2>2. UNCHANGED <<runs, backfill, jobs>> /\ extras' \in Nat /\ extras' >= extras
      BY <1>0, <1>4 DEF Load, Classify, Forecast, PersistClasses, PersistRecommendations,
                        ScoredRowGone, JobFails, Extra, tables, counters
    <2>3. ASSUME NEW j, j.at # "commit", j = Resting \/ j.by = job[c].by,
                 job' = [job EXCEPT ![c] = j]
          PROVE  KeysSound'
      BY <2>1, <2>2, <2>3, RowlessKeys
    <2>4. CASE Load(c)
      <3> DEFINE j == [at |-> "classify", by |-> job[c].by]
      <3>1. j.at # "commit" /\ j.by = job[c].by /\ job' = [job EXCEPT ![c] = j]
        BY <2>4 DEF Load
      <3> QED
        BY <2>3, <3>1
    <2>5. CASE Classify(c)
      <3> DEFINE j == [at |-> "forecast", by |-> job[c].by, ranked |-> lake]
      <3>1. j.at # "commit" /\ j.by = job[c].by /\ job' = [job EXCEPT ![c] = j]
        BY <2>5 DEF Classify
      <3> QED
        BY <2>3, <3>1
    <2>6. CASE Forecast(c)
      <3> DEFINE j == [at |-> "classes", by |-> job[c].by, ranked |-> job[c].ranked,
                       frame |-> DemandForecast(lake, now)]
      <3>1. j.at # "commit" /\ j.by = job[c].by /\ job' = [job EXCEPT ![c] = j]
        BY <2>6 DEF Forecast
      <3> QED
        BY <2>3, <3>1
    <2>7. CASE PersistClasses(c)
      <3> DEFINE j == [job[c] EXCEPT !.at = "recommend"]
      <3>1. DOMAIN job[c] = {"at", "by", "ranked", "frame"}
        BY <2>1, <2>7 DEF Sound, JobsSound, IsJob, PersistClasses, At
      <3>2. j.at = "recommend" /\ j.by = job[c].by /\ job' = [job EXCEPT ![c] = j]
        BY <2>7, <3>1 DEF PersistClasses, Sound, JobsSound
      <3> HIDE DEF j
      <3> QED
        BY <2>3, <3>2
    <2>8. CASE PersistRecommendations(c)
      <3> DEFINE j == SuggestedBy(c)
      <3>1. j.at # "commit" /\ j.by = job[c].by /\ job' = [job EXCEPT ![c] = j]
        BY <2>8 DEF PersistRecommendations, SuggestedBy
      <3> QED
        BY <2>3, <3>1
    <2>9. CASE ScoredRowGone(c) \/ JobFails(c)
      <3>1. Resting.at # "commit" /\ job' = [job EXCEPT ![c] = Resting]
        BY <2>9 DEF ScoredRowGone, JobFails, Resting
      <3> QED
        BY <2>3, <3>1
    <2> QED
      BY <1>4, <2>4, <2>5, <2>6, <2>7, <2>8, <2>9
  <1>5. CASE \E replace \in BOOLEAN : StartBackfill(replace)
    BY <1>5, StartKeys
  <1>6. CASE CommitBackfill
    BY <1>6, CommitBackfillKeys
  <1>7. CASE BackfillFails
    BY <1>0, <1>7, AsideKeys DEF BackfillFails, tables, counters
  <1>8. CASE \E p \in ByHand : Recommend(p)
    BY <1>0, <1>8, AsideKeys DEF Recommend, Extra
  <1>9. CASE UNCHANGED nightlyVars
    BY <1>0, <1>9, AsideKeys DEF nightlyVars, tables, counters
  <1> QED
    BY <1>1, <1>2, <1>3, <1>4, <1>5, <1>6, <1>7, <1>8, <1>9 DEF NightlyNext, JobStep

-----------------------------------------------------------------------------
(* What to reorder.                                                        *)

\* The pairs whose suggestions a job replaces, in the transaction that records
\* a forecast of them.
Forecasted(j) == IF j.at = "record" THEN DOMAIN j.frame ELSE {r.pair : r \in j.new}
Fits(o, j) == IF j.at = "record" THEN o.quantity <= j.frame[o.pair]
              ELSE \A r \in j.new : r.pair = o.pair => o.quantity <= r.forecast

Replaces(j, R, day) ==
    /\ j.deleted = {o \in R : o.source = Pipeline /\ o.pair \in Forecasted(j)}
    /\ \A o \in j.added : /\ o.source = Pipeline /\ o.by = j.by
                          /\ o.day = day
                          /\ o.pair \in Forecasted(j) /\ Fits(o, j)
    /\ \A o, q \in j.added : o.pair = q.pair => o = q
    /\ j.at = "commit" => \A r \in j.new : r.by = j.by

Follows(o, r) ==
    o.source = Pipeline /\ r.pair = o.pair /\ r.by > 0 =>
       IF r.by = o.by THEN o.quantity <= r.forecast ELSE r.day <= o.day

Manual == {o \in recs : o.source = "manual"}

\* No suggestion is from a job that is still at work; a job is about to replace
\* all of the pairs it forecasts.
RecsSound ==
    /\ \A o \in recs :
          /\ o.day \in Nat /\ o.day <= Day(now)
          /\ o.source = "manual" => o.by \in 1 .. manuals
          /\ o.source = Pipeline =>
                /\ o.by \in 1 .. jobs
                /\ \A c \in Schedulers : job[c] # Resting => o.by # job[c].by
    /\ IsFiniteSet(Manual) /\ Cardinality(Manual) = manuals
    /\ \A o, q \in recs :
          o.source = Pipeline /\ q.source = Pipeline /\ o.pair = q.pair => o = q
    /\ \A o \in recs, r \in runs : Follows(o, r)
    /\ \A c \in Schedulers : job[c].at \in {"record", "commit"} =>
          Replaces(job[c], recs, Day(now))

LEMMA InitRecs == NightlyInit => RecsSound
  <1> SUFFICES ASSUME NightlyInit PROVE RecsSound
    OBVIOUS
  <1>1. recs = {} /\ runs = {} /\ manuals = 0 /\ \A c \in Schedulers : job[c] = Resting
    BY DEF NightlyInit
  <1>2. Manual = {}
    BY <1>1 DEF Manual
  <1> QED
    BY <1>1, <1>2, FS_EmptySet DEF RecsSound, Resting

\* Every step that leaves the recommendations and the forecasts as they are.
LEMMA RecsFollow ==
  ASSUME Sound, RecsSound, UNCHANGED <<recs, runs, manuals>>,
         Day(now) <= Day(now'), Day(now') \in Nat, jobs' \in Nat, jobs' >= jobs,
         \A c \in Schedulers : job'[c] # Resting =>
            \/ job[c] # Resting /\ job'[c].by = job[c].by
            \/ job'[c].by = jobs + 1,
         \A c \in Schedulers : job'[c].at \in {"record", "commit"} =>
            Replaces(job'[c], recs, Day(now'))
  PROVE  RecsSound'
  <1>1. jobs \in Nat /\ Day(now) \in Nat
    BY DayFacts DEF Sound, ClockSound
  <1>2. ASSUME NEW o \in recs
        PROVE  /\ o.day \in Nat /\ o.day <= Day(now')
               /\ o.source = "manual" => o.by \in 1 .. manuals
               /\ o.source = Pipeline =>
                     /\ o.by \in 1 .. jobs'
                     /\ \A c \in Schedulers : job'[c] # Resting => o.by # job'[c].by
    <2>1. /\ o.day \in Nat /\ o.day <= Day(now)
          /\ o.source = "manual" => o.by \in 1 .. manuals
          /\ o.source = Pipeline =>
                /\ o.by \in 1 .. jobs
                /\ \A c \in Schedulers : job[c] # Resting => o.by # job[c].by
      BY DEF RecsSound
    <2> QED
      BY <1>1, <2>1
  <1>3. Manual' = Manual
    BY DEF Manual
  <1>4. Day(now)' = Day(now')
    BY DEF Day
  <1>5. IsFiniteSet(Manual') /\ Cardinality(Manual') = manuals'
    BY <1>3 DEF RecsSound
  <1>6. \A o \in recs', r \in runs' : Follows(o, r)'
    BY DEF RecsSound, Follows
  <1>7. \A o, q \in recs' :
          o.source = Pipeline /\ q.source = Pipeline /\ o.pair = q.pair => o = q
    BY DEF RecsSound
  <1> QED
    BY <1>2, <1>4, <1>5, <1>6, <1>7 DEF RecsSound

\* Nobody touches the jobs, or the tables they write.
LEMMA AsideRecs ==
  ASSUME Sound, RecsSound, UNCHANGED <<recs, runs, manuals, job, jobs, now>>
  PROVE  RecsSound'
  <1>1. jobs \in Nat /\ Day(now) \in Nat /\ Day(now') = Day(now)
    BY DayFacts DEF Sound, ClockSound
  <1>2. \A c \in Schedulers : job'[c].at \in {"record", "commit"} =>
            Replaces(job'[c], recs, Day(now'))
    BY <1>1 DEF RecsSound
  <1> QED
    BY <1>1, <1>2, RecsFollow

\* The hour of the job ends before the next day.
LEMMA TickRecs == Sound /\ RecsSound /\ Tick => RecsSound'
  <1> SUFFICES ASSUME Sound, RecsSound, Tick PROVE RecsSound'
    OBVIOUS
  <1>1. /\ now \in Nat /\ now' = now + 1 /\ UNCHANGED <<recs, runs, manuals, job, jobs>>
        /\ now % 2 = 1 => \A c \in Schedulers : job[c] = Resting
        /\ jobs \in Nat
    BY DEF Tick, tables, counters, Sound, ClockSound
  <1>2. Day(now) \in Nat /\ Day(now') \in Nat /\ Day(now) <= Day(now')
    BY <1>1, DayFacts
  <1>3. now % 2 # 1 => Day(now') = Day(now)
    BY <1>1 DEF Day
  <1>4. \A c \in Schedulers : job'[c].at \in {"record", "commit"} =>
            Replaces(job'[c], recs, Day(now'))
    BY <1>1, <1>3 DEF RecsSound, Resting
  <1> QED
    BY <1>1, <1>2, <1>4, RecsFollow

\* One job moves to a step of which Replaces says what it says.
LEMMA JobMovesRecs ==
  ASSUME Sound, RecsSound, NEW c \in Schedulers, NEW j, job' = [job EXCEPT ![c] = j],
         UNCHANGED <<recs, runs, manuals, now>>,
         \/ j = Resting /\ jobs' = jobs
         \/ job[c] # Resting /\ j.by = job[c].by /\ jobs' = jobs
         \/ j.by = jobs + 1 /\ jobs' = jobs + 1,
         j.at \in {"record", "commit"} => Replaces(j, recs, Day(now))
  PROVE  RecsSound'
  <1>1. jobs \in Nat /\ Day(now) \in Nat /\ Day(now') = Day(now)
    BY DayFacts DEF Sound, ClockSound
  <1>2. job'[c] = j /\ \A d \in Schedulers \ {c} : job'[d] = job[d]
    BY DEF Sound, JobsSound
  <1>3. \A d \in Schedulers : job'[d].at \in {"record", "commit"} =>
            Replaces(job'[d], recs, Day(now'))
    BY <1>1, <1>2 DEF RecsSound
  <1>4. \A d \in Schedulers : job'[d] # Resting =>
            \/ job[d] # Resting /\ job'[d].by = job[d].by
            \/ job'[d].by = jobs + 1
    BY <1>2
  <1>5. Day(now) <= Day(now') /\ Day(now') \in Nat /\ jobs' \in Nat /\ jobs' >= jobs
    BY <1>1
  <1> QED
    BY <1>3, <1>4, <1>5, RecsFollow

\* There is stock at hand, never less than none: nobody is told to order more
\* than is forecast.
LEMMA SuggestedReplaces ==
  ASSUME Sound, NEW c \in Schedulers, PersistRecommendations(c)
  PROVE  /\ job' = [job EXCEPT ![c] = SuggestedBy(c)] /\ job[c] # Resting
         /\ SuggestedBy(c).by = job[c].by
         /\ Replaces(SuggestedBy(c), recs, Day(now))
  <1> DEFINE frame == job[c].frame
             short(p) == frame[p] - OnHand(p)
             j == SuggestedBy(c)
  <1>1. job' = [job EXCEPT ![c] = j] /\ job[c] # Resting /\ job[c].at = "recommend"
    BY AtWork DEF PersistRecommendations, SuggestedBy, Steps, At
  <1>2. IsFrame(frame)
    BY <1>1 DEF Sound, JobsSound, IsJob
  <1>3. /\ j.at = "record" /\ j.by = job[c].by /\ j.frame = frame
        /\ j.deleted = {r \in recs : r.source = Pipeline /\ r.pair \in DOMAIN frame}
        /\ j.added = {[pair |-> p, source |-> Pipeline, quantity |-> short(p),
                       day |-> Day(now), by |-> job[c].by] :
                         p \in {q \in DOMAIN frame : short(q) > 0}}
    BY DEF SuggestedBy
  <1>4. \A p \in DOMAIN frame : short(p) <= frame[p]
    <2> TAKE p \in DOMAIN frame
    <2>1. p \in Pairs /\ frame[p] \in Nat
      BY <1>2 DEF IsFrame
    <2>2. OnHand(p) \in Nat
      BY <2>1, StockCovers
    <2> QED
      BY <2>1, <2>2
  <1> HIDE DEF j, frame, short
  <1>5. Forecasted(j) = DOMAIN frame
    BY <1>3 DEF Forecasted
  <1>6. ASSUME NEW o \in j.added
        PROVE  /\ o.source = Pipeline /\ o.by = j.by /\ o.day = Day(now)
               /\ o.pair \in Forecasted(j) /\ Fits(o, j)
               /\ o = [pair |-> o.pair, source |-> Pipeline, quantity |-> short(o.pair),
                       day |-> Day(now), by |-> job[c].by]
    BY <1>3, <1>4, <1>5 DEF Fits
  <1>7. \A o, q \in j.added : o.pair = q.pair => o = q
    BY <1>6
  <1>8. Replaces(j, recs, Day(now))
    BY <1>3, <1>5, <1>6, <1>7 DEF Replaces
  <1> QED
    BY <1>1, <1>3, <1>8 DEF j

LEMMA RecordedReplaces ==
  ASSUME Sound, RunsSound, RecsSound, NEW c \in Schedulers, RecordAndScore(c)
  PROVE  Replaces(RecordedBy(c), recs, Day(now))
  <1> DEFINE j == RecordedBy(c)
             frame == job[c].frame
  <1>1. /\ job[c] # Resting /\ job[c].at = "record" /\ IsFrame(frame)
        /\ j.at = "commit" /\ j.by = job[c].by
        /\ j.deleted = job[c].deleted /\ j.added = job[c].added
        /\ j.new = ForecastRuns(frame, Day(now), job[c].by)
    BY RecordFacts
  <1>2. Replaces(job[c], recs, Day(now))
    BY <1>1 DEF RecsSound
  <1>3. /\ \A r \in j.new : r.by = job[c].by /\ r.pair \in DOMAIN frame
                            /\ r.forecast = frame[r.pair]
        /\ \A p \in DOMAIN frame : \E r \in j.new : r.pair = p
    <2>1. Day(now) \in Nat /\ Day(now) <= Day(now) /\ job[c].by \in Int
      BY <1>1, DayFacts DEF Sound, ClockSound, JobsSound
    <2> QED
      BY <1>1, <2>1, RecordedSettled, SMTT(60)
  <1> HIDE DEF j
  <1>4. Forecasted(job[c]) = DOMAIN frame
    BY <1>1 DEF Forecasted
  <1>5. Forecasted(j) = DOMAIN frame
    BY <1>1, <1>3 DEF Forecasted
  <1>6. \A o \in j.added : Fits(o, j)
    BY <1>1, <1>2, <1>3, <1>4 DEF Fits, Replaces
  <1> QED
    BY <1>1, <1>2, <1>3, <1>4, <1>5, <1>6 DEF Replaces, j

\* A row that tells of the same forecast is followed likewise.
LEMMA FollowsPeer ==
  ASSUME NEW o, NEW q, NEW r, Follows(o, q), Key(q) = Key(r), q.forecast = r.forecast
  PROVE  Follows(o, r)
  BY KeyParts DEF Follows

LEMMA CommitRecs ==
  ASSUME Sound, RunsSound, KeysSound, RecsSound, NEW c \in Schedulers, CommitJob(c)
  PROVE  RecsSound'
  <1> DEFINE R == runs \cup job[c].new
             by == job[c].by
  <1>1. /\ job[c].at = "commit" /\ job' = [job EXCEPT ![c] = Resting]
        /\ runs' = Updated(R, job[c].scored)
        /\ recs' = (recs \ job[c].deleted) \cup job[c].added
        /\ Keys(job[c].scored) \subseteq Keys(R)
        /\ UNCHANGED <<now, manuals, jobs>>
    BY DEF CommitJob, At, counters
  <1>2. /\ job'[c] = Resting /\ \A d \in Schedulers \ {c} : job'[d] = job[d]
    BY <1>1, JobRowsMove
  <1>3. job[c] # Resting /\ by \in 1 .. jobs /\ Replaces(job[c], recs, Day(now))
        /\ RowsOf(job[c]) = job[c].new \cup job[c].scored
    BY <1>1, AtWork DEF Sound, JobsSound, RecsSound, At, Steps, RowsOf
  <1>4. RowsOf(job[c]) \subseteq AllRuns /\ R \subseteq AllRuns
    BY <1>3 DEF AllRuns, JobRows
  <1>5. \A r \in runs' : \E q \in R : Key(q) = Key(r) /\ q.forecast = r.forecast
    <2> TAKE r \in runs'
    <2>1. CASE r \in job[c].scored
      <3>1. PICK q \in R : Key(q) = Key(r)
        BY <1>1, <2>1 DEF Keys
      <3> QED
        BY <1>3, <1>4, <2>1, <3>1 DEF KeysSound
    <2>2. CASE r \notin job[c].scored
      BY <1>1, <2>2 DEF Updated
    <2> QED
      BY <2>1, <2>2
  <1>6. \A q \in R : q \in job[c].new <=> q.by = by
    BY <1>1, <1>3 DEF Replaces, KeysSound
  <1>7. Day(now) \in Nat /\ Day(now') = Day(now) /\ jobs \in Nat
    BY <1>1, DayFacts DEF Sound, ClockSound
  <1>8. \A q \in R : q.day <= Day(now)
    BY <1>4 DEF RunsSound, Settled, IsRun
  <1>9. \A o \in job[c].added :
           /\ o.source = Pipeline /\ o.by = by /\ o.day = Day(now)
           /\ o.pair \in Forecasted(job[c])
           /\ \A r \in job[c].new : r.pair = o.pair => o.quantity <= r.forecast
    BY <1>1, <1>3 DEF Replaces, Fits
  <1>10. \A o \in recs \ job[c].deleted :
            o.source = Pipeline => \A r \in job[c].new : r.pair # o.pair
    BY <1>1, <1>3 DEF Replaces, Forecasted
  <1>11. ASSUME NEW o \in recs', NEW r \in runs' PROVE Follows(o, r)
    <2>1. PICK q \in R : Key(q) = Key(r) /\ q.forecast = r.forecast
      BY <1>5
    <2>2. CASE o \in job[c].added
      <3>1. q.by = o.by => q \in job[c].new
        BY <1>6, <1>9, <2>2
      <3>2. Follows(o, q)
        BY <1>8, <1>9, <2>2, <3>1 DEF Follows
      <3> QED
        BY <2>1, <3>2, FollowsPeer
    <2>3. CASE o \in recs \ job[c].deleted
      <3>1. Follows(o, q)
        BY <1>10, <2>3 DEF Follows, RecsSound
      <3> QED
        BY <2>1, <3>1, FollowsPeer
    <2> QED
      BY <1>1, <2>2, <2>3
  <1>12. \A o, q \in recs' :
           o.source = Pipeline /\ q.source = Pipeline /\ o.pair = q.pair => o = q
    <2> SUFFICES ASSUME NEW o \in recs', NEW q \in recs',
                        o.source = Pipeline, q.source = Pipeline, o.pair = q.pair
                 PROVE  o = q
      OBVIOUS
    <2>1. \A x \in recs \ job[c].deleted, y \in job[c].added :
             x.source = Pipeline => x.pair # y.pair
      BY <1>3, <1>9 DEF Replaces
    <2>2. CASE o \in recs /\ q \in recs
      BY <2>2 DEF RecsSound
    <2>3. CASE o \in job[c].added /\ q \in job[c].added
      BY <1>3, <2>3 DEF Replaces
    <2> QED
      BY <1>1, <2>1, <2>2, <2>3
  <1>13. Manual' = Manual
    <2>1. \A o \in job[c].deleted \cup job[c].added : o.source # "manual"
      BY <1>3, <1>9 DEF Replaces, Pipeline
    <2> QED
      BY <1>1, <2>1 DEF Manual
  <1>14. ASSUME NEW o \in recs'
         PROVE  /\ o.day \in Nat /\ o.day <= Day(now')
                /\ o.source = "manual" => o.by \in 1 .. manuals
                /\ o.source = Pipeline =>
                      /\ o.by \in 1 .. jobs
                      /\ \A d \in Schedulers : job'[d] # Resting => o.by # job'[d].by
    <2>1. CASE o \in job[c].added
      <3>1. \A d \in Schedulers : job'[d] # Resting => by # job'[d].by
        BY <1>2, <1>3 DEF Sound, JobsSound
      <3>2. o.source # "manual"
        BY <1>9, <2>1 DEF Pipeline
      <3> QED
        BY <1>3, <1>7, <1>9, <2>1, <3>1, <3>2
    <2>2. CASE o \in recs
      BY <1>2, <1>7, <2>2 DEF RecsSound
    <2> QED
      BY <1>1, <2>1, <2>2
  <1>15. \A d \in Schedulers : job'[d].at \in {"record", "commit"} => FALSE
    <2> SUFFICES ASSUME NEW d \in Schedulers, job'[d].at \in {"record", "commit"}
                 PROVE  FALSE
      OBVIOUS
    <2>1. d # c /\ job[d].at \in {"record", "commit"}
      BY <1>2 DEF Resting
    <2> QED
      BY <1>1, <2>1 DEF Sound, OneInTransaction, InTransaction
  <1>16. IsFiniteSet(Manual') /\ Cardinality(Manual') = manuals'
    BY <1>1, <1>13 DEF RecsSound
  <1> HIDE DEF R, by
  <1> QED
    BY <1>1, <1>11, <1>12, <1>14, <1>15, <1>16 DEF RecsSound, Follows, Day

LEMMA CommitBackfillRecs ==
  ASSUME Sound, RunsSound, KeysSound, RecsSound, CommitBackfill
  PROVE  RecsSound'
  <1>1. /\ UNCHANGED <<job, jobs, now, recs, manuals>> /\ backfill.at = "commit"
        /\ \A r \in runs' : r \in runs \/ r \in backfill.new \/ r \in backfill.scored
    BY DEF CommitBackfill, Updated, counters
  <1>2. runs \subseteq AllRuns /\ RowsOf(backfill) \subseteq AllRuns
        /\ RowsOf(backfill) = backfill.new \cup backfill.scored
    BY <1>1 DEF AllRuns, RowsOf
  <1>3. \A r \in AllRuns : r.by \in Int
    BY RunNumbers
  <1>4. ASSUME NEW o \in recs, NEW r \in runs' PROVE Follows(o, r)
    <2>1. CASE r \in runs
      BY <2>1 DEF RecsSound
    <2>2. CASE r.by <= 0
      BY <1>1, <1>2, <1>3, <2>2 DEF Follows
    <2>3. CASE r \in backfill.new
      BY <1>1, <1>2, <1>3, <2>2, <2>3 DEF KeysSound
    <2>4. CASE r \in backfill.scored /\ ~(r.by <= 0)
      <3>1. r.by > 0
        BY <1>2, <1>3, <2>4
      <3>2. PICK q \in runs : Key(q) = Key(r)
        BY <1>1, <2>4, <3>1 DEF KeysSound, Keys
      <3>3. q.forecast = r.forecast
        BY <1>2, <2>4, <3>2 DEF KeysSound
      <3>4. Follows(o, q)
        BY DEF RecsSound
      <3> QED
        BY <3>2, <3>3, <3>4, FollowsPeer
    <2> QED
      BY <1>1, <2>1, <2>2, <2>3, <2>4
  <1>5. Manual' = Manual /\ Day(now') = Day(now)
    BY <1>1 DEF Manual
  <1>6. IsFiniteSet(Manual') /\ Cardinality(Manual') = manuals'
    BY <1>1, <1>5 DEF RecsSound
  <1> QED
    BY <1>1, <1>4, <1>5, <1>6 DEF RecsSound, Follows, Day

LEMMA RecommendRecs ==
  ASSUME Sound, RecsSound, NEW p \in ByHand, Recommend(p)
  PROVE  RecsSound'
  <1> DEFINE new == [pair |-> p, source |-> "manual", quantity |-> 1, day |-> Day(now),
                     by |-> manuals + 1]
  <1>1. /\ UNCHANGED <<job, jobs, now, runs>>
        /\ manuals' = manuals + 1 /\ manuals \in Nat
        /\ recs' = recs \cup {new}
        /\ Day(now) \in Nat /\ Day(now') = Day(now) /\ jobs \in Nat
    BY DayFacts DEF Recommend, Sound, ClockSound
  <1>2. /\ new.source = "manual" /\ new.source # Pipeline /\ new.by = manuals + 1
        /\ new.day = Day(now)
    BY DEF Pipeline
  <1> HIDE DEF new
  <1>3. ASSUME NEW o \in recs
        PROVE  /\ o.day \in Nat /\ o.day <= Day(now)
               /\ o.source = "manual" => o.by \in 1 .. manuals
               /\ o.source = Pipeline =>
                     /\ o.by \in 1 .. jobs
                     /\ \A c \in Schedulers : job[c] # Resting => o.by # job[c].by
    BY DEF RecsSound
  <1>4. new \notin Manual /\ Manual' = Manual \cup {new}
    BY <1>1, <1>2, <1>3 DEF Manual
  <1>5. IsFiniteSet(Manual') /\ Cardinality(Manual') = manuals'
    <2>1. IsFiniteSet(Manual) /\ Cardinality(Manual) = manuals
      BY DEF RecsSound
    <2> QED
      BY <1>1, <1>4, <2>1, FS_AddElement
  <1>6. ASSUME NEW o \in recs'
        PROVE  /\ o.day \in Nat /\ o.day <= Day(now')
               /\ o.source = "manual" => o.by \in 1 .. manuals'
               /\ o.source = Pipeline => o \in recs
    <2>1. CASE o \in recs
      BY <1>1, <1>3, <2>1
    <2>2. CASE o = new
      BY <1>1, <1>2, <2>2
    <2> QED
      BY <1>1, <2>1, <2>2
  <1>7. \A c \in Schedulers : job'[c].at \in {"record", "commit"} =>
           Replaces(job'[c], recs', Day(now'))
    BY <1>1, <1>2 DEF RecsSound, Replaces
  <1>8. \A o \in recs', r \in runs' : Follows(o, r)
    BY <1>1, <1>6 DEF RecsSound, Follows
  <1>9. \A o, q \in recs' :
           o.source = Pipeline /\ q.source = Pipeline /\ o.pair = q.pair => o = q
    BY <1>6 DEF RecsSound
  <1>10. ASSUME NEW o \in recs'
         PROVE  /\ o.day \in Nat /\ o.day <= Day(now')
                /\ o.source = "manual" => o.by \in 1 .. manuals'
                /\ o.source = Pipeline =>
                      /\ o.by \in 1 .. jobs'
                      /\ \A c \in Schedulers : job'[c] # Resting => o.by # job'[c].by
    BY <1>1, <1>3, <1>6
  <1> QED
    BY <1>5, <1>7, <1>8, <1>9, <1>10 DEF RecsSound, Follows, Day

LEMMA StepRecs ==
  ASSUME Sound, RunsSound, KeysSound, RecsSound, [NightlyNext]_nightlyVars
  PROVE  RecsSound'
  <1>1. CASE Tick
    BY <1>1, TickRecs
  <1>2. CASE \E s \in Sales : WriteSale(s) \/ CommitSale(s)
    BY <1>2, AsideRecs DEF WriteSale, CommitSale, tables, counters
  <1>3. CASE \E c \in Schedulers : CommitJob(c)
    BY <1>3, CommitRecs
  <1>4. ASSUME NEW c \in Schedulers,
               \/ Fire(c) \/ Load(c) \/ Classify(c) \/ Forecast(c) \/ PersistClasses(c)
               \/ PersistRecommendations(c) \/ RecordAndScore(c)
               \/ ScoredRowGone(c) \/ JobFails(c)
        PROVE  RecsSound'
    <2>1. UNCHANGED <<recs, runs, manuals, now>>
      BY <1>4 DEF Fire, Load, Classify, Forecast, PersistClasses, PersistRecommendations,
                  RecordAndScore, ScoredRowGone, JobFails, tables, counters
    <2>2. ~Fire(c) => job[c] # Resting /\ jobs' = jobs
      BY <1>4, AtWork
         DEF Load, Classify, Forecast, PersistClasses, PersistRecommendations, RecordAndScore,
             ScoredRowGone, JobFails, Steps, At, Resting, Extra, tables, counters
    <2>3. ASSUME NEW j, job' = [job EXCEPT ![c] = j],
                 \/ j = Resting /\ jobs' = jobs
                 \/ job[c] # Resting /\ j.by = job[c].by /\ jobs' = jobs
                 \/ j.by = jobs + 1 /\ jobs' = jobs + 1,
                 j.at \in {"record", "commit"} => Replaces(j, recs, Day(now))
          PROVE  RecsSound'
      BY <2>1, <2>3, JobMovesRecs
    <2>4. CASE Fire(c)
      <3> DEFINE j == [at |-> "load", by |-> jobs + 1, rows |-> Extract]
      <3>1. /\ j.at \notin {"record", "commit"} /\ j.by = jobs + 1
            /\ job' = [job EXCEPT ![c] = j] /\ jobs' = jobs + 1
        BY <2>4 DEF Fire
      <3> QED
        BY <2>3, <3>1
    <2> USE <2>2
    <2>5. CASE Load(c) /\ ~Fire(c)
      <3> DEFINE j == [at |-> "classify", by |-> job[c].by]
      <3>1. j.at \notin {"record", "commit"} /\ j.by = job[c].by /\ job' = [job EXCEPT ![c] = j]
        BY <2>5 DEF Load
      <3> QED
        BY <2>3, <2>5, <3>1
    <2>6. CASE Classify(c) /\ ~Fire(c)
      <3> DEFINE j == [at |-> "forecast", by |-> job[c].by, ranked |-> lake]
      <3>1. j.at \notin {"record", "commit"} /\ j.by = job[c].by /\ job' = [job EXCEPT ![c] = j]
        BY <2>6 DEF Classify
      <3> QED
        BY <2>3, <2>6, <3>1
    <2>7. CASE Forecast(c) /\ ~Fire(c)
      <3> DEFINE j == [at |-> "classes", by |-> job[c].by, ranked |-> job[c].ranked,
                       frame |-> DemandForecast(lake, now)]
      <3>1. j.at \notin {"record", "commit"} /\ j.by = job[c].by /\ job' = [job EXCEPT ![c] = j]
        BY <2>7 DEF Forecast
      <3> QED
        BY <2>3, <2>7, <3>1
    <2>8. CASE PersistClasses(c) /\ ~Fire(c)
      <3> DEFINE j == [job[c] EXCEPT !.at = "recommend"]
      <3>1. DOMAIN job[c] = {"at", "by", "ranked", "frame"}
        BY <2>8 DEF Sound, JobsSound, IsJob, PersistClasses, At
      <3>2. j.at = "recommend" /\ j.by = job[c].by /\ job' = [job EXCEPT ![c] = j]
        BY <2>8, <3>1 DEF PersistClasses, Sound, JobsSound
      <3> HIDE DEF j
      <3> QED
        BY <2>3, <2>8, <3>2
    <2>9. CASE PersistRecommendations(c)
      BY <2>1, <2>9, SuggestedReplaces, JobMovesRecs DEF PersistRecommendations, counters
    <2>10. CASE RecordAndScore(c)
      <3>1. /\ job' = [job EXCEPT ![c] = RecordedBy(c)] /\ job[c] # Resting
            /\ RecordedBy(c).by = job[c].by
        BY <2>10, RecordFacts
      <3> QED
        BY <2>1, <2>10, <3>1, RecordedReplaces, JobMovesRecs DEF RecordAndScore, counters
    <2>11. CASE (ScoredRowGone(c) \/ JobFails(c)) /\ ~Fire(c)
      <3>1. Resting.at \notin {"record", "commit"} /\ job' = [job EXCEPT ![c] = Resting]
        BY <2>11 DEF ScoredRowGone, JobFails, Resting
      <3> QED
        BY <2>3, <2>11, <3>1
    <2> QED
      BY <1>4, <2>4, <2>5, <2>6, <2>7, <2>8, <2>9, <2>10, <2>11
  <1>5. CASE \E replace \in BOOLEAN : StartBackfill(replace)
    BY <1>5, AsideRecs DEF StartBackfill, Extra, tables
  <1>6. CASE CommitBackfill
    BY <1>6, CommitBackfillRecs
  <1>7. CASE BackfillFails
    BY <1>7, AsideRecs DEF BackfillFails, tables, counters
  <1>8. CASE \E p \in ByHand : Recommend(p)
    BY <1>8, RecommendRecs
  <1>9. CASE UNCHANGED nightlyVars
    BY <1>9, AsideRecs DEF nightlyVars, tables, counters
  <1> QED
    BY <1>1, <1>2, <1>3, <1>4, <1>5, <1>6, <1>7, <1>8, <1>9 DEF NightlyNext, JobStep

LEMMA RecsTell == Sound /\ RunsSound /\ RecsSound => SuggestionsFollowForecasts
  <1> SUFFICES ASSUME Sound, RunsSound, RecsSound PROVE SuggestionsFollowForecasts
    OBVIOUS
  <1>1. ASSUME NEW p \in Pairs
        PROVE  LET own == {o \in recs : o.pair = p /\ o.source = Pipeline}
                   nightly == {r \in runs : r.pair = p /\ r.by > 0}
               IN  /\ Cardinality(own) <= 1
                   /\ \A o \in own, r \in nightly :
                         IF r.by = o.by THEN o.quantity <= r.forecast
                         ELSE r.day <= o.day
    <2> DEFINE own == {o \in recs : o.pair = p /\ o.source = Pipeline}
               nightly == {r \in runs : r.pair = p /\ r.by > 0}
    <2>1. \A o, q \in own : o = q
      BY DEF RecsSound
    <2>2. Cardinality(own) <= 1
      <3>1. CASE own = {}
        BY <3>1, FS_EmptySet
      <3>2. CASE own # {}
        <4>1. PICK o \in own : TRUE
          BY <3>2
        <4>2. own = {o}
          BY <2>1, <4>1
        <4>3. Cardinality({o}) = 1
          BY FS_Singleton
        <4> HIDE DEF own
        <4> QED
          BY <4>2, <4>3
      <3> QED
        BY <3>1, <3>2
    <2>3. \A o \in own, r \in nightly :
             IF r.by = o.by THEN o.quantity <= r.forecast ELSE r.day <= o.day
      BY DEF RecsSound, Follows
    <2> QED
      BY <2>2, <2>3
  <1>2. Cardinality({o \in recs : o.source = "manual"}) = manuals
    BY DEF RecsSound, Manual
  <1> QED
    BY <1>1, <1>2 DEF SuggestionsFollowForecasts

\* Whoever runs the job, and however often: each pair keeps the suggestion of
\* the last night that forecast it, and what people suggested stays.
THEOREM SuggestionsFollow == NightlySpec => []SuggestionsFollowForecasts
  <1>1. NightlyInit => Sound /\ RunsSound /\ KeysSound /\ RecsSound
    BY NightlyInitSound, InitRuns, InitKeys, InitRecs
  <1>2. Sound /\ RunsSound /\ KeysSound /\ RecsSound /\ [NightlyNext]_nightlyVars
           => (Sound /\ RunsSound /\ KeysSound /\ RecsSound)'
    BY StepSound, StepRuns, StepKeys, StepRecs
  <1> QED
    BY <1>1, <1>2, RecsTell, PTL DEF NightlySpec

-----------------------------------------------------------------------------
(* The classes.                                                            *)

Worth(S) == [p \in Products |-> Revenue(p, S)]

LEMMA RevenueType ==
  \A S \in SUBSET Sales : /\ \A p \in Products : Revenue(p, S) \in Nat
                          /\ \A p \in Products : Worth(S)[p] = Revenue(p, S)
  <1> TAKE S \in SUBSET Sales
  <1>1. ASSUME NEW p \in Products PROVE Revenue(p, S) \in Nat
    <2> DEFINE own == {s \in S : ProductOf[Content[s].pair] = p}
    <2>1. own \in SUBSET own /\ own \in SUBSET Sales
      OBVIOUS
    <2>2. IsFiniteSet(own) /\ \A s \in own : Price[s] \in Nat
      BY <2>1, SaleFacts, SalesAssumption, FS_Subset
    <2>3. Revenue(p, S) = SumFunctionOnSet(Price, own)
      BY DEF Revenue
    <2> HIDE DEF own
    <2> QED
      BY <2>1, <2>2, <2>3, SumMonotone
  <1> QED
    BY <1>1 DEF Worth

\* What a set of products earned is a sum of what each is worth.
LEMMA EarnedFacts ==
  ASSUME NEW S \in SUBSET Sales, NEW P \in SUBSET Products
  PROVE  /\ Earned(P, S) = SumFunctionOnSet(Worth(S), P)
         /\ Earned(P, S) \in Nat
         /\ \A U \in SUBSET P : Earned(U, S) \in Nat /\ Earned(U, S) <= Earned(P, S)
         /\ \A p \in P : Revenue(p, S) <= Earned(P, S)
  <1>1. IsFiniteSet(P) /\ \A p \in P : Worth(S)[p] \in Nat
    BY PairFacts, RevenueType, FS_Subset
  <1>2. ASSUME NEW U \in SUBSET P
        PROVE  Earned(U, S) = SumFunctionOnSet(Worth(S), U)
    <2> DEFINE own == [q \in U |-> Revenue(q, S)]
    <2>1. IsFiniteSet(U)
      BY <1>1, FS_Subset
    <2>2. \A q \in U : own[q] \in Int /\ own[q] = Worth(S)[q]
      BY RevenueType
    <2>3. Earned(U, S) = SumFunctionOnSet(own, U)
      BY DEF Earned
    <2> HIDE DEF own
    <2> QED
      BY <2>1, <2>2, <2>3, SumExtensional
  <1>3. \A U \in SUBSET P : /\ SumFunctionOnSet(Worth(S), P) \in Nat
                            /\ SumFunctionOnSet(Worth(S), U) \in Nat
                            /\ SumFunctionOnSet(Worth(S), U) <= SumFunctionOnSet(Worth(S), P)
    BY <1>1, SumMonotone
  <1>4. Earned(P, S) = SumFunctionOnSet(Worth(S), P)
    BY <1>2
  <1>5. ASSUME NEW p \in P PROVE Revenue(p, S) <= Earned(P, S)
    <2> DEFINE none == {}
               one == none \cup {p}
               w == Worth(S)
    <2>1. /\ IsFiniteSet(none) /\ p \notin none /\ one = {p}
          /\ \A y \in one : w[y] \in Int
          /\ w[p] = Revenue(p, S) /\ w[p] \in Nat
      BY <1>1, RevenueType, FS_EmptySet
    <2>2. SumFunctionOnSet(w, none) = 0
      BY SumOfNothing
    <2> HIDE DEF none, w
    <2>3. SumFunctionOnSet(w, one) = SumFunctionOnSet(w, none) + w[p]
      BY <2>1, SumAdds
    <2>4. SumFunctionOnSet(w, {p}) = Revenue(p, S)
      BY <2>1, <2>2, <2>3
    <2>5. SumFunctionOnSet(Worth(S), {p}) = Revenue(p, S)
      BY <2>4 DEF w
    <2> QED
      BY <1>3, <1>4, <2>5
  <1> QED
    BY <1>2, <1>3, <1>4, <1>5

\* Products have one order, by revenue and then by identifier.
LEMMA Ordered ==
  ASSUME NEW S \in SUBSET Sales
  PROVE  /\ \A p \in Products : ~Precedes(p, p, S)
         /\ \A p, q, r \in Products :
               Precedes(p, q, S) /\ Precedes(q, r, S) => Precedes(p, r, S)
         /\ \A p, q \in Products : p = q \/ Precedes(p, q, S) \/ Precedes(q, p, S)
  <1>1. \A p \in Products : Revenue(p, S) \in Nat /\ IdOf[p] \in Nat
    BY RevenueType, PairsAssumption
  <1> QED
    BY <1>1, PairsAssumption DEF Precedes

Above(p, P, S) == {q \in P : Precedes(q, p, S)}
Below(P, k, S) == {p \in P : 100 * Earned(Above(p, P, S), S) < k * Earned(P, S)}

\* The products whose share of the curve starts below a threshold are the best
\* sellers that bring it in.
LEMMA CurveCutsBestSellers ==
  ASSUME NEW S \in SUBSET Sales, NEW P \in SUBSET Products, Earned(P, S) > 0,
         NEW k \in 1 .. 100
  PROVE  BestSellers(Below(P, k, S), P, k, S)
  <1> DEFINE E(X) == Earned(X, S)
             above(p) == Above(p, P, S)
             best == Below(P, k, S)
             before == {x \in Products \X Products : Precedes(x[1], x[2], S)}
             after == {x \in Products \X Products : Precedes(x[2], x[1], S)}
  <1>1. /\ \A p \in Products : Revenue(p, S) \in Nat
        /\ \A U \in SUBSET P : E(U) \in Nat /\ E(U) <= E(P)
        /\ \A U \in SUBSET P : \A V \in SUBSET U : E(V) <= E(U)
        /\ E(P) \in Nat /\ E(P) > 0 /\ k \in Nat /\ k > 0 /\ k <= 100
    BY RevenueType, EarnedFacts
  <1>2. \A p \in P : above(p) \in SUBSET P
    BY DEF Above
  <1>3. IsOrder(before, Products) /\ IsOrder(after, Products)
    BY Ordered DEF IsOrder
  <1>4. k * E(P) \in Nat /\ k * E(P) > 0 /\ k * E(P) <= 100 * E(P)
    <2>1. \A a, b \in Nat : a > 0 /\ b > 0 /\ a <= 100 =>
             a * b \in Nat /\ a * b > 0 /\ a * b <= 100 * b
      OBVIOUS
    <2> QED
      BY <1>1, <2>1
  <1>5. best \in SUBSET P /\ P \in SUBSET Products /\ IsFiniteSet(Products)
    BY PairFacts DEF Below
  <1>6. \A p, q \in P : q \in best /\ Precedes(p, q, S) => p \in best
    <2> SUFFICES ASSUME NEW p \in P, NEW q \in P, q \in best, Precedes(p, q, S)
                 PROVE  p \in best
      OBVIOUS
    <2>1. above(p) \in SUBSET above(q)
      BY Ordered DEF Above
    <2>2. E(above(p)) <= E(above(q)) /\ E(above(p)) \in Nat /\ E(above(q)) \in Nat
      BY <1>1, <1>2, <2>1
    <2>3. 100 * E(above(q)) < k * E(P)
      BY DEF Below
    <2> HIDE DEF above, E
    <2>4. 100 * E(above(p)) < k * E(P)
      BY <1>4, <2>2, <2>3
    <2> QED
      BY <2>4 DEF Below, above, E
  <1>7. 100 * E(best) >= k * E(P)
    <2>1. CASE best = P
      BY <1>4, <2>1
    <2>2. CASE best # P
      <3>1. (P \ best) # {} /\ (P \ best) \in SUBSET Products
        BY <1>5, <2>2
      <3>2. PICK y \in (P \ best) : \A z \in (P \ best) : <<z, y>> \notin before
        BY <1>3, <1>5, <3>1, FiniteHasFirst
      <3>3. above(y) \in SUBSET best
        BY <1>5, <3>2 DEF Above
      <3>4. E(above(y)) <= E(best) /\ E(above(y)) \in Nat /\ E(best) \in Nat
        BY <1>1, <1>5, <3>3
      <3>5. ~(100 * E(above(y)) < k * E(P))
        BY <3>2 DEF Below
      <3> HIDE DEF above, best, E
      <3> QED
        BY <1>4, <3>4, <3>5
    <2> QED
      BY <2>1, <2>2
  <1>8. \A p \in best, q \in P \ best : Revenue(p, S) >= Revenue(q, S)
    <2> SUFFICES ASSUME NEW p \in best, NEW q \in P \ best, ~(Revenue(p, S) >= Revenue(q, S))
                 PROVE  FALSE
      OBVIOUS
    <2>1. p \in P /\ Precedes(q, p, S)
      BY <1>1, <1>5 DEF Precedes
    <2> QED
      BY <1>6, <2>1
  <1>9. best # {}
    <2>1. P # {}
      <3>1. Earned({}, S) = SumFunctionOnSet(Worth(S), {})
        BY EarnedFacts
      <3> QED
        BY <1>1, <3>1, SumOfNothing
    <2>2. PICK x \in P : \A y \in P : <<y, x>> \notin before
      BY <1>3, <1>5, <2>1, FiniteHasFirst
    <2>3. above(x) = {}
      BY <1>5, <2>2 DEF Above
    <2>4. E(above(x)) = 0
      BY <2>3, EarnedFacts, SumOfNothing
    <2>5. 100 * E(above(x)) < k * E(P)
      <3> HIDE DEF above, E
      <3> QED
        BY <1>4, <2>4
    <2> QED
      BY <2>2, <2>5 DEF Below
  <1>10. PICK least \in best : \A y \in best : <<y, least>> \notin after
    BY <1>3, <1>5, <1>9, FiniteHasFirst
  <1>11. \A y \in best : y = least \/ Precedes(y, least, S)
    BY <1>5, <1>10, Ordered
  <1>12. \A y \in best : Revenue(least, S) <= Revenue(y, S)
    BY <1>1, <1>5, <1>11 DEF Precedes
  <1>13. 100 * E(best \ {least}) < k * E(P)
    <2>1. best \ {least} \in SUBSET above(least)
      BY <1>5, <1>11 DEF Above
    <2>2. E(best \ {least}) <= E(above(least)) /\ E(above(least)) \in Nat
          /\ E(best \ {least}) \in Nat
      BY <1>1, <1>2, <1>5, <2>1
    <2>3. 100 * E(above(least)) < k * E(P)
      BY DEF Below
    <2> HIDE DEF above, best, E
    <2> QED
      BY <1>4, <2>2, <2>3
  <1> HIDE DEF best
  <1>14. BestSellers(best, P, k, S)
    BY <1>7, <1>8, <1>12, <1>13 DEF BestSellers
  <1> QED
    BY <1>14 DEF best

\* A class is that of the newest classification that had the product, and
\* every product it was ranked with has a class too.
ClassesSound ==
    /\ DOMAIN classes = Products /\ DOMAIN ranked = Products
    /\ \A p \in Products : classes[p] # None =>
          /\ ranked[p] \subseteq Sales
          /\ p \in Sold(ranked[p])
          /\ classes[p] = Class(Rank(p, ranked[p]))
          /\ \A q \in Sold(ranked[p]) : classes[q] # None

LEMMA SoldProducts == \A S \in SUBSET Sales : Sold(S) \in SUBSET Products
  BY SaleFacts, PairFacts DEF Sold

LEMMA InitClasses == NightlyInit => ClassesSound
  BY DEF NightlyInit, ClassesSound

LEMMA CommitClasses ==
  ASSUME Sound, ClassesSound, NEW c \in Schedulers, CommitJob(c)
  PROVE  ClassesSound'
  <1> DEFINE S == job[c].ranked
  <1>1. job[c] # Resting /\ job[c].at = "commit"
    BY AtWork DEF CommitJob, At, Steps
  <1>2. S \in SUBSET Sales
    BY <1>1 DEF Sound, JobsSound, IsJob
  <1>3. /\ classes' = [p \in Products |-> IF p \in Sold(S) THEN Class(Rank(p, S)) ELSE classes[p]]
        /\ ranked' = [p \in Products |-> IF p \in Sold(S) THEN S ELSE ranked[p]]
    BY DEF CommitJob, AbcAnalysis
  <1>4. \A r : Class(r) # None
    BY DEF Class, None
  <1> HIDE DEF S
  <1>5. \A p \in Products : classes[p] # None => classes'[p] # None
    BY <1>3, <1>4
  <1>6. \A p \in Sold(S) : p \in Products /\ classes'[p] # None
    BY <1>2, <1>3, <1>4, SoldProducts
  <1>7. ASSUME NEW p \in Products, classes'[p] # None
        PROVE  /\ ranked'[p] \subseteq Sales
               /\ p \in Sold(ranked'[p])
               /\ classes'[p] = Class(Rank(p, ranked'[p]))
               /\ \A q \in Sold(ranked'[p]) : classes'[q] # None
    <2>1. CASE p \in Sold(S)
      BY <1>2, <1>3, <1>6, <2>1
    <2>2. CASE p \notin Sold(S)
      <3>1. ranked'[p] = ranked[p] /\ classes'[p] = classes[p]
        BY <1>3, <2>2
      <3>2. /\ ranked[p] \in SUBSET Sales
            /\ p \in Sold(ranked[p])
            /\ classes[p] = Class(Rank(p, ranked[p]))
            /\ \A q \in Sold(ranked[p]) : classes[q] # None
        BY <1>7, <3>1 DEF ClassesSound
      <3>3. \A q \in Sold(ranked[p]) : q \in Products
        BY <3>2, SoldProducts
      <3> QED
        BY <1>5, <3>1, <3>2, <3>3
    <2> QED
      BY <2>1, <2>2
  <1> QED
    BY <1>3, <1>7 DEF ClassesSound, Class, Rank, Earned, Revenue, Sold, Precedes

LEMMA StepClasses == Sound /\ ClassesSound /\ [NightlyNext]_nightlyVars => ClassesSound'
  <1> SUFFICES ASSUME Sound, ClassesSound, [NightlyNext]_nightlyVars PROVE ClassesSound'
    OBVIOUS
  <1>1. ASSUME UNCHANGED <<classes, ranked>> PROVE ClassesSound'
    BY <1>1 DEF ClassesSound
  <1>2. CASE \E c \in Schedulers : CommitJob(c)
    BY <1>2, CommitClasses
  <1>3. CASE ~\E c \in Schedulers : CommitJob(c)
    <2>1. UNCHANGED <<classes, ranked>>
      BY <1>3 DEF NightlyNext, nightlyVars, JobStep, Tick, WriteSale, CommitSale, Fire, Load,
                  Classify, Forecast, PersistClasses, PersistRecommendations, RecordAndScore,
                  ScoredRowGone, JobFails, StartBackfill, CommitBackfill, BackfillFails,
                  Recommend, tables
    <2> QED
      BY <1>1, <2>1
  <1> QED
    BY <1>2, <1>3

LEMMA ClassesTell == ClassesSound => ClassesArePareto
  <1> SUFFICES ASSUME ClassesSound,
                      NEW company \in {CompanyOf[p] : p \in Products}
               PROVE  LET ours == {p \in Products : CompanyOf[p] = company}
                          all == {p \in ours : classes[p] # None}
                          A == {p \in all : classes[p] = "A"}
                          B == {p \in all : classes[p] = "B"}
                      IN  \A sales \in {ranked[p] : p \in all} :
                            (/\ \A p \in all : ranked[p] = sales
                             /\ \E p \in all : Revenue(p, sales) > 0)
                            => /\ all = ours \cap Sold(sales)
                               /\ BestSellers(A, all, 80, sales)
                               /\ BestSellers(A \cup B, all, 95, sales)
    BY DEF ClassesArePareto
  <1> DEFINE ours == {p \in Products : CompanyOf[p] = company}
             all == {p \in ours : classes[p] # None}
             A == {p \in all : classes[p] = "A"}
             B == {p \in all : classes[p] = "B"}
  <1> SUFFICES ASSUME NEW sales \in {ranked[p] : p \in all},
                      \A p \in all : ranked[p] = sales,
                      NEW best \in all, Revenue(best, sales) > 0
               PROVE  /\ all = ours \cap Sold(sales)
                      /\ BestSellers(A, all, 80, sales)
                      /\ BestSellers(A \cup B, all, 95, sales)
    OBVIOUS
  <1>1. /\ sales \in SUBSET Sales
        /\ \A p \in all : p \in Sold(sales) /\ classes[p] = Class(Rank(p, sales))
        /\ \A q \in Sold(sales) : classes[q] # None
    BY DEF ClassesSound
  <1>2. all = ours \cap Sold(sales)
    BY <1>1
  <1>3. all \in SUBSET Products
    OBVIOUS
  <1>4. Earned(all, sales) \in Nat /\ Earned(all, sales) > 0
    BY <1>1, <1>3, EarnedFacts, RevenueType
  <1>5. ASSUME NEW p \in all
        PROVE  /\ Rank(p, sales) = [above |-> Earned(Above(p, all, sales), sales),
                                    total |-> Earned(all, sales)]
               /\ Earned(Above(p, all, sales), sales) \in Nat
    <2>1. {q \in Sold(sales) : CompanyOf[q] = CompanyOf[p]} = all
      BY <1>1, <1>2, SoldProducts
    <2>2. Above(p, all, sales) \in SUBSET all
      BY DEF Above
    <2>3. Earned(Above(p, all, sales), sales) \in Nat
      BY <1>1, <1>3, <2>2, EarnedFacts
    <2> HIDE DEF all
    <2> QED
      BY <2>1, <2>3 DEF Rank, Above
  <1>6. \A p \in all : /\ classes[p] = "A" <=> p \in Below(all, 80, sales)
                       /\ classes[p] \in {"A", "B"} <=> p \in Below(all, 95, sales)
    <2> TAKE p \in all
    <2>1. classes[p] = Class([above |-> Earned(Above(p, all, sales), sales),
                              total |-> Earned(all, sales)])
      BY <1>1, <1>5
    <2>2. Earned(Above(p, all, sales), sales) \in Nat
      BY <1>5
    <2>3. p \in all
      OBVIOUS
    <2> HIDE DEF all
    <2> QED
      BY <1>4, <2>1, <2>2, <2>3 DEF Class, Below
  <1>7. A = Below(all, 80, sales) /\ (A \cup B) = Below(all, 95, sales)
    <2>1. \A k : Below(all, k, sales) \subseteq all
      BY DEF Below
    <2> QED
      BY <1>6, <2>1
  <1> HIDE DEF all, A, B, ours
  <1>8. \A k \in 1 .. 100 : BestSellers(Below(all, k, sales), all, k, sales)
    BY <1>1, <1>3, <1>4, CurveCutsBestSellers
  <1>9. 80 \in 1 .. 100 /\ 95 \in 1 .. 100
    OBVIOUS
  <1>10. BestSellers(Below(all, 80, sales), all, 80, sales)
         /\ BestSellers(Below(all, 95, sales), all, 95, sales)
    BY <1>8, <1>9
  <1> QED
    BY <1>2, <1>7, <1>10

\* For any products, tenants and prices: class A is the least set of best
\* sellers that brings in 80% of what the tenant earned, A with B 95%.
THEOREM ClassesCut == NightlySpec => []ClassesArePareto
  <1>1. NightlyInit => Sound /\ ClassesSound
    BY NightlyInitSound, InitClasses
  <1>2. Sound /\ ClassesSound /\ [NightlyNext]_nightlyVars => (Sound /\ ClassesSound)'
    BY StepSound, StepClasses
  <1> QED
    BY <1>1, <1>2, ClassesTell, PTL DEF NightlySpec

=============================================================================
