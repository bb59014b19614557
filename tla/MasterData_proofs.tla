--------------------------- MODULE MasterData_proofs ---------------------------
(***************************************************************************)
(* For any number of requests from any menu: keys stay unique although     *)
(* every check is made before the write, a product sells at a loss only    *)
(* after a race, outside races the login counter counts, and the audit     *)
(* trail of a row tells the row.                                           *)
(***************************************************************************)
EXTENDS MasterData, SequenceTheorems, TLAPS

Columns == {"kind", "company", "key", "barcode", "cost", "price", "active",
            "fails", "locked"}
Kinds == {"product", "warehouse", "supplier", "customer", "company", "user"}
Locks == {"no", "yes", "expired"}

IsRow(v) ==
    /\ DOMAIN v = Columns
    /\ v.kind \in Kinds /\ v.fails \in Nat /\ v.locked \in Locks

LEMMA RowsAreRows ==
  ASSUME NEW v \in Row
  PROVE  IsRow(v)
  BY DEF Row, IsRow, Columns, Kinds, Locks

-----------------------------------------------------------------------------
(* The invariant.                                                          *)

\* What a request is about to write to the row it has seen: columns of the
\* form, which keep a margin, or the counters of the login.
ChangesFit(q) ==
    LET row == Merge(q.seen, q.changes)
    IN  /\ DOMAIN q.changes \subseteq Columns \ {"kind"}
        /\ "fails" \in DOMAIN q.changes => q.changes.fails \in Nat
        /\ "locked" \in DOMAIN q.changes => q.changes.locked \in Locks
        /\ PositiveMargin(q.seen) => PositiveMargin(row)
        /\ q.op.does = "update" => {"fails", "locked"} \cap DOMAIN q.changes = {}
        /\ q.op.does = "login" =>
              /\ DOMAIN q.changes \subseteq {"fails", "locked"}
              /\ q.op.right => row.fails = 0 /\ row.locked = "no"
              /\ ~q.op.right =>
                    /\ q.seen.locked # "yes"
                    /\ row.fails = CleanSlate(q.seen).fails + 1
                    /\ row.locked = IF row.fails >= MaxFailed THEN "yes" ELSE "no"

CreateFits(r, q) ==
    /\ q.op.does = "create" /\ q.seen = Unread
    /\ q.stage \in {"deciding", "inserting", "committing"}
    /\ q.at \in 1..Len(q.op.rows)
    /\ DOMAIN q.dirty \subseteq {r} \X Nat
    /\ q.stage # "committing" => \A i \in DOMAIN q.dirty : i[2] < q.at
    /\ \A i \in DOMAIN q.dirty : IsRow(q.dirty[i]) /\ PositiveMargin(q.dirty[i])
    /\ q.stage = "inserting" => PositiveMargin(q.op.rows[q.at])

ChangeFits(q) ==
    /\ q.op.does \in {"update", "login"}
    /\ q.stage \in {"deciding", "flushing", "committing"}
    /\ q.stage # "committing" => DOMAIN q.dirty = {}
    /\ q.stage # "deciding" => q.op.row \in Ids /\ IsRow(q.seen) /\ ChangesFit(q)
    /\ q.stage = "committing" =>
          /\ DOMAIN q.dirty = {q.op.row}
          /\ q.dirty[q.op.row] = Merge(rows[q.op.row], q.changes)

SessionFits(r, q) ==
    \/ q.stage \in {"new", "ended"}
    \/ /\ DOMAIN q = {"stage", "op", "dirty", "seen", "changes", "entries", "at"}
       /\ q.op \in Menu
       /\ q.op.does = "login" => q.op.row \in DOMAIN streak
       /\ CreateFits(r, q) \/ ChangeFits(q)

RowsSound ==
    /\ \A i \in Ids : IsRow(rows[i])
    /\ DOMAIN Seeded \subseteq Ids
    /\ DOMAIN streak = {i \in DOMAIN Seeded : Seeded[i].kind = "user"}
    /\ \A u \in DOMAIN streak : streak[u] \in Nat /\ rows[u].kind = "user"

SessionsSound ==
    /\ DOMAIN request = Requests
    /\ \A r \in Requests : SessionFits(r, request[r])

\* No two rows clash, whether committed or about to be.
Apart ==
    /\ \A i, j \in Ids : i # j => ~Clash(rows[i], rows[j])
    /\ \A r \in Requests :
          /\ \A i \in Written(r), j \in Ids \ Written(r) :
                 ~Clash(rows[j], Dirty(r)[i])
          /\ \A i, j \in Written(r) : i # j => ~Clash(Dirty(r)[i], Dirty(r)[j])
          /\ \A s \in Requests \ {r} : \A i \in Written(r), j \in Written(s) :
                 i # j /\ ~Clash(Dirty(r)[i], Dirty(s)[j])

CountsSound ==
    \A u \in DOMAIN streak \ stale :
        /\ rows[u].locked = "yes" <=> streak[u] >= MaxFailed
        /\ rows[u].locked # "expired" => rows[u].fails = streak[u]
        /\ rows[u].locked = "expired" => streak[u] = 0

IInv ==
    /\ RowsSound
    /\ SessionsSound
    /\ Apart
    /\ LossOnlyFromARace
    /\ CountsSound

LEMMA InitIInv == Init => IInv
  <1> SUFFICES ASSUME Init PROVE IInv
    OBVIOUS
  <1>1. RowsSound
    BY MasterDataAssumption, RowsAreRows DEF Init, RowsSound, Ids
  <1>2. SessionsSound
    BY DEF Init, SessionsSound, SessionFits, Waiting
  <1>3. \A r \in Requests : Written(r) = {}
    BY DEF Init, Waiting, Written, Dirty, InFlight
  <1>4. Apart
    BY <1>3, SeededAssumption DEF Init, Apart, Ids
  <1>5. LossOnlyFromARace
    BY MasterDataAssumption DEF Init, LossOnlyFromARace, PositiveMargin, Ids
  <1>6. CountsSound
    BY MasterDataAssumption DEF Init, CountsSound
  <1> QED
    BY <1>1, <1>2, <1>4, <1>5, <1>6 DEF IInv

-----------------------------------------------------------------------------
(* Steps of one request that write nothing of its own.                     *)

\* The request's own session must fit, and it may let go of what it has
\* written but add nothing.
LEMMA QuietSessions ==
  ASSUME IInv, NEW r \in Requests, NEW q,
         request' = [request EXCEPT ![r] = q], SessionFits(r, q),
         UNCHANGED <<rows, DOMAIN streak>>,
         q.stage \in {"new", "ended"} \/ DOMAIN q.dirty = {}
                                      \/ (r \in InFlight /\ q.dirty = request[r].dirty)
  PROVE  SessionsSound' /\ Apart'
  <1>1. /\ DOMAIN request' = Requests /\ request'[r] = q
        /\ \A s \in Requests : s # r => request'[s] = request[s]
    BY DEF IInv, SessionsSound
  <1>2. \A p : \A s \in Requests : SessionFits(s, p) <=> SessionFits(s, p)'
    BY DEF SessionFits, CreateFits, ChangeFits, Ids
  <1>3. SessionsSound'
    BY <1>1, <1>2 DEF IInv, SessionsSound
  <1>4. /\ \A s \in Requests : s # r => Dirty(s)' = Dirty(s) /\ Written(s)' = Written(s)
        /\ Written(r)' = {} \/ (Dirty(r)' = Dirty(r) /\ Written(r)' = Written(r))
    BY <1>1 DEF Dirty, Written, InFlight
  <1>5. Apart'
    BY <1>4 DEF IInv, Apart, Ids
  <1> QED
    BY <1>3, <1>5

LEMMA QuietStep ==
  ASSUME IInv, NEW r \in Requests, NEW q,
         request' = [request EXCEPT ![r] = q], SessionFits(r, q),
         UNCHANGED <<rows, streak, stale>>,
         q.stage \in {"new", "ended"} \/ DOMAIN q.dirty = {}
                                      \/ (r \in InFlight /\ q.dirty = request[r].dirty)
  PROVE  IInv'
  <1>1. SessionsSound' /\ Apart'
    BY QuietSessions
  <1>2. RowsSound' /\ LossOnlyFromARace' /\ CountsSound'
    BY DEF IInv, RowsSound, LossOnlyFromARace, CountsSound, Ids
  <1> QED
    BY <1>1, <1>2 DEF IInv

LEMMA RollBackStep ==
  ASSUME IInv, NEW r \in Requests, NEW how, RollBack(r, how)
  PROVE  IInv'
  <1>1. SessionFits(r, Ended(how)) /\ Ended(how).stage = "ended"
    BY DEF SessionFits, Ended
  <1> QED
    BY <1>1, QuietStep DEF RollBack

LEMMA BeginStep ==
  ASSUME IInv, NEW r \in Requests, NEW op \in Menu, Begin(r, op)
  PROVE  IInv'
  <1> DEFINE q == [stage |-> "deciding", op |-> op, dirty |-> << >>, seen |-> Unread,
                   changes |-> << >>, entries |-> <<>>, at |-> 1]
  <1>1. /\ DOMAIN q = {"stage", "op", "dirty", "seen", "changes", "entries", "at"}
        /\ q.op = op /\ q.stage = "deciding" /\ DOMAIN q.dirty = {} /\ q.seen = Unread
        /\ q.at = 1
    OBVIOUS
  <1>2. request' = [request EXCEPT ![r] = q] /\ UNCHANGED <<rows, streak, stale>>
    BY DEF Begin
  <1> HIDE DEF q
  <1>3. CASE op.does = "create"
    <2>1. op.rows # <<>> /\ op.rows \in Seq(Row)
      BY <1>3, MenuAssumption
    <2>2. 1 \in 1..Len(op.rows)
      BY <2>1
    <2>3. CreateFits(r, q)
      BY <1>1, <1>3, <2>2 DEF CreateFits
    <2> QED
      BY <1>1, <1>2, <1>3, <2>3, QuietStep DEF SessionFits
  <1>4. CASE op.does \in {"update", "login"}
    <2>1. op.does = "login" => op.row \in DOMAIN streak
      BY MenuAssumption DEF IInv, RowsSound
    <2>2. ChangeFits(q)
      BY <1>1, <1>4 DEF ChangeFits
    <2> QED
      BY <1>1, <1>2, <2>1, <2>2, QuietStep DEF SessionFits
  <1> QED
    BY <1>3, <1>4, MenuAssumption

LEMMA CheckNewStep ==
  ASSUME IInv, NEW r \in Requests, CheckNew(r)
  PROVE  IInv'
  <1> DEFINE q == [request[r] EXCEPT !.stage = "inserting"]
  <1>1. SessionFits(r, request[r])
    BY DEF IInv, SessionsSound
  <1>2. /\ request[r].stage = "deciding" /\ request[r].op.does = "create"
        /\ CreateFits(r, request[r])
    BY <1>1 DEF CheckNew, Deciding, Op, SessionFits, ChangeFits
  <1>3. CASE RollBack(r, "refused")
    BY <1>3, RollBackStep
  <1>4. CASE ~RollBack(r, "refused")
    <2>1. /\ request' = [request EXCEPT ![r] = q] /\ PositiveMargin(Creating(r))
          /\ UNCHANGED <<rows, streak, stale>>
      BY <1>4 DEF CheckNew
    <2>2. /\ DOMAIN q = DOMAIN request[r] /\ q.stage = "inserting"
          /\ q.op = request[r].op /\ q.dirty = request[r].dirty
          /\ q.seen = request[r].seen /\ q.at = request[r].at
      BY <1>1, <1>2 DEF SessionFits
    <2>3. r \in InFlight
      BY <1>2 DEF InFlight
    <2> HIDE DEF q
    <2>4. CreateFits(r, q)
      BY <1>2, <2>1, <2>2 DEF CreateFits, Creating, Op
    <2>5. SessionFits(r, q)
      BY <1>1, <1>2, <2>2, <2>4 DEF SessionFits
    <2> QED
      BY <2>1, <2>2, <2>3, <2>5, QuietStep
  <1> QED
    BY <1>3, <1>4

\* A request that has decided on changes which fit.
LEMMA DecideStep ==
  ASSUME IInv, NEW r \in Requests, NEW changes,
         request[r].stage = "deciding", request[r].op.does \in {"update", "login"},
         request[r].op.row \in Ids,
         request' = [request EXCEPT ![r] = ToFlush(r, changes)],
         UNCHANGED <<rows, trail, stale, streak>>,
         \A q : /\ q.op = request[r].op /\ q.seen = rows[q.op.row]
                /\ q.changes = changes
                => ChangesFit(q)
  PROVE  IInv'
  <1> DEFINE q == ToFlush(r, changes)
  <1>1. SessionFits(r, request[r])
    BY DEF IInv, SessionsSound
  <1>2. /\ ChangeFits(request[r]) /\ request[r].op \in Menu
        /\ request[r].op.does = "login" => request[r].op.row \in DOMAIN streak
    BY <1>1 DEF SessionFits, CreateFits
  <1>3. /\ DOMAIN q = DOMAIN request[r] /\ q.stage = "flushing"
        /\ q.op = request[r].op /\ q.dirty = request[r].dirty
        /\ q.seen = rows[q.op.row] /\ q.changes = changes
    BY <1>1, <1>2 DEF SessionFits, ToFlush, Op
  <1> HIDE DEF q
  <1>4. ChangesFit(q) /\ IsRow(q.seen) /\ q.op.row \in Ids /\ DOMAIN q.dirty = {}
    BY <1>2, <1>3 DEF IInv, RowsSound, ChangeFits
  <1>5. ChangeFits(q)
    BY <1>3, <1>4 DEF ChangeFits
  <1>6. SessionFits(r, q)
    BY <1>1, <1>2, <1>3, <1>5 DEF SessionFits
  <1> QED
    BY <1>3, <1>4, <1>6, QuietStep DEF q

\* Writing the columns that differ comes to the same as writing all.
LEMMA ChangedSuffices ==
  ASSUME NEW row, NEW set, DOMAIN set \subseteq DOMAIN row
  PROVE  /\ DOMAIN Changed(row, set) \subseteq DOMAIN set
         /\ \A c \in DOMAIN Changed(row, set) : Changed(row, set)[c] = set[c]
         /\ \A c \in DOMAIN row :
               Merge(row, Changed(row, set))[c] = Merge(row, set)[c]
  BY DEF Changed, Merge

LEMMA LoadRowStep ==
  ASSUME IInv, NEW r \in Requests, LoadRow(r)
  PROVE  IInv'
  <1> DEFINE op == Op(r)
             row == rows[op.row]
             changes == Changed(row, op.set)
  <1>1. CASE RollBack(r, "refused")
    BY <1>1, RollBackStep
  <1>2. CASE ~RollBack(r, "refused")
    <2>1. /\ request[r].stage = "deciding" /\ op.does = "update"
          /\ op.row \in Ids /\ (op.via = "update" => Priced(row, op.set))
          /\ request' = [request EXCEPT ![r] = ToFlush(r, changes)]
          /\ UNCHANGED <<rows, trail, stale, streak>>
      BY <1>2 DEF LoadRow, Deciding, Op, Owned
    <2>2. op \in Menu
      BY <2>1 DEF IInv, SessionsSound, SessionFits, Op
    <2>3. /\ DOMAIN op.set \subseteq {"key", "barcode", "cost", "price", "active"}
          /\ op.via # "update" => {"cost", "price"} \cap DOMAIN op.set = {}
      BY <2>1, <2>2, MenuAssumption
    <2>4. IsRow(row)
      BY <2>1 DEF IInv, RowsSound
    <2> HIDE DEF row
    <2>5. /\ DOMAIN changes \subseteq {"key", "barcode", "cost", "price", "active"}
          /\ \A c \in {"kind", "cost", "price"} :
                Merge(row, changes)[c] = Merge(row, op.set)[c]
      BY <2>3, <2>4, ChangedSuffices DEF IsRow, Columns
    <2>6. Merge(row, op.set).kind = row.kind
      BY <2>3, <2>4 DEF Merge, IsRow, Columns
    <2>7. op.via # "update" =>
             Merge(row, op.set).cost = row.cost /\ Merge(row, op.set).price = row.price
      BY <2>3, <2>4 DEF Merge, IsRow, Columns
    <2>8. PositiveMargin(row) => PositiveMargin(Merge(row, changes))
      BY <2>1, <2>5, <2>6, <2>7 DEF PositiveMargin, Priced
    <2> HIDE DEF changes
    <2>9. ASSUME NEW q, q.op = request[r].op, q.seen = rows[q.op.row],
                 q.changes = changes
          PROVE  ChangesFit(q)
      BY <2>1, <2>5, <2>8, <2>9 DEF ChangesFit, Columns, Op, row
    <2> QED
      BY <2>1, <2>9, DecideStep DEF Op
  <1> QED
    BY <1>1, <1>2

LEMMA LoginStep ==
  ASSUME IInv, NEW r \in Requests, Login(r)
  PROVE  IInv'
  <1> DEFINE op == Op(r)
             row == rows[op.row]
             set == IF op.right THEN [fails |-> 0, locked |-> "no"]
                    ELSE RegisterFailure(row)
             changes == Changed(row, set)
  <1>1. CASE RollBack(r, "refused")
    BY <1>1, RollBackStep
  <1>2. CASE ~RollBack(r, "refused")
    <2>1. /\ request[r].stage = "deciding" /\ op.does = "login"
          /\ row.locked # "yes"
          /\ request' = [request EXCEPT ![r] = ToFlush(r, changes)]
          /\ UNCHANGED <<rows, trail, stale, streak>>
      BY <1>2 DEF Login, Deciding, Op
    <2>2. op.row \in Ids /\ IsRow(row)
      BY <2>1 DEF IInv, SessionsSound, SessionFits, Op, RowsSound
    <2>3. /\ DOMAIN set = {"fails", "locked"} /\ set.fails \in Nat
          /\ set.locked \in Locks
          /\ op.right => set.fails = 0 /\ set.locked = "no"
          /\ ~op.right =>
                /\ set.fails = CleanSlate(row).fails + 1
                /\ set.locked = IF set.fails >= MaxFailed THEN "yes" ELSE "no"
      BY <2>2 DEF RegisterFailure, CleanSlate, IsRow, Locks
    <2> HIDE DEF row, set
    <2>4. /\ DOMAIN changes \subseteq {"fails", "locked"}
          /\ \A c \in DOMAIN changes : changes[c] = set[c]
          /\ \A c \in Columns : Merge(row, changes)[c] = Merge(row, set)[c]
      BY <2>2, <2>3, ChangedSuffices DEF IsRow, Columns
    <2>5. /\ \A c \in Columns \ {"fails", "locked"} : Merge(row, set)[c] = row[c]
          /\ Merge(row, set).fails = set.fails /\ Merge(row, set).locked = set.locked
      BY <2>2, <2>3 DEF Merge, IsRow, Columns
    <2> HIDE DEF changes
    <2>6. /\ Merge(row, changes).fails = set.fails
          /\ Merge(row, changes).locked = set.locked
          /\ PositiveMargin(row) => PositiveMargin(Merge(row, changes))
      BY <2>4, <2>5 DEF Columns, PositiveMargin
    <2>7. ASSUME NEW q, q.op = request[r].op, q.seen = rows[q.op.row],
                 q.changes = changes
          PROVE  ChangesFit(q)
      <3>1. q.op = op /\ q.seen = row /\ q.changes = changes
        BY <2>7 DEF Op, row
      <3> HIDE DEF op
      <3>2. /\ DOMAIN q.changes \subseteq Columns \ {"kind"}
            /\ "fails" \in DOMAIN q.changes => q.changes.fails \in Nat
            /\ "locked" \in DOMAIN q.changes => q.changes.locked \in Locks
        BY <2>3, <2>4, <3>1 DEF Columns
      <3>3. PositiveMargin(q.seen) => PositiveMargin(Merge(q.seen, q.changes))
        BY <2>6, <3>1
      <3> QED
        BY <2>1, <2>3, <2>4, <2>6, <3>1, <3>2, <3>3 DEF ChangesFit
    <2> QED
      BY <2>1, <2>2, <2>7, DecideStep DEF Op
  <1> QED
    BY <1>1, <1>2

-----------------------------------------------------------------------------
(* Writing.                                                                *)

LEMMA ClashSymmetric ==
  ASSUME NEW a, NEW b
  PROVE  Clash(a, b) <=> Clash(b, a)
  BY DEF Clash, SameKey

\* The index and the locks keep a new row apart from all others.
LEMMA WriteApart ==
  ASSUME Apart, NEW r \in Requests, NEW id, NEW row,
         UNCHANGED rows,
         Dirty(r)' = Put(Dirty(r), id, row),
         \A s \in Requests : s # r => Dirty(s)' = Dirty(s),
         RowWaits(r, id) = {}, IndexWaits(r, id, row) = {},
         ~IndexRefuses(r, id, row)
  PROVE  Apart'
  <1>1. /\ Written(r)' = Written(r) \cup {id}
        /\ Dirty(r)'[id] = row
        /\ \A i \in Written(r) : i # id => Dirty(r)'[i] = Dirty(r)[i]
        /\ \A s \in Requests : s # r => Written(s)' = Written(s)
    BY DEF Written, Put
  <1>2. \A s \in Requests \ {r} : \A j \in Written(s) :
           j # id /\ ~Clash(Dirty(s)[j], row)
    <2> SUFFICES ASSUME NEW s \in Requests \ {r}, NEW j \in Written(s)
                 PROVE  j # id /\ ~Clash(Dirty(s)[j], row)
      OBVIOUS
    <2>1. s \in InFlight \ {r}
      BY DEF Written, Dirty, InFlight
    <2>2. j # id
      BY <2>1 DEF RowWaits
    <2> QED
      BY <2>1, <2>2 DEF IndexWaits
  <1>3. /\ \A j \in Written(r) \ {id} : ~Clash(Dirty(r)[j], row)
        /\ \A j \in Ids \ Written(r) : j # id => ~Clash(rows[j], row)
    BY DEF IndexRefuses, Merge, Ids, Written
  <1>4. /\ \A i \in Written(r)', j \in Ids \ Written(r)' : ~Clash(rows[j], Dirty(r)'[i])
        /\ \A i, j \in Written(r)' : i # j => ~Clash(Dirty(r)'[i], Dirty(r)'[j])
    BY <1>1, <1>3, ClashSymmetric DEF Apart
  <1>5. \A s \in Requests \ {r} : \A i \in Written(r)', j \in Written(s) :
           /\ i # j /\ ~Clash(Dirty(r)'[i], Dirty(s)[j])
           /\ j # i /\ ~Clash(Dirty(s)[j], Dirty(r)'[i])
    BY <1>1, <1>2, ClashSymmetric DEF Apart
  <1>6. Ids' = Ids
    BY DEF Ids
  <1>7. \A s \in Requests \ {r} :
          /\ \A i \in Written(s), j \in Ids \ Written(s) : ~Clash(rows[j], Dirty(s)[i])
          /\ \A i, j \in Written(s) : i # j => ~Clash(Dirty(s)[i], Dirty(s)[j])
          /\ \A t \in Requests \ {r, s} : \A i \in Written(s), j \in Written(t) :
                 i # j /\ ~Clash(Dirty(s)[i], Dirty(t)[j])
    BY DEF Apart
  <1>8. ASSUME NEW s \in Requests
        PROVE  /\ \A i \in Written(s)', j \in Ids' \ Written(s)' :
                     ~Clash(rows'[j], Dirty(s)'[i])
               /\ \A i, j \in Written(s)' :
                     i # j => ~Clash(Dirty(s)'[i], Dirty(s)'[j])
               /\ \A t \in Requests \ {s} : \A i \in Written(s)', j \in Written(t)' :
                     i # j /\ ~Clash(Dirty(s)'[i], Dirty(t)'[j])
    <2>1. CASE s = r
      BY <1>1, <1>4, <1>5, <1>6, <2>1
    <2>2. CASE s # r
      BY <1>1, <1>5, <1>6, <1>7, <2>2
    <2> QED
      BY <2>1, <2>2
  <1>9. \A i, j \in Ids' : i # j => ~Clash(rows'[i], rows'[j])
    BY <1>6 DEF Apart
  <1> QED
    BY <1>8, <1>9 DEF Apart

\* A statement of r that adds one row to what it has written.
LEMMA WriteStep ==
  ASSUME IInv, NEW r \in Requests, NEW q, r \in InFlight,
         request' = [request EXCEPT ![r] = q], SessionFits(r, q),
         q.stage \notin {"new", "ended"},
         q.dirty = Put(request[r].dirty, Writes(r).id, Writes(r).row),
         UNCHANGED <<rows, streak, stale>>,
         AtStatement(r), WaitsFor(r) = {},
         ~IndexRefuses(r, Writes(r).id, Writes(r).row)
  PROVE  IInv'
  <1>1. /\ DOMAIN request' = Requests /\ request'[r] = q
        /\ \A s \in Requests : s # r => request'[s] = request[s]
    BY DEF IInv, SessionsSound
  <1>2. RowsSound' /\ LossOnlyFromARace' /\ CountsSound'
    BY DEF IInv, RowsSound, LossOnlyFromARace, CountsSound, Ids
  <1>3. \A p : \A s \in Requests : SessionFits(s, p) <=> SessionFits(s, p)'
    BY DEF SessionFits, CreateFits, ChangeFits, Ids
  <1>4. SessionsSound'
    BY <1>1, <1>3 DEF IInv, SessionsSound
  <1>5. /\ Dirty(r)' = Put(Dirty(r), Writes(r).id, Writes(r).row)
        /\ \A s \in Requests : s # r => Dirty(s)' = Dirty(s)
    BY <1>1 DEF Dirty, InFlight
  <1>6. /\ RowWaits(r, Writes(r).id) = {}
        /\ IndexWaits(r, Writes(r).id, Writes(r).row) = {}
    BY DEF WaitsFor
  <1>7. Apart'
    BY <1>5, <1>6, WriteApart DEF IInv
  <1> QED
    BY <1>2, <1>4, <1>7 DEF IInv

LEMMA InsertStep ==
  ASSUME IInv, NEW r \in Requests, Insert(r)
  PROVE  IInv'
  <1> DEFINE w == Writes(r)
             o == request[r]
             more == o.at < Len(o.op.rows)
             q == Inserted(r, w)
  <1>1. SessionFits(r, o)
    BY DEF IInv, SessionsSound
  <1>2. o.stage = "inserting" /\ CreateFits(r, o) /\ o.op \in Menu
    BY <1>1 DEF Insert, SessionFits, ChangeFits
  <1>3. w.id = <<r, o.at>> /\ w.row = o.op.rows[o.at]
    BY <1>2 DEF Writes, NewId, Creating, Op
  <1>4. /\ o.op.rows \in Seq(Row) /\ o.at \in Nat /\ Len(o.op.rows) \in Nat
        /\ IsRow(w.row) /\ PositiveMargin(w.row)
    <2>1. o.op.rows \in Seq(Row)
      BY <1>2, MenuAssumption DEF CreateFits
    <2>2. o.op.rows[o.at] \in Row /\ o.at \in Nat /\ Len(o.op.rows) \in Nat
      BY <1>2, <2>1 DEF CreateFits
    <2> QED
      BY <1>2, <1>3, <2>1, <2>2, RowsAreRows DEF CreateFits
  <1>5. CASE IndexRefuses(r, w.id, w.row)
    BY <1>5, RollBackStep DEF Insert
  <1>6. CASE ~IndexRefuses(r, w.id, w.row)
    <2>1. /\ request' = [request EXCEPT ![r] = q] /\ WaitsFor(r) = {}
          /\ UNCHANGED <<rows, streak, stale>>
      BY <1>6 DEF Insert
    <2>2. /\ DOMAIN q = {"stage", "op", "dirty", "seen", "changes", "entries", "at"}
          /\ q.op = o.op /\ q.seen = o.seen
          /\ q.dirty = Put(o.dirty, w.id, w.row)
          /\ q.at = (IF more THEN o.at + 1 ELSE o.at)
          /\ q.stage = (IF more THEN "deciding" ELSE "committing")
      BY <1>1, <1>2 DEF SessionFits, Inserted, Op
    <2> HIDE DEF q, w
    <2>3. q.at \in 1..Len(q.op.rows)
      BY <1>2, <1>4, <2>2 DEF CreateFits, Op
    <2>4. /\ DOMAIN q.dirty \subseteq {r} \X Nat
          /\ \A i \in DOMAIN q.dirty : IsRow(q.dirty[i]) /\ PositiveMargin(q.dirty[i])
      <3>1. \A i \in DOMAIN q.dirty :
               IF i = w.id THEN q.dirty[i] = w.row
               ELSE i \in DOMAIN o.dirty /\ q.dirty[i] = o.dirty[i]
        BY <2>2 DEF Put
      <3>2. w.id \in {r} \X Nat
        BY <1>3, <1>4
      <3> QED
        BY <1>2, <1>4, <3>1, <3>2 DEF CreateFits
    <2>8. q.stage # "committing" => \A i \in DOMAIN q.dirty : i[2] < q.at
      <3> SUFFICES ASSUME more, NEW i \in DOMAIN q.dirty PROVE i[2] < q.at
        BY <2>2
      <3>1. q.at = o.at + 1
        BY <2>2
      <3>2. CASE i = w.id
        BY <1>3, <1>4, <3>1, <3>2
      <3>3. CASE i # w.id
        <4>1. i \in DOMAIN o.dirty
          BY <2>2, <3>3 DEF Put
        <4>2. i[2] < o.at /\ i[2] \in Nat
          BY <1>2, <4>1 DEF CreateFits
        <4> QED
          BY <1>4, <3>1, <4>2
      <3> QED
        BY <3>2, <3>3
    <2>5. CreateFits(r, q)
      BY <1>2, <2>2, <2>3, <2>4, <2>8 DEF CreateFits
    <2>6. SessionFits(r, q)
      BY <1>2, <2>2, <2>5 DEF SessionFits, CreateFits
    <2>7. r \in InFlight /\ AtStatement(r) /\ q.stage \notin {"new", "ended"}
      BY <1>2, <2>2 DEF InFlight, AtStatement
    <2> QED
      BY <1>6, <2>1, <2>2, <2>6, <2>7, WriteStep DEF w
  <1> QED
    BY <1>5, <1>6

\* What an attempt leaves of a row that is as it has seen it.
LEMMA AttemptCounts ==
  ASSUME IInv, NEW r \in Requests, NEW row,
         SessionFits(r, request[r]),
         request[r].stage \in {"flushing", "committing"},
         request[r].op.does = "login",
         request[r].op.row \notin stale,
         request[r].seen = rows[request[r].op.row],
         row.fails = Merge(request[r].seen, request[r].changes).fails,
         row.locked = Merge(request[r].seen, request[r].changes).locked,
         streak' = Counted(r)
  PROVE  LET n == streak'[request[r].op.row]
         IN  /\ row.locked = "yes" <=> n >= MaxFailed
             /\ row.locked # "expired" => row.fails = n
             /\ row.locked = "expired" => n = 0
  <1> DEFINE u == request[r].op.row
             v == rows[u]
             o == request[r]
  <1>1. ChangesFit(o) /\ u \in DOMAIN streak /\ IsRow(v)
    BY DEF SessionFits, CreateFits, ChangeFits
  <1>2. /\ v.locked = "yes" <=> streak[u] >= MaxFailed
        /\ v.locked # "expired" => v.fails = streak[u]
        /\ v.locked = "expired" => streak[u] = 0
        /\ streak[u] \in Nat
    BY <1>1 DEF IInv, CountsSound, RowsSound
  <1>3. streak'[u] = IF o.op.right THEN 0 ELSE streak[u] + 1
    BY <1>1 DEF Counted, Op
  <1>4. MaxFailed \in Nat \ {0}
    BY MasterDataAssumption
  <1> HIDE DEF u, v
  <1>5. CASE o.op.right
    <2>1. row.fails = 0 /\ row.locked = "no"
      BY <1>1, <1>5 DEF ChangesFit
    <2> QED
      BY <1>3, <1>4, <1>5, <2>1 DEF u
  <1>6. CASE ~o.op.right
    <2>1. /\ v.locked # "yes" /\ row.fails = CleanSlate(v).fails + 1
          /\ row.locked = IF row.fails >= MaxFailed THEN "yes" ELSE "no"
      BY <1>1, <1>6 DEF ChangesFit, u, v
    <2>2. CleanSlate(v).fails = streak[u]
      BY <1>1, <1>2 DEF CleanSlate, IsRow, Locks
    <2> QED
      BY <1>2, <1>3, <1>4, <1>6, <2>1, <2>2 DEF u
  <1> QED
    BY <1>5, <1>6

LEMMA CountedType ==
  ASSUME IInv, NEW r \in Requests, SessionFits(r, request[r]),
         request[r].stage \in {"flushing", "committing"}, streak' = Counted(r)
  PROVE  /\ DOMAIN streak' = DOMAIN streak
         /\ \A u \in DOMAIN streak : streak'[u] \in Nat
         /\ \A u \in DOMAIN streak :
               request[r].op.does # "login" \/ u # request[r].op.row
               => streak'[u] = streak[u]
  BY DEF Counted, Op, IInv, RowsSound

LEMMA FlushStep ==
  ASSUME IInv, NEW r \in Requests, Flush(r)
  PROVE  IInv'
  <1> DEFINE w == Writes(r)
             o == request[r]
  <1>1. SessionFits(r, o)
    BY DEF IInv, SessionsSound
  <1>2. o.stage = "flushing" /\ ChangeFits(o) /\ o.op \in Menu
    BY <1>1 DEF Flush, SessionFits, CreateFits
  <1>3. o.op.row \in Ids /\ IsRow(o.seen) /\ ChangesFit(o) /\ DOMAIN o.dirty = {}
    BY <1>2 DEF ChangeFits
  <1>4. CASE ~AtStatement(r)
    <2>1. /\ request' = [request EXCEPT ![r] = Ended("unchanged")]
          /\ stale' = NowStale(r) /\ streak' = Counted(r) /\ rows' = rows
      BY <1>4 DEF Flush
    <2>2. DOMAIN streak' = DOMAIN streak /\ \A u \in DOMAIN streak : streak'[u] \in Nat
      BY <1>1, <1>2, <2>1, CountedType
    <2>3. SessionFits(r, Ended("unchanged")) /\ Ended("unchanged").stage = "ended"
      BY DEF SessionFits, Ended
    <2>4. SessionsSound' /\ Apart'
      BY <2>1, <2>2, <2>3, QuietSessions
    <2>5. RowsSound' /\ LossOnlyFromARace'
      BY <2>1, <2>2 DEF IInv, RowsSound, LossOnlyFromARace, Ids, NowStale
    <2>6. CountsSound'
      <3> SUFFICES ASSUME NEW u \in DOMAIN streak, u \notin stale'
                   PROVE  /\ rows[u].locked = "yes" <=> streak'[u] >= MaxFailed
                          /\ rows[u].locked # "expired" => rows[u].fails = streak'[u]
                          /\ rows[u].locked = "expired" => streak'[u] = 0
        BY <2>1, <2>2 DEF CountsSound
      <3>1. u \notin stale
        BY <2>1 DEF NowStale
      <3>2. CASE o.op.does = "login" /\ u = o.op.row
        <4>1. o.seen = rows[u]
          BY <2>1, <3>2 DEF NowStale, Op
        <4>2. DOMAIN o.changes = {}
          BY <1>2, <1>4 DEF AtStatement
        <4>3. /\ Merge(o.seen, o.changes).fails = rows[u].fails
              /\ Merge(o.seen, o.changes).locked = rows[u].locked
          BY <1>3, <4>1, <4>2 DEF Merge, IsRow, Columns
        <4> QED
          BY <1>1, <1>2, <2>1, <3>1, <3>2, <4>1, <4>3, AttemptCounts
      <3>3. CASE ~(o.op.does = "login" /\ u = o.op.row)
        <4>1. streak'[u] = streak[u]
          BY <1>1, <1>2, <2>1, <3>3, CountedType
        <4> QED
          BY <3>1, <4>1 DEF IInv, CountsSound
      <3> QED
        BY <3>2, <3>3
    <2> QED
      BY <2>4, <2>5, <2>6 DEF IInv
  <1>5. CASE AtStatement(r) /\ IndexRefuses(r, w.id, w.row)
    BY <1>5, RollBackStep DEF Flush
  <1>6. CASE AtStatement(r) /\ ~IndexRefuses(r, w.id, w.row)
    <2>1. /\ request' = [request EXCEPT ![r] = Flushed(r, w)] /\ WaitsFor(r) = {}
          /\ UNCHANGED <<rows, streak, stale>>
      BY <1>6 DEF Flush
    <2> DEFINE q == Flushed(r, w)
    <2>2. /\ DOMAIN q = DOMAIN o /\ q.op = o.op /\ q.seen = o.seen
          /\ q.changes = o.changes /\ q.stage = "committing"
          /\ q.dirty = Put(o.dirty, w.id, w.row)
      BY <1>1, <1>2 DEF SessionFits, Flushed
    <2>3. w.id = o.op.row /\ w.row = Merge(rows[o.op.row], o.changes)
      BY <1>2 DEF Writes, Op
    <2> HIDE DEF q, w
    <2>4. DOMAIN q.dirty = {q.op.row} /\ q.dirty[q.op.row] = Merge(rows[q.op.row], q.changes)
      BY <1>3, <2>2, <2>3 DEF Put
    <2>5. ChangesFit(q)
      BY <1>3, <2>2 DEF ChangesFit
    <2>6. ChangeFits(q)
      BY <1>2, <1>3, <2>2, <2>4, <2>5 DEF ChangeFits
    <2>7. SessionFits(r, q)
      BY <1>1, <1>2, <2>2, <2>6 DEF SessionFits
    <2>8. r \in InFlight
      BY <1>2 DEF InFlight
    <2> QED
      BY <1>6, <2>1, <2>2, <2>7, <2>8, WriteStep DEF q, w
  <1> QED
    BY <1>4, <1>5, <1>6

-----------------------------------------------------------------------------
(* Commit, and the clock.                                                  *)

\* A session fits the new rows as well if the one row it is to overwrite is
\* as it was.
LEMMA FitsOn ==
  ASSUME Ids \subseteq Ids', DOMAIN streak' = DOMAIN streak
  PROVE  \A p : \A s \in Requests :
            /\ SessionFits(s, p)
            /\ p.stage = "committing" /\ ChangeFits(p) =>
                  rows'[p.op.row] = rows[p.op.row]
            => SessionFits(s, p)'
  <1> SUFFICES ASSUME NEW p, NEW s \in Requests, SessionFits(s, p),
                      p.stage = "committing" /\ ChangeFits(p) =>
                         rows'[p.op.row] = rows[p.op.row]
               PROVE  SessionFits(s, p)'
    OBVIOUS
  <1>1. CreateFits(s, p) => CreateFits(s, p)'
    BY DEF CreateFits
  <1>2. ChangesFit(p) => ChangesFit(p)'
    BY DEF ChangesFit
  <1>3. ChangeFits(p) => ChangeFits(p)'
    BY <1>2 DEF ChangeFits
  <1> QED
    BY <1>1, <1>3 DEF SessionFits

LEMMA CommitApart ==
  ASSUME IInv, NEW r \in Requests, Commit(r)
  PROVE  /\ Apart'
         /\ Ids' = Ids \cup Written(r)
         /\ \A i \in Ids' : rows'[i] = IF i \in Written(r) THEN Dirty(r)[i] ELSE rows[i]
         /\ Dirty(r) = request[r].dirty
         /\ \A s \in Requests : s # r =>
               /\ request'[s] = request[s]
               /\ Written(s) \cap Written(r) = {}
         /\ request'[r].stage = "ended" /\ DOMAIN request' = Requests
  <1>1. r \in InFlight /\ Dirty(r) = request[r].dirty
    BY DEF Commit, InFlight, Dirty
  <1>2. /\ rows' = Merge(rows, Dirty(r))
        /\ request' = [request EXCEPT ![r] = Ended("committed")]
    BY DEF Commit
  <1>3. /\ Ids' = Ids \cup Written(r)
        /\ \A i \in Ids' : rows'[i] = IF i \in Written(r) THEN Dirty(r)[i] ELSE rows[i]
    BY <1>2 DEF Ids, Written, Merge
  <1>4. /\ DOMAIN request' = Requests /\ request'[r].stage = "ended"
        /\ \A s \in Requests : s # r => request'[s] = request[s]
    BY <1>2 DEF IInv, SessionsSound, Ended
  <1>5. /\ Written(r)' = {}
        /\ \A s \in Requests : s # r => Dirty(s)' = Dirty(s) /\ Written(s)' = Written(s)
    BY <1>4 DEF Written, Dirty, InFlight
  <1>6. \A s \in Requests : s # r => Written(s) \cap Written(r) = {}
    BY DEF IInv, Apart
  <1>7. ASSUME NEW i \in Ids', NEW j \in Ids', i # j
        PROVE  ~Clash(rows'[i], rows'[j])
    <2>1. CASE i \in Written(r) /\ j \in Written(r)
      BY <1>3, <1>7, <2>1 DEF IInv, Apart
    <2>2. CASE i \in Written(r) /\ j \notin Written(r)
      BY <1>3, <1>7, <2>2, ClashSymmetric DEF IInv, Apart
    <2>3. CASE i \notin Written(r) /\ j \in Written(r)
      BY <1>3, <1>7, <2>3 DEF IInv, Apart
    <2>4. CASE i \notin Written(r) /\ j \notin Written(r)
      BY <1>3, <1>7, <2>4 DEF IInv, Apart
    <2> QED
      BY <2>1, <2>2, <2>3, <2>4
  <1>8. ASSUME NEW s \in Requests, s # r, NEW i \in Written(s),
               NEW j \in Ids' \ Written(s)
        PROVE  ~Clash(rows'[j], Dirty(s)[i])
    <2>1. CASE j \in Written(r)
      BY <1>3, <1>8, <2>1 DEF IInv, Apart
    <2>2. CASE j \notin Written(r)
      BY <1>3, <1>8, <2>2 DEF IInv, Apart
    <2> QED
      BY <2>1, <2>2
  <1>9. \A s \in Requests : s # r =>
          /\ \A i, j \in Written(s) : i # j => ~Clash(Dirty(s)[i], Dirty(s)[j])
          /\ \A t \in Requests \ {s} : \A i \in Written(s), j \in Written(t) :
                 i # j /\ ~Clash(Dirty(s)[i], Dirty(t)[j])
    BY DEF IInv, Apart
  <1>10. ASSUME NEW s \in Requests
         PROVE  /\ \A i \in Written(s)', j \in Ids' \ Written(s)' :
                      ~Clash(rows'[j], Dirty(s)'[i])
                /\ \A i, j \in Written(s)' :
                      i # j => ~Clash(Dirty(s)'[i], Dirty(s)'[j])
                /\ \A t \in Requests \ {s} : \A i \in Written(s)', j \in Written(t)' :
                      i # j /\ ~Clash(Dirty(s)'[i], Dirty(t)'[j])
    <2>1. CASE s = r
      BY <1>5, <2>1
    <2>2. CASE s # r
      BY <1>5, <1>8, <1>9, <2>2
    <2> QED
      BY <2>1, <2>2
  <1>11. Apart'
    BY <1>7, <1>10 DEF Apart
  <1> QED
    BY <1>1, <1>3, <1>4, <1>6, <1>11

LEMMA CommitStep ==
  ASSUME IInv, NEW r \in Requests, Commit(r)
  PROVE  IInv'
  <1> DEFINE o == request[r]
             id == o.op.row
  <1>1. /\ Apart'
        /\ Ids' = Ids \cup Written(r)
        /\ \A i \in Ids' : rows'[i] = IF i \in Written(r) THEN o.dirty[i] ELSE rows[i]
        /\ Written(r) = DOMAIN o.dirty
        /\ \A s \in Requests : s # r =>
              /\ request'[s] = request[s]
              /\ Written(s) \cap Written(r) = {}
        /\ request'[r].stage = "ended" /\ DOMAIN request' = Requests
    BY CommitApart DEF Written
  <1>2. /\ SessionFits(r, o) /\ o.stage = "committing"
        /\ CreateFits(r, o) \/ ChangeFits(o)
    BY DEF IInv, SessionsSound, SessionFits, Commit
  <1>3. /\ DOMAIN streak' = DOMAIN streak
        /\ \A u \in DOMAIN streak : streak'[u] \in Nat
        /\ stale \subseteq stale'
    BY <1>2, CountedType DEF Commit, NowStale, IInv, RowsSound
  <1>4. \A s \in Requests : s # r =>
           (request[s].stage = "committing" /\ ChangeFits(request[s]) =>
               rows'[request[s].op.row] = rows[request[s].op.row])
    BY <1>1 DEF ChangeFits, Written, Dirty, InFlight
  <1>5. SessionsSound'
    <2>1. \A p : \A s \in Requests : p.stage = "ended" => SessionFits(s, p)'
      BY DEF SessionFits
    <2>2. Ids \subseteq Ids' /\ DOMAIN streak' = DOMAIN streak
      BY <1>1, <1>3
    <2>3. \A p : \A s \in Requests :
             /\ SessionFits(s, p)
             /\ p.stage = "committing" /\ ChangeFits(p) =>
                   rows'[p.op.row] = rows[p.op.row]
             => SessionFits(s, p)'
      BY <2>2, FitsOn
    <2> QED
      BY <1>1, <1>4, <2>1, <2>3 DEF IInv, SessionsSound
  <1>6. CASE CreateFits(r, o)
    <2>1. /\ UNCHANGED <<stale, streak>>
          /\ \A i \in Written(r) : IsRow(o.dirty[i]) /\ PositiveMargin(o.dirty[i])
          /\ Written(r) \cap DOMAIN Seeded = {}
      BY <1>1, <1>6, MasterDataAssumption DEF Commit, CreateFits
    <2>2. RowsSound'
      BY <1>1, <2>1 DEF IInv, RowsSound
    <2>3. LossOnlyFromARace'
      BY <1>1, <2>1 DEF IInv, LossOnlyFromARace
    <2>4. \A u \in DOMAIN streak : rows'[u] = rows[u]
      BY <1>1, <2>1 DEF IInv, RowsSound
    <2>5. CountsSound'
      BY <2>1, <2>4 DEF IInv, CountsSound
    <2> QED
      BY <1>1, <1>5, <2>2, <2>3, <2>5 DEF IInv
  <1>7. CASE ChangeFits(o)
    <2> DEFINE new == Merge(rows[id], o.changes)
    <2>1. /\ id \in Ids /\ IsRow(o.seen) /\ ChangesFit(o) /\ Written(r) = {id}
          /\ o.dirty[id] = new /\ IsRow(rows[id])
      BY <1>1, <1>2, <1>7 DEF ChangeFits, IInv, RowsSound
    <2>2. /\ stale' = NowStale(r) /\ streak' = Counted(r)
      BY <2>1 DEF Commit, IsRow, Unread, Kinds, None
    <2>3. Ids' = Ids /\ rows'[id] = new /\ \A i \in Ids : i # id => rows'[i] = rows[i]
      BY <1>1, <2>1
    <2>4. id \notin stale' => id \notin stale /\ o.seen = rows[id]
      BY <2>2 DEF NowStale, Op
    <2>5. IsRow(new)
      BY <2>1 DEF IsRow, ChangesFit, Merge, Columns
    <2>9. new.kind = rows[id].kind
      BY <2>1 DEF IsRow, ChangesFit, Merge, Columns
    <2>6. RowsSound'
      <3>1. \A u \in DOMAIN streak : u \in Ids /\ rows'[u].kind = rows[u].kind
        BY <2>3, <2>9 DEF IInv, RowsSound
      <3> QED
        BY <1>3, <2>3, <2>5, <3>1 DEF IInv, RowsSound
    <2>7. LossOnlyFromARace'
      <3> SUFFICES ASSUME NEW i \in Ids, i \notin stale'
                   PROVE  PositiveMargin(rows'[i])
        BY <2>3 DEF LossOnlyFromARace
      <3>1. CASE i = id
        BY <2>1, <2>3, <2>4, <3>1 DEF IInv, LossOnlyFromARace, ChangesFit
      <3>2. CASE i # id
        BY <1>3, <2>3, <3>2 DEF IInv, LossOnlyFromARace
      <3> QED
        BY <3>1, <3>2
    <2>8. CountsSound'
      <3> SUFFICES ASSUME NEW u \in DOMAIN streak, u \notin stale'
                   PROVE  /\ rows'[u].locked = "yes" <=> streak'[u] >= MaxFailed
                          /\ rows'[u].locked # "expired" => rows'[u].fails = streak'[u]
                          /\ rows'[u].locked = "expired" => streak'[u] = 0
        BY <1>3 DEF CountsSound
      <3>1. u \notin stale /\ u \in Ids
        BY <1>3 DEF IInv, RowsSound
      <3>2. CASE u # id
        <4>1. streak'[u] = streak[u] /\ rows'[u] = rows[u]
          BY <1>2, <2>2, <2>3, <3>1, <3>2, CountedType
        <4> QED
          BY <3>1, <4>1 DEF IInv, CountsSound
      <3>3. CASE u = id /\ o.op.does = "login"
        <4>1. o.seen = rows[id] /\ id \notin stale
          BY <2>4, <3>3
        <4>2. rows'[id] = Merge(o.seen, o.changes)
          BY <2>3, <4>1
        <4> QED
          BY <1>2, <2>2, <3>3, <4>1, <4>2, AttemptCounts
      <3>4. CASE u = id /\ o.op.does = "update"
        <4>1. streak'[u] = streak[u]
          BY <1>2, <2>2, <3>4, CountedType
        <4>2. new.fails = rows[id].fails /\ new.locked = rows[id].locked
          BY <2>1, <3>4 DEF ChangesFit, Merge, IsRow, Columns
        <4> QED
          BY <2>3, <3>1, <3>4, <4>1, <4>2 DEF IInv, CountsSound
      <3> QED
        BY <1>7, <3>2, <3>3, <3>4 DEF ChangeFits
    <2> QED
      BY <1>1, <1>5, <2>6, <2>7, <2>8 DEF IInv
  <1> QED
    BY <1>2, <1>6, <1>7

\* A lock expires: nobody is about to write the row.
LEMMA LockExpiresStep ==
  ASSUME IInv, NEW u \in Ids, LockExpires(u)
  PROVE  IInv'
  <1>1. /\ u \in DOMAIN streak /\ rows[u].locked = "yes"
        /\ rows' = [rows EXCEPT ![u].locked = "expired"]
        /\ streak' = [streak EXCEPT ![u] = 0]
        /\ UNCHANGED <<request, stale>>
        /\ \A s \in Requests : u \notin Written(s)
    BY DEF LockExpires, Written, Dirty
  <1>2. /\ Ids' = Ids /\ \A i \in Ids : i # u => rows'[i] = rows[i]
        /\ DOMAIN rows'[u] = DOMAIN rows[u] /\ rows'[u].locked = "expired"
        /\ \A c \in Columns \ {"locked"} : rows'[u][c] = rows[u][c]
    <2>1. DOMAIN rows[u] = Columns /\ "locked" \in Columns
      BY DEF IInv, RowsSound, IsRow, Columns
    <2>2. rows'[u] = [rows[u] EXCEPT !.locked = "expired"]
      BY <1>1 DEF Ids
    <2>3. Ids' = Ids /\ \A i \in Ids : i # u => rows'[i] = rows[i]
      BY <1>1 DEF Ids
    <2> QED
      BY <2>1, <2>2, <2>3
  <1>3. /\ DOMAIN streak' = DOMAIN streak /\ streak'[u] = 0
        /\ \A v \in DOMAIN streak : v # u => streak'[v] = streak[v]
    BY <1>1
  <1>4. RowsSound'
    BY <1>1, <1>2, <1>3 DEF IInv, RowsSound, IsRow, Columns, Locks
  <1>5. SessionsSound'
    <2>1. \A s \in Requests :
             (request[s].stage = "committing" /\ ChangeFits(request[s]) =>
                 rows'[request[s].op.row] = rows[request[s].op.row])
      BY <1>1, <1>2 DEF ChangeFits, Written, Dirty, InFlight
    <2>2. \A p : \A s \in Requests :
             /\ SessionFits(s, p)
             /\ p.stage = "committing" /\ ChangeFits(p) =>
                   rows'[p.op.row] = rows[p.op.row]
             => SessionFits(s, p)'
      BY <1>2, <1>3, FitsOn
    <2> QED
      BY <1>1, <2>1, <2>2 DEF IInv, SessionsSound
  <1>6. Apart'
    <2>1. \A b : \A i \in Ids : Clash(rows'[i], b) <=> Clash(rows[i], b)
      BY <1>2 DEF Clash, SameKey, Columns
    <2>2. \A i, j \in Ids : Clash(rows'[i], rows'[j]) <=> Clash(rows[i], rows[j])
      BY <1>2 DEF Clash, SameKey, Columns
    <2>3. \A s \in Requests : Dirty(s)' = Dirty(s) /\ Written(s)' = Written(s)
      BY <1>1 DEF Dirty, Written, InFlight
    <2> QED
      BY <1>2, <2>1, <2>2, <2>3 DEF IInv, Apart
  <1>7. LossOnlyFromARace'
    BY <1>1, <1>2 DEF IInv, LossOnlyFromARace, PositiveMargin, Columns
  <1>8. CountsSound'
    BY <1>1, <1>2, <1>3, MasterDataAssumption DEF IInv, CountsSound, RowsSound
  <1> QED
    BY <1>4, <1>5, <1>6, <1>7, <1>8 DEF IInv

-----------------------------------------------------------------------------
(* The theorems.                                                           *)

LEMMA NextIInv == IInv /\ [Next]_vars => IInv'
  <1> SUFFICES ASSUME IInv, [Next]_vars PROVE IInv'
    OBVIOUS
  <1>1. CASE UNCHANGED vars
    <2>1. SessionsSound'
      <3>1. \A p : \A s \in Requests : SessionFits(s, p) <=> SessionFits(s, p)'
        BY <1>1 DEF vars, SessionFits, CreateFits, ChangeFits, Ids
      <3> QED
        BY <1>1, <3>1 DEF vars, IInv, SessionsSound
    <2>2. \A s \in Requests : Dirty(s)' = Dirty(s) /\ Written(s)' = Written(s)
      BY <1>1 DEF vars, Dirty, Written, InFlight
    <2>3. Apart'
      BY <1>1, <2>2 DEF vars, IInv, Apart, Ids
    <2>4. RowsSound' /\ LossOnlyFromARace' /\ CountsSound'
      BY <1>1 DEF vars, IInv, RowsSound, LossOnlyFromARace, CountsSound, Ids
    <2> QED
      BY <2>1, <2>3, <2>4 DEF IInv
  <1>2. ASSUME NEW r \in Requests, NEW op \in Menu, Begin(r, op) PROVE IInv'
    BY <1>2, BeginStep
  <1>3. ASSUME NEW r \in Requests, CheckNew(r) PROVE IInv'
    BY <1>3, CheckNewStep
  <1>4. ASSUME NEW r \in Requests, LoadRow(r) PROVE IInv'
    BY <1>4, LoadRowStep
  <1>5. ASSUME NEW r \in Requests, Login(r) PROVE IInv'
    BY <1>5, LoginStep
  <1>6. ASSUME NEW r \in Requests, Insert(r) PROVE IInv'
    BY <1>6, InsertStep
  <1>7. ASSUME NEW r \in Requests, Flush(r) PROVE IInv'
    BY <1>7, FlushStep
  <1>8. ASSUME NEW r \in Requests, Commit(r) PROVE IInv'
    BY <1>8, CommitStep
  <1>9. ASSUME NEW r \in Requests, Deadlocked(r) \/ Crash(r) PROVE IInv'
    BY <1>9, RollBackStep DEF Deadlocked, Crash
  <1>10. ASSUME NEW u \in Ids, LockExpires(u) PROVE IInv'
    BY <1>10, LockExpiresStep
  <1>11. CASE Next
    BY <1>1, <1>2, <1>3, <1>4, <1>5, <1>6, <1>7, <1>8, <1>9, <1>10, <1>11
       DEF Next, Proceed, Finished
  <1> QED
    BY <1>1, <1>11

THEOREM MasterDataInvariance == Spec => []IInv
  <1> QED
    BY InitIInv, NextIInv, PTL DEF Spec

\* However the requests interleave, no two committed rows share a key or a
\* barcode: the flush waits for, or loses to, whoever came first
\* (products/models.py, users/models.py: the unique constraints).
THEOREM KeysStayUnique == Spec => []KeysAreUnique
  <1>1. IInv => KeysAreUnique
    BY DEF IInv, Apart, KeysAreUnique, Clash
  <1> QED
    BY <1>1, MasterDataInvariance, PTL

\* A product below cost has been written by a request that decided on an old
\* version of it; without such a race Rule 2 of products/service.py holds.
THEOREM LossNeedsARace == Spec => []LossOnlyFromARace
  <1>1. IInv => LossOnlyFromARace
    BY DEF IInv
  <1> QED
    BY <1>1, MasterDataInvariance, PTL

\* Unless attempts overlapped, an account is locked after exactly MaxFailed
\* wrong passwords in a row (users/router.py, login).
THEOREM AttemptsCounted == Spec => []AttemptsAreCounted
  <1>1. IInv => AttemptsAreCounted
    BY DEF IInv, CountsSound, AttemptsAreCounted
  <1> QED
    BY <1>1, MasterDataInvariance, PTL

-----------------------------------------------------------------------------
(* The trail.  A session's own entries say, of every row it has written,   *)
(* what was changed: the trail, followed by them, tells the row.           *)

IsSeq(log) == log \in Seq({log[n] : n \in 1..Len(log)})

\* A log of changes to rows of the ids, of columns they have.
IsLog(log, ids) ==
    /\ IsSeq(log)
    /\ \A n \in 1..Len(log) :
          log[n].row \in ids /\ DOMAIN log[n].values \subseteq Columns

\* Columns of rows whose history the trail must give.
Signed(row, c) == row.kind \in AUDITED_TABLES /\ c \notin LoginColumns(row)

\* The table has nothing else than v to tell of a column.
Stored(i, c, row) ==
    IF i \in Ids THEN rows[i][c] = row[c] /\ rows[i].kind = row.kind
    ELSE c \in DOMAIN ColumnDefaults /\ ColumnDefaults[c] = row[c]

\* What the log says of a column comes to the value it has now, if it had the
\* value before in the row of the table, or is a new row's default.
Covers(log, i, c, row) ==
    \/ LastWord(log, i, c, row[c])
    \/ Silent(log, i, c) /\ Stored(i, c, row)

SessionTells(q) ==
    \/ q.stage \in {"new", "ended"}
    \/ /\ IsLog(q.entries, DOMAIN q.dirty)
       /\ \A i \in DOMAIN q.dirty : \A c \in Columns :
             Signed(q.dirty[i], c) => Covers(q.entries, i, c, q.dirty[i])

\* What the trail, the seed or a default says of a column.
Told(log, i, c, v) ==
    \/ LastWord(log, i, c, v)
    \/ Silent(log, i, c) /\ c \in DOMAIN Origin(i) /\ Origin(i)[c] = v

TrailSound ==
    /\ IsLog(trail, Ids)
    /\ \A i \in Ids : \A c \in Columns :
          Signed(rows[i], c) => Told(trail, i, c, rows[i][c])

\* The ids a request gives its rows are in no table before it commits.
FreshIds ==
    \A r \in Requests : request[r].stage # "ended" => Ids \cap ({r} \X Nat) = {}

TrailInv == TrailSound /\ FreshIds /\ \A r \in Requests : SessionTells(request[r])

\* The log s has the entries of t, then those of u.
Joined(t, u, s) ==
    /\ Len(t) \in Nat /\ Len(u) \in Nat /\ Len(s) = Len(t) + Len(u)
    /\ \A n \in 1..Len(t) : s[n] = t[n]
    /\ \A n \in 1..Len(u) : s[Len(t) + n] = u[n]
    /\ \A n \in 1..Len(s) :
          n \in 1..Len(t) \/ \E m \in 1..Len(u) : n = Len(t) + m

LEMMA Spliced ==
  ASSUME NEW t, NEW u, IsSeq(t), IsSeq(u)
  PROVE  IsSeq(t \o u) /\ Joined(t, u, t \o u)
  <1> DEFINE A == {t[n] : n \in 1..Len(t)}
             B == {u[n] : n \in 1..Len(u)}
             S == A \cup B
             s == t \o u
  <1>1. t \in Seq(A) /\ u \in Seq(B)
    BY DEF IsSeq
  <1> HIDE DEF A, B
  <1>2. t \in Seq(S) /\ u \in Seq(S)
    BY <1>1
  <1> HIDE DEF S
  <1>3. /\ s \in Seq(S) /\ Len(s) = Len(t) + Len(u)
        /\ \A n \in 1..Len(t) + Len(u) :
              s[n] = IF n <= Len(t) THEN t[n] ELSE u[n - Len(t)]
    BY <1>2, ConcatProperties
  <1>4. Len(t) \in Nat /\ Len(u) \in Nat
    BY <1>2, LenProperties
  <1>5. Len(s) \in Nat /\ s \in [1..Len(s) -> S] /\ DOMAIN s = 1..Len(s)
    BY <1>3, LenProperties
  <1> HIDE DEF s
  <1>6. IsSeq(s)
    <2> DEFINE R == {s[n] : n \in 1..Len(s)}
    <2>1. s \in [1..Len(s) -> R]
      BY <1>5
    <2> HIDE DEF R
    <2>2. s \in Seq(R)
      BY <1>5, <2>1
    <2> QED
      BY <2>2 DEF IsSeq, R
  <1>7. \A n \in 1..Len(t) : s[n] = t[n]
    BY <1>3, <1>4
  <1>8. \A n \in 1..Len(u) : s[Len(t) + n] = u[n]
    <2> SUFFICES ASSUME NEW n \in 1..Len(u) PROVE s[Len(t) + n] = u[n]
      OBVIOUS
    <2>1. PICK k : k = Len(t) + n
      OBVIOUS
    <2>2. k \in 1..Len(t) + Len(u) /\ ~(k <= Len(t)) /\ k - Len(t) = n
      BY <1>4, <2>1
    <2> QED
      BY <1>3, <2>1, <2>2
  <1>9. ASSUME NEW n \in 1..Len(s), n \notin 1..Len(t)
        PROVE  \E m \in 1..Len(u) : n = Len(t) + m
    <2>1. PICK m : m = n - Len(t)
      OBVIOUS
    <2>2. m \in 1..Len(u) /\ n = Len(t) + m
      BY <1>3, <1>4, <1>9, <2>1
    <2> QED
      BY <2>2
  <1> QED
    BY <1>3, <1>4, <1>6, <1>7, <1>8, <1>9 DEF Joined, s

LEMMA LogsJoin ==
  ASSUME NEW t, NEW u, NEW a, NEW b, IsLog(t, a), IsLog(u, b)
  PROVE  IsLog(t \o u, a \cup b)
  <1> DEFINE s == t \o u
  <1>1. IsSeq(s) /\ Joined(t, u, s)
    BY Spliced DEF IsLog
  <1> HIDE DEF s
  <1>2. ASSUME NEW n \in 1..Len(s)
        PROVE  s[n].row \in a \cup b /\ DOMAIN s[n].values \subseteq Columns
    <2>1. CASE n \in 1..Len(t)
      BY <1>1, <2>1 DEF IsLog, Joined
    <2>2. CASE \E m \in 1..Len(u) : n = Len(t) + m
      <3>1. PICK m \in 1..Len(u) : n = Len(t) + m
        BY <2>2
      <3>2. s[n] = u[m]
        BY <1>1, <3>1 DEF Joined
      <3> QED
        BY <3>2 DEF IsLog
    <2> QED
      BY <1>1, <2>1, <2>2 DEF Joined
  <1> QED
    BY <1>1, <1>2 DEF IsLog, s, Joined

\* What the later log says holds of both together; where it says nothing, what
\* the earlier one says.
LEMMA LaterWord ==
  ASSUME NEW t, NEW u, IsSeq(t), IsSeq(u), NEW i, NEW c, NEW v,
         LastWord(u, i, c, v)
  PROVE  LastWord(t \o u, i, c, v)
  <1> DEFINE s == t \o u
  <1>1. Joined(t, u, s)
    BY Spliced
  <1> HIDE DEF s
  <1>2. PICK n \in 1..Len(u) :
           /\ Mentions(u[n], i, c) /\ u[n].values[c] = v
           /\ \A m \in 1..Len(u) : Mentions(u[m], i, c) => m <= n
    BY DEF LastWord
  <1>3. PICK k : k = Len(t) + n
    OBVIOUS
  <1>4. k \in 1..Len(s) /\ s[k] = u[n]
    BY <1>1, <1>3 DEF Joined
  <1>5. ASSUME NEW m \in 1..Len(s), Mentions(s[m], i, c)
        PROVE  m <= k
    <2>1. CASE m \in 1..Len(t)
      BY <1>1, <1>3, <2>1 DEF Joined
    <2>2. CASE \E l \in 1..Len(u) : m = Len(t) + l
      <3>1. PICK l \in 1..Len(u) : m = Len(t) + l
        BY <2>2
      <3>2. s[m] = u[l]
        BY <1>1, <3>1 DEF Joined
      <3>3. l <= n
        BY <1>2, <1>5, <3>2
      <3> QED
        BY <1>1, <1>3, <3>1, <3>3 DEF Joined
    <2> QED
      BY <1>1, <2>1, <2>2 DEF Joined
  <1>6. LastWord(s, i, c, v)
    BY <1>2, <1>4, <1>5 DEF LastWord
  <1> QED
    BY <1>6 DEF s

LEMMA EarlierWord ==
  ASSUME NEW t, NEW u, IsSeq(t), IsSeq(u), NEW i, NEW c, Silent(u, i, c)
  PROVE  /\ \A v : LastWord(t, i, c, v) => LastWord(t \o u, i, c, v)
         /\ Silent(t, i, c) => Silent(t \o u, i, c)
  <1> DEFINE s == t \o u
  <1>1. Joined(t, u, s)
    BY Spliced
  <1> HIDE DEF s
  <1>2. ASSUME NEW m \in 1..Len(s), Mentions(s[m], i, c)
        PROVE  m \in 1..Len(t) /\ s[m] = t[m]
    <2>1. CASE m \in 1..Len(t)
      BY <1>1, <2>1 DEF Joined
    <2>2. CASE \E l \in 1..Len(u) : m = Len(t) + l
      <3>1. PICK l \in 1..Len(u) : m = Len(t) + l
        BY <2>2
      <3>2. s[m] = u[l]
        BY <1>1, <3>1 DEF Joined
      <3> QED
        BY <1>2, <3>2 DEF Silent
    <2> QED
      BY <1>1, <2>1, <2>2 DEF Joined
  <1>3. ASSUME NEW v, LastWord(t, i, c, v)
        PROVE  LastWord(s, i, c, v)
    <2>1. PICK n \in 1..Len(t) :
             /\ Mentions(t[n], i, c) /\ t[n].values[c] = v
             /\ \A m \in 1..Len(t) : Mentions(t[m], i, c) => m <= n
      BY <1>3 DEF LastWord
    <2>2. n \in 1..Len(s) /\ s[n] = t[n]
      BY <1>1 DEF Joined
    <2>3. \A m \in 1..Len(s) : Mentions(s[m], i, c) => m <= n
      BY <1>2, <2>1
    <2> QED
      BY <2>1, <2>2, <2>3 DEF LastWord
  <1>4. Silent(t, i, c) => Silent(s, i, c)
    BY <1>2 DEF Silent
  <1> QED
    BY <1>3, <1>4 DEF s

-----------------------------------------------------------------------------
(* What a session adds to its entries.                                     *)

LEMMA EmptyLog == IsLog(<<>>, {})
  <1>1. <<>> \in Seq({<<>>[n] : n \in 1..Len(<<>>)}) /\ Len(<<>>) = 0
    OBVIOUS
  <1> QED
    BY <1>1 DEF IsLog, IsSeq

LEMMA OneEntry ==
  ASSUME NEW e, DOMAIN e.values \subseteq Columns
  PROVE  /\ IsLog(<<e>>, {e.row})
         /\ \A i, c : i # e.row \/ c \notin DOMAIN e.values => Silent(<<e>>, i, c)
         /\ \A c \in DOMAIN e.values : LastWord(<<e>>, e.row, c, e.values[c])
  <1>1. Len(<<e>>) = 1 /\ <<e>>[1] = e /\ 1 \in 1..Len(<<e>>)
    OBVIOUS
  <1>2. \A n \in 1..Len(<<e>>) : n = 1 /\ <<e>>[n] = e /\ n <= 1
    OBVIOUS
  <1>3. IsSeq(<<e>>)
    <2>1. <<e>> \in Seq({e})
      OBVIOUS
    <2>2. {<<e>>[n] : n \in 1..Len(<<e>>)} = {e}
      BY <1>1, <1>2
    <2> QED
      BY <2>1, <2>2 DEF IsSeq
  <1>4. IsLog(<<e>>, {e.row})
    BY <1>2, <1>3 DEF IsLog
  <1>5. \A i, c : i # e.row \/ c \notin DOMAIN e.values => Silent(<<e>>, i, c)
    BY <1>2 DEF Silent, Mentions
  <1>6. ASSUME NEW c \in DOMAIN e.values
        PROVE  LastWord(<<e>>, e.row, c, e.values[c])
    <2>1. Mentions(<<e>>[1], e.row, c) /\ <<e>>[1].values[c] = e.values[c]
      BY <1>1 DEF Mentions
    <2> QED
      BY <1>1, <1>2, <2>1 DEF LastWord
  <1> QED
    BY <1>4, <1>5, <1>6

\* An entry of a row of an audited table records the columns written, and no
\* others; the login writes none.
LEMMA EntrySays ==
  ASSUME NEW r, NEW i, NEW old, NEW row, NEW changes,
         DOMAIN changes \subseteq Columns
  PROVE  LET e == Entry(r, i, old, [row |-> row, changes |-> changes])
         IN  /\ IsLog(e, {i})
             /\ \A j, c : j # i => Silent(e, j, c)
             /\ HasActor(r) /\ row.kind \in AUDITED_TABLES =>
                   \A c : IF c \in DOMAIN changes THEN LastWord(e, i, c, changes[c])
                          ELSE Silent(e, i, c)
  <1> DEFINE new == [row |-> row, changes |-> changes]
             e == [by |-> r, row |-> i,
                   action |-> IF old = Unread THEN "CREATE" ELSE "UPDATE",
                   values |-> new.changes]
  <1>1. e.row = i /\ e.values = changes /\ new.row = row
    OBVIOUS
  <1>2. Entry(r, i, old, new) =
           IF HasActor(r) /\ row.kind \in AUDITED_TABLES THEN <<e>> ELSE <<>>
    BY <1>1 DEF Entry
  <1> HIDE DEF new, e
  <1>3. CASE HasActor(r) /\ row.kind \in AUDITED_TABLES
    <2>1. Entry(r, i, old, new) = <<e>>
      BY <1>2, <1>3
    <2>2. /\ IsLog(<<e>>, {i})
          /\ \A j, c : j # i \/ c \notin DOMAIN changes => Silent(<<e>>, j, c)
          /\ \A c \in DOMAIN changes : LastWord(<<e>>, i, c, changes[c])
      BY <1>1, OneEntry
    <2> QED
      BY <2>1, <2>2 DEF new
  <1>4. CASE ~(HasActor(r) /\ row.kind \in AUDITED_TABLES)
    <2>1. Entry(r, i, old, new) = <<>>
      BY <1>2, <1>4
    <2>2. IsLog(<<>>, {i}) /\ \A j, c : Silent(<<>>, j, c)
      BY EmptyLog DEF IsLog, Silent
    <2> QED
      BY <1>4, <2>1, <2>2 DEF new
  <1> QED
    BY <1>3, <1>4

\* A session that writes a row, with the entry for it.
LEMMA WriteTells ==
  ASSUME NEW o, SessionTells(o), o.stage \notin {"new", "ended"},
         NEW id, NEW row, NEW e, NEW q,
         q.dirty = Put(o.dirty, id, row), q.entries = o.entries \o e,
         IsLog(e, {id}), \A j, c : j # id => Silent(e, j, c),
         \A c \in Columns : Signed(row, c) =>
            \/ LastWord(e, id, c, row[c])
            \/ id \notin DOMAIN o.dirty /\ Covers(e, id, c, row)
  PROVE  SessionTells(q)
  <1>1. /\ IsLog(o.entries, DOMAIN o.dirty)
        /\ \A i \in DOMAIN o.dirty : \A c \in Columns :
              Signed(o.dirty[i], c) => Covers(o.entries, i, c, o.dirty[i])
    BY DEF SessionTells
  <1>2. IsSeq(o.entries) /\ IsSeq(e)
    BY <1>1 DEF IsLog
  <1>3. /\ DOMAIN q.dirty = DOMAIN o.dirty \cup {id} /\ q.dirty[id] = row
        /\ \A i \in DOMAIN o.dirty : i # id => q.dirty[i] = o.dirty[i]
    BY DEF Put
  <1>4. IsLog(q.entries, DOMAIN q.dirty)
    BY <1>1, <1>3, LogsJoin
  <1>5. ASSUME NEW i \in DOMAIN q.dirty, NEW c \in Columns, Signed(q.dirty[i], c)
        PROVE  Covers(q.entries, i, c, q.dirty[i])
    <2>1. CASE i # id
      <3>1. /\ i \in DOMAIN o.dirty /\ q.dirty[i] = o.dirty[i]
            /\ Silent(e, i, c) /\ Covers(o.entries, i, c, o.dirty[i])
        BY <1>1, <1>3, <1>5, <2>1
      <3> QED
        BY <1>2, <3>1, EarlierWord DEF Covers
    <2>2. CASE i = id /\ LastWord(e, id, c, row[c])
      BY <1>2, <1>3, <2>2, LaterWord DEF Covers
    <2>3. CASE i = id /\ ~LastWord(e, id, c, row[c])
      <3>1. id \notin DOMAIN o.dirty /\ Covers(e, id, c, row)
        BY <1>3, <1>5, <2>3
      <3>2. Silent(o.entries, id, c)
        BY <1>1, <3>1 DEF Silent, Mentions, IsLog
      <3>3. Silent(e, id, c)
        BY <2>3, <3>1 DEF Covers
      <3>4. Silent(q.entries, id, c)
        BY <1>2, <3>2, <3>3, EarlierWord
      <3> QED
        BY <1>3, <2>3, <3>1, <3>3, <3>4 DEF Covers
    <2> QED
      BY <2>1, <2>2, <2>3
  <1> QED
    BY <1>4, <1>5 DEF SessionTells

-----------------------------------------------------------------------------
(* The steps, and the trail.                                               *)

\* A session goes on telling the rows it has written, which nobody else writes.
LEMMA TellsOn ==
  ASSUME Ids \subseteq Ids'
  PROVE  \A p : /\ SessionTells(p)
                /\ p.stage \notin {"new", "ended"} =>
                      \A i \in DOMAIN p.dirty :
                          IF i \in Ids THEN rows'[i] = rows[i] ELSE i \notin Ids'
                => SessionTells(p)'
  <1> SUFFICES ASSUME NEW p, SessionTells(p), p.stage \notin {"new", "ended"},
                      \A i \in DOMAIN p.dirty :
                          IF i \in Ids THEN rows'[i] = rows[i] ELSE i \notin Ids'
               PROVE  SessionTells(p)'
    BY DEF SessionTells
  <1>1. \A i \in DOMAIN p.dirty : \A log, c, row :
           Covers(log, i, c, row) => Covers(log, i, c, row)'
    BY DEF Covers, Stored
  <1>2. IsLog(p.entries, DOMAIN p.dirty)
    BY DEF SessionTells
  <1>3. \A i \in DOMAIN p.dirty : \A c \in Columns :
           Signed(p.dirty[i], c) => Covers(p.entries, i, c, p.dirty[i])'
    BY <1>1 DEF SessionTells
  <1> QED
    BY <1>2, <1>3 DEF SessionTells

LEMMA QuietTrail ==
  ASSUME IInv, TrailInv, NEW r \in Requests, NEW q,
         request' = [request EXCEPT ![r] = q], SessionTells(q),
         q.stage = "ended" \/ request[r].stage # "ended",
         UNCHANGED <<rows, trail>>
  PROVE  TrailInv'
  <1>1. /\ request'[r] = q
        /\ \A s \in Requests : s # r => request'[s] = request[s]
    BY DEF IInv, SessionsSound
  <1>2. Ids' = Ids /\ rows' = rows
    BY DEF Ids
  <1>3. \A p : SessionTells(p) => SessionTells(p)'
    BY <1>2, TellsOn
  <1>4. TrailSound'
    BY <1>2 DEF TrailInv, TrailSound
  <1>5. FreshIds'
    BY <1>1, <1>2 DEF TrailInv, FreshIds
  <1> QED
    BY <1>1, <1>3, <1>4, <1>5 DEF TrailInv

LEMMA RollBackTrail ==
  ASSUME IInv, TrailInv, NEW r \in Requests, NEW how, RollBack(r, how)
  PROVE  TrailInv'
  <1>1. SessionTells(Ended(how)) /\ Ended(how).stage = "ended"
    BY DEF SessionTells, Ended
  <1> QED
    BY <1>1, QuietTrail DEF RollBack

LEMMA BeginTrail ==
  ASSUME IInv, TrailInv, NEW r \in Requests, NEW op \in Menu, Begin(r, op)
  PROVE  TrailInv'
  <1> DEFINE q == [stage |-> "deciding", op |-> op, dirty |-> << >>, seen |-> Unread,
                   changes |-> << >>, entries |-> <<>>, at |-> 1]
  <1>1. q.entries = <<>> /\ DOMAIN q.dirty = {}
    OBVIOUS
  <1>2. /\ request' = [request EXCEPT ![r] = q] /\ UNCHANGED <<rows, trail, streak>>
        /\ request[r].stage # "ended"
    BY DEF Begin, Waiting
  <1> HIDE DEF q
  <1>3. SessionTells(q)
    BY <1>1, EmptyLog DEF SessionTells
  <1> QED
    BY <1>2, <1>3, QuietTrail

\* A session that has decided has the rows and the entries it had.
LEMMA DecidedTrail ==
  ASSUME IInv, TrailInv, NEW r \in Requests, NEW q,
         request[r].stage \notin {"new", "ended"},
         request' = [request EXCEPT ![r] = q],
         q.dirty = request[r].dirty, q.entries = request[r].entries,
         UNCHANGED <<rows, trail, stale, streak>>
  PROVE  TrailInv'
  <1>1. SessionTells(q)
    BY DEF TrailInv, SessionTells
  <1> QED
    BY <1>1, QuietTrail

LEMMA DecideTrail ==
  ASSUME IInv, TrailInv, NEW r \in Requests,
         CheckNew(r) \/ LoadRow(r) \/ Login(r)
  PROVE  TrailInv'
  <1>1. request[r].stage = "deciding"
    BY DEF CheckNew, LoadRow, Login, Deciding
  <1>2. {"stage", "dirty", "entries"} \subseteq DOMAIN request[r]
    BY <1>1 DEF IInv, SessionsSound, SessionFits
  <1>3. CASE RollBack(r, "refused")
    BY <1>3, RollBackTrail
  <1>4. ASSUME NEW changes, request' = [request EXCEPT ![r] = ToFlush(r, changes)],
               UNCHANGED <<rows, trail, stale, streak>>
        PROVE  TrailInv'
    <2>1. PICK q : q = ToFlush(r, changes)
      OBVIOUS
    <2>2. q.dirty = request[r].dirty /\ q.entries = request[r].entries
      BY <1>2, <2>1 DEF ToFlush
    <2> QED
      BY <1>1, <1>4, <2>1, <2>2, DecidedTrail
  <1>5. CASE CheckNew(r) /\ ~RollBack(r, "refused")
    <2>1. PICK q : q = [request[r] EXCEPT !.stage = "inserting"]
      OBVIOUS
    <2>2. q.dirty = request[r].dirty /\ q.entries = request[r].entries
      BY <1>2, <2>1
    <2>3. /\ request' = [request EXCEPT ![r] = q]
          /\ UNCHANGED <<rows, trail, stale, streak>>
      BY <1>5, <2>1 DEF CheckNew
    <2> QED
      BY <1>1, <2>2, <2>3, DecidedTrail
  <1>6. CASE LoadRow(r) /\ ~RollBack(r, "refused")
    BY <1>4, <1>6 DEF LoadRow
  <1>7. CASE Login(r) /\ ~RollBack(r, "refused")
    BY <1>4, <1>7 DEF Login
  <1> QED
    BY <1>3, <1>5, <1>6, <1>7

LEMMA InsertTrail ==
  ASSUME IInv, TrailInv, NEW r \in Requests, Insert(r)
  PROVE  TrailInv'
  <1> DEFINE w == Writes(r)
             o == request[r]
             given == GivenValues(w.row)
             e == Entry(r, w.id, Unread, [row |-> w.row, changes |-> given])
             q == Inserted(r, w)
  <1>1. /\ o.stage = "inserting" /\ SessionFits(r, o) /\ SessionTells(o)
        /\ {"stage", "dirty", "entries", "at"} \subseteq DOMAIN o
    BY DEF Insert, IInv, SessionsSound, SessionFits, TrailInv
  <1>2. CreateFits(r, o) /\ o.op \in Menu
    BY <1>1 DEF SessionFits, ChangeFits
  <1>3. HasActor(r) /\ w.row = o.op.rows[o.at] /\ w.id = <<r, o.at>>
    BY <1>1, <1>2 DEF HasActor, CreateFits, Op, Writes, Creating, NewId
  <1>4. /\ w.row \in Row /\ o.at \in Nat
        /\ \A c \in DOMAIN ColumnDefaults \ Given(w.row.kind) :
              w.row[c] = ColumnDefaults[c]
    <2>1. /\ o.op.rows \in Seq(Row)
          /\ \A n \in 1..Len(o.op.rows) :
                \A c \in DOMAIN ColumnDefaults \ Given(o.op.rows[n].kind) :
                    o.op.rows[n][c] = ColumnDefaults[c]
      BY <1>2, MenuAssumption DEF CreateFits
    <2> QED
      BY <1>2, <1>3, <2>1, ElementOfSeq DEF CreateFits
  <1>7. w.id \notin Ids /\ w.id \notin DOMAIN o.dirty
    <2>1. w.id \notin Ids
      BY <1>1, <1>3, <1>4 DEF TrailInv, FreshIds
    <2>2. w.id \in DOMAIN o.dirty => w.id[2] < o.at
      BY <1>1, <1>2 DEF CreateFits
    <2> QED
      BY <1>3, <1>4, <2>1, <2>2
  <1>5. CASE RollBack(r, "conflict")
    BY <1>5, RollBackTrail
  <1>6. CASE ~RollBack(r, "conflict")
    <2>1. request' = [request EXCEPT ![r] = q] /\ UNCHANGED <<rows, trail, stale, streak>>
      BY <1>6 DEF Insert
    <2>2. q.dirty = Put(o.dirty, w.id, w.row) /\ q.entries = o.entries \o e
      BY <1>1 DEF Inserted
    <2>3. /\ DOMAIN w.row = Columns /\ w.row.kind \in Kinds
          /\ DOMAIN given = Given(w.row.kind)
          /\ \A c \in DOMAIN given : given[c] = w.row[c]
      BY <1>4, RowsAreRows DEF IsRow, GivenValues
    <2>4. /\ DOMAIN given \subseteq Columns
          /\ \A c \in Columns : c \in DOMAIN given \/ c \in DOMAIN ColumnDefaults
      BY <2>3 DEF Given, Columns, ColumnDefaults
    <2> HIDE DEF w, o, q, given
    <2>5. /\ IsLog(e, {w.id}) /\ \A j, c : j # w.id => Silent(e, j, c)
          /\ HasActor(r) /\ w.row.kind \in AUDITED_TABLES =>
                \A c : IF c \in DOMAIN given THEN LastWord(e, w.id, c, given[c])
                       ELSE Silent(e, w.id, c)
      BY <2>4, EntrySays
    <2> HIDE DEF e
    <2>6. ASSUME NEW c \in Columns, Signed(w.row, c)
          PROVE  LastWord(e, w.id, c, w.row[c]) \/ Covers(e, w.id, c, w.row)
      <3>1. CASE c \in DOMAIN given
        BY <1>3, <2>3, <2>5, <2>6, <3>1 DEF Signed
      <3>2. CASE c \notin DOMAIN given
        <4>1. c \in DOMAIN ColumnDefaults /\ w.row[c] = ColumnDefaults[c]
          BY <1>4, <2>3, <2>4, <3>2
        <4>2. Silent(e, w.id, c)
          BY <1>3, <2>5, <2>6, <3>2 DEF Signed
        <4> QED
          BY <1>7, <4>1, <4>2 DEF Covers, Stored
      <3> QED
        BY <3>1, <3>2
    <2>7. SessionTells(q)
      BY <1>1, <1>7, <2>2, <2>5, <2>6, WriteTells
    <2> QED
      BY <1>1, <2>1, <2>7, QuietTrail DEF o
  <1> QED
    BY <1>5, <1>6

LEMMA FlushTrail ==
  ASSUME IInv, TrailInv, NEW r \in Requests, Flush(r)
  PROVE  TrailInv'
  <1> DEFINE w == Writes(r)
             o == request[r]
             e == Entry(r, w.id, o.seen, [row |-> w.row, changes |-> o.changes])
             q == Flushed(r, w)
  <1>1. /\ o.stage = "flushing" /\ SessionFits(r, o) /\ SessionTells(o)
        /\ {"stage", "dirty", "entries"} \subseteq DOMAIN o
    BY DEF Flush, IInv, SessionsSound, SessionFits, TrailInv
  <1>2. /\ ChangeFits(o) /\ o.op.row \in Ids /\ ChangesFit(o)
        /\ DOMAIN o.dirty = {} /\ IsRow(rows[o.op.row])
        /\ o.op.does = "login" => rows[o.op.row].kind = "user"
    BY <1>1 DEF SessionFits, CreateFits, ChangeFits, IInv, RowsSound
  <1>3. w.id = o.op.row /\ w.row = Merge(rows[o.op.row], o.changes)
    BY <1>1 DEF Writes, Op
  <1>4. CASE ~AtStatement(r)
    <2>1. /\ request' = [request EXCEPT ![r] = Ended("unchanged")]
          /\ UNCHANGED <<rows, trail>>
      BY <1>4 DEF Flush
    <2>2. SessionTells(Ended("unchanged")) /\ Ended("unchanged").stage = "ended"
      BY DEF SessionTells, Ended
    <2> QED
      BY <2>1, <2>2, QuietTrail
  <1>5. CASE AtStatement(r) /\ IndexRefuses(r, w.id, w.row)
    BY <1>5, RollBackTrail DEF Flush
  <1>6. CASE AtStatement(r) /\ ~IndexRefuses(r, w.id, w.row)
    <2>1. request' = [request EXCEPT ![r] = q] /\ UNCHANGED <<rows, trail, stale, streak>>
      BY <1>6 DEF Flush
    <2>2. q.dirty = Put(o.dirty, w.id, w.row) /\ q.entries = o.entries \o e
      BY <1>1 DEF Flushed
    <2>3. DOMAIN o.changes \subseteq Columns \ {"kind"}
      BY <1>2 DEF ChangesFit
    <2>4. \A c \in Columns : w.row[c] = IF c \in DOMAIN o.changes THEN o.changes[c]
                                        ELSE rows[w.id][c]
      BY <1>2, <1>3 DEF Merge, IsRow
    <2>5. w.row.kind = rows[w.id].kind
      BY <2>3, <2>4 DEF Columns
    <2>6. /\ HasActor(r) \/ (w.row.kind = "user" /\ ~HasActor(r))
          /\ ~HasActor(r) => DOMAIN o.changes \subseteq {"fails", "locked"}
      BY <1>2, <1>3, <2>5 DEF HasActor, Op, ChangesFit
    <2>7. w.id \in Ids /\ w.id \notin DOMAIN o.dirty
      BY <1>2, <1>3
    <2>11. ~HasActor(r) => \A c : Silent(e, w.id, c)
      BY EmptyLog DEF Entry, IsLog, Silent
    <2> HIDE DEF w, o, q
    <2>8. /\ IsLog(e, {w.id}) /\ \A j, c : j # w.id => Silent(e, j, c)
          /\ HasActor(r) /\ w.row.kind \in AUDITED_TABLES =>
                \A c : IF c \in DOMAIN o.changes THEN LastWord(e, w.id, c, o.changes[c])
                       ELSE Silent(e, w.id, c)
      BY <2>3, EntrySays
    <2> HIDE DEF e
    <2>9. ASSUME NEW c \in Columns, Signed(w.row, c)
          PROVE  \/ LastWord(e, w.id, c, w.row[c])
                 \/ w.id \notin DOMAIN o.dirty /\ Covers(e, w.id, c, w.row)
      <3>1. CASE HasActor(r)
        BY <2>4, <2>5, <2>7, <2>8, <2>9, <3>1 DEF Covers, Stored, Signed
      <3>2. CASE ~HasActor(r)
        <4>1. c \notin DOMAIN o.changes
          BY <2>6, <2>9, <3>2 DEF Signed, LoginColumns
        <4>2. Silent(e, w.id, c)
          BY <2>11, <3>2
        <4> QED
          BY <2>4, <2>5, <2>7, <4>1, <4>2 DEF Covers, Stored
      <3> QED
        BY <3>1, <3>2
    <2>10. SessionTells(q)
      BY <1>1, <2>2, <2>8, <2>9, WriteTells
    <2> QED
      BY <1>1, <2>1, <2>10, QuietTrail DEF o
  <1> QED
    BY <1>4, <1>5, <1>6

\* The entries are committed with the rows they are about.
LEMMA CommitTrail ==
  ASSUME IInv, TrailInv, NEW r \in Requests, Commit(r)
  PROVE  TrailInv'
  <1> DEFINE o == request[r]
  <1>1. /\ Ids' = Ids \cup Written(r)
        /\ \A i \in Ids' : rows'[i] = IF i \in Written(r) THEN o.dirty[i] ELSE rows[i]
        /\ Written(r) = DOMAIN o.dirty
        /\ \A s \in Requests : s # r =>
              /\ request'[s] = request[s]
              /\ Written(s) \cap Written(r) = {}
        /\ request'[r].stage = "ended"
    BY CommitApart DEF Written
  <1>2. /\ o.stage = "committing" /\ SessionFits(r, o) /\ SessionTells(o)
        /\ trail' = trail \o o.entries
    BY DEF Commit, IInv, SessionsSound, TrailInv
  <1>4. ASSUME NEW s \in Requests, s # r
        PROVE  SessionTells(request[s])'
    <2>1. request[s].stage \notin {"new", "ended"} =>
             \A i \in DOMAIN request[s].dirty :
                 IF i \in Ids THEN rows'[i] = rows[i] ELSE i \notin Ids'
      BY <1>1, <1>4 DEF Written, Dirty, InFlight
    <2>2. PICK p : p = request[s]
      OBVIOUS
    <2>3. SessionTells(p)
      BY <2>2 DEF TrailInv
    <2>4. Ids \subseteq Ids'
      BY <1>1
    <2>5. SessionTells(p)'
      BY <2>1, <2>2, <2>3, <2>4, TellsOn
    <2> QED
      BY <1>1, <1>4, <2>2, <2>5
  <1>5. /\ IsLog(trail, Ids) /\ IsLog(o.entries, Written(r))
        /\ IsSeq(trail) /\ IsSeq(o.entries)
    BY <1>1, <1>2 DEF TrailInv, TrailSound, SessionTells, IsLog
  <1>6. IsLog(trail', Ids')
    BY <1>1, <1>2, <1>5, LogsJoin
  <1>7. ASSUME NEW i \in Ids', NEW c \in Columns, Signed(rows'[i], c)
        PROVE  Told(trail', i, c, rows'[i][c])
    <2>1. CASE i \in Written(r)
      <3>1. rows'[i] = o.dirty[i]
        BY <1>1, <1>7, <2>1
      <3>2. Covers(o.entries, i, c, o.dirty[i])
        BY <1>1, <1>2, <1>7, <2>1, <3>1 DEF SessionTells
      <3>3. CASE LastWord(o.entries, i, c, o.dirty[i][c])
        BY <1>2, <1>5, <3>1, <3>3, LaterWord DEF Told
      <3>4. CASE Silent(o.entries, i, c) /\ Stored(i, c, o.dirty[i]) /\ i \in Ids
        <4>1. rows[i][c] = o.dirty[i][c] /\ rows[i].kind = o.dirty[i].kind
          BY <3>4 DEF Stored
        <4>2. Signed(rows[i], c)
          BY <1>7, <3>1, <4>1 DEF Signed, LoginColumns
        <4>3. Told(trail, i, c, rows[i][c])
          BY <1>7, <3>4, <4>2 DEF TrailInv, TrailSound
        <4> QED
          BY <1>2, <1>5, <3>1, <3>4, <4>1, <4>3, EarlierWord DEF Told
      <3>5. CASE Silent(o.entries, i, c) /\ Stored(i, c, o.dirty[i]) /\ i \notin Ids
        <4>1. i \notin DOMAIN Seeded
          BY <3>5 DEF IInv, RowsSound
        <4>2. c \in DOMAIN Origin(i) /\ Origin(i)[c] = rows'[i][c]
          BY <3>1, <3>5, <4>1 DEF Stored, Origin
        <4>3. Silent(trail, i, c)
          BY <1>5, <3>5 DEF IsLog, Silent, Mentions
        <4> QED
          BY <1>2, <1>5, <3>5, <4>2, <4>3, EarlierWord DEF Told
      <3> QED
        BY <3>2, <3>3, <3>4, <3>5 DEF Covers
    <2>2. CASE i \notin Written(r)
      <3>1. i \in Ids /\ rows'[i] = rows[i]
        BY <1>1, <2>2
      <3>2. Told(trail, i, c, rows[i][c])
        BY <1>7, <3>1 DEF TrailInv, TrailSound
      <3>3. Silent(o.entries, i, c)
        BY <1>5, <2>2 DEF IsLog, Silent, Mentions
      <3> QED
        BY <1>2, <1>5, <3>1, <3>2, <3>3, EarlierWord DEF Told
    <2> QED
      BY <2>1, <2>2
  <1>8. TrailSound'
    BY <1>6, <1>7 DEF TrailSound, Told
  <1>9. SessionTells(request[r])'
    BY <1>1 DEF SessionTells
  <1>10. FreshIds'
    <2>1. Written(r) \subseteq Ids \cup ({r} \X Nat)
      BY <1>1, <1>2 DEF SessionFits, CreateFits, ChangeFits
    <2> QED
      BY <1>1, <2>1 DEF TrailInv, FreshIds
  <1> QED
    BY <1>4, <1>8, <1>9, <1>10 DEF TrailInv

\* The clock writes the columns of the login, which the trail leaves out.
LEMMA LockExpiresTrail ==
  ASSUME IInv, TrailInv, NEW u \in Ids, LockExpires(u)
  PROVE  TrailInv'
  <1>1. /\ rows[u].kind = "user" /\ IsRow(rows[u])
        /\ rows' = [rows EXCEPT ![u].locked = "expired"]
        /\ UNCHANGED <<request, trail>>
        /\ \A s \in Requests : u \notin Written(s)
    BY DEF LockExpires, Written, Dirty, IInv, RowsSound
  <1>2. Ids' = Ids /\ \A i \in Ids : i # u => rows'[i] = rows[i]
    BY <1>1 DEF Ids
  <1>5. \A c \in Columns \ {"locked"} : rows'[u][c] = rows[u][c]
    BY <1>1 DEF Ids, IsRow
  <1>6. ASSUME NEW i \in Ids, NEW c \in Columns, Signed(rows'[i], c)
        PROVE  Signed(rows[i], c) /\ rows'[i][c] = rows[i][c]
    BY <1>1, <1>2, <1>5, <1>6 DEF Signed, LoginColumns, Columns
  <1>7. \A i, c, v : Told(trail, i, c, v)' <=> Told(trail, i, c, v)
    BY <1>1 DEF Told
  <1>3. TrailSound'
    BY <1>1, <1>2, <1>6, <1>7 DEF TrailInv, TrailSound
  <1>8. FreshIds'
    BY <1>1, <1>2 DEF TrailInv, FreshIds
  <1>4. ASSUME NEW s \in Requests
        PROVE  SessionTells(request[s])'
    <2>1. request[s].stage \notin {"new", "ended"} =>
             \A i \in DOMAIN request[s].dirty :
                 IF i \in Ids THEN rows'[i] = rows[i] ELSE i \notin Ids'
      BY <1>1, <1>2 DEF Written, Dirty, InFlight
    <2>2. PICK p : p = request[s]
      OBVIOUS
    <2>3. SessionTells(p)
      BY <2>2 DEF TrailInv
    <2>4. SessionTells(p)'
      BY <1>1, <1>2, <2>1, <2>2, <2>3, TellsOn
    <2> QED
      BY <1>1, <2>2, <2>4
  <1> QED
    BY <1>3, <1>4, <1>8 DEF TrailInv

LEMMA InitTrail == Init => TrailInv
  <1> SUFFICES ASSUME Init PROVE TrailInv
    OBVIOUS
  <1>1. IsLog(trail, Ids) /\ \A i, c : Silent(trail, i, c)
    BY EmptyLog DEF Init, IsLog, Silent
  <1>2. TrailSound
    <2>1. \A i \in Ids : i \in DOMAIN Seeded /\ Origin(i) = rows[i]
      BY DEF Init, Ids, Origin
    <2>2. \A i \in Ids : DOMAIN rows[i] = Columns
      BY MasterDataAssumption, RowsAreRows DEF Init, Ids, IsRow
    <2> QED
      BY <1>1, <2>1, <2>2 DEF TrailSound, Told
  <1>4. FreshIds
    BY MasterDataAssumption DEF Init, FreshIds, Ids
  <1>3. \A s \in Requests : SessionTells(request[s])
    BY DEF Init, Waiting, SessionTells
  <1> QED
    BY <1>2, <1>3, <1>4 DEF TrailInv

LEMMA NextTrail == IInv /\ TrailInv /\ [Next]_vars => TrailInv'
  <1> SUFFICES ASSUME IInv, TrailInv, [Next]_vars PROVE TrailInv'
    OBVIOUS
  <1>1. CASE UNCHANGED vars
    BY <1>1 DEF vars, TrailInv, TrailSound, SessionTells, Covers, Stored, FreshIds, Ids
  <1>2. ASSUME NEW r \in Requests, NEW op \in Menu, Begin(r, op) PROVE TrailInv'
    BY <1>2, BeginTrail
  <1>3. ASSUME NEW r \in Requests, CheckNew(r) \/ LoadRow(r) \/ Login(r)
        PROVE  TrailInv'
    BY <1>3, DecideTrail
  <1>4. ASSUME NEW r \in Requests, Insert(r) PROVE TrailInv'
    BY <1>4, InsertTrail
  <1>5. ASSUME NEW r \in Requests, Flush(r) PROVE TrailInv'
    BY <1>5, FlushTrail
  <1>6. ASSUME NEW r \in Requests, Commit(r) PROVE TrailInv'
    BY <1>6, CommitTrail
  <1>7. ASSUME NEW r \in Requests, Deadlocked(r) \/ Crash(r) PROVE TrailInv'
    BY <1>7, RollBackTrail DEF Deadlocked, Crash
  <1>8. ASSUME NEW u \in Ids, LockExpires(u) PROVE TrailInv'
    BY <1>8, LockExpiresTrail
  <1>9. CASE Next
    BY <1>1, <1>2, <1>3, <1>4, <1>5, <1>6, <1>7, <1>8, <1>9
       DEF Next, Proceed, Finished
  <1> QED
    BY <1>1, <1>9

\* Following the trail of a row of an audited table gives the row, but for the
\* columns of the login, and but for columns it never mentions, which have the
\* value they had at first or their default: the entries are flushed with the changes they record
\* and committed or rolled back with them, and each holds the columns its own
\* session wrote (audit/listener.py, record_changes and _changed_values).
THEOREM TrailTells == Spec => []TrailTellsTheRows
  <1>1. IInv /\ TrailInv => TrailTellsTheRows
    <2> SUFFICES ASSUME IInv, TrailInv PROVE TrailTellsTheRows
      OBVIOUS
    <2>1. \A i \in Ids : DOMAIN rows[i] = Columns
      BY DEF IInv, RowsSound, IsRow
    <2> QED
      BY <2>1 DEF TrailInv, TrailSound, IsLog, Signed, Told, TrailTellsTheRows
  <1>2. Spec => []TrailInv
    BY InitTrail, NextTrail, MasterDataInvariance, PTL DEF Spec
  <1> QED
    BY <1>1, <1>2, MasterDataInvariance, PTL
=============================================================================
