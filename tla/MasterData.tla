------------------------------ MODULE MasterData ------------------------------
(***************************************************************************)
(* The rows people keep: products, warehouses, suppliers, customers,       *)
(* companies and users, with the trail of who changed what.  Every request *)
(* is a session of SQLAlchemy over one PostgreSQL transaction: it reads,   *)
(* decides, flushes the columns that differ from what it read, together    *)
(* with their audit entries, and commits.  Nothing is locked by reading,   *)
(* so what a request decided on may have changed by the time it writes;    *)
(* unique indexes and row locks are what is left.                          *)
(***************************************************************************)
EXTENDS Integers, Sequences, Relation

CONSTANTS
    Requests,   \* bound of the model
    Menu,       \* what a request may ask for
    Seeded,     \* the rows there are at first, by id
    MaxFailed   \* wrong passwords that lock an account

None == "none"

Row == [kind : {"product", "warehouse", "supplier", "customer", "company", "user"},
        company : STRING, key : STRING, barcode : STRING,
        cost : Nat, price : Nat, active : BOOLEAN,
        fails : Nat, locked : {"no", "yes", "expired"}]

\* Tables whose changes are recorded; customers are not among them.
AUDITED_TABLES == {"product", "warehouse", "supplier", "user", "company"}

ASSUME MasterDataAssumption ==
    /\ \A i \in DOMAIN Seeded : Seeded[i] \in Row /\ Seeded[i].locked = "no"
    /\ \A i \in DOMAIN Seeded : Seeded[i].fails = 0
    /\ \A i \in DOMAIN Seeded : Seeded[i].cost <= Seeded[i].price
    /\ DOMAIN Seeded \cap (Requests \X Nat) = {}
    /\ MaxFailed \in Nat \ {0}

\* What a new row has in the columns its request does not give: the defaults of
\* the columns, which are filled in by the INSERT.
ColumnDefaults == [barcode |-> None, cost |-> 0, price |-> 0, active |-> TRUE,
                   fails |-> 0, locked |-> "no"]

\* The columns that creating a row of a kind sets.
Given(kind) ==
    {"kind", "company", "key"} \cup
    CASE kind = "product" -> {"cost", "price"}
      [] kind = "warehouse" -> {}
      [] OTHER -> {"active"}

\* The forms a client may fill in: none has the columns of the login, only a
\* warehouse's has its key, and prices change where margins are checked.
ASSUME MenuAssumption ==
    \A op \in Menu :
        \/ /\ op.does = "create" /\ op.rows # <<>> /\ op.rows \in Seq(Row)
           /\ \A n \in 1..Len(op.rows) :
                 \A c \in DOMAIN ColumnDefaults \ Given(op.rows[n].kind) :
                     op.rows[n][c] = ColumnDefaults[c]
        \/ /\ op.does = "update"
           /\ DOMAIN op.set \subseteq {"key", "barcode", "cost", "price", "active"}
           /\ "key" \in DOMAIN op.set =>
                 op.row \in DOMAIN Seeded /\ Seeded[op.row].kind = "warehouse"
           /\ op.via # "update" => {"cost", "price"} \cap DOMAIN op.set = {}
        \/ /\ op.does = "login"
           /\ op.row \in DOMAIN Seeded /\ Seeded[op.row].kind = "user"

VARIABLES
    rows,     \* committed rows, by id
    request,  \* each request's session
    trail,    \* committed audit entries, in the order of the commits
    stale,    \* history: rows written by a request that had read another version
    streak    \* history: wrong passwords since the last right one or the lock

vars == <<rows, request, trail, stale, streak>>

-----------------------------------------------------------------------------
(* Sessions.                                                               *)

Unread == [kind |-> None]
Waiting == [stage |-> "new"]
Ended(how) == [stage |-> "ended", how |-> how]
InFlight == {r \in Requests : request[r].stage \notin {"new", "ended"}}

\* Ids are chosen before the INSERT: uuid4.
NewId(r, i) == <<r, i>>
Ids == DOMAIN rows

\* Uncommitted rows of a session, new or changed.
Dirty(r) == IF r \in InFlight THEN request[r].dirty ELSE << >>
Written(r) == DOMAIN Dirty(r)

Init ==
    /\ rows = Seeded
    /\ request = [r \in Requests |-> Waiting]
    /\ trail = <<>>
    /\ stale = {}
    /\ streak = [u \in {i \in DOMAIN Seeded : Seeded[i].kind = "user"} |-> 0]

Put(f, i, v) == [j \in DOMAIN f \cup {i} |-> IF j = i THEN v ELSE f[j]]
Merge(f, g) == [j \in DOMAIN f \cup DOMAIN g |-> IF j \in DOMAIN g THEN g[j] ELSE f[j]]

\* What PostgreSQL's unique indexes compare.
SameKey(a, b) ==
    /\ a.kind = b.kind
    /\ \/ a.kind \in {"product", "warehouse"} /\ a.company = b.company /\ a.key = b.key
       \/ a.kind = "user" /\ a.key = b.key
\* Mutated: the barcode is checked by the code alone.
ClashKeyOnly(a, b) == SameKey(a, b)
Clash(a, b) ==
    \/ SameKey(a, b)
    \/ /\ a.kind = "product" /\ b.kind = "product" /\ a.company = b.company
       /\ a.barcode = b.barcode /\ a.barcode # None

ASSUME SeededAssumption ==
    \A i, j \in DOMAIN Seeded : i # j => ~Clash(Seeded[i], Seeded[j])

Begin(r, op) ==
    /\ request[r] = Waiting
    /\ request' = [request EXCEPT ![r] =
          [stage |-> "deciding", op |-> op, dirty |-> << >>, seen |-> Unread,
           changes |-> << >>, entries |-> <<>>, at |-> 1]]
    /\ UNCHANGED <<rows, trail, stale, streak>>

\* The transaction ends without a trace: a refusal, an error or a crash.
RollBack(r, how) ==
    /\ request' = [request EXCEPT ![r] = Ended(how)]
    /\ UNCHANGED <<rows, trail, stale, streak>>

-----------------------------------------------------------------------------
(* Deciding.                                                               *)

Op(r) == request[r].op
Deciding(r, what) == request[r].stage = "deciding" /\ Op(r).does = what

Creating(r) == Op(r).rows[request[r].at]

\* The code's own look at the rows it can see: those committed and its own.
Exists(r, row) ==
    \E i \in Ids \cup Written(r) : SameKey(Merge(rows, Dirty(r))[i], row)

PositiveMargin(row) == row.kind = "product" => row.cost <= row.price

CheckNew(r) ==
    /\ Deciding(r, "create")
    /\ IF Exists(r, Creating(r)) \/ ~PositiveMargin(Creating(r))
       THEN RollBack(r, "refused")
       ELSE /\ request' = [request EXCEPT ![r].stage = "inserting"]
            /\ UNCHANGED <<rows, trail, stale, streak>>

\* The row as its owner sees it, or nothing: another tenant's id is not found.
Owned(op) == op.row \in Ids /\ op.company \in {rows[op.row].company, "any"}

\* Mutated: only a request that gives both prices is checked.
PricedGivenBoth(row, changes) ==
    {"cost", "price"} \subseteq DOMAIN changes =>
        PositiveMargin(Merge(row, changes))
\* update_product: the prices given, with the stored ones for those not given.
Priced(row, changes) == PositiveMargin(Merge(row, changes))

BarcodeFree(row, id, changes) ==
    ("barcode" \in DOMAIN changes /\ changes.barcode # None) =>
        \A i \in Ids \ {id} :
            ~(rows[i].kind = "product" /\ rows[i].company = row.company
              /\ rows[i].barcode = changes.barcode)

\* Only the columns that differ from what was read are written.
Changed(row, changes) ==
    LET cs == {c \in DOMAIN changes : changes[c] # row[c]}
    IN  [c \in cs |-> changes[c]]

ToFlush(r, changes) ==
    [request[r] EXCEPT !.stage = "flushing", !.seen = rows[Op(r).row],
                       !.changes = changes]

LoadRow(r) ==
    /\ Deciding(r, "update")
    /\ LET op == Op(r)
       IN  IF /\ Owned(op)
              /\ op.via = "update" => Priced(rows[op.row], op.set)
              /\ BarcodeFree(rows[op.row], op.row, op.set)
           THEN /\ request' = [request EXCEPT ![r] =
                      ToFlush(r, Changed(rows[op.row], op.set))]
                /\ UNCHANGED <<rows, trail, stale, streak>>
           ELSE RollBack(r, "refused")

\* The counters a login leaves, from the row it read.
CleanSlate(row) ==
    IF row.locked = "expired" THEN [fails |-> 0, locked |-> "no"]
    ELSE [fails |-> row.fails, locked |-> row.locked]
\* Mutated: an expired lock is lifted but the count goes on.
RegisterFailureOn(row) ==
    [fails |-> row.fails + 1,
     locked |-> IF row.fails + 1 >= MaxFailed THEN "yes" ELSE "no"]
RegisterFailure(row) ==
    LET n == CleanSlate(row).fails + 1
    IN  [fails |-> n, locked |-> IF n >= MaxFailed THEN "yes" ELSE "no"]

\* The password is compared between the read and the write.
Login(r) ==
    /\ Deciding(r, "login")
    /\ LET row == rows[Op(r).row]
       IN  IF row.locked = "yes" \/ (Op(r).right /\ ~row.active)
           THEN RollBack(r, "refused")
           ELSE /\ request' = [request EXCEPT ![r] = ToFlush(r,
                      IF Op(r).right
                      THEN Changed(row, [fails |-> 0, locked |-> "no"])
                      ELSE Changed(row, RegisterFailure(row)))]
                /\ UNCHANGED <<rows, trail, stale, streak>>

-----------------------------------------------------------------------------
(* Writing: the flush, with the audit listener before it.                  *)

\* In-flight sessions whose row keeps r from writing row i: the index entry
\* may still come or go.
IndexWaits(r, i, row) ==
    {s \in InFlight \ {r} :
        \E j \in Written(s) \ {i} :
            Clash(Dirty(s)[j], row) \/ (j \in Ids /\ Clash(rows[j], row))}
IndexRefuses(r, i, row) ==
    LET visible == Merge(rows, Dirty(r))
    IN  \E j \in DOMAIN visible \ {i} : Clash(visible[j], row)
RowWaits(r, i) == {s \in InFlight \ {r} : i \in Written(s)}

\* The row that the next statement of r writes, and its id.
Writes(r) ==
    IF request[r].stage = "inserting"
    THEN [id |-> NewId(r, request[r].at), row |-> Creating(r)]
    ELSE [id |-> Op(r).row, row |-> Merge(rows[Op(r).row], request[r].changes)]
AtStatement(r) ==
    \/ request[r].stage = "inserting"
    \/ request[r].stage = "flushing" /\ DOMAIN request[r].changes # {}
WaitsFor(r) ==
    IF ~AtStatement(r) THEN {}
    ELSE LET w == Writes(r)
         IN  RowWaits(r, w.id) \cup IndexWaits(r, w.id, w.row)

\* record_changes: one entry per new or changed row, if someone is acting.
HasActor(r) == Op(r).does # "login"
\* Mutated: all columns, as this session knows them.
EntryWholeRow(r, i, old, new) ==
    IF HasActor(r) /\ new.row.kind \in AUDITED_TABLES
    THEN <<[by |-> r, row |-> i, action |-> IF old = Unread THEN "CREATE" ELSE "UPDATE",
            values |-> IF old = Unread THEN new.row ELSE Merge(old, new.changes)]>>
    ELSE <<>>
Entry(r, i, old, new) ==
    IF HasActor(r) /\ new.row.kind \in AUDITED_TABLES
    THEN <<[by |-> r, row |-> i, action |-> IF old = Unread THEN "CREATE" ELSE "UPDATE",
            values |-> new.changes]>>
    ELSE <<>>

\* What the listener finds in a new row, before its defaults are filled in.
GivenValues(row) == [c \in Given(row.kind) |-> row[c]]

\* The session once it has written w: on to the next row, or to the commit.
Inserted(r, w) ==
    LET more == request[r].at < Len(Op(r).rows)
    IN  [request[r] EXCEPT !.dirty = Put(@, w.id, w.row),
                           !.entries = @ \o Entry(r, w.id, Unread,
                                [row |-> w.row, changes |-> GivenValues(w.row)]),
                           !.at = IF more THEN @ + 1 ELSE @,
                           !.stage = IF more THEN "deciding" ELSE "committing"]
Flushed(r, w) ==
    [request[r] EXCEPT !.dirty = Put(@, w.id, w.row),
                       !.entries = @ \o Entry(r, w.id, request[r].seen,
                            [row |-> w.row, changes |-> request[r].changes]),
                       !.stage = "committing"]

Insert(r) ==
    /\ request[r].stage = "inserting"
    /\ WaitsFor(r) = {}
    /\ LET w == Writes(r)
       IN  IF IndexRefuses(r, w.id, w.row)
           THEN RollBack(r, "conflict")
           ELSE /\ request' = [request EXCEPT ![r] = Inserted(r, w)]
                /\ UNCHANGED <<rows, trail, stale, streak>>

\* The history of the row: was it written on the strength of an old version?
NowStale(r) ==
    IF request[r].seen # rows[Op(r).row] THEN stale \cup {Op(r).row} ELSE stale

Counted(r) ==
    IF Op(r).does # "login" THEN streak
    ELSE [streak EXCEPT ![Op(r).row] = IF Op(r).right THEN 0 ELSE @ + 1]

Flush(r) ==
    /\ request[r].stage = "flushing"
    /\ WaitsFor(r) = {}
    /\ LET w == Writes(r)
       IN  CASE ~AtStatement(r) ->
                  /\ request' = [request EXCEPT ![r] = Ended("unchanged")]
                  /\ stale' = NowStale(r)
                  /\ streak' = Counted(r)
                  /\ UNCHANGED <<rows, trail>>
             [] AtStatement(r) /\ IndexRefuses(r, w.id, w.row) ->
                  RollBack(r, "conflict")
             [] OTHER ->
                  /\ request' = [request EXCEPT ![r] = Flushed(r, w)]
                  /\ UNCHANGED <<rows, trail, stale, streak>>

Commit(r) ==
    /\ request[r].stage = "committing"
    /\ rows' = Merge(rows, Dirty(r))
    /\ trail' = trail \o request[r].entries
    /\ request' = [request EXCEPT ![r] = Ended("committed")]
    /\ IF request[r].seen = Unread
       THEN UNCHANGED <<stale, streak>>
       ELSE stale' = NowStale(r) /\ streak' = Counted(r)

-----------------------------------------------------------------------------
(* What happens to the sessions.                                           *)

Crash(r) == r \in InFlight /\ RollBack(r, "crashed")

\* PostgreSQL breaks a circle of waiting transactions.
Circle(r) ==
    LET waits == [a, b \in Requests |-> a \in InFlight /\ b \in WaitsFor(a)]
    IN  TransitiveClosure(waits, Requests)[r, r]
Deadlocked(r) == r \in InFlight /\ WaitsFor(r) # {} /\ Circle(r) /\ RollBack(r, "deadlock")

LockExpires(u) ==
    /\ u \in DOMAIN streak
    /\ rows[u].locked = "yes"
    /\ \A r \in InFlight : u \notin Written(r)
    /\ rows' = [rows EXCEPT ![u].locked = "expired"]
    /\ streak' = [streak EXCEPT ![u] = 0]
    /\ UNCHANGED <<request, trail, stale>>

\* All requests have ended.  Anywhere else a step must be possible.
Finished ==
    /\ \A r \in Requests : request[r].stage = "ended"
    /\ UNCHANGED vars

Proceed(r) ==
    \/ CheckNew(r) \/ LoadRow(r) \/ Login(r)
    \/ Insert(r) \/ Flush(r) \/ Commit(r) \/ Deadlocked(r)

Next ==
    \/ \E r \in Requests : (\E op \in Menu : Begin(r, op)) \/ Proceed(r) \/ Crash(r)
    \/ \E u \in Ids : LockExpires(u)
    \/ Finished

Spec == Init /\ [][Next]_vars

-----------------------------------------------------------------------------
(* What the rows must keep.                                                *)

\* No two committed products of a company share a SKU or a barcode, no two of
\* its warehouses a location, and no two users an email, although every check
\* in the code is made before the write (service.py, link_barcode, register).
KeysAreUnique ==
    \A i, j \in Ids : i # j =>
        /\ ~SameKey(rows[i], rows[j])
        /\ ~(/\ rows[i].kind = "product" /\ rows[j].kind = "product"
             /\ rows[i].company = rows[j].company
             /\ rows[i].barcode = rows[j].barcode /\ rows[i].barcode # None)

\* What the entries of a log say of a column of a row: the last that mentions it
\* has the last word.
Mentions(e, i, c) == e.row = i /\ c \in DOMAIN e.values
Silent(log, i, c) == \A n \in 1..Len(log) : ~Mentions(log[n], i, c)
LastWord(log, i, c, v) ==
    \E n \in 1..Len(log) :
        /\ Mentions(log[n], i, c) /\ log[n].values[c] = v
        /\ \A m \in 1..Len(log) : Mentions(log[m], i, c) => m <= n

\* A row before the first entry about it, which may leave some columns out.
Origin(i) == IF i \in DOMAIN Seeded THEN Seeded[i] ELSE ColumnDefaults

\* The login writes these, and nobody signs for it.
LoginColumns(row) == IF row.kind = "user" THEN {"fails", "locked"} ELSE {}

\* Following the trail of a row gives the row: no committed change of a signed
\* in person is missing from it, none is in it that did not commit, and changes
\* to different columns at the same time do not obscure each other.  A column
\* it never mentions has the value it had at first, or its default
\* (audit/listener.py, record_changes and _changed_values).
TrailTellsTheRows ==
    /\ \A n \in 1..Len(trail) :
          trail[n].row \in Ids /\ DOMAIN trail[n].values \subseteq DOMAIN rows[trail[n].row]
    /\ \A i \in Ids : rows[i].kind \in AUDITED_TABLES =>
          \A c \in DOMAIN rows[i] \ LoginColumns(rows[i]) :
              \/ LastWord(trail, i, c, rows[i][c])
              \/ /\ Silent(trail, i, c) /\ c \in DOMAIN Origin(i)
                 /\ Origin(i)[c] = rows[i][c]

\* A product sells at a loss only after a request has written its prices on the
\* strength of a version that another had replaced (products/service.py, Rule
\* 2: update_product compares what it is given with what it has read).
LossOnlyFromARace ==
    \A i \in Ids \ stale : PositiveMargin(rows[i])

\* An account is locked exactly when MaxFailed wrong passwords have come one
\* after the other, unless two attempts overlapped; a right password and the
\* end of a lock start the count again (users/router.py, login).
AttemptsAreCounted ==
    \A u \in DOMAIN streak \ stale :
        /\ rows[u].locked = "yes" <=> streak[u] >= MaxFailed
        /\ rows[u].locked # "expired" => rows[u].fails = streak[u]

\* "Rule 2: Positive profit margin required" (products/service.py:25).
PositiveMarginRequired == \A i \in Ids : PositiveMargin(rows[i])
=============================================================================
