------------------------------ MODULE Nightly ------------------------------
(***************************************************************************)
(* The nightly job (core/scheduler.py): copy the sales to the data lake    *)
(* (etl), classify the products and forecast demand from there             *)
(* (analytics), and in one database transaction write the classes, replace *)
(* the reorder suggestions, record the forecasts and score those whose     *)
(* window has closed.  Sales are made meanwhile, an operator may backfill  *)
(* forecasts, and every API process has a scheduler of its own.            *)
(*                                                                         *)
(* Time passes in half days; even ticks hold the hour of the job.  A sale  *)
(* names a pair, one product in one warehouse.                             *)
(***************************************************************************)
EXTENDS Integers, FiniteSets, Functions

CONSTANTS
    Schedulers,  \* API processes
    Pairs,
    ProductOf,   \* the product of each pair
    CompanyOf,   \* the tenant of each product
    IdOf,        \* the order of the products' identifiers
    Sales,       \* the sales that may be made, each once
    Past,        \* those already made when the model begins: at least one, or a
                 \* first job could find an empty lake, update no product, and
                 \* overlap another in its transaction
    Quick,       \* bound of the model: those committed as soon as written
    Content,     \* the pair, quantity and unit price of each
    Delivered,   \* units of each pair there were before any sale
    ByHand,      \* bound of the model: pairs somebody may suggest to reorder
    Horizon,     \* FORECAST_HORIZON_DAYS
    Lookback,    \* FORECAST_LOOKBACK_DAYS
    Weeks,       \* how far back a backfill goes
    Since,       \* how far back accuracy_summary reads, in half days
    LastTick, MaxJobs, \* bounds of the model
    MaxExtras    \* bound: failures, backfills and suggestions made by hand

Products == {ProductOf[p] : p \in Pairs}

ASSUME PairsAssumption ==
    /\ IsFiniteSet(Pairs)
    /\ Pairs = DOMAIN ProductOf
    /\ DOMAIN CompanyOf = Products
    /\ IdOf \in [Products -> Nat]
    /\ \A p, q \in Products : IdOf[p] = IdOf[q] => p = q
    /\ Delivered \in [Pairs -> Nat]
    /\ ByHand \subseteq Pairs
ASSUME SalesAssumption ==
    /\ IsFiniteSet(Sales)
    /\ Past # {}
    /\ Past \cup Quick \subseteq Sales
    /\ Content \in [Sales -> [pair : Pairs, quantity : Nat \ {0}, price : Nat]]
ASSUME WindowsAssumption ==
    /\ Horizon \in Nat \ {0} /\ Lookback \in Nat \ {0}
    /\ {Weeks, Since, LastTick, MaxJobs, MaxExtras} \subseteq Nat

VARIABLES
    now,
    sale,        \* state of each sale's transaction, and when it was written
    lake,        \* the sales in the newest file
    job,         \* what each scheduler's job does
    fired,       \* day on which each scheduler fired last
    classes,     \* products.abc_class
    recs,        \* recommendations
    runs,        \* forecast_runs
    backfill,    \* the operator's command
    jobs, extras, manuals,
    ranked,      \* history: the sales each stored class was computed from
    late         \* history: sales committed after a window they fall in was scored

tables == <<classes, recs, runs, ranked>>
counters == <<jobs, extras, manuals>>
nightlyVars == <<now, sale, lake, job, fired, tables, backfill, counters, late>>

Extra == extras < MaxExtras /\ extras' = extras + 1

Day(t) == t \div 2
None == "none"
Unscored == -1
Resting == [at |-> "idle"]
Pipeline == "forecast_pipeline"

NightlyInit ==
    /\ now = 0
    /\ sale = [s \in Sales |-> [state |-> IF s \in Past THEN "committed"
                                          ELSE "none", stamp |-> 0]]
    /\ lake = {}
    /\ job = [c \in Schedulers |-> Resting]
    /\ fired = [c \in Schedulers |-> -1]
    /\ classes = [p \in Products |-> None]
    /\ recs = {}
    /\ runs = {}
    /\ backfill = Resting
    /\ jobs = 0 /\ extras = 0 /\ manuals = 0
    /\ ranked = [p \in Products |-> {}]
    /\ late = {}

-----------------------------------------------------------------------------
(* Sales.                                                                  *)

CommittedSales == {s \in Sales : sale[s].state = "committed"}
Of(S, pair) == {s \in S : Content[s].pair = pair}
Quantity == [s \in Sales |-> Content[s].quantity]
Units(S) == SumFunctionOnSet(Quantity, S)

\* A sale for which there is no stock is refused, and is none of Sales.
ASSUME StockAssumption == \A p \in Pairs : Units(Of(Sales, p)) <= Delivered[p]

OnHand(pair) == Delivered[pair] - Units(Of(CommittedSales, pair))

InWindow(s, run) ==
    /\ Content[s].pair = run.pair
    /\ Day(sale[s].stamp) >= run.day /\ Day(sale[s].stamp) <= run.end

\* The runs whose outcome has been read, committed or about to be.
AlreadyScored ==
    {r \in runs : r.actual # Unscored}
        \cup (UNION {job[c].scored : c \in {d \in Schedulers : job[d].at = "commit"}})
        \cup (IF backfill.at = "commit" THEN backfill.scored ELSE {})

\* What runs at one in the morning is assumed to be done by midnight.
Tick ==
    /\ now < LastTick
    /\ now % 2 = 1 => /\ \A c \in Schedulers : job[c] = Resting
                        /\ backfill = Resting
    /\ now' = now + 1
    /\ UNCHANGED <<sale, lake, job, fired, tables, backfill, counters, late>>

\* The sale is flushed: created_at is the time of writing, not of the commit.
WriteSale(s) ==
    /\ sale[s].state = "none"
    /\ sale' = [sale EXCEPT ![s] =
                [state |-> IF s \in Quick THEN "committed" ELSE "open",
                 stamp |-> now]]
    /\ late' = IF s \in Quick /\ \E r \in AlreadyScored : InWindow(s, r)'
               THEN late \cup {s} ELSE late
    /\ UNCHANGED <<now, lake, job, fired, tables, backfill, counters>>

CommitSale(s) ==
    /\ sale[s].state = "open"
    /\ sale' = [sale EXCEPT ![s].state = "committed"]
    /\ late' = IF \E r \in AlreadyScored : InWindow(s, r)
               THEN late \cup {s} ELSE late
    /\ UNCHANGED <<now, lake, job, fired, tables, backfill, counters>>

-----------------------------------------------------------------------------
(* The statistics, from a file of the lake.                                *)

Price == [s \in Sales |-> Content[s].quantity * Content[s].price]
Revenue(product, S) ==
    SumFunctionOnSet(Price, {s \in S : ProductOf[Content[s].pair] = product})

\* What a set of products earned in the sales S.
Earned(P, S) == SumFunctionOnSet([q \in P |-> Revenue(q, S)], P)

Sold(S) == {ProductOf[Content[s].pair] : s \in S}

\* By revenue; sort_values keeps the order of the groups, that of their ids.
Precedes(q, p, S) ==
    \/ Revenue(q, S) > Revenue(p, S)
    \/ Revenue(q, S) = Revenue(p, S) /\ IdOf[q] < IdOf[p]

\* Mutant: the ranking mixes the tenants.
RankAcrossTenants(product, S) ==
    LET peers == Sold(S)
        above == {q \in peers : Precedes(q, product, S)}
    IN  [above |-> Earned(above, S), total |-> Earned(peers, S)]

\* What the tenant's products ranked above one earn, and what all earn.
Rank(product, S) ==
    LET peers == {q \in Sold(S) : CompanyOf[q] = CompanyOf[product]}
        above == {q \in peers : Precedes(q, product, S)}
    IN  [above |-> Earned(above, S), total |-> Earned(peers, S)]

\* By where it starts on the curve; 0/0 is below no threshold.
Class(rank) ==
    IF rank.total > 0 /\ 100 * rank.above < 80 * rank.total THEN "A"
    ELSE IF rank.total > 0 /\ 100 * rank.above < 95 * rank.total THEN "B"
    ELSE "C"

AbcAnalysis(S) == [p \in Sold(S) |-> Class(Rank(p, S))]

\* Rounding as pandas does: half to even.
Rounded(n, d) ==
    LET q == n \div d
    IN  IF 2 * (n % d) < d \/ (2 * (n % d) = d /\ q % 2 = 0) THEN q ELSE q + 1

\* A row for each pair that sold in the window that ends at asOf.
DemandForecast(S, asOf) ==
    LET window == {s \in S : /\ sale[s].stamp > asOf - 2 * Lookback
                             /\ sale[s].stamp <= asOf}
    IN  [p \in {Content[s].pair : s \in window} |->
            Rounded(Units(Of(window, p)) * Horizon, Lookback)]

-----------------------------------------------------------------------------
(* Recording and scoring.                                                  *)

\* Mutant: the day after the window.
HorizonEndAfter(day) == day + Horizon

\* The last day of the window.
HorizonEnd(day) == day + Horizon - 1

\* persist_forecast_runs: one row for each forecast.
ForecastRuns(frame, day, by) ==
    {[pair |-> p, forecast |-> frame[p], day |-> day, end |-> HorizonEnd(day),
      actual |-> Unscored, scoredAt |-> Unscored, by |-> by] : p \in DOMAIN frame}

Due(R) == {r \in R : r.actual = Unscored /\ r.end < Day(now)}

\* score_due_forecasts: nothing sold is an outcome of zero.
Scored(R) ==
    {[r EXCEPT !.actual = Units({s \in CommittedSales : InWindow(s, r)}),
               !.scoredAt = now] : r \in Due(R)}

\* A row is known by these.
Key(r) == [pair |-> r.pair, day |-> r.day, by |-> r.by]
Keys(R) == {Key(r) : r \in R}

\* UPDATE by primary key.
Updated(R, scored) == {r \in R : Key(r) \notin Keys(scored)} \cup scored

-----------------------------------------------------------------------------
(* The job.                                                                *)

Extract == CommittedSales

At(c, step) == job[c].at = step

\* Once a night; the job begins with the extract.
Fire(c) ==
    /\ At(c, "idle")
    /\ now % 2 = 0 /\ fired[c] < Day(now)
    /\ jobs < MaxJobs
    /\ jobs' = jobs + 1
    /\ fired' = [fired EXCEPT ![c] = Day(now)]
    /\ job' = [job EXCEPT ![c] = [at |-> "load", by |-> jobs + 1,
                                  rows |-> Extract]]
    /\ UNCHANGED <<now, sale, lake, tables, backfill, extras, manuals, late>>

\* The file it writes is the newest, whoever extracted last.
Load(c) ==
    /\ At(c, "load")
    /\ lake' = job[c].rows
    /\ job' = [job EXCEPT ![c] = [at |-> "classify", by |-> job[c].by]]
    /\ UNCHANGED <<now, sale, fired, tables, backfill, counters, late>>

Classify(c) ==
    /\ At(c, "classify")
    /\ job' = [job EXCEPT ![c] = [at |-> "forecast", by |-> job[c].by,
                                  ranked |-> lake]]
    /\ UNCHANGED <<now, sale, lake, fired, tables, backfill, counters, late>>

Forecast(c) ==
    /\ At(c, "forecast")
    /\ job' = [job EXCEPT ![c] = [at |-> "classes", by |-> job[c].by,
                                  ranked |-> job[c].ranked,
                                  frame |-> DemandForecast(lake, now)]]
    /\ UNCHANGED <<now, sale, lake, fired, tables, backfill, counters, late>>

\* Jobs whose transaction has updated rows of products.
InTransaction(c) == job[c].at \in {"recommend", "record", "commit"}

\* Mutant: no product row is touched.
PersistNoClasses(c) ==
    /\ At(c, "classes")
    /\ job' = [job EXCEPT ![c].at = "recommend"]
    /\ UNCHANGED <<now, sale, lake, fired, tables, backfill, counters, late>>

\* Every product of the frame is updated, abc_calculated_at if nothing else;
\* two frames have a product in common, so that two jobs take turns from here
\* to the commit.  (Row by row they may also deadlock: then one fails, as in
\* JobFails.)
PersistClasses(c) ==
    /\ At(c, "classes")
    /\ \A d \in Schedulers : ~InTransaction(d)
    /\ job' = [job EXCEPT ![c].at = "recommend"]
    /\ UNCHANGED <<now, sale, lake, fired, tables, backfill, counters, late>>

\* For each pair of the frame: DELETE its own earlier suggestion, and suggest
\* what the stock on hand falls short of the forecast by.
PersistRecommendations(c) ==
    LET frame == job[c].frame
        short(p) == frame[p] - OnHand(p)
    IN  /\ At(c, "recommend")
        /\ job' = [job EXCEPT ![c] =
                [at |-> "record", by |-> job[c].by, ranked |-> job[c].ranked,
                 frame |-> frame,
                 deleted |-> {r \in recs : r.source = Pipeline
                                           /\ r.pair \in DOMAIN frame},
                 added |-> {[pair |-> p, source |-> Pipeline,
                             quantity |-> short(p), day |-> Day(now),
                             by |-> job[c].by] :
                            p \in {q \in DOMAIN frame : short(q) > 0}}]]
        /\ UNCHANGED <<now, sale, lake, fired, tables, backfill, counters,
                       late>>

\* persist_forecast_runs, and what score_due_forecasts reads.
RecordAndScore(c) ==
    /\ At(c, "record")
    /\ LET new == ForecastRuns(job[c].frame, Day(now), job[c].by)
       IN  job' = [job EXCEPT ![c] =
                [at |-> "commit", by |-> job[c].by, ranked |-> job[c].ranked,
                 deleted |-> job[c].deleted, added |-> job[c].added,
                 new |-> new, scored |-> Scored(runs \cup new)]]
    /\ UNCHANGED <<now, sale, lake, fired, tables, backfill, counters, late>>

Replacing == backfill.at = "commit" /\ backfill.deleted # {}

\* The scores are flushed and everything is committed; an UPDATE waits for a
\* backfill that is deleting the rows.
CommitJob(c) ==
    LET R == runs \cup job[c].new
    IN  /\ At(c, "commit")
        /\ job[c].scored # {} => ~Replacing
        /\ Keys(job[c].scored) \subseteq Keys(R)
        /\ runs' = Updated(R, job[c].scored)
        /\ recs' = (recs \ job[c].deleted) \cup job[c].added
        /\ LET abc == AbcAnalysis(job[c].ranked)
           IN  classes' = [p \in Products |->
                              IF p \in DOMAIN abc THEN abc[p] ELSE classes[p]]
        /\ ranked' = [p \in Products |->
                        IF p \in Sold(job[c].ranked) THEN job[c].ranked
                        ELSE ranked[p]]
        /\ job' = [job EXCEPT ![c] = Resting]
        /\ UNCHANGED <<now, sale, lake, fired, backfill, counters, late>>

\* A row it has scored was deleted by a backfill: StaleDataError.
ScoredRowGone(c) ==
    /\ At(c, "commit")
    /\ ~Replacing
    /\ ~(Keys(job[c].scored) \subseteq Keys(runs \cup job[c].new))
    /\ job' = [job EXCEPT ![c] = Resting]
    /\ UNCHANGED <<now, sale, lake, fired, tables, backfill, counters, late>>

\* An exception or the death of the process: the transaction is rolled back,
\* the file stays.
JobFails(c) ==
    /\ ~At(c, "idle")
    /\ Extra
    /\ job' = [job EXCEPT ![c] = Resting]
    /\ UNCHANGED <<now, sale, lake, fired, tables, backfill, jobs, manuals,
                   late>>

-----------------------------------------------------------------------------
(* backfill_forecasts, and suggestions made by hand.                       *)

\* With --replace every run is deleted first, and seen by nobody until the
\* commit.  A week is as long as the horizon.
StartBackfill(replace) ==
    LET asOf(k) == now - 2 * Horizon * k
        of(k) == ForecastRuns(DemandForecast(lake, asOf(k)), Day(asOf(k)),
                              -extras')
        new == UNION {of(k) : k \in {j \in 1..Weeks : asOf(j) >= 0}}
        old == IF replace THEN {} ELSE runs
    IN  /\ backfill.at = "idle"
        /\ Extra
        /\ backfill' = [at |-> "commit", new |-> new,
                        deleted |-> IF replace THEN Keys(runs) ELSE {},
                        scored |-> Scored(old \cup new)]
        /\ UNCHANGED <<now, sale, lake, job, fired, tables, jobs, manuals,
                       late>>

CommitBackfill ==
    /\ backfill.at = "commit"
    /\ LET old == {r \in runs : Key(r) \notin backfill.deleted}
       IN  runs' = Updated(old \cup backfill.new, backfill.scored)
    /\ backfill' = Resting
    /\ UNCHANGED <<now, sale, lake, job, fired, classes, recs, ranked,
                   counters, late>>

BackfillFails ==
    /\ backfill.at = "commit"
    /\ backfill' = Resting
    /\ UNCHANGED <<now, sale, lake, job, fired, tables, counters, late>>

\* create_recommendation: source is 'manual' by default.
Recommend(pair) ==
    /\ Extra
    /\ manuals' = manuals + 1
    /\ recs' = recs \cup {[pair |-> pair, source |-> "manual", quantity |-> 1,
                           day |-> Day(now), by |-> manuals']}
    /\ UNCHANGED <<now, sale, lake, job, fired, classes, runs, ranked,
                   backfill, jobs, late>>

-----------------------------------------------------------------------------
JobStep(c) ==
    \/ Load(c) \/ Classify(c) \/ Forecast(c) \/ PersistClasses(c)
    \/ PersistRecommendations(c) \/ RecordAndScore(c)
    \/ CommitJob(c) \/ ScoredRowGone(c)

NightlyNext ==
    \/ Tick
    \/ \E s \in Sales : WriteSale(s) \/ CommitSale(s)
    \/ \E c \in Schedulers : Fire(c) \/ JobStep(c) \/ JobFails(c)
    \/ \E replace \in BOOLEAN : StartBackfill(replace)
    \/ CommitBackfill \/ BackfillFails
    \/ \E p \in ByHand : Recommend(p)

NightlySpec == NightlyInit /\ [][NightlyNext]_nightlyVars

-----------------------------------------------------------------------------
(* Properties.                                                             *)

\* The tenant's rows, and those scored lately.
Recorded(company) == {r \in runs : CompanyOf[ProductOf[r.pair]] = company}
Lately(company) ==
    {r \in Recorded(company) : r.actual # Unscored /\ r.scoredAt >= now - Since}

Miss(actual, forecast) ==
    IF actual < forecast THEN forecast - actual ELSE actual - forecast

\* No figure where there is nothing to divide by.
Ratio(n, d) == IF d = 0 THEN <<>> ELSE <<n, d>>

\* accuracy_summary.
AccuracySummary(company) ==
    LET read == Lately(company)
        close == {r \in read : /\ r.actual > 0
                               /\ 5 * Miss(r.actual, r.forecast) <= r.actual}
        error == SumFunctionOnSet([r \in read |-> Miss(r.actual, r.forecast)], read)
        actual == SumFunctionOnSet([r \in read |-> r.actual], read)
    IN  [scored |-> Cardinality(read),
         pending |-> Cardinality({r \in Recorded(company) : r.actual = Unscored}),
         weighted_ape |-> Ratio(100 * error, actual),
         mae |-> Ratio(error, Cardinality(read)),
         within_20_pct |-> Ratio(100 * Cardinality(close), Cardinality(read)),
         total_forecast |-> SumFunctionOnSet([r \in read |-> r.forecast], read),
         total_actual |-> actual]

\* The days a forecast is about.
Window(r) == r.day .. (r.day + Horizon - 1)
Demand(r) == {s \in CommittedSales : Content[s].pair = r.pair
                                /\ Day(sale[s].stamp) \in Window(r)}

\* A forecast is scored when its window is over, against what was sold in as
\* many days as it was made for; only a sale that was still open when the
\* outcome was read may be missing.  Where none is, the figures a tenant is
\* shown are those of what its own products sold.
ScoresTellWhatSold ==
    /\ \A r \in runs : r.actual # Unscored =>
          /\ \A d \in Window(r) : d < Day(now)
          /\ Units(Demand(r) \ late) <= r.actual
          /\ r.actual <= Units(Demand(r))
    /\ \A company \in {CompanyOf[p] : p \in Products} :
          LET read == Lately(company)
              sold == SumFunctionOnSet([r \in read |-> Units(Demand(r))], read)
              missed == SumFunctionOnSet(
                  [r \in read |-> Miss(Units(Demand(r)), r.forecast)], read)
              shown == AccuracySummary(company)
          IN  (\A r \in read : Demand(r) \cap late = {}) =>
                  /\ shown.total_actual = sold
                  /\ shown.weighted_ape = Ratio(100 * missed, sold)
                  /\ shown.mae = Ratio(missed, Cardinality(read))

\* However many schedulers run the job at once, a pair has one suggestion of
\* the pipeline, no later night has forecast the pair anew without replacing
\* it, and it asks for no more than the forecast recorded with it; what people
\* suggested stays.
SuggestionsFollowForecasts ==
    /\ \A p \in Pairs :
          LET own == {o \in recs : o.pair = p /\ o.source = Pipeline}
              nightly == {r \in runs : r.pair = p /\ r.by > 0}
          IN  /\ Cardinality(own) <= 1
              /\ \A o \in own, r \in nightly :
                    IF r.by = o.by THEN o.quantity <= r.forecast
                    ELSE r.day <= o.day
    /\ Cardinality({o \in recs : o.source = "manual"}) = manuals

\* Among the products all, S is the least set of best sellers that brings in
\* the percentage of what they earned in the given sales.
BestSellers(S, all, percent, sales) ==
    LET worth(p) == Revenue(p, sales)
    IN  /\ 100 * Earned(S, sales) >= percent * Earned(all, sales)
        /\ \A p \in S, q \in all \ S : worth(p) >= worth(q)
        /\ \E least \in S :
              /\ \A p \in S : worth(least) <= worth(p)
              /\ 100 * Earned(S \ {least}, sales) < percent * Earned(all, sales)

\* Class A is what brings in 80% of the tenant's revenue and A with B 95%, in
\* the sales that were classified, whatever other tenants earn; where jobs
\* overlapped, a tenant's classes may come from more than one file.
ClassesArePareto ==
    \A company \in {CompanyOf[p] : p \in Products} :
        LET ours == {p \in Products : CompanyOf[p] = company}
            all == {p \in ours : classes[p] # None}
            A == {p \in all : classes[p] = "A"}
            B == {p \in all : classes[p] = "B"}
        IN  \A sales \in {ranked[p] : p \in all} :
              (/\ \A p \in all : ranked[p] = sales
               /\ \E p \in all : Revenue(p, sales) > 0)
              => /\ all = ours \cap Sold(sales)
                 /\ BestSellers(A, all, 80, sales)
                 /\ BestSellers(A \cup B, all, 95, sales)

=============================================================================
