--------------------------- MODULE Figures_proofs ---------------------------
(***************************************************************************)
(* The rows behind the screens keep their shape, a trace tells what each   *)
(* day closed with, and the screens agree.                                 *)
(***************************************************************************)
EXTENDS Figures, FoldTheorems, SequenceTheorems

-----------------------------------------------------------------------------
(* The rows.                                                               *)

News(L) == [kind : {"moved"}, line : L, after : Nat]
           \cup [kind : {"low_stock", "out_of_stock"}, line : L]

StockTyped ==
    /\ DOMAIN stock \subseteq Lines
    /\ \A l \in DOMAIN stock : stock[l] \in Nat
    /\ moved \in [Lines -> [Days -> Int]]
    /\ \A l \in Lines : \A d \in Days : d > today => moved[l][d] = 0
SalesTyped == sales \in Seq(Sale) /\ \A i \in DOMAIN sales : sales[i].day <= today
DocumentsTyped ==
    /\ orders \in Seq(PurchaseOrder)
    /\ transfers \in Seq(Transfer)
    /\ counts \in Seq(StockCount)
    /\ advice \in [Lines -> Advice]
AlertsTyped ==
    /\ due \in Seq(News(DOMAIN stock))
    /\ alerts \subseteq {"low_stock", "out_of_stock"} \X DOMAIN stock

RowsTyped ==
    /\ today \in Days
    /\ StockTyped /\ SalesTyped /\ DocumentsTyped /\ AlertsTyped

-----------------------------------------------------------------------------
(* What the closing quantities and a half-read page are worth.             *)

\* What has moved of a line since a day.
Since(l, d) == SumFunctionOnSet(moved[l], {e \in Days : e > d})

ClosingSound ==
    /\ closing \in [Lines -> Seq(Int)]
    /\ \A l \in Lines :
        /\ Len(closing[l]) = today
        /\ \A d \in 0 .. today - 1 : closing[l][d + 1] + Since(l, d) = Held(l)

PageSound ==
    page.step = "half" =>
        /\ page = [step |-> "half", day |-> page.day, quantity |-> page.quantity,
                   missed |-> page.missed]
        /\ page.day \in 0 .. today
        /\ DOMAIN page.quantity \subseteq Lines
        /\ DOMAIN page.missed = DOMAIN page.quantity
        /\ \A l \in DOMAIN page.quantity :
            /\ page.quantity[l] \in Nat /\ page.missed[l] \in Int
            /\ page.quantity[l] + page.missed[l] + Since(l, page.day) = Held(l)

IInv == RowsTyped /\ ClosingSound /\ PageSound

-----------------------------------------------------------------------------
(* Sequences put end to end, and sets put into sequences.                  *)

\* The recursion of FlattenSeq.
LEMMA FlattenTyped ==
    ASSUME NEW V, NEW s \in Seq(Seq(V))
    PROVE  FlattenSeq(s) \in Seq(V)
<1> DEFINE n == Len(s)
           G == [i \in 1..n |-> [v \in Seq(V) |-> v \o s[i]]]
           Is(f) == f = [i \in 1..n |-> IF i = 1 THEN s[i] ELSE f[i-1] \o s[i]]
<1>1. n \in Nat /\ \A i \in 1..n : s[i] \in Seq(V)
  BY ElementOfSeq
<1>2. CASE n = 0
  <2>1. s = << >>
    BY <1>2, EmptySeq
  <2> QED
    BY <1>2, <2>1 DEF FlattenSeq
<1>3. CASE n # 0
  <2>1. \A v, w \in Seq(V) : v \o w \in Seq(V)
    BY ConcatProperties
  <2>2. << >> \in Seq(V)
    BY EmptySeq
  <2> HIDE DEF n
  <2>3. G \in [1..n -> [Seq(V) -> Seq(V)]]
    BY <1>1, <2>1
  <2>4. \A i \in 1..n : \A v \in Seq(V) : G[i][v] = v \o s[i]
    OBVIOUS
  <2> HIDE DEF G
  <2>5. PICK f : StepByStep(f, Seq(V), << >>, n, G)
    BY <1>1, <2>2, <2>3, RecursionOnPrefix
  <2> DEFINE g == [i \in 1..n |-> f[i]]
  <2>6. f \in [0..n -> Seq(V)] /\ f[0] = << >> /\ \A i \in 1..n : f[i] = f[i-1] \o s[i]
    <3>1. f \in [0..n -> Seq(V)] /\ f[0] = << >>
      BY <1>1, <2>5 DEF StepByStep
    <3>2. ASSUME NEW i \in 1..n PROVE f[i] = f[i-1] \o s[i]
      <4>1. i - 1 \in 0..n /\ i \in 0..n /\ i # 0
        BY <1>1
      <4>2. f[i] = G[i][f[i-1]] /\ f[i-1] \in Seq(V)
        BY <2>5, <3>1, <4>1 DEF StepByStep
      <4> QED
        BY <2>4, <4>2
    <3> QED
      BY <3>1, <3>2
  <2>7. f[1] = s[1] /\ n \in 1..n
    <3>1. 1 \in 1..n /\ 1 - 1 = 0 /\ n \in 1..n
      BY <1>1, <1>3
    <3>2. << >> \o s[1] = s[1]
      BY <1>1, <3>1, ConcatEmptySeq
    <3> QED
      BY <2>6, <3>1, <3>2
  <2>8. Is(g)
    <3>1. ASSUME NEW i \in 1..n
          PROVE  g[i] = IF i = 1 THEN s[i] ELSE g[i-1] \o s[i]
      <4>1. i # 1 => i - 1 \in 1..n
        BY <1>1
      <4> QED
        BY <2>6, <2>7, <4>1
    <3> QED
      BY <3>1
  <2>9. Is(CHOOSE h : Is(h))
    BY <2>8
  <2> DEFINE h == CHOOSE h : Is(h)
  <2>10. FlattenSeq(s) = h[n]
    BY <1>3 DEF FlattenSeq, n
  <2> HIDE DEF h
  <2>11. \A i \in 1..n : h[i] = IF i = 1 THEN s[i] ELSE h[i-1] \o s[i]
    BY <2>9 DEF h
  <2> DEFINE k == [i \in 0..n |-> IF i = 0 THEN << >> ELSE h[i]]
  <2>12. StayTogether(f, k, n)
    <3>1. f[0] = k[0]
      BY <1>1, <2>6
    <3>2. ASSUME NEW i \in 1..n, f[i-1] = k[i-1] PROVE f[i] = k[i]
      <4>1. i \in 0..n /\ i - 1 \in 0..n /\ k[i] = h[i]
        BY <1>1
      <4>2. CASE i = 1
        BY <2>7, <2>11, <4>1, <4>2
      <4>3. CASE i # 1
        <5>1. k[i-1] = h[i-1]
          BY <4>1, <4>3
        <5>2. f[i] = f[i-1] \o s[i]
          BY <2>6, <4>1
        <5>3. h[i] = h[i-1] \o s[i]
          BY <2>11, <4>3
        <5> HIDE DEF k
        <5> QED
          BY <3>2, <4>1, <5>1, <5>2, <5>3
      <4> QED
        BY <4>2, <4>3
    <3> HIDE DEF k
    <3> QED
      BY <3>1, <3>2 DEF StayTogether
  <2>13. f[n] = k[n] /\ k[n] = h[n]
    <3>1. \A i \in 0..n : f[i] = k[i]
      BY <1>1, <2>12, PrefixesAgree, SMTT(30)
    <3> QED
      BY <1>1, <1>3, <3>1
  <2> QED
    BY <1>1, <2>6, <2>10, <2>13
<1> QED
  BY <1>2, <1>3

LEMMA SetToSeqTyped ==
    ASSUME NEW S, IsFiniteSet(S)
    PROVE  SetToSeq(S) \in Seq(S)
<1> DEFINE n == Cardinality(S)
<1>1. n \in Nat /\ ExistsBijection(1..n, S)
  BY FS_CardinalityType
<1> HIDE DEF n
<1>2. \E f \in [1..n -> S] : IsInjective(f)
  BY <1>1 DEF ExistsBijection, Bijection, Injection
<1>3. SetToSeq(S) \in [1..n -> S]
  BY <1>2 DEF SetToSeq, n
<1> QED
  BY <1>1, <1>3

\* The greatest of a finite set of integers.
LEMMA MaxIsGreatest ==
    ASSUME NEW S, IsFiniteSet(S), S \subseteq Int, S # {}
    PROVE  Max(S) \in S /\ \A y \in S : Max(S) >= y
<1> DEFINE R == {x \in S \X S : x[1] > x[2]}
<1>1. IsOrder(R, S)
  BY DEF IsOrder
<1>2. PICK x \in S : \A y \in S : <<y, x>> \notin R
  <2> HIDE DEF R
  <2>1. \A U \in SUBSET S : U # {} => \E x \in U : \A y \in U : <<y, x>> \notin R
    BY <1>1, FiniteHasFirst
  <2> QED
    BY <2>1
<1>3. ASSUME NEW y \in S PROVE x >= y
  <2>1. y > x => <<y, x>> \in R
    OBVIOUS
  <2>2. x \in Int /\ y \in Int /\ ~(y > x)
    BY <1>2, <2>1
  <2> QED
    BY <2>2
<1> QED
  BY <1>3 DEF Max

-----------------------------------------------------------------------------
(* The alerts: whatever is announced of a line, what is open is of a line. *)

Kinds == {"low_stock", "out_of_stock"}

LEMMA HandledTyped ==
    ASSUME NEW L, NEW open \in SUBSET (Kinds \X L), NEW n \in News(L)
    PROVE  Handled(open, n) \in SUBSET (Kinds \X L)
<1>1. n.line \in L /\ n.kind \in {"moved", "low_stock", "out_of_stock"}
  BY DEF News
<1>2. <<"low_stock", n.line>> \in Kinds \X L /\ <<"out_of_stock", n.line>> \in Kinds \X L
  BY <1>1 DEF Kinds
<1>3. CASE n.kind = "moved"
  BY <1>3 DEF Handled
<1>4. CASE n.kind = "low_stock"
  BY <1>2, <1>4 DEF Handled
<1>5. CASE n.kind = "out_of_stock"
  BY <1>2, <1>5 DEF Handled
<1> QED
  BY <1>1, <1>3, <1>4, <1>5

LEMMA NoticeTyped ==
    ASSUME NEW L, NEW open \in SUBSET (Kinds \X L), NEW s \in Seq(News(L))
    PROVE  FoldLeft(Handled, open, s) \in SUBSET (Kinds \X L)
<1> DEFINE V == SUBSET (Kinds \X L)
           D == DOMAIN s
           ch == [u \in SUBSET D |-> Max(u)]
           G == [i \in D |-> [v \in V |-> Handled(v, s[i])]]
           Is(iter) == iter = [u \in SUBSET D |->
                                  IF u = {} THEN open
                                  ELSE Handled(iter[u \ {Max(u)}], s[Max(u)])]
<1>1. IsFiniteSet(D) /\ D \subseteq Int /\ \A i \in D : s[i] \in News(L)
  <2>1. D = 1..Len(s) /\ Len(s) \in Nat /\ \A i \in D : s[i] \in News(L)
    BY ElementOfSeq
  <2> QED
    BY <2>1, FS_Interval
<1>2. open \in V /\ \A i \in D : \A v \in V : Handled(v, s[i]) \in V
  BY <1>1, HandledTyped
<1> HIDE DEF V
<1>3. G \in [D -> [V -> V]] /\ \A i \in D : \A v \in V : G[i][v] = Handled(v, s[i])
  BY <1>2
<1>4. \A u \in SUBSET D : u # {} => ch[u] \in u
  <2>1. \A u \in SUBSET D : IsFiniteSet(u)
    BY <1>1, FS_Subset
  <2> QED
    BY <1>1, <2>1, MaxIsGreatest
<1>5. \A u \in SUBSET D : ch[u] = Max(u)
  OBVIOUS
<1> HIDE DEF G, ch, D
<1>6. PICK f : OneByOne(f, V, open, D, G, ch)
  BY <1>1, <1>2, <1>3, <1>4, RecursionOnSubsets
<1>7. ASSUME NEW u \in SUBSET D
      PROVE  f[u] = IF u = {} THEN open ELSE Handled(f[u \ {Max(u)}], s[Max(u)])
  <2>1. u # {} => ch[u] \in D /\ f[u \ {ch[u]}] \in V
    BY <1>4, <1>6 DEF OneByOne
  <2> QED
    BY <1>3, <1>5, <1>6, <2>1 DEF OneByOne
<1>8. Is(f)
  BY <1>6, <1>7 DEF OneByOne
<1>9. Is(CHOOSE iter : Is(iter))
  BY <1>8
<1> DEFINE g == CHOOSE iter : Is(iter)
<1>10. FoldLeft(Handled, open, s) = g[D]
  BY DEF FoldLeft, MapThenFoldSet, D
<1> HIDE DEF g
<1>11. \A u \in SUBSET D :
          g[u] = IF u = {} THEN open ELSE Handled(g[u \ {Max(u)}], s[Max(u)])
  BY <1>9 DEF g
<1> DEFINE T == {u \in Nat : \A w \in SUBSET D : Cardinality(w) = u => g[w] \in V}
<1>12. \A w \in SUBSET D : IsFiniteSet(w) /\ Cardinality(w) \in Nat
  BY <1>1, FS_Subset, FS_CardinalityType
<1>13. 0 \in T
  <2>1. \A w \in SUBSET D : Cardinality(w) = 0 => w = {}
    BY <1>12, FS_EmptySet
  <2> QED
    BY <1>2, <1>11, <2>1
<1>14. ASSUME NEW m \in Nat, m \in T PROVE m + 1 \in T
  <2> SUFFICES ASSUME NEW w \in SUBSET D, Cardinality(w) = m + 1
               PROVE  g[w] \in V
    OBVIOUS
  <2>1. w # {}
    <3>1. Cardinality({}) = 0 /\ m + 1 # 0
      BY FS_EmptySet
    <3> QED
      BY <3>1
  <2>2. Max(w) \in w
    BY <1>4, <1>5, <2>1
  <2>3. w \ {Max(w)} \in SUBSET D /\ Cardinality(w \ {Max(w)}) = m
    <3>1. IsFiniteSet(w) /\ Cardinality(w) - 1 = m
      BY <1>12
    <3> QED
      BY <2>2, <3>1, FS_RemoveElement
  <2>4. g[w \ {Max(w)}] \in V /\ Max(w) \in D
    BY <1>14, <2>2, <2>3
  <2> QED
    BY <1>2, <1>11, <2>1, <2>4
<1> HIDE DEF T
<1>15. \A m \in Nat : m \in T
  BY <1>13, <1>14, NatSetInduction
<1>16. g[D] \in V
  BY <1>12, <1>15 DEF T
<1> QED
  BY <1>10, <1>16 DEF V

-----------------------------------------------------------------------------
(* Moving stock.                                                           *)

\* What a line holds changes by what moves today, and nothing else is touched.
Balanced ==
    /\ \A l \in Lines : \A d \in Days : d # today => moved'[l][d] = moved[l][d]
    /\ \A l \in Lines : Held(l)' = Held(l) + moved'[l][today] - moved[l][today]

LEMMA HeldTyped ==
    ASSUME StockTyped
    PROVE  \A l \in Lines : Held(l) \in Nat
BY DEF StockTyped, Held

LEMMA AnnouncedTyped ==
    ASSUME NEW L, NEW l \in L, NEW before \in Nat, NEW after \in Nat
    PROVE  Announced(l, before, after) \in Seq(News(L))
<1>1. [kind |-> "moved", line |-> l, after |-> after] \in News(L)
  BY DEF News
<1>2. \A k \in Kinds : [kind |-> k, line |-> l] \in News(L)
  BY DEF News, Kinds
<1>3. \A n \in News(L) : <<n>> \in Seq(News(L))
  OBVIOUS
<1>4. << >> \in Seq(News(L))
  OBVIOUS
<1> DEFINE first == <<[kind |-> "moved", line |-> l, after |-> after]>>
           rest == IF after = 0 /\ before > 0
                   THEN <<[kind |-> "out_of_stock", line |-> l]>>
                   ELSE IF Reorder[l] > 0 /\ after <= Reorder[l] /\ before > Reorder[l]
                        THEN <<[kind |-> "low_stock", line |-> l]>> ELSE << >>
<1>5. first \in Seq(News(L))
  BY <1>1, <1>3
<1>6. rest \in Seq(News(L))
  BY <1>2, <1>3, <1>4 DEF Kinds
<1>7. Announced(l, before, after) = first \o rest
  BY DEF Announced
<1> HIDE DEF first, rest
<1> QED
  BY <1>5, <1>6, <1>7, ConcatProperties

LEMMA MoreNews ==
    ASSUME NEW L, NEW M, L \subseteq M
    PROVE  Seq(News(L)) \subseteq Seq(News(M))
<1>1. News(L) \subseteq News(M)
  BY DEF News
<1> QED
  BY <1>1

LEMMA LinesFinite == IsFiniteSet(Lines) /\ IsFiniteSet(Days)
<1>1. IsFiniteSet(Lines)
  BY TradingAssumption, FS_Product DEF Lines
<1> QED
  BY <1>1, TradingAssumption, FS_Interval DEF Days

LEMMA MovesSound ==
    ASSUME NEW L \in SUBSET Lines, NEW change \in [L -> Int],
           today \in Days, today' = today, alerts' = alerts,
           StockTyped, AlertsTyped, Moves(change)
    PROVE  StockTyped' /\ AlertsTyped' /\ Balanced
<1> DEFINE after(l) == Held(l) + change[l]
           now == DOMAIN stock \cup L
<1>1. /\ \A l \in L : after(l) >= 0
      /\ stock' = [l \in now |-> IF l \in L THEN after(l) ELSE stock[l]]
      /\ moved' = [l \in Lines |-> IF l \in L
                        THEN [moved[l] EXCEPT ![today] = @ + change[l]] ELSE moved[l]]
      /\ due' = due \o FlattenSeq(SetToSeq({Announced(l, Held(l), after(l)) : l \in L}))
  BY DEF Moves
<1>2. \A l \in Lines : Held(l) \in Nat
  BY HeldTyped
<1>3. \A l \in L : after(l) \in Nat
  BY <1>1, <1>2
<1>4. /\ DOMAIN stock' = now /\ now \subseteq Lines /\ DOMAIN stock \subseteq now
      /\ \A l \in now : stock'[l] = IF l \in L THEN after(l) ELSE stock[l]
  BY <1>1 DEF StockTyped
<1>5. ASSUME NEW l \in Lines, NEW d \in Days
      PROVE  /\ moved'[l][d] = IF l \in L /\ d = today THEN moved[l][d] + change[l]
                               ELSE moved[l][d]
             /\ moved[l][d] \in Int /\ moved'[l] \in [Days -> Int]
  <2>1. moved[l] \in [Days -> Int]
    BY DEF StockTyped
  <2>2. l \in L => moved'[l] = [moved[l] EXCEPT ![today] = @ + change[l]]
    BY <1>1
  <2>3. l \notin L => moved'[l] = moved[l]
    BY <1>1
  <2> QED
    BY <2>1, <2>2, <2>3
<1>6. StockTyped'
  <2>1. \A l \in now : stock'[l] \in Nat
    BY <1>3, <1>4 DEF StockTyped
  <2>2. moved' \in [Lines -> [Days -> Int]]
    <3>1. \A l \in Lines : moved'[l] \in [Days -> Int]
      BY <1>5
    <3> QED
      BY <1>1, <3>1
  <2>3. \A l \in Lines : \A d \in Days : d > today => moved'[l][d] = 0
    <3> SUFFICES ASSUME NEW l \in Lines, NEW d \in Days, d > today
                 PROVE  moved'[l][d] = 0
      OBVIOUS
    <3>1. moved[l][d] = 0 /\ d # today
      BY DEF StockTyped, Days
    <3> QED
      BY <1>5, <3>1
  <2> HIDE DEF now
  <2> QED
    BY <1>4, <2>1, <2>2, <2>3 DEF StockTyped
<1>7. Balanced
  <2>1. \A l \in Lines : \A d \in Days : d # today => moved'[l][d] = moved[l][d]
    BY <1>5
  <2>2. ASSUME NEW l \in Lines
        PROVE  Held(l)' = Held(l) + moved'[l][today] - moved[l][today]
    <3>1. Held(l)' = IF l \in L THEN after(l) ELSE Held(l)
      BY <1>4 DEF Held
    <3>2. l \in L => moved'[l][today] = moved[l][today] + change[l] /\ change[l] \in Int
      BY <1>5
    <3>3. l \notin L => moved'[l][today] = moved[l][today]
      BY <1>5
    <3>4. Held(l) \in Nat /\ moved[l][today] \in Int
      BY <1>2, <1>5
    <3> HIDE DEF now
    <3> QED
      BY <3>1, <3>2, <3>3, <3>4
  <2> QED
    BY <2>1, <2>2 DEF Balanced
<1>8. AlertsTyped'
  <2> DEFINE A == {Announced(l, Held(l), after(l)) : l \in L}
             N == Seq(News(now))
  <2>1. \A l \in L : Announced(l, Held(l), after(l)) \in N
    <3>1. \A l \in L : l \in now /\ Held(l) \in Nat /\ after(l) \in Nat
      BY <1>2, <1>3
    <3> HIDE DEF now, after
    <3> QED
      BY <3>1, AnnouncedTyped
  <2>2. A \in SUBSET N /\ IsFiniteSet(A)
    <3> DEFINE f == [l \in L |-> Announced(l, Held(l), after(l))]
    <3>1. f \in Surjection(L, A)
      BY DEF Surjection
    <3>2. IsFiniteSet(L)
      BY LinesFinite, FS_Subset
    <3> HIDE DEF f
    <3>3. IsFiniteSet(A)
      BY <3>1, <3>2, FS_Surjection
    <3> QED
      BY <2>1, <3>3
  <2> HIDE DEF A, N
  <2>3. SetToSeq(A) \in Seq(N)
    <3>1. SetToSeq(A) \in Seq(A)
      BY <2>2, SetToSeqTyped
    <3> QED
      BY <2>2, <3>1
  <2>4. FlattenSeq(SetToSeq(A)) \in N
    BY <2>3, FlattenTyped DEF N
  <2>5. due \in N
    <3>1. due \in Seq(News(DOMAIN stock))
      BY DEF AlertsTyped
    <3> QED
      BY <1>4, <3>1, MoreNews DEF N
  <2>6. due' \in N
    <3>1. due' = due \o FlattenSeq(SetToSeq(A))
      BY <1>1 DEF A
    <3> QED
      BY <2>4, <2>5, <3>1, ConcatProperties DEF N
  <2>7. alerts' \subseteq {"low_stock", "out_of_stock"} \X now
    BY <1>4 DEF AlertsTyped
  <2> QED
    BY <1>4, <2>6, <2>7 DEF AlertsTyped, N
<1> QED
  BY <1>6, <1>7, <1>8

\* Stock left alone is stock in balance.
LEMMA StillSound ==
    ASSUME today \in Days, today' = today, StockTyped, AlertsTyped,
           UNCHANGED <<stock, moved, due, alerts>>
    PROVE  StockTyped' /\ AlertsTyped' /\ Balanced
<1>1. \A l \in Lines : moved[l][today] \in Int /\ Held(l) \in Nat
  BY HeldTyped DEF StockTyped
<1>2. \A l \in Lines : Held(l)' = Held(l)
  BY DEF Held
<1>3. Balanced
  BY <1>1, <1>2 DEF Balanced
<1>4. StockTyped'
  BY DEF StockTyped
<1>5. AlertsTyped'
  BY DEF AlertsTyped
<1> QED
  BY <1>3, <1>4, <1>5


-----------------------------------------------------------------------------
(* The handlers keep the rows in shape.                                    *)

LEMMA SalesFinite ==
    ASSUME SalesTyped
    PROVE  /\ IsFiniteSet(DOMAIN sales)
           /\ \A i \in DOMAIN sales : sales[i] \in Sale /\ sales[i].day \in 0 .. today
           /\ \A D : InDays(D) \in SUBSET DOMAIN sales
           /\ \A i \in DOMAIN sales : \A p : Of(i, p) \in Nat
           /\ \A i \in DOMAIN sales : \A p : Of(i, p) > 0 =>
                    p \in Products /\ p \in DOMAIN sales[i].items
<1>1. sales \in Seq(Sale) /\ DOMAIN sales = 1..Len(sales) /\ Len(sales) \in Nat
  BY DEF SalesTyped
<1>2. \A i \in DOMAIN sales : sales[i] \in Sale
  BY <1>1, ElementOfSeq
<1>3. IsFiniteSet(DOMAIN sales)
  BY <1>1, FS_Interval
<1>4. \A i \in DOMAIN sales : sales[i].day \in 0 .. today
  BY <1>2 DEF Sale, SalesTyped, Days
<1>5. \A D : InDays(D) \in SUBSET DOMAIN sales
  BY DEF InDays
<1>6. \A i \in DOMAIN sales : sales[i].items \in Baskets
  BY <1>2 DEF Sale
<1>7. ASSUME NEW i \in DOMAIN sales, NEW p
      PROVE  Of(i, p) \in Nat /\ (Of(i, p) > 0 => p \in Products /\ p \in DOMAIN sales[i].items)
  <2>1. p \in DOMAIN sales[i].items =>
            p \in Products /\ sales[i].items[p] \in Nat
    BY <1>6, TradingAssumption
  <2> QED
    BY <2>1 DEF Of
<1> QED
  BY <1>2, <1>3, <1>4, <1>5, <1>7

LEMMA SoldAtTyped ==
    ASSUME SalesTyped
    PROVE  \A l, D : SoldAt(l, D) \in Nat
<1> SUFFICES ASSUME NEW l, NEW D PROVE SoldAt(l, D) \in Nat
  OBVIOUS
<1> DEFINE S == {i \in InDays(D) : sales[i].warehouse = l[2]}
           f == [i \in S |-> Of(i, l[1])]
<1>1. IsFiniteSet(S) /\ \A i \in S : f[i] \in Nat
  <2>1. S \in SUBSET DOMAIN sales
    BY SalesFinite
  <2> QED
    BY <2>1, SalesFinite, FS_Subset
<1>2. SoldAt(l, D) = SumFunctionOnSet(f, S)
  BY DEF SoldAt, Total
<1> HIDE DEF f, S
<1> QED
  BY <1>1, <1>2, SumMonotone

LEMMA AppendTyped ==
    ASSUME NEW V, NEW s \in Seq(V), NEW v \in V
    PROVE  Append(s, v) \in Seq(V)
BY AppendProperties

LEMMA ReplaceTyped ==
    ASSUME NEW V, NEW s \in Seq(V), NEW i \in DOMAIN s, NEW v \in V
    PROVE  [s EXCEPT ![i] = v] \in Seq(V)
BY ExceptSeq

LEMMA DeliveredTyped ==
    ASSUME NEW o \in PurchaseOrder
    PROVE  [o EXCEPT !.status = "delivered"] \in PurchaseOrder
  BY DEF PurchaseOrder

LEMMA WriteSound ==
    ASSUME RowsTyped, Write
    PROVE  RowsTyped' /\ Balanced /\ today' = today
<1> DEFINE Moved == today' = today /\ StockTyped' /\ AlertsTyped' /\ Balanced
<1>1. today \in Days /\ StockTyped /\ SalesTyped /\ DocumentsTyped /\ AlertsTyped
  BY DEF RowsTyped
<1>2. ASSUME NEW l \in Lines, NEW n \in Int, today' = today, alerts' = alerts,
             Moves(Only(l, n))
      PROVE  Moved
  <2>1. {l} \in SUBSET Lines /\ Only(l, n) \in [{l} -> Int]
    BY DEF Only
  <2> QED
    BY <1>1, <1>2, <2>1, MovesSound
<1>3. ASSUME today' = today, UNCHANGED <<stock, moved, due, alerts>>
      PROVE  Moved
  BY <1>1, <1>3, StillSound
<1>4. ASSUME today' = today, UNCHANGED sales PROVE SalesTyped'
  BY <1>1, <1>4 DEF SalesTyped
<1> HIDE DEF Moved
<1>5. ASSUME Moved, SalesTyped', DocumentsTyped'
      PROVE  RowsTyped' /\ Balanced /\ today' = today
  BY <1>1, <1>5 DEF Moved, RowsTyped
<1>6. ASSUME NEW l \in Touched, NEW n \in Changes, Adjust(l, n)
      PROVE  Moved /\ SalesTyped' /\ DocumentsTyped'
  <2>1. /\ l \in Lines /\ n \in Int /\ today' = today /\ alerts' = alerts
        /\ Moves(Only(l, n)) /\ UNCHANGED <<sales, orders, transfers, counts, advice>>
    BY <1>6, TradingAssumption DEF Adjust, Writes
  <2>2. DocumentsTyped'
    BY <1>1, <2>1 DEF DocumentsTyped
  <2> QED
    BY <1>2, <1>4, <2>1, <2>2
<1>7. ASSUME NEW w \in Warehouses, NEW b \in Baskets, Sell(w, b)
      PROVE  Moved /\ SalesTyped' /\ DocumentsTyped'
  <2> DEFINE L == {<<p, w>> : p \in DOMAIN b}
             change == [l \in L |-> -b[l[1]]]
             sale == [day |-> today, warehouse |-> w, items |-> b]
  <2>1. /\ today' = today /\ alerts' = alerts /\ Moves(change)
        /\ sales' = Append(sales, sale)
        /\ UNCHANGED <<orders, transfers, counts, advice>>
    BY <1>7 DEF Sell, Writes
  <2>2. L \in SUBSET Lines /\ change \in [L -> Int]
    <3>1. \A p \in DOMAIN b : p \in Products /\ -b[p] \in Int
      BY TradingAssumption
    <3> QED
      BY <3>1 DEF Lines
  <2>3. Moved
    <3> HIDE DEF L, change
    <3> QED
      BY <1>1, <2>1, <2>2, MovesSound DEF Moved
  <2>4. sale \in Sale
    BY <1>1 DEF Sale
  <2>5. SalesTyped'
    <3> HIDE DEF sale
    <3>1. sales \in Seq(Sale) /\ sales' \in Seq(Sale)
      BY <1>1, <2>1, <2>4, AppendTyped DEF SalesTyped
    <3>2. \A i \in DOMAIN sales' : sales'[i] = sale \/ (i \in DOMAIN sales /\ sales'[i] = sales[i])
      BY <2>1, <2>4, <3>1, AppendProperties
    <3>3. sale.day <= today
      BY <1>1 DEF sale, Days
    <3> QED
      BY <1>1, <2>1, <3>1, <3>2, <3>3 DEF SalesTyped
  <2>6. DocumentsTyped'
    BY <1>1, <2>1 DEF DocumentsTyped
  <2> QED
    BY <2>3, <2>5, <2>6
<1>8. ASSUME NEW s \in Suppliers, NEW l \in Touched,
             NEW promised \in {{}, {today + Promise}}, RaiseOrder(s, l, promised)
      PROVE  Moved /\ SalesTyped' /\ DocumentsTyped'
  <2> DEFINE o == [status |-> "draft", supplier |-> s, line |-> l, quantity |-> Wanted,
                   raised |-> today, promised |-> promised]
  <2>1. /\ today' = today /\ orders' = Append(orders, o)
        /\ UNCHANGED <<stock, moved, due, alerts>> /\ UNCHANGED sales
        /\ UNCHANGED <<transfers, counts, advice>>
    BY <1>8 DEF RaiseOrder, Writes
  <2>2. o \in PurchaseOrder
    <3>1. today \in Int /\ Promise \in Int /\ Wanted \in Nat /\ l \in Lines
      BY <1>1, TradingAssumption DEF Days
    <3>2. promised \in SUBSET Int /\ \A c, d \in promised : c = d
      BY <3>1
    <3>3. promised \in {D \in SUBSET Int : \A c, d \in D : c = d}
      BY <3>2
    <3> QED
      BY <3>1, <3>3 DEF PurchaseOrder
  <2> HIDE DEF o
  <2>3. DocumentsTyped'
    BY <1>1, <2>1, <2>2, AppendTyped DEF DocumentsTyped
  <2> QED
    BY <1>3, <1>4, <2>1, <2>3
<1>9. ASSUME NEW i \in DOMAIN orders, ReceiveOrder(i)
      PROVE  Moved /\ SalesTyped' /\ DocumentsTyped'
  <2> DEFINE o == [orders[i] EXCEPT !.status = "delivered"]
  <2>1. orders \in Seq(PurchaseOrder) /\ orders[i] \in PurchaseOrder
    BY <1>1, ElementOfSeq DEF DocumentsTyped
  <2>2. /\ today' = today /\ alerts' = alerts
        /\ Moves(Only(orders[i].line, orders[i].quantity))
        /\ UNCHANGED sales /\ UNCHANGED <<transfers, counts, advice>>
    BY <1>9 DEF ReceiveOrder, Writes
  <2>3. orders' = [orders EXCEPT ![i] = o]
    BY <1>9, <2>1 DEF ReceiveOrder
  <2>4. o \in PurchaseOrder /\ orders[i].line \in Lines /\ orders[i].quantity \in Int
    <3>1. o \in PurchaseOrder
      BY <2>1, DeliveredTyped
    <3>2. orders[i].line \in Lines /\ orders[i].quantity \in Nat
      BY <2>1 DEF PurchaseOrder
    <3> QED
      BY <3>1, <3>2
  <2> HIDE DEF o
  <2>5. DocumentsTyped'
    BY <1>1, <2>1, <2>2, <2>3, <2>4, ReplaceTyped DEF DocumentsTyped
  <2> QED
    BY <1>2, <1>4, <2>2, <2>4, <2>5
<1>10. ASSUME NEW l \in Touched, NEW w \in Warehouses, RequestTransfer(l[1], l[2], w)
       PROVE  Moved /\ SalesTyped' /\ DocumentsTyped'
  <2> DEFINE t == [status |-> "pending", product |-> l[1], from |-> l[2], to |-> w,
                   quantity |-> Wanted, created |-> today]
  <2>1. /\ today' = today /\ transfers' = Append(transfers, t)
        /\ UNCHANGED <<stock, moved, due, alerts>> /\ UNCHANGED sales
        /\ UNCHANGED <<orders, counts, advice>>
    BY <1>10 DEF RequestTransfer, Writes
  <2>2. t \in Transfer
    BY <1>1, TradingAssumption DEF Transfer, Days, Lines
  <2> HIDE DEF t
  <2>3. DocumentsTyped'
    BY <1>1, <2>1, <2>2, AppendTyped DEF DocumentsTyped
  <2> QED
    BY <1>3, <1>4, <2>1, <2>3
<1>11. ASSUME NEW i \in DOMAIN transfers, ShipTransfer(i) \/ CompleteTransfer(i)
       PROVE  Moved /\ SalesTyped' /\ DocumentsTyped'
  <2>1. transfers \in Seq(Transfer) /\ transfers[i] \in Transfer
    BY <1>1, ElementOfSeq DEF DocumentsTyped
  <2>2. /\ transfers[i].product \in Products /\ transfers[i].from \in Warehouses
        /\ transfers[i].to \in Warehouses
        /\ transfers[i].quantity \in Int /\ -transfers[i].quantity \in Int
    BY <2>1 DEF Transfer
  <2>3. /\ today' = today /\ alerts' = alerts
        /\ UNCHANGED sales /\ UNCHANGED <<orders, counts, advice>>
    BY <1>11 DEF ShipTransfer, CompleteTransfer, Writes
  <2>4. \E l \in Lines : \E n \in Int : Moves(Only(l, n))
    <3>1. CASE ShipTransfer(i)
      <4>1. Moves(Only(<<transfers[i].product, transfers[i].from>>, -transfers[i].quantity))
        BY <3>1 DEF ShipTransfer
      <4>2. <<transfers[i].product, transfers[i].from>> \in Lines
        BY <2>2 DEF Lines
      <4> QED
        BY <2>2, <4>1, <4>2
    <3>2. CASE CompleteTransfer(i)
      <4>1. Moves(Only(<<transfers[i].product, transfers[i].to>>, transfers[i].quantity))
        BY <3>2 DEF CompleteTransfer
      <4>2. <<transfers[i].product, transfers[i].to>> \in Lines
        BY <2>2 DEF Lines
      <4> QED
        BY <2>2, <4>1, <4>2
    <3> QED
      BY <1>11, <3>1, <3>2
  <2>5. \E k \in {"in_transit", "completed"} :
           transfers' = [transfers EXCEPT ![i] = [transfers[i] EXCEPT !.status = k]]
    BY <1>11, <2>1 DEF ShipTransfer, CompleteTransfer
  <2>6. DocumentsTyped'
    <3>1. PICK k \in {"in_transit", "completed"} :
             transfers' = [transfers EXCEPT ![i] = [transfers[i] EXCEPT !.status = k]]
      BY <2>5
    <3>2. [transfers[i] EXCEPT !.status = k] \in Transfer
      BY <2>1 DEF Transfer
    <3>3. transfers' \in Seq(Transfer)
      BY <2>1, <3>1, <3>2, ReplaceTyped
    <3> QED
      BY <1>1, <2>3, <3>3 DEF DocumentsTyped
  <2> QED
    BY <1>2, <1>4, <2>3, <2>4, <2>6
<1>12. ASSUME NEW l \in Touched, NEW n \in {0, Wanted}, Count(l, n)
       PROVE  Moved /\ SalesTyped' /\ DocumentsTyped'
  <2> DEFINE c == [status |-> "pending", line |-> l, expected |-> Held(l),
                   actual |-> n, created |-> today]
  <2>1. /\ today' = today /\ counts' = Append(counts, c)
        /\ UNCHANGED <<stock, moved, due, alerts>> /\ UNCHANGED sales
        /\ UNCHANGED <<orders, transfers, advice>>
    BY <1>12 DEF Count, Writes
  <2>2. c \in StockCount
    <3>1. l \in Lines /\ n \in Nat
      BY TradingAssumption
    <3>2. Held(l) \in Nat
      BY <1>1, <3>1, HeldTyped
    <3> QED
      BY <1>1, <3>1, <3>2 DEF StockCount, Days
  <2> HIDE DEF c
  <2>3. DocumentsTyped'
    BY <1>1, <2>1, <2>2, AppendTyped DEF DocumentsTyped
  <2> QED
    BY <1>3, <1>4, <2>1, <2>3
<1>13. ASSUME NEW i \in DOMAIN counts, ApproveCount(i) \/ RejectCount(i)
       PROVE  Moved /\ SalesTyped' /\ DocumentsTyped'
  <2>1. counts \in Seq(StockCount) /\ counts[i] \in StockCount
    BY <1>1, ElementOfSeq DEF DocumentsTyped
  <2>2. counts[i].line \in Lines /\ counts[i].actual - counts[i].expected \in Int
    BY <2>1 DEF StockCount
  <2>3. /\ today' = today /\ alerts' = alerts
        /\ UNCHANGED sales /\ UNCHANGED <<orders, transfers, advice>>
    BY <1>13 DEF ApproveCount, RejectCount, Writes
  <2>4. Moved
    <3>1. CASE UNCHANGED <<stock, moved, due>>
      BY <1>3, <2>3, <3>1
    <3>2. CASE Moves(Only(counts[i].line, counts[i].actual - counts[i].expected))
      BY <1>2, <2>2, <2>3, <3>2
    <3> QED
      BY <1>13, <3>1, <3>2 DEF ApproveCount, RejectCount
  <2>5. \E k \in {"approved", "rejected"} :
           counts' = [counts EXCEPT ![i] = [counts[i] EXCEPT !.status = k]]
    BY <1>13, <2>1 DEF ApproveCount, RejectCount
  <2>6. DocumentsTyped'
    <3>1. PICK k \in {"approved", "rejected"} :
             counts' = [counts EXCEPT ![i] = [counts[i] EXCEPT !.status = k]]
      BY <2>5
    <3>2. [counts[i] EXCEPT !.status = k] \in StockCount
      BY <2>1 DEF StockCount
    <3>3. counts' \in Seq(StockCount)
      BY <2>1, <3>1, <3>2, ReplaceTyped
    <3> QED
      BY <1>1, <2>3, <3>3 DEF DocumentsTyped
  <2> QED
    BY <1>4, <2>3, <2>4, <2>6
<1>14. ASSUME NEW l \in Touched, NEW n \in {0, Wanted}, Suggest(l, n)
       PROVE  Moved /\ SalesTyped' /\ DocumentsTyped'
  <2> DEFINE a == [quantity |-> n, seen |-> SoldAt(l, Recent(Lookback))]
  <2>1. /\ today' = today /\ advice' = [advice EXCEPT ![l] = a]
        /\ UNCHANGED <<stock, moved, due, alerts>> /\ UNCHANGED sales
        /\ UNCHANGED <<orders, transfers, counts>>
    BY <1>14 DEF Suggest, Writes
  <2>2. a \in Advice
    BY <1>1, SoldAtTyped, TradingAssumption DEF Advice
  <2> HIDE DEF a
  <2>3. DocumentsTyped'
    BY <1>1, <2>1, <2>2 DEF DocumentsTyped
  <2> QED
    BY <1>3, <1>4, <2>1, <2>3
<1> QED
  BY <1>5, <1>6, <1>7, <1>8, <1>9, <1>10, <1>11, <1>12, <1>13, <1>14 DEF Write


LEMMA NoticeSound ==
    ASSUME RowsTyped, Notice
    PROVE  RowsTyped' /\ UNCHANGED <<today, stock, moved>>
<1>1. /\ alerts' = FoldLeft(Handled, alerts, due) /\ due' = << >>
      /\ UNCHANGED <<today, stock, moved, sales>> /\ UNCHANGED <<orders, transfers, counts, advice>>
  BY DEF Notice
<1>2. alerts \in SUBSET (Kinds \X DOMAIN stock) /\ due \in Seq(News(DOMAIN stock))
  BY DEF RowsTyped, AlertsTyped, Kinds
<1>3. alerts' \in SUBSET (Kinds \X DOMAIN stock)
  BY <1>1, <1>2, NoticeTyped
<1>4. AlertsTyped'
  BY <1>1, <1>3 DEF AlertsTyped, Kinds
<1>5. StockTyped' /\ SalesTyped' /\ DocumentsTyped'
  BY <1>1 DEF RowsTyped, StockTyped, SalesTyped, DocumentsTyped
<1> QED
  BY <1>1, <1>4, <1>5 DEF RowsTyped

LEMMA NextDaySound ==
    ASSUME RowsTyped, NextDay
    PROVE  RowsTyped' /\ today' = today + 1 /\ UNCHANGED <<stock, moved>>
<1>1. /\ today \in Days /\ today < MaxDay /\ today' = today + 1
      /\ UNCHANGED <<stock, moved, due, alerts, sales>>
      /\ UNCHANGED <<orders, transfers, counts, advice>>
  BY DEF NextDay, rows, RowsTyped
<1>2. today' \in Days
  BY <1>1, TradingAssumption DEF Days
<1>3. StockTyped'
  <2>1. \A d \in Days : d > today' => d > today
    BY <1>1 DEF Days
  <2> QED
    BY <1>1, <2>1 DEF RowsTyped, StockTyped
<1>4. SalesTyped'
  <2>1. sales \in Seq(Sale) /\ \A i \in DOMAIN sales : sales[i].day \in 0 .. today
    BY SalesFinite DEF RowsTyped, SalesTyped
  <2>2. \A d \in 0 .. today : d <= today + 1
    BY <1>1 DEF Days
  <2> QED
    BY <1>1, <2>1, <2>2 DEF SalesTyped
<1>5. DocumentsTyped' /\ AlertsTyped'
  BY <1>1 DEF RowsTyped, DocumentsTyped, AlertsTyped
<1> QED
  BY <1>1, <1>2, <1>3, <1>4, <1>5 DEF RowsTyped

-----------------------------------------------------------------------------
(* The traces.                                                             *)

LEMMA SinceTyped ==
    ASSUME StockTyped
    PROVE  \A l \in Lines, d \in Int : Since(l, d) \in Int
<1> SUFFICES ASSUME NEW l \in Lines, NEW d \in Int PROVE Since(l, d) \in Int
  OBVIOUS
<1>1. IsFiniteSet({e \in Days : e > d}) /\ \A e \in {x \in Days : x > d} : moved[l][e] \in Int
  BY LinesFinite, FS_Subset DEF StockTyped
<1> QED
  BY <1>1, SumType DEF Since

\* What moves today has moved since every day before.
LEMMA SinceBalanced ==
    ASSUME today \in Days, StockTyped, StockTyped', Balanced, NEW l \in Lines, NEW d \in Days
    PROVE  Since(l, d)' = IF d < today
                          THEN Since(l, d) - moved[l][today] + moved'[l][today]
                          ELSE Since(l, d)
<1> DEFINE S == {e \in Days : e > d}
           f == moved[l]
           g == moved'[l]
<1>1. IsFiniteSet(S) /\ \A e \in S : f[e] \in Int /\ g[e] \in Int
  BY LinesFinite, FS_Subset DEF StockTyped
<1>2. \A e \in S : e # today => g[e] = f[e]
  BY DEF Balanced
<1>3. Since(l, d) = SumFunctionOnSet(f, S) /\ Since(l, d)' = SumFunctionOnSet(g, S)
  BY DEF Since
<1>4. today \in S <=> d < today
  BY DEF Days
<1> HIDE DEF S, f, g
<1>5. CASE today \in S
  <2>1. SumFunctionOnSet(g, S) = SumFunctionOnSet(f, S) - f[today] + g[today]
    BY <1>1, <1>2, <1>5, SumChanges
  <2> QED
    BY <1>3, <1>4, <1>5, <2>1 DEF f, g
<1>6. CASE today \notin S
  <2>1. SumFunctionOnSet(f, S) = SumFunctionOnSet(g, S)
    BY <1>1, <1>2, <1>6, SumExtensional
  <2> QED
    BY <1>3, <1>4, <1>6, <2>1
<1> QED
  BY <1>5, <1>6

\* Nothing has moved since today.
LEMMA NothingSinceToday ==
    ASSUME today \in Days, StockTyped, NEW l \in Lines
    PROVE  Since(l, today) = 0
<1>1. IsFiniteSet({e \in Days : e > today}) /\ \A e \in {x \in Days : x > today} : moved[l][e] = 0
  BY LinesFinite, FS_Subset DEF StockTyped
<1> QED
  BY <1>1, SumOfZeros DEF Since

LEMMA InitSound == FiguresInit => IInv
<1> SUFFICES ASSUME FiguresInit PROVE IInv
  OBVIOUS
<1>1. PICK s \in Seeds :
        /\ today = 0 /\ stock = s.stock /\ sales = s.sales /\ orders = s.orders
        /\ moved = [l \in Lines |-> [d \in Days |-> 0]]
        /\ transfers = s.transfers /\ counts = s.counts /\ due = << >>
        /\ alerts = {} /\ advice = s.advice
  BY DEF FiguresInit, Init
<1>2. page.step = "idle" /\ closing = [l \in Lines |-> << >>]
  BY DEF FiguresInit
<1>3. today \in Days
  BY <1>1, TradingAssumption DEF Days
<1>4. StockTyped
  BY <1>1, SeedsAssumption DEF StockTyped
<1>5. SalesTyped /\ DocumentsTyped
  BY <1>1, SeedsAssumption DEF SalesTyped, DocumentsTyped
<1>6. AlertsTyped
  BY <1>1 DEF AlertsTyped
<1>7. ClosingSound
  <2>1. << >> \in Seq(Int) /\ Len(<< >>) = 0 /\ 0 .. 0 - 1 = {}
    OBVIOUS
  <2> QED
    BY <1>1, <1>2, <2>1 DEF ClosingSound
<1>8. PageSound
  BY <1>2 DEF PageSound
<1> QED
  BY <1>3, <1>4, <1>5, <1>6, <1>7, <1>8 DEF IInv, RowsTyped

\* A handler that commits: the day goes on.
LEMMA WriteKeepsTraces ==
    ASSUME IInv, Write, Witness
    PROVE  IInv'
<1>1. RowsTyped /\ RowsTyped' /\ Balanced /\ today' = today
  BY WriteSound DEF IInv
<1>2. today \in Days /\ StockTyped /\ StockTyped' /\ today \in Int
  BY <1>1 DEF RowsTyped, Days
<1>3. \A l \in Lines : /\ moved[l][today] \in Int /\ moved'[l][today] \in Int
                       /\ Held(l) \in Nat
                       /\ Held(l)' = Held(l) + moved'[l][today] - moved[l][today]
  BY <1>1, <1>2, HeldTyped DEF StockTyped, Balanced
<1>4. \A l \in Lines : \A d \in Days : Since(l, d) \in Int
  BY <1>2, SinceTyped DEF Days
<1>5. closing' = closing
  <2>1. \A l \in Lines : closing[l] \in Seq(Int)
    BY DEF IInv, ClosingSound
  <2>2. \A l \in Lines : closing[l] \o << >> = closing[l]
    BY <2>1, ConcatEmptySeq
  <2>3. closing' = [l \in Lines |-> closing[l] \o << >>]
    <3>1. ~(today' > today)
      BY <1>1, <1>2
    <3> QED
      BY <3>1 DEF Witness
  <2>4. closing = [l \in Lines |-> closing[l]]
    BY DEF IInv, ClosingSound
  <2> QED
    BY <2>2, <2>3, <2>4
<1>6. ClosingSound'
  <2> SUFFICES ASSUME NEW l \in Lines, NEW d \in 0 .. today - 1
               PROVE  closing[l][d + 1] + Since(l, d)' = Held(l)'
    BY <1>1, <1>5 DEF ClosingSound, IInv
  <2>1. d \in Days /\ d < today
    BY <1>2, TradingAssumption DEF Days
  <2>2. Since(l, d)' = Since(l, d) - moved[l][today] + moved'[l][today]
    BY <1>1, <1>2, <2>1, SinceBalanced
  <2>3. closing[l][d + 1] + Since(l, d) = Held(l) /\ closing[l][d + 1] \in Int
    <3>1. closing[l] \in Seq(Int) /\ d + 1 \in 1 .. Len(closing[l])
      BY <1>2 DEF IInv, ClosingSound
    <3> QED
      BY <3>1 DEF IInv, ClosingSound
  <2> QED
    BY <1>3, <1>4, <2>1, <2>2, <2>3
<1>7. PageSound'
  <2>1. CASE page.step # "half"
    <3>1. page' = page
      BY <2>1 DEF Witness
    <3> QED
      BY <2>1, <3>1 DEF PageSound
  <2>2. CASE page.step = "half"
    <3> DEFINE Q == DOMAIN page.quantity
    <3>1. /\ page = [step |-> "half", day |-> page.day, quantity |-> page.quantity,
                     missed |-> page.missed]
          /\ page.day \in 0 .. today /\ Q \subseteq Lines /\ DOMAIN page.missed = Q
          /\ \A l \in Q :
                /\ page.quantity[l] \in Nat /\ page.missed[l] \in Int
                /\ page.quantity[l] + page.missed[l] + Since(l, page.day) = Held(l)
      BY <2>2 DEF IInv, PageSound
    <3>2. page.day \in Days /\ page.day <= today
      BY <1>2, <3>1, TradingAssumption DEF Days
    <3>3. ASSUME NEW l \in Q
          PROVE  SumFunctionOnSet(moved'[l], {e \in Days : e > page.day})
                    = IF page.day < today
                      THEN Since(l, page.day) - moved[l][today] + moved'[l][today]
                      ELSE Since(l, page.day)
      <4>1. ASSUME NEW d \in Days
            PROVE  SumFunctionOnSet(moved'[l], {e \in Days : e > d})
                    = IF d < today THEN Since(l, d) - moved[l][today] + moved'[l][today]
                      ELSE Since(l, d)
        <5>1. Since(l, d)' = IF d < today
                             THEN Since(l, d) - moved[l][today] + moved'[l][today]
                             ELSE Since(l, d)
          BY <1>1, <1>2, <3>1, SinceBalanced
        <5> QED
          BY <5>1 DEF Since
      <4> QED
        BY <3>2, <4>1
    <3> DEFINE missed == [l \in Q |-> page.missed[l] + moved'[l][today] - moved[l][today]]
    <3>4. page' = IF today = page.day THEN [page EXCEPT !.missed = missed] ELSE page
      BY <2>2 DEF Witness
    <3>5. /\ page'.step = "half" /\ page'.day = page.day /\ page'.quantity = page.quantity
          /\ page'.missed = IF today = page.day THEN missed ELSE page.missed
          /\ page' = [step |-> "half", day |-> page'.day, quantity |-> page'.quantity,
                      missed |-> page'.missed]
      <4> HIDE DEF missed
      <4> QED
        BY <3>1, <3>4
    <3>6. ASSUME NEW l \in Q
          PROVE  /\ page'.missed[l] \in Int
                 /\ page.quantity[l] + page'.missed[l]
                        + SumFunctionOnSet(moved'[l], {e \in Days : e > page.day}) = Held(l)'
      <4>1. /\ page'.missed[l] = IF today = page.day
                                 THEN page.missed[l] + moved'[l][today] - moved[l][today]
                                 ELSE page.missed[l]
            /\ page.quantity[l] \in Nat /\ page.missed[l] \in Int
            /\ page.quantity[l] + page.missed[l] + Since(l, page.day) = Held(l)
        BY <3>1, <3>5
      <4>2. /\ moved[l][today] \in Int /\ moved'[l][today] \in Int /\ Held(l) \in Nat
            /\ Held(l)' = Held(l) + moved'[l][today] - moved[l][today]
            /\ Since(l, page.day) \in Int
        BY <1>3, <1>4, <3>1, <3>2
      <4>3. page.day < today <=> today # page.day
        BY <1>2, <3>1, <3>2
      <4>4. CASE today = page.day
        <5>1. SumFunctionOnSet(moved'[l], {e \in Days : e > page.day}) = Since(l, page.day)
          BY <3>3, <4>3, <4>4
        <5>2. page'.missed[l] = page.missed[l] + moved'[l][today] - moved[l][today]
          BY <4>1, <4>4
        <5> QED
          BY <4>1, <4>2, <5>1, <5>2
      <4>5. CASE today # page.day
        <5>1. SumFunctionOnSet(moved'[l], {e \in Days : e > page.day})
                = Since(l, page.day) - moved[l][today] + moved'[l][today]
          BY <3>3, <4>3, <4>5
        <5>2. page'.missed[l] = page.missed[l]
          BY <4>1, <4>5
        <5> QED
          BY <4>1, <4>2, <5>1, <5>2
      <4> QED
        BY <4>4, <4>5
    <3>7. DOMAIN page'.missed = Q
      BY <3>1, <3>5
    <3>8. \A l \in Q : SumFunctionOnSet(moved'[l], {e \in Days : e > page.day}) = Since(l, page.day)'
      BY <3>5 DEF Since
    <3> QED
      BY <1>1, <3>1, <3>5, <3>6, <3>7, <3>8 DEF PageSound
  <2> QED
    BY <2>1, <2>2
<1> QED
  BY <1>1, <1>6, <1>7 DEF IInv


\* A consumer's batch, and midnight.
LEMMA NoticeKeepsTraces ==
    ASSUME IInv, Notice, Witness
    PROVE  IInv'
<1>1. RowsTyped' /\ UNCHANGED <<today, stock, moved>>
  BY NoticeSound DEF IInv
<1>2. today \in Int /\ StockTyped
  BY DEF IInv, RowsTyped, Days
<1>3. closing' = closing
  <2>1. \A l \in Lines : closing[l] \in Seq(Int)
    BY DEF IInv, ClosingSound
  <2>2. \A l \in Lines : closing[l] \o << >> = closing[l]
    BY <2>1, ConcatEmptySeq
  <2>3. closing' = [l \in Lines |-> closing[l] \o << >>]
    <3>1. ~(today' > today)
      BY <1>1, <1>2
    <3> QED
      BY <3>1 DEF Witness
  <2>4. closing = [l \in Lines |-> closing[l]]
    BY DEF IInv, ClosingSound
  <2> QED
    BY <2>2, <2>3, <2>4
<1>4. ClosingSound'
  BY <1>1, <1>3 DEF IInv, ClosingSound, Since, Held
<1>5. PageSound'
  <2>1. CASE page.step # "half"
    <3>1. page' = page
      BY <2>1 DEF Witness
    <3> QED
      BY <2>1, <3>1 DEF PageSound
  <2>2. CASE page.step = "half"
    <3> DEFINE Q == DOMAIN page.quantity
               missed == [l \in Q |-> page.missed[l] + moved'[l][today] - moved[l][today]]
    <3>1. /\ page = [step |-> "half", day |-> page.day, quantity |-> page.quantity,
                     missed |-> page.missed]
          /\ page.day \in 0 .. today /\ Q \subseteq Lines /\ DOMAIN page.missed = Q
          /\ \A l \in Q :
                /\ page.quantity[l] \in Nat /\ page.missed[l] \in Int
                /\ page.quantity[l] + page.missed[l] + Since(l, page.day) = Held(l)
      BY <2>2 DEF IInv, PageSound
    <3>2. page' = IF today = page.day THEN [page EXCEPT !.missed = missed] ELSE page
      BY <1>1, <2>2 DEF Witness
    <3>3. \A l \in Q : missed[l] = page.missed[l]
      <4>1. \A l \in Q : moved'[l][today] = moved[l][today] /\ moved[l][today] \in Int
        BY <1>1, <1>2, <3>1 DEF IInv, RowsTyped, StockTyped
      <4> QED
        BY <3>1, <4>1
    <3>4. DOMAIN missed = Q
      OBVIOUS
    <3> HIDE DEF missed
    <3>5. /\ page' = [step |-> "half", day |-> page'.day, quantity |-> page'.quantity,
                      missed |-> page'.missed]
          /\ page'.day = page.day /\ page'.quantity = page.quantity
          /\ DOMAIN page'.missed = Q /\ \A l \in Q : page'.missed[l] = page.missed[l]
      BY <3>1, <3>2, <3>3, <3>4
    <3> QED
      BY <1>1, <3>1, <3>5 DEF PageSound, Since, Held
  <2> QED
    BY <2>1, <2>2
<1> QED
  BY <1>1, <1>4, <1>5 DEF IInv

LEMMA OneMore ==
    ASSUME NEW c \in Seq(Int), NEW h \in Int
    PROVE  /\ c \o <<h>> \in Seq(Int) /\ Len(c \o <<h>>) = Len(c) + 1
           /\ \A d \in 0 .. Len(c) - 1 : (c \o <<h>>)[d + 1] = c[d + 1]
           /\ (c \o <<h>>)[Len(c) + 1] = h
<1>1. <<h>> \in Seq(Int) /\ Len(<<h>>) = 1 /\ <<h>>[1] = h /\ Len(c) \in Nat
  OBVIOUS
<1>2. /\ c \o <<h>> \in Seq(Int) /\ Len(c \o <<h>>) = Len(c) + Len(<<h>>)
      /\ \A i \in 1 .. Len(c) + Len(<<h>>) :
            (c \o <<h>>)[i] = IF i <= Len(c) THEN c[i] ELSE <<h>>[i - Len(c)]
  BY <1>1, ConcatProperties
<1>3. (c \o <<h>>)[Len(c) + 1] = h
  <2>1. Len(c) + 1 \in 1 .. Len(c) + 1 /\ ~(Len(c) + 1 <= Len(c)) /\ Len(c) + 1 - Len(c) = 1
    BY <1>1
  <2> QED
    BY <1>1, <1>2, <2>1
<1>4. ASSUME NEW d \in 0 .. Len(c) - 1 PROVE (c \o <<h>>)[d + 1] = c[d + 1]
  <2>1. d + 1 \in 1 .. Len(c) + 1 /\ d + 1 <= Len(c)
    BY <1>1
  <2> QED
    BY <1>1, <1>2, <2>1
<1> QED
  BY <1>1, <1>2, <1>3, <1>4

LEMMA NextDayKeepsTraces ==
    ASSUME IInv, NextDay, Witness
    PROVE  IInv'
<1>1. RowsTyped /\ RowsTyped' /\ today' = today + 1 /\ UNCHANGED <<stock, moved>>
  BY NextDaySound DEF IInv
<1>2. today \in Nat /\ today \in Days /\ StockTyped /\ today' > today
  BY <1>1 DEF RowsTyped, Days
<1>3. \A l \in Lines : Held(l) \in Nat /\ Held(l)' = Held(l)
  BY <1>1, <1>2, HeldTyped DEF Held
<1>4. ASSUME NEW l \in Lines
      PROVE  /\ closing[l] \in Seq(Int) /\ Len(closing[l]) = today
             /\ closing'[l] = closing[l] \o <<Held(l)>>
             /\ \A d \in 0 .. today - 1 : closing[l][d + 1] + Since(l, d) = Held(l)
  BY <1>2 DEF IInv, ClosingSound, Witness
<1>5. ASSUME NEW l \in Lines
      PROVE  /\ closing'[l] \in Seq(Int) /\ Len(closing'[l]) = today + 1
             /\ \A d \in 0 .. today : closing'[l][d + 1] + Since(l, d) = Held(l)
  <2> DEFINE c == closing[l]
             h == Held(l)
  <2>1. c \in Seq(Int) /\ Len(c) = today /\ h \in Int /\ closing'[l] = c \o <<h>>
    BY <1>3, <1>4
  <2>2. \A d \in 0 .. today - 1 : c[d + 1] + Since(l, d) = h
    BY <1>4
  <2>3. Since(l, today) = 0
    BY <1>2, NothingSinceToday
  <2> HIDE DEF c, h
  <2>4. /\ c \o <<h>> \in Seq(Int) /\ Len(c \o <<h>>) = today + 1
        /\ \A d \in 0 .. today - 1 : (c \o <<h>>)[d + 1] = c[d + 1]
        /\ (c \o <<h>>)[today + 1] = h
    BY <1>2, <2>1, OneMore
  <2>5. ASSUME NEW d \in 0 .. today PROVE (c \o <<h>>)[d + 1] + Since(l, d) = h
    <3>1. CASE d = today
      BY <2>1, <2>3, <2>4, <3>1
    <3>2. CASE d # today
      <4>1. d \in 0 .. today - 1
        BY <1>2, <3>2
      <4> QED
        BY <2>2, <2>4, <4>1
    <3> QED
      BY <3>1, <3>2
  <2> QED
    BY <2>1, <2>4, <2>5 DEF h
<1>6. ClosingSound'
  <2>1. closing' \in [Lines -> Seq(Int)]
    <3>1. closing' = [l \in Lines |-> closing'[l]]
      BY DEF Witness
    <3> QED
      BY <1>5, <3>1
  <2>2. today' - 1 = today
    BY <1>1, <1>2
  <2>3. \A l \in Lines : \A d \in 0 .. today : Since(l, d)' = Since(l, d)
    BY <1>1 DEF Since
  <2>4. \A l \in Lines : Len(closing'[l]) = today'
    BY <1>1, <1>5
  <2>5. \A l \in Lines : \A d \in 0 .. today : closing'[l][d + 1] + Since(l, d)' = Held(l)'
    BY <1>3, <1>5, <2>3
  <2> QED
    BY <2>1, <2>2, <2>4, <2>5 DEF ClosingSound
<1>7. PageSound'
  <2>1. CASE page.step # "half"
    <3>1. page' = page
      BY <2>1 DEF Witness
    <3> QED
      BY <2>1, <3>1 DEF PageSound
  <2>2. CASE page.step = "half"
    <3> DEFINE Q == DOMAIN page.quantity
               missed == [l \in Q |-> page.missed[l] + moved'[l][today] - moved[l][today]]
    <3>1. /\ page = [step |-> "half", day |-> page.day, quantity |-> page.quantity,
                     missed |-> page.missed]
          /\ page.day \in 0 .. today /\ Q \subseteq Lines /\ DOMAIN page.missed = Q
          /\ \A l \in Q :
                /\ page.quantity[l] \in Nat /\ page.missed[l] \in Int
                /\ page.quantity[l] + page.missed[l] + Since(l, page.day) = Held(l)
      BY <2>2 DEF IInv, PageSound
    <3>2. page' = IF today = page.day THEN [page EXCEPT !.missed = missed] ELSE page
      BY <2>2 DEF Witness
    <3>3. \A l \in Q : missed[l] = page.missed[l]
      <4>1. \A l \in Q : moved'[l][today] = moved[l][today] /\ moved[l][today] \in Int
        BY <1>1, <1>2, <3>1 DEF StockTyped
      <4> QED
        BY <3>1, <4>1
    <3>4. DOMAIN missed = Q
      OBVIOUS
    <3> HIDE DEF missed
    <3>5. /\ page' = [step |-> "half", day |-> page'.day, quantity |-> page'.quantity,
                      missed |-> page'.missed]
          /\ page'.day = page.day /\ page'.quantity = page.quantity
          /\ DOMAIN page'.missed = Q /\ \A l \in Q : page'.missed[l] = page.missed[l]
      BY <3>1, <3>2, <3>3, <3>4
    <3>6. page.day \in 0 .. today'
      BY <1>1, <1>2, <3>1
    <3> QED
      BY <1>1, <3>1, <3>5, <3>6 DEF PageSound, Since, Held
  <2> QED
    BY <2>1, <2>2
<1> QED
  BY <1>1, <1>6, <1>7 DEF IInv

\* The page's own statements.
LEMMA PageKeepsTraces ==
    ASSUME IInv, ReadQuantities \/ ReadMovements
    PROVE  IInv'
<1>1. UNCHANGED <<today, stock, moved, sales>> /\ UNCHANGED <<orders, transfers, counts>>
      /\ UNCHANGED <<due, alerts, advice, closing>>
  BY DEF ReadQuantities, ReadMovements, trading, rows
<1>2. RowsTyped'
  BY <1>1 DEF IInv, RowsTyped, StockTyped, SalesTyped, DocumentsTyped, AlertsTyped
<1>3. ClosingSound'
  BY <1>1 DEF IInv, ClosingSound, Since, Held
<1>4. PageSound'
  <2>1. CASE ReadMovements
    BY <2>1 DEF ReadMovements, PageSound
  <2>2. CASE ReadQuantities
    <3>1. today \in Days /\ today \in 0 .. today /\ StockTyped
      BY DEF IInv, RowsTyped, Days
    <3>2. page' = [step |-> "half", day |-> today, quantity |-> stock,
                   missed |-> [l \in DOMAIN stock |-> 0]]
      BY <2>2 DEF ReadQuantities
    <3>3. \A l \in DOMAIN stock : l \in Lines /\ stock[l] \in Nat /\ Held(l) = stock[l]
      BY <3>1 DEF StockTyped, Held
    <3>4. \A l \in DOMAIN stock : stock[l] + 0 + Since(l, today) = Held(l)
      BY <3>1, <3>3, NothingSinceToday
    <3>5. \A l \in DOMAIN stock : Since(l, page.day)' = Since(l, today) /\ Held(l)' = Held(l)
      BY <1>1, <3>2 DEF Since, Held
    <3> QED
      BY <1>1, <3>1, <3>2, <3>3, <3>4, <3>5 DEF PageSound
  <2> QED
    BY <2>1, <2>2
<1> QED
  BY <1>2, <1>3, <1>4 DEF IInv

\* Whatever is committed when, the rows keep the shape of their tables, no stock
\* is negative, and what a day closed with, or a page has read, differs from what
\* there is by what has moved since (the handlers, through adjust_inventory).
THEOREM RowsKeepShape == Spec => []IInv
<1>1. IInv /\ [Next]_vars => IInv'
  <2> SUFFICES ASSUME IInv, [Next]_vars PROVE IInv'
    OBVIOUS
  <2>1. CASE UNCHANGED vars
    BY <2>1 DEF vars, trading, rows, IInv, RowsTyped, StockTyped, SalesTyped,
                DocumentsTyped, AlertsTyped, ClosingSound, PageSound, Since, Held
  <2>2. CASE Next
    BY <2>2, WriteKeepsTraces, NoticeKeepsTraces, NextDayKeepsTraces, PageKeepsTraces
       DEF Next
  <2> QED
    BY <2>1, <2>2
<1> QED
  BY <1>1, InitSound, PTL DEF Spec

\* What moved between two days is the difference of what moved since each.
LEMMA SinceSplits ==
    ASSUME StockTyped, NEW l \in Lines, NEW d \in Days, NEW e \in Days, d <= e
    PROVE  SumFunctionOnSet(moved[l], {x \in Days : x > d /\ x <= e})
                = Since(l, d) - Since(l, e)
<1> DEFINE A == {x \in Days : x > d /\ x <= e}
           B == {x \in Days : x > e}
<1>1. \A x \in Days : x \in Int
  BY DEF Days
<1>2. A \cap B = {} /\ A \cup B = {x \in Days : x > d}
  BY <1>1
<1>3. /\ IsFiniteSet(A) /\ IsFiniteSet(B)
      /\ \A x \in A \cup B : moved[l][x] \in Int
  BY LinesFinite, FS_Subset DEF StockTyped
<1> HIDE DEF A
<1>4. SumFunctionOnSet(moved[l], A \cup B)
        = SumFunctionOnSet(moved[l], A) + SumFunctionOnSet(moved[l], B)
  <2> HIDE DEF B
  <2> QED
    BY <1>2, <1>3, SumOfDisjoint
<1>5. SumFunctionOnSet(moved[l], A) \in Int /\ SumFunctionOnSet(moved[l], B) \in Int
  <2> HIDE DEF B
  <2> QED
    BY <1>3, SumType
<1>6. Since(l, e) = SumFunctionOnSet(moved[l], B)
  BY DEF Since
<1>7. Since(l, d) = SumFunctionOnSet(moved[l], A \cup B)
  BY <1>2 DEF Since
<1>8. SumFunctionOnSet(moved[l], A) = Since(l, d) - Since(l, e)
  <2> HIDE DEF B
  <2> QED
    BY <1>4, <1>5, <1>6, <1>7
<1> QED
  BY <1>8 DEF A

\* A trace shows what each day closed with, except for what was committed
\* between its two statements, which it takes off every day before the page's own
\* (inventory/service.py, get_traces under READ COMMITTED).
THEOREM TracesTell == Spec => []TracesTellTheStock
<1>1. IInv => TracesTellTheStock
  <2> SUFFICES ASSUME IInv, page.step = "half",
                      NEW l \in DOMAIN page.quantity, NEW d \in TraceDays
               PROVE  Trace(l)[d] = (IF d = page.day THEN page.quantity[l]
                                     ELSE closing[l][d + 1] - page.missed[l])
    BY DEF TracesTellTheStock
  <2> DEFINE S == {e \in Days : e > d /\ e <= page.day}
             f == [e \in S |-> moved[l][e]]
  <2>1. /\ page.day \in 0 .. today /\ l \in Lines
        /\ page.quantity[l] \in Nat /\ page.missed[l] \in Int
        /\ page.quantity[l] + page.missed[l] + Since(l, page.day) = Held(l)
    BY DEF IInv, PageSound
  <2>2. /\ today \in Days /\ StockTyped /\ today \in Int /\ page.day \in Days
        /\ d \in Days /\ d <= page.day /\ page.day <= today
    BY <2>1, TradingAssumption DEF IInv, RowsTyped, Days, TraceDays
  <2>3. Trace(l)[d] = page.quantity[l] - SumFunctionOnSet(f, S)
    BY DEF Trace, Backwards, Total
  <2>4. SumFunctionOnSet(f, S) = Since(l, d) - Since(l, page.day)
    <3>1. IsFiniteSet(S) /\ \A e \in S : f[e] \in Int /\ f[e] = moved[l][e]
      BY <2>1, <2>2, LinesFinite, FS_Subset DEF StockTyped
    <3>2. SumFunctionOnSet(moved[l], S) = Since(l, d) - Since(l, page.day)
      BY <2>1, <2>2, SinceSplits
    <3> HIDE DEF f, S
    <3>3. SumFunctionOnSet(f, S) = SumFunctionOnSet(moved[l], S)
      BY <3>1, SumExtensional
    <3> QED
      BY <3>2, <3>3
  <2>5. Since(l, d) \in Int /\ Since(l, page.day) \in Int
    BY <2>1, <2>2, SinceTyped DEF Days
  <2>6. CASE d = page.day
    BY <2>1, <2>3, <2>4, <2>5, <2>6
  <2>7. CASE d # page.day
    <3>1. d \in 0 .. today - 1
      BY <2>2, <2>7 DEF Days
    <3>2. closing[l][d + 1] + Since(l, d) = Held(l) /\ closing[l][d + 1] \in Int
      <4>1. closing[l] \in Seq(Int) /\ d + 1 \in 1 .. Len(closing[l])
        BY <2>1, <2>2, <3>1 DEF IInv, ClosingSound
      <4> QED
        BY <2>1, <3>1, <4>1 DEF IInv, ClosingSound
    <3> QED
      BY <2>1, <2>3, <2>4, <2>5, <2>7, <3>2
  <2> QED
    BY <2>6, <2>7
<1> QED
  BY <1>1, RowsKeepShape, PTL


-----------------------------------------------------------------------------
(* Arithmetic.                                                             *)

LEMMA ProductsAreMonotone ==
    \A a, b \in Int, c \in Nat : a <= b => c * a <= c * b /\ a * c <= b * c
OBVIOUS

LEMMA ProductsDistribute ==
    \A a, b, c \in Int : c * (a + b) = c * a + c * b /\ c * (a - b) = c * a - c * b
OBVIOUS

LEMMA Quotients ==
    \A a \in Int, w \in Nat \ {0} :
        /\ a \div w \in Int
        /\ w * (a \div w) <= a /\ a < w * (a \div w) + w
OBVIOUS

LEMMA QuotientIsUnique ==
    ASSUME NEW a \in Int, NEW w \in Nat \ {0}, NEW q \in Int,
           w * q <= a, a < w * q + w
    PROVE  a \div w = q
<1> DEFINE p == a \div w
<1>1. p \in Int /\ w * p <= a /\ a < w * p + w
  BY Quotients
<1> HIDE DEF p
<1>2. CASE p < q
  <2>1. w * (p + 1) <= w * q
    BY <1>1, <1>2, ProductsAreMonotone
  <2> QED
    BY <1>1, <1>2, <2>1, ProductsDistribute
<1>3. CASE p > q
  <2>1. w * (q + 1) <= w * p
    BY <1>1, <1>3, ProductsAreMonotone
  <2> QED
    BY <1>1, <1>3, <2>1, ProductsDistribute
<1> QED
  BY <1>1, <1>2, <1>3 DEF p

LEMMA QuotientSteps ==
    ASSUME NEW a \in Int, NEW w \in Nat \ {0}, NEW m \in Int
    PROVE  (a - m * w) \div w = a \div w - m
<1> DEFINE q == a \div w
<1>1. q \in Int /\ w * q <= a /\ a < w * q + w
  BY Quotients
<1> HIDE DEF q
<1>2. w * (q - m) = w * q - m * w
  BY <1>1
<1>3. (a - m * w) \div w = q - m
  <2>1. a - m * w \in Int /\ q - m \in Int /\ m * w \in Int /\ w * q \in Int
    BY <1>1
  <2>2. w * (q - m) <= a - m * w /\ a - m * w < w * (q - m) + w
    BY <1>1, <1>2, <2>1
  <2> QED
    BY <2>1, <2>2, QuotientIsUnique
<1> QED
  BY <1>3 DEF q

\* A rounded quotient is no more than half away from the quotient.
LEMMA RoundedIsNear ==
    ASSUME NEW n \in Int, NEW d \in Nat \ {0}
    PROVE  /\ Rounded(n, d) \in Int
           /\ 2 * (d * Rounded(n, d)) <= 2 * n + d
           /\ 2 * n - d <= 2 * (d * Rounded(n, d))
<1> DEFINE q == n \div d
           r == n % d
           p == d * q
<1>1. q \in Int /\ p \in Int /\ r = n - p /\ p <= n /\ n < p + d
  BY Quotients
<1>2. \/ Rounded(n, d) = q /\ 2 * r <= d
      \/ Rounded(n, d) = q + 1 /\ 2 * r >= d
  BY <1>1 DEF Rounded
<1>3. d * (q + 1) = p + d
  BY <1>1, ProductsDistribute
<1> HIDE DEF q, r
<1>4. CASE Rounded(n, d) = q /\ 2 * r <= d
  BY <1>1, <1>4
<1>5. CASE Rounded(n, d) = q + 1 /\ 2 * r >= d
  BY <1>1, <1>3, <1>5
<1> QED
  BY <1>2, <1>4, <1>5

\* Rounding keeps to the side of a whole number its argument is on.
LEMMA RoundedKeepsOrder ==
    ASSUME NEW n \in Int, NEW d \in Nat \ {0}, NEW k \in Int
    PROVE  /\ n >= k * d => Rounded(n, d) >= k
           /\ n <= k * d => Rounded(n, d) <= k
<1> DEFINE r == Rounded(n, d)
           p == d * r
           m == k * d
<1>1. r \in Int /\ p \in Int /\ m \in Int /\ 2 * p <= 2 * n + d /\ 2 * n - d <= 2 * p
  <2>1. r \in Int /\ 2 * p <= 2 * n + d /\ 2 * n - d <= 2 * p
    BY RoundedIsNear
  <2> HIDE DEF r
  <2>2. p \in Int /\ m \in Int
    BY <2>1
  <2> QED
    BY <2>1, <2>2
<1> HIDE DEF r
<1>2. ASSUME r < k PROVE p <= m - d
  <2>1. d * r <= d * (k - 1)
    BY <1>1, <1>2, ProductsAreMonotone
  <2>2. d * (k - 1) = m - d
    BY ProductsDistribute
  <2> QED
    BY <2>1, <2>2
<1>3. ASSUME r > k PROVE p >= m + d
  <2>1. d * (k + 1) <= d * r
    BY <1>1, <1>3, ProductsAreMonotone
  <2>2. d * (k + 1) = m + d
    BY ProductsDistribute
  <2> QED
    BY <2>1, <2>2
<1> HIDE DEF p, m
<1>4. n >= m => r >= k
  BY <1>1, <1>2
<1>5. n <= m => r <= k
  BY <1>1, <1>3
<1> QED
  BY <1>4, <1>5 DEF m, r

LEMMA RoundedTyped ==
    ASSUME NEW n \in Nat, NEW d \in Nat \ {0}
    PROVE  Rounded(n, d) \in Nat /\ Rounded(0, d) = 0
<1>1. Rounded(n, d) \in Int /\ Rounded(0, d) \in Int
  BY RoundedIsNear
<1>2. n >= 0 * d /\ 0 >= 0 * d /\ 0 <= 0 * d
  OBVIOUS
<1>3. Rounded(n, d) >= 0 /\ Rounded(0, d) >= 0 /\ Rounded(0, d) <= 0
  <2>1. n \in Int /\ 0 \in Int
    OBVIOUS
  <2> QED
    BY <1>2, <2>1, RoundedKeepsOrder
<1> QED
  BY <1>1, <1>3

-----------------------------------------------------------------------------
(* Lists cut at a limit.                                                   *)

\* What a list leaves out it leaves out for a full list of rows that are not after it.
LEMMA FirstsFacts ==
    ASSUME NEW S, IsFiniteSet(S), NEW n \in Nat, NEW before, NEW R \in Firsts(S, n, before)
    PROVE  /\ R \in SUBSET S /\ IsFiniteSet(R)
           /\ \A y \in S \ R : /\ Cardinality(R) = n
                               /\ \A x \in R : <<y, x>> \notin before
<1>1. /\ R \in SUBSET S /\ Cardinality(R) = AtMost(Cardinality(S), n)
      /\ \A x \in R, y \in S \ R : <<y, x>> \notin before
  BY DEF Firsts
<1>2. /\ IsFiniteSet(R) /\ Cardinality(S) \in Nat
      /\ Cardinality(S) = Cardinality(R) => S = R
  BY <1>1, FS_Subset, FS_CardinalityType
<1>3. ASSUME NEW y \in S \ R PROVE Cardinality(R) = n
  <2>1. Cardinality(R) # Cardinality(S)
    BY <1>2, <1>3
  <2> QED
    BY <1>1, <2>1 DEF AtMost
<1> QED
  BY <1>1, <1>2, <1>3

-----------------------------------------------------------------------------
(* Buying.                                                                 *)

LEMMA OrdersFacts ==
    ASSUME DocumentsTyped
    PROVE  /\ IsFiniteSet(DOMAIN orders)
           /\ \A i \in DOMAIN orders :
                /\ orders[i].status \in {"draft", "submitted", "delivered", "cancelled"}
                /\ orders[i].supplier \in Suppliers /\ orders[i].line \in Lines
                /\ orders[i].quantity \in Nat /\ orders[i].raised \in Int
                /\ orders[i].promised \in SUBSET Int /\ Amount(i) \in Nat
                /\ orders[i].promised # {} => Promised(i) \in orders[i].promised
                /\ \A c, d \in orders[i].promised : c = d
<1>1. orders \in Seq(PurchaseOrder) /\ DOMAIN orders = 1..Len(orders) /\ Len(orders) \in Nat
  BY DEF DocumentsTyped
<1>2. \A i \in DOMAIN orders : orders[i] \in PurchaseOrder
  BY <1>1, ElementOfSeq
<1>3. IsFiniteSet(DOMAIN orders)
  BY <1>1, FS_Interval
<1>4. ASSUME NEW i \in DOMAIN orders PROVE Amount(i) \in Nat
  <2>1. orders[i].line[1] \in Products /\ orders[i].quantity \in Nat
    BY <1>2 DEF PurchaseOrder, Lines
  <2>2. Cost[orders[i].line[1]] \in Nat
    BY <2>1, TradingAssumption
  <2>3. \A a, b \in Nat : a * b \in Nat
    OBVIOUS
  <2> QED
    BY <2>1, <2>2, <2>3 DEF Amount
<1>5. ASSUME NEW i \in DOMAIN orders
      PROVE  /\ orders[i].promised \in SUBSET Int
             /\ \A c, d \in orders[i].promised : c = d
             /\ orders[i].promised # {} => Promised(i) \in orders[i].promised
  BY <1>2 DEF PurchaseOrder, Promised
<1>6. \A i \in DOMAIN orders :
        /\ orders[i].status \in {"draft", "submitted", "delivered", "cancelled"}
        /\ orders[i].supplier \in Suppliers /\ orders[i].line \in Lines
        /\ orders[i].quantity \in Nat /\ orders[i].raised \in Int
  BY <1>2 DEF PurchaseOrder
<1> QED
  BY <1>3, <1>4, <1>5, <1>6

\* The newest orders of some, and all of them where the limit lets them through.
LEMMA NewestFacts ==
    ASSUME DocumentsTyped, NEW S \in SUBSET DOMAIN orders, NEW n \in Nat
    PROVE  /\ Newest(S, n) \in SUBSET S
           /\ Cardinality(S) <= n => Newest(S, n) = S
<1>1. Newest(S, n) \in SUBSET S
  BY DEF Newest
<1>2. IsFiniteSet(S) /\ Cardinality(S) \in Nat
  BY OrdersFacts, FS_Subset, FS_CardinalityType
<1>3. ASSUME Cardinality(S) <= n, NEW i \in S PROVE i \in Newest(S, n)
  <2> DEFINE ahead == {j \in S : Newer(j, i)}
  <2>1. i \in DOMAIN orders /\ DOMAIN orders = 1 .. Len(orders) /\ Len(orders) \in Nat
    BY DEF DocumentsTyped
  <2>2. i \in Int /\ orders[i].raised \in Int
    BY <2>1, OrdersFacts
  <2>3. ~Newer(i, i)
    BY <2>2 DEF Newer
  <2>4. ahead \in SUBSET S /\ i \notin ahead
    BY <2>3
  <2> HIDE DEF ahead
  <2>5. IsFiniteSet(ahead) /\ Cardinality(ahead) <= Cardinality(S)
        /\ (Cardinality(S) = Cardinality(ahead) => S = ahead)
    BY <1>2, <2>4, FS_Subset
  <2>6. Cardinality(ahead) \in Nat /\ Cardinality(ahead) # Cardinality(S)
    BY <1>3, <2>4, <2>5, FS_CardinalityType
  <2>7. Cardinality(ahead) < n
    BY <1>2, <1>3, <2>5, <2>6
  <2> QED
    BY <2>7 DEF ahead, Newest
<1> QED
  BY <1>1, <1>3

\* The amounts of a set of orders are the sum of one function on it.
AmountOf == [i \in DOMAIN orders |-> Amount(i)]

LEMMA AmountsAreSums ==
    ASSUME DocumentsTyped, NEW S \in SUBSET DOMAIN orders
    PROVE  /\ IsFiniteSet(S) /\ Amounts(S) = SumFunctionOnSet(AmountOf, S)
           /\ Amounts(S) \in Nat
<1> DEFINE f == [i \in S |-> Amount(i)]
<1>1. /\ IsFiniteSet(S)
      /\ \A i \in S : f[i] \in Int /\ AmountOf[i] \in Nat /\ f[i] = AmountOf[i]
  BY OrdersFacts, FS_Subset DEF AmountOf
<1>2. Amounts(S) = SumFunctionOnSet(f, S)
  BY DEF Amounts, Total
<1> HIDE DEF f
<1>3. SumFunctionOnSet(f, S) = SumFunctionOnSet(AmountOf, S)
  BY <1>1, SumExtensional
<1>4. SumFunctionOnSet(AmountOf, S) \in Nat
  BY <1>1, SumMonotone
<1> QED
  BY <1>1, <1>2, <1>3, <1>4

LEMMA ActiveAreOpen ==
    ASSUME DocumentsTyped
    PROVE  /\ ActiveOrders = ByStatus(OPEN_STATUSES)
           /\ ByStatus(OPEN_STATUSES) = ByStatus({"draft"}) \cup ByStatus({"submitted"})
           /\ ByStatus({"draft"}) \cap ByStatus({"submitted"}) = {}
           /\ \A S : ByStatus(S) \in SUBSET DOMAIN orders
BY OrdersFacts DEF ActiveOrders, ByStatus, OPEN_STATUSES

LEMMA SuggestionsCovered ==
    ASSUME DocumentsTyped
    PROVE  /\ Urgent \cap {orders[i].line : i \in ActiveOrders} = {}
           /\ Suggested = Urgent \cup {l \in Suggested : \E i \in ActiveOrders : orders[i].line = l}
<1>1. {orders[i].line : i \in ActiveOrders} = AlreadyOrdered
  BY ActiveAreOpen DEF AlreadyOrdered
<1> QED
  BY <1>1 DEF Urgent

LEMMA UrgentLines ==
    ASSUME DocumentsTyped, StockTyped
    PROVE  /\ Urgent \subseteq Lines
           /\ \A l \in Urgent :
                /\ Card(l).order_value = InsightRow(l).estimated_cost
                /\ Held(l) \in Nat
                /\ Held(l) = 0 => Priority(l) = "high"
<1>1. Urgent \subseteq Lines
  BY DEF Urgent, Suggested, DocumentsTyped
<1>2. \A l \in Urgent : Card(l).order_value = InsightRow(l).estimated_cost
  BY DEF Card, InsightRow
<1>3. \A l \in Urgent : Held(l) = 0 => Priority(l) = "high"
  BY DEF Priority
<1> QED
  BY <1>1, <1>2, <1>3, HeldTyped

\* What is critical is listed, or has lost its place to others as pressing.
LEMMA ExceptionsAreHonest ==
    ASSUME DocumentsTyped, StockTyped, today \in Days,
           NEW late \in LateLists, NEW cards \in ActionLists
    PROVE  ExceptionsTell(late, cards)
<1>1. /\ IsFiniteSet(Delayed) /\ Delayed \in SUBSET DOMAIN orders
      /\ today \in Int /\ CriticalDelay \in Nat /\ LateShown \in Nat /\ ActionsShown \in Nat
  <2>1. Delayed \in SUBSET DOMAIN orders
    BY DEF Delayed, ByStatus
  <2> QED
    BY <2>1, OrdersFacts, FS_Subset, BuyingAssumption DEF Days
<1>2. IsFiniteSet(Urgent)
  BY UrgentLines, LinesFinite, FS_Subset
<1>3. /\ late \in SUBSET Delayed
      /\ \A i \in Delayed \ late :
            /\ Cardinality(late) = LateShown
            /\ \A j \in late : <<i, j>> \notin
                    {ij \in Delayed \X Delayed : Promised(ij[1]) < Promised(ij[2])}
  BY <1>1, FirstsFacts DEF LateLists
<1>4. /\ cards \in SUBSET Urgent
      /\ \A l \in Urgent \ cards :
            /\ Cardinality(cards) = ActionsShown
            /\ \A m \in cards : <<l, m>> \notin
                    {lm \in Urgent \X Urgent : Outranks(lm[1], lm[2])}
  BY <1>1, <1>2, FirstsFacts DEF ActionLists
<1>5. \A i \in Delayed : Promised(i) \in Int /\ LateBy(i) = today - Promised(i)
  <2>1. \A i \in Delayed : orders[i].promised # {}
    BY DEF Delayed, Overdue
  <2> QED
    BY <1>1, <2>1, OrdersFacts DEF LateBy
<1>6. ASSUME NEW e \in Exceptions(late, cards), e.kind = "stockout_risk", e.severity = "critical"
      PROVE  Held(e.of) = 0
  <2>1. PICK l \in cards :
           e = [kind |-> "stockout_risk", of |-> l,
                severity |-> IF Held(l) <= 0 THEN "critical" ELSE "high"]
    BY <1>6 DEF Exceptions
  <2>2. e.of = l /\ Held(l) <= 0
    BY <1>6, <2>1
  <2>3. Held(l) \in Nat
    BY <1>4, UrgentLines
  <2> QED
    BY <2>2, <2>3
<1>7. ASSUME NEW l \in Urgent, Held(l) = 0
      PROVE  \/ [kind |-> "stockout_risk", of |-> l, severity |-> "critical"]
                    \in Exceptions(late, cards)
             \/ Cardinality(cards) = ActionsShown /\ \A m \in cards : Priority(m) = "high"
  <2>1. Priority(l) = "high"
    BY <1>7, UrgentLines
  <2>2. CASE l \in cards
    <3>1. l \in {m \in cards : Priority(m) = "high"} /\ Held(l) <= 0
      BY <1>7, <2>1, <2>2
    <3> QED
      BY <3>1 DEF Exceptions
  <2>3. CASE l \notin cards
    <3>1. Cardinality(cards) = ActionsShown
      BY <1>4, <2>3
    <3>2. ASSUME NEW m \in cards PROVE Priority(m) = "high"
      <4>1. ~Outranks(l, m)
        BY <1>4, <2>3
      <4> QED
        BY <2>1, <4>1 DEF Outranks
    <3> QED
      BY <3>1, <3>2
  <2> QED
    BY <2>2, <2>3
<1>8. ASSUME NEW i \in Delayed, LateBy(i) > CriticalDelay
      PROVE  \/ [kind |-> "supplier_delay", of |-> i, severity |-> "critical"]
                    \in Exceptions(late, cards)
             \/ Cardinality(late) = LateShown /\ \A j \in late : LateBy(j) > CriticalDelay
  <2>1. CASE i \in late
    BY <1>8, <2>1 DEF Exceptions
  <2>2. CASE i \notin late
    <3>1. Cardinality(late) = LateShown
      BY <1>3, <2>2
    <3>2. ASSUME NEW j \in late PROVE LateBy(j) > CriticalDelay
      <4>1. ~(Promised(i) < Promised(j)) /\ j \in Delayed
        BY <1>3, <2>2
      <4> QED
        BY <1>1, <1>5, <1>8, <4>1
    <3> QED
      BY <3>1, <3>2
  <2> QED
    BY <2>1, <2>2
<1> QED
  BY <1>6, <1>7, <1>8 DEF ExceptionsTell

LEMMA LateOrders ==
    ASSUME DocumentsTyped
    PROVE  /\ Delayed \subseteq DelayedActive
           /\ \A i \in DelayedActive \ Delayed : orders[i].status = "draft"
BY OrdersFacts DEF Delayed, DelayedActive, ActiveOrders, ByStatus, Overdue

\* What is counted supplier by supplier is all there is.
LEMMA CountedBySupplier ==
    ASSUME DocumentsTyped, NEW S \in SUBSET DOMAIN orders,
           NEW part, \A s \in Suppliers : part[s] = Cardinality(FromSupplier(s) \cap S)
    PROVE  SumFunctionOnSet(part, Suppliers) = Cardinality(S)
<1> DEFINE key == [i \in S |-> orders[i].supplier]
<1>1. IsFiniteSet(S) /\ IsFiniteSet(Suppliers) /\ key \in [S -> Suppliers]
  BY OrdersFacts, TradingAssumption, FS_Subset
<1>2. \A s \in Suppliers : {i \in S : key[i] = s} = FromSupplier(s) \cap S
  BY DEF FromSupplier
<1> HIDE DEF key
<1>3. \A s \in Suppliers : part[s] = Cardinality({i \in S : key[i] = s})
  BY <1>2
<1> QED
  BY <1>1, <1>3, CardinalityOfParts, SMTT(60)

LEMMA SupplierTotals ==
    ASSUME DocumentsTyped
    PROVE  /\ Kpis.delayed = Total(Suppliers, LAMBDA s : SupplierRow(s).overdue)
           /\ Total(Suppliers, LAMBDA s : Scorecard(s).placed)
                = Cardinality(DOMAIN orders) - Kpis.awaiting
           /\ Total(Suppliers, LAMBDA s : Scorecard(s).spend) = Amounts(DOMAIN orders)
<1>1. Kpis.delayed = Total(Suppliers, LAMBDA s : SupplierRow(s).overdue)
  <2> DEFINE part == [s \in Suppliers |-> SupplierRow(s).overdue]
  <2>1. Delayed \in SUBSET DOMAIN orders
    BY DEF Delayed, ByStatus
  <2>2. \A s \in Suppliers : part[s] = Cardinality(FromSupplier(s) \cap Delayed)
    BY DEF SupplierRow
  <2>3. Kpis.delayed = Cardinality(Delayed)
    BY DEF Kpis
  <2>4. Total(Suppliers, LAMBDA s : SupplierRow(s).overdue) = SumFunctionOnSet(part, Suppliers)
    BY DEF Total
  <2> HIDE DEF part
  <2> QED
    BY <2>1, <2>2, <2>3, <2>4, CountedBySupplier
<1>2. Total(Suppliers, LAMBDA s : Scorecard(s).placed)
        = Cardinality(DOMAIN orders) - Kpis.awaiting
  <2> DEFINE part == [s \in Suppliers |-> Scorecard(s).placed]
             D == DOMAIN orders
             drafts == ByStatus({"draft"})
             S == D \ drafts
  <2>1. \A s \in Suppliers : part[s] = Cardinality(FromSupplier(s) \cap S)
    <3>1. \A s \in Suppliers : {i \in FromSupplier(s) : orders[i].status # "draft"}
                                = FromSupplier(s) \cap S
      BY DEF FromSupplier, ByStatus
    <3> QED
      BY <3>1 DEF Scorecard
  <2>2. Kpis.awaiting = Cardinality(drafts)
    BY DEF Kpis
  <2>3. Total(Suppliers, LAMBDA s : Scorecard(s).placed) = SumFunctionOnSet(part, Suppliers)
    BY DEF Total
  <2>4. IsFiniteSet(D) /\ drafts \in SUBSET D
    BY OrdersFacts, ActiveAreOpen
  <2>5. D \cap drafts = drafts
    BY <2>4
  <2> HIDE DEF part, drafts, D
  <2>6. SumFunctionOnSet(part, Suppliers) = Cardinality(S)
    <3>1. S \in SUBSET DOMAIN orders
      BY DEF D
    <3> HIDE DEF S
    <3> QED
      BY <2>1, <3>1, CountedBySupplier
  <2>7. Cardinality(S) = Cardinality(D) - Cardinality(drafts)
    BY <2>4, <2>5, FS_Difference
  <2> QED
    BY <2>2, <2>3, <2>6, <2>7 DEF D
<1>3. Total(Suppliers, LAMBDA s : Scorecard(s).spend) = Amounts(DOMAIN orders)
  <2> DEFINE part == [s \in Suppliers |-> Scorecard(s).spend]
             D == DOMAIN orders
             key == [i \in D |-> orders[i].supplier]
  <2>1. \A s \in Suppliers : {i \in D : key[i] = s} = FromSupplier(s)
    BY DEF FromSupplier
  <2>2. \A s \in Suppliers : part[s] = Amounts(FromSupplier(s))
    BY DEF Scorecard
  <2>3. IsFiniteSet(D) /\ key \in [D -> Suppliers] /\ \A i \in D : AmountOf[i] \in Int
    BY OrdersFacts DEF AmountOf
  <2>4. Total(Suppliers, LAMBDA s : Scorecard(s).spend) = SumFunctionOnSet(part, Suppliers)
    BY DEF Total
  <2>5. Amounts(D) = SumFunctionOnSet(AmountOf, D)
    BY AmountsAreSums
  <2>6. \A s \in Suppliers : FromSupplier(s) \in SUBSET DOMAIN orders
    BY DEF FromSupplier
  <2>7. \A s \in Suppliers : part[s] = SumFunctionOnSet(AmountOf, FromSupplier(s))
    BY <2>2, <2>6, AmountsAreSums
  <2> HIDE DEF part, key
  <2>8. \A s \in Suppliers : part[s] = SumFunctionOnSet(AmountOf, {i \in D : key[i] = s})
    BY <2>1, <2>7
  <2>9. IsFiniteSet(Suppliers)
    BY TradingAssumption
  <2> HIDE DEF D
  <2>10. SumFunctionOnSet(AmountOf, D) = SumFunctionOnSet(part, Suppliers)
    BY <2>3, <2>8, <2>9, SumOfParts, SMTT(60)
  <2> QED
    BY <2>4, <2>5, <2>10 DEF D
<1> QED
  BY <1>1, <1>2, <1>3

LEMMA StatusTotals ==
    ASSUME DocumentsTyped
    PROVE  /\ Kpis.open = OrderWorkspace("draft").count + OrderWorkspace("submitted").count
           /\ Cardinality(DOMAIN orders)
                = Total({"draft", "submitted", "delivered", "cancelled"},
                        LAMBDA k : OrderWorkspace(k).count)
<1> DEFINE K == {"draft", "submitted", "delivered", "cancelled"}
<1>1. \A k \in K : OrderWorkspace(k).count = Cardinality(ByStatus({k}))
  BY DEF OrderWorkspace
<1>2. Kpis.open = OrderWorkspace("draft").count + OrderWorkspace("submitted").count
  <2> DEFINE A == ByStatus({"draft"})
             B == ByStatus({"submitted"})
  <2>1. IsFiniteSet(A) /\ IsFiniteSet(B) /\ A \cap B = {} /\ ByStatus(OPEN_STATUSES) = A \cup B
    BY OrdersFacts, ActiveAreOpen, FS_Subset
  <2>2. Kpis.open = Cardinality(ByStatus(OPEN_STATUSES))
    BY DEF Kpis
  <2>3. Cardinality(A) = OrderWorkspace("draft").count /\ Cardinality(B) = OrderWorkspace("submitted").count
    BY <1>1
  <2> HIDE DEF A, B
  <2>4. Cardinality(A \cup B) = Cardinality(A) + Cardinality(B) - Cardinality(A \cap B)
    BY <2>1, FS_Union
  <2>5. Cardinality(A \cap B) = 0 /\ Cardinality(A) \in Nat /\ Cardinality(B) \in Nat
    BY <2>1, FS_EmptySet, FS_CardinalityType
  <2> QED
    BY <2>1, <2>2, <2>3, <2>4, <2>5
<1>3. Cardinality(DOMAIN orders) = Total(K, LAMBDA k : OrderWorkspace(k).count)
  <2> DEFINE D == DOMAIN orders
             key == [i \in D |-> orders[i].status]
             part == [k \in K |-> OrderWorkspace(k).count]
  <2>1. IsFiniteSet(D) /\ key \in [D -> K]
    BY OrdersFacts
  <2>2. IsFiniteSet(K)
    <3>1. IsFiniteSet({"draft"}) /\ IsFiniteSet({"submitted"})
          /\ IsFiniteSet({"delivered"}) /\ IsFiniteSet({"cancelled"})
      BY FS_Singleton
    <3>2. IsFiniteSet({"draft"} \cup {"submitted"}) /\ IsFiniteSet({"delivered"} \cup {"cancelled"})
      BY <3>1, FS_Union
    <3>3. IsFiniteSet(({"draft"} \cup {"submitted"}) \cup ({"delivered"} \cup {"cancelled"}))
      BY <3>2, FS_Union
    <3>4. K = ({"draft"} \cup {"submitted"}) \cup ({"delivered"} \cup {"cancelled"})
      OBVIOUS
    <3> QED
      BY <3>3, <3>4
  <2>3. \A k \in K : {i \in D : key[i] = k} = ByStatus({k})
    BY DEF ByStatus
  <2>4. \A k \in K : part[k] = Cardinality({i \in D : key[i] = k})
    BY <1>1, <2>3
  <2>5. Total(K, LAMBDA k : OrderWorkspace(k).count) = SumFunctionOnSet(part, K)
    BY DEF Total
  <2> HIDE DEF D, key, part, K
  <2>6. Cardinality(D) = SumFunctionOnSet(part, K)
    BY <2>1, <2>2, <2>4, CardinalityOfParts, SMTT(60)
  <2> QED
    BY <2>5, <2>6 DEF D
<1> QED
  BY <1>2, <1>3

\* The pipeline adds up to what is open, as far as it goes.
LEMMA PipelineAddsUp ==
    ASSUME DocumentsTyped, NEW shown,
           shown = Total(Pipeline \cap ActiveOrders, LAMBDA i : PipelineRow(i).total)
    PROVE  /\ shown <= Kpis.open_amount
           /\ Len(orders) <= PipelineShown => shown = Kpis.open_amount
<1> DEFINE S == Pipeline \cap ActiveOrders
<1>1. DOMAIN orders \in SUBSET DOMAIN orders /\ PipelineShown \in Nat
  BY BuyingAssumption
<1>2. /\ Pipeline \in SUBSET DOMAIN orders
      /\ Cardinality(DOMAIN orders) <= PipelineShown => Pipeline = DOMAIN orders
  BY <1>1, NewestFacts DEF Pipeline
<1>3. Cardinality(DOMAIN orders) = Len(orders)
  <2>1. DOMAIN orders = 1 .. Len(orders) /\ Len(orders) \in Nat
    BY DEF DocumentsTyped
  <2>2. 1 \in Int /\ Len(orders) \in Int
    BY <2>1
  <2>3. Cardinality(1 .. Len(orders)) = IF 1 > Len(orders) THEN 0 ELSE Len(orders) - 1 + 1
    BY <2>2, FS_Interval
  <2> QED
    BY <2>1, <2>3
<1>4. ActiveOrders \in SUBSET DOMAIN orders /\ S \in SUBSET DOMAIN orders
  BY DEF ActiveOrders
<1>5. Kpis.open_amount = Amounts(ActiveOrders)
  BY ActiveAreOpen DEF Kpis
<1>6. shown = Amounts(S)
  <2>1. [i \in S |-> PipelineRow(i).total] = [i \in S |-> Amount(i)]
    BY DEF PipelineRow
  <2> QED
    BY <2>1 DEF Amounts, Total
<1>7. Amounts(S) = SumFunctionOnSet(AmountOf, S)
      /\ Amounts(ActiveOrders) = SumFunctionOnSet(AmountOf, ActiveOrders)
  <2> HIDE DEF S
  <2> QED
    BY <1>4, AmountsAreSums
<1>8. IsFiniteSet(ActiveOrders) /\ S \in SUBSET ActiveOrders
      /\ \A i \in ActiveOrders : AmountOf[i] \in Nat
  BY <1>4, OrdersFacts, FS_Subset DEF AmountOf
<1>9. Len(orders) <= PipelineShown => S = ActiveOrders
  BY <1>2, <1>3, <1>4
<1> HIDE DEF S
<1>10. SumFunctionOnSet(AmountOf, S) <= SumFunctionOnSet(AmountOf, ActiveOrders)
  BY <1>8, SumMonotone
<1> QED
  BY <1>5, <1>6, <1>7, <1>9, <1>10

LEMMA SupplierRates ==
    ASSUME DocumentsTyped, NEW s \in Suppliers
    PROVE  /\ Scorecard(s).delivered <= Scorecard(s).placed
           /\ Scorecard(s).delivered - SupplierLead(s).observations
                = Cardinality({i \in FromSupplier(s) : /\ orders[i].status = "delivered"
                                                       /\ orders[i].promised = {}})
           /\ HasRate(s) <=> \E i \in FromSupplier(s) : orders[i].status # "draft"
<1> DEFINE placed == {i \in FromSupplier(s) : orders[i].status # "draft"}
           delivered == FromSupplier(s) \cap ByStatus({"delivered"})
           dated == {i \in delivered : orders[i].promised # {}}
           undated == {i \in FromSupplier(s) : /\ orders[i].status = "delivered"
                                               /\ orders[i].promised = {}}
<1>1. delivered \in SUBSET placed /\ placed \in SUBSET DOMAIN orders
  BY DEF FromSupplier, ByStatus
<1>2. IsFiniteSet(placed)
  BY <1>1, OrdersFacts, FS_Subset
<1>3. /\ Scorecard(s).placed = Cardinality(placed)
      /\ Scorecard(s).delivered = Cardinality(delivered)
      /\ SupplierLead(s).observations = Cardinality(dated)
  BY DEF Scorecard, SupplierLead
<1>4. HasRate(s) <=> Cardinality(placed) > 0
  BY <1>3 DEF HasRate
<1>5. placed # {} <=> \E i \in FromSupplier(s) : orders[i].status # "draft"
  OBVIOUS
<1>6. delivered \ undated = dated /\ undated \in SUBSET delivered
  BY DEF FromSupplier, ByStatus
<1> HIDE DEF placed, delivered, dated, undated
<1>7. Cardinality(delivered) <= Cardinality(placed) /\ IsFiniteSet(delivered)
  BY <1>1, <1>2, FS_Subset
<1>8. Cardinality(placed) \in Nat /\ (Cardinality(placed) = 0 <=> placed = {})
  BY <1>2, FS_CardinalityType, FS_EmptySet
<1>9. Cardinality(delivered) - Cardinality(dated) = Cardinality(undated)
  <2>1. delivered \cap undated = undated /\ IsFiniteSet(undated)
    BY <1>6, <1>7, FS_Subset
  <2>2. Cardinality(delivered \ undated)
            = Cardinality(delivered) - Cardinality(delivered \cap undated)
    BY <1>7, FS_Difference
  <2>3. Cardinality(delivered) \in Nat /\ Cardinality(undated) \in Nat
    BY <1>7, <2>1, FS_CardinalityType
  <2> QED
    BY <1>6, <2>1, <2>2, <2>3
<1> QED
  BY <1>3, <1>4, <1>5, <1>7, <1>8, <1>9 DEF undated


\* No order is in two weeks of the chart.
LEMMA WeeksAddUp ==
    ASSUME DocumentsTyped, today \in Days
    PROVE  Total(1 .. Weeks, LAMBDA k : Sparkline(DOMAIN orders)[k]) <= Amounts(DOMAIN orders)
<1> DEFINE D == DOMAIN orders
           K == 1 .. Weeks
           start(k) == today \div WeekDays - (Weeks - k + 1)
           recent == {i \in D : orders[i].raised > today - Weeks * WeekDays}
           of(k) == {i \in recent : orders[i].raised \div WeekDays = start(k)}
           S == {i \in recent : \E k \in K : orders[i].raised \div WeekDays = start(k)}
           key == [i \in S |-> orders[i].raised \div WeekDays - today \div WeekDays + Weeks + 1]
           part == [k \in K |-> Sparkline(D)[k]]
<1>1. /\ Weeks \in Nat /\ WeekDays \in Nat \ {0} /\ today \in Int
      /\ today \div WeekDays \in Int
      /\ \A i \in D : orders[i].raised \in Int /\ orders[i].raised \div WeekDays \in Int
  <2>1. Weeks \in Nat /\ WeekDays \in Nat \ {0} /\ today \in Int
    BY BuyingAssumption DEF Days
  <2>2. \A i \in D : orders[i].raised \in Int
    BY OrdersFacts
  <2> HIDE DEF D
  <2> QED
    BY <2>1, <2>2, Quotients
<1>2. ASSUME NEW k \in K
      PROVE  Sparkline(D)[k] = Amounts(of(k))
  <2>1. (today - (Weeks - k + 1) * WeekDays) \div WeekDays = start(k)
    <3>1. Weeks - k + 1 \in Int
      BY <1>1
    <3> QED
      BY <1>1, <3>1, QuotientSteps
  <2>2. Sparkline(D)[k] = Amounts({i \in D :
            /\ orders[i].raised > today - Weeks * WeekDays
            /\ orders[i].raised \div WeekDays
                    = (today - (Weeks - k + 1) * WeekDays) \div WeekDays})
    BY DEF Sparkline
  <2>3. {i \in D : /\ orders[i].raised > today - Weeks * WeekDays
                   /\ orders[i].raised \div WeekDays
                        = (today - (Weeks - k + 1) * WeekDays) \div WeekDays} = of(k)
    BY <2>1
  <2> QED
    BY <2>2, <2>3
<1>3. key \in [S -> K]
  <2>1. ASSUME NEW i \in S, NEW k \in K, orders[i].raised \div WeekDays = start(k)
        PROVE  key[i] = k
    <3>1. key[i] = start(k) - today \div WeekDays + Weeks + 1
      BY <2>1
    <3>2. k \in Int
      BY <1>1
    <3> QED
      BY <1>1, <3>1, <3>2
  <2>2. \A i \in S : \E k \in K : orders[i].raised \div WeekDays = start(k)
    OBVIOUS
  <2>3. \A i \in S : key[i] \in K
    BY <2>1, <2>2
  <2> HIDE DEF S, K
  <2> QED
    BY <2>3
<1>4. ASSUME NEW k \in K
      PROVE  {i \in S : key[i] = k} = of(k)
  <2>1. k \in Int
    BY <1>1
  <2>2. \A i \in D : orders[i].raised \div WeekDays = start(k)
                <=> orders[i].raised \div WeekDays - today \div WeekDays + Weeks + 1 = k
    BY <1>1, <2>1
  <2>3. \A i \in S : i \in D /\ i \in recent
                     /\ key[i] = orders[i].raised \div WeekDays - today \div WeekDays + Weeks + 1
    OBVIOUS
  <2>4. \A i \in of(k) : i \in S
    OBVIOUS
  <2>5. \A i : i \in of(k) <=> i \in recent /\ orders[i].raised \div WeekDays = start(k)
    OBVIOUS
  <2> HIDE DEF S, key, of, start, recent
  <2> QED
    BY <2>2, <2>3, <2>4, <2>5
<1>5. S \in SUBSET D /\ \A k \in K : of(k) \in SUBSET D
  OBVIOUS
<1>6. Total(1 .. Weeks, LAMBDA k : Sparkline(DOMAIN orders)[k]) = SumFunctionOnSet(part, K)
  BY DEF Total
<1>7. \A k \in K : part[k] = Amounts(of(k))
  BY <1>2
<1>8. IsFiniteSet(K) /\ IsFiniteSet(D) /\ \A i \in D : AmountOf[i] \in Nat
  <2>1. IsFiniteSet(K)
    <3>1. 1 \in Int /\ Weeks \in Int
      BY <1>1
    <3> HIDE DEF D
    <3>2. IsFiniteSet(1 .. Weeks)
      BY <3>1, FS_Interval
    <3> QED
      BY <3>2
  <2> QED
    BY <2>1, OrdersFacts DEF AmountOf
<1>9. \A k \in K : part[k] = SumFunctionOnSet(AmountOf, {i \in S : key[i] = k})
  <2> HIDE DEF part, of, key, S, K
  <2> QED
    BY <1>4, <1>5, <1>7, AmountsAreSums
<1>10. Amounts(D) = SumFunctionOnSet(AmountOf, D)
  BY AmountsAreSums
<1> HIDE DEF S, K, key, part, D, of
<1>11. IsFiniteSet(S) /\ \A i \in S : AmountOf[i] \in Int
  BY <1>5, <1>8, FS_Subset
<1>12. SumFunctionOnSet(AmountOf, S) = SumFunctionOnSet(part, K)
  BY <1>3, <1>8, <1>9, <1>11, SumOfParts, SMTT(60)
<1>13. SumFunctionOnSet(AmountOf, S) <= SumFunctionOnSet(AmountOf, D)
  BY <1>5, <1>8, SumMonotone
<1> QED
  BY <1>6, <1>10, <1>12, <1>13 DEF D

\* The procurement screen, the suppliers' rows and the orders' pipeline agree
\* whatever is ordered, received, suggested and late (purchase_orders/procurement.py,
\* analytics/readmodels.py, BuyingScreensAgree).
THEOREM BuyingAgrees == Spec => []BuyingFigures
<1>1. IInv => BuyingFigures
  <2> SUFFICES ASSUME IInv PROVE BuyingScreensAgree
    BY DEF BuyingFigures
  <2>1. DocumentsTyped /\ StockTyped /\ today \in Days
    BY DEF IInv, RowsTyped
  <2>2. Kpis.urgent_amount = Total(Urgent, LAMBDA l : InsightRow(l).estimated_cost)
    <3>1. [l \in Urgent |-> Card(l).order_value] = [l \in Urgent |-> InsightRow(l).estimated_cost]
      BY <2>1, UrgentLines
    <3>2. Kpis.urgent_amount = Total(Urgent, LAMBDA l : Card(l).order_value)
      BY DEF Kpis
    <3> QED
      BY <3>1, <3>2 DEF Total
  <2>3. \A l \in Urgent : Card(l).order_value = InsightRow(l).estimated_cost
    BY <2>1, UrgentLines
  <2> QED
    BY <2>1, <2>2, <2>3, SuggestionsCovered, ExceptionsAreHonest, LateOrders,
       SupplierTotals, StatusTotals, PipelineAddsUp, SupplierRates, WeeksAddUp
       DEF BuyingScreensAgree
<1> QED
  BY <1>1, RowsKeepShape, PTL


-----------------------------------------------------------------------------
(* Where the stock is.                                                     *)

LEMMA StockFacts ==
    ASSUME StockTyped
    PROVE  /\ IsFiniteSet(DOMAIN stock) /\ IsFiniteSet(Warehouses)
           /\ \A l \in DOMAIN stock :
                /\ l \in Lines /\ l[1] \in Products /\ l[2] \in Warehouses
                /\ stock[l] \in Nat /\ Reorder[l] \in Nat /\ Cost[l[1]] \in Nat
                /\ Cost[l[1]] * stock[l] \in Nat
           /\ \A w : At(w) \in SUBSET DOMAIN stock
<1>1. IsFiniteSet(DOMAIN stock) /\ IsFiniteSet(Warehouses)
  BY LinesFinite, TradingAssumption, FS_Subset DEF StockTyped
<1>2. \A l \in DOMAIN stock :
                /\ l \in Lines /\ l[1] \in Products /\ l[2] \in Warehouses
                /\ stock[l] \in Nat /\ Reorder[l] \in Nat /\ Cost[l[1]] \in Nat
  BY TradingAssumption DEF StockTyped, Lines
<1>3. \A a, b \in Nat : a * b \in Nat
  OBVIOUS
<1> QED
  BY <1>1, <1>2, <1>3 DEF At

WorthOf == [l \in DOMAIN stock |-> Cost[l[1]] * stock[l]]

LEMMA StockIsSummed ==
    ASSUME StockTyped, NEW S \in SUBSET DOMAIN stock
    PROVE  /\ IsFiniteSet(S)
           /\ Units(S) = SumFunctionOnSet(stock, S) /\ Units(S) \in Nat
           /\ Value(S) = SumFunctionOnSet(WorthOf, S) /\ Value(S) \in Nat
<1> DEFINE f == [l \in S |-> stock[l]]
           g == [l \in S |-> Cost[l[1]] * stock[l]]
<1>1. /\ IsFiniteSet(S)
      /\ \A l \in S : /\ f[l] \in Int /\ stock[l] \in Nat /\ f[l] = stock[l]
                      /\ g[l] \in Int /\ WorthOf[l] \in Nat /\ g[l] = WorthOf[l]
  BY StockFacts, FS_Subset DEF WorthOf
<1>2. Units(S) = SumFunctionOnSet(f, S) /\ Value(S) = SumFunctionOnSet(g, S)
  BY DEF Units, Value, Total
<1> HIDE DEF f, g
<1>3. SumFunctionOnSet(f, S) = SumFunctionOnSet(stock, S)
  BY <1>1, SumExtensional
<1>4. SumFunctionOnSet(g, S) = SumFunctionOnSet(WorthOf, S)
  BY <1>1, SumExtensional
<1>5. SumFunctionOnSet(stock, S) \in Nat
  BY <1>1, SumMonotone
<1>6. SumFunctionOnSet(WorthOf, S) \in Nat
  BY <1>1, SumMonotone
<1> QED
  BY <1>1, <1>2, <1>3, <1>4, <1>5, <1>6

\* Lines that have run low, and out, as the screens count them.
LowIn(L) == {l \in L : Reorder[l] > 0 /\ stock[l] <= Reorder[l] /\ stock[l] > 0}
OutIn(L) == {l \in L : stock[l] <= 0}

LEMMA LowAndOut ==
    ASSUME StockTyped, NEW L \in SUBSET DOMAIN stock
    PROVE  /\ {l \in L : Reorder[l] > 0 /\ stock[l] \in 1 .. Reorder[l]} = LowIn(L)
           /\ {l \in L : Reorder[l] > 0 /\ stock[l] > 0 /\ stock[l] <= Reorder[l]} = LowIn(L)
           /\ {l \in L : Reorder[l] > 0 /\ 0 < stock[l] /\ stock[l] <= Reorder[l]} = LowIn(L)
           /\ {l \in L : stock[l] <= 0 \/ (Reorder[l] > 0 /\ stock[l] <= Reorder[l])}
                = LowIn(L) \cup OutIn(L)
           /\ LowIn(L) \cap OutIn(L) = {}
           /\ IsFiniteSet(L) /\ IsFiniteSet(LowIn(L)) /\ IsFiniteSet(OutIn(L))
           /\ LowIn(L) \in SUBSET L /\ OutIn(L) \in SUBSET L
<1>1. \A l \in L : stock[l] \in Nat /\ Reorder[l] \in Nat
  BY StockFacts
<1>2. LowIn(L) \in SUBSET L /\ OutIn(L) \in SUBSET L
  BY DEF LowIn, OutIn
<1>3. IsFiniteSet(L)
  BY StockFacts, FS_Subset
<1>4. IsFiniteSet(LowIn(L)) /\ IsFiniteSet(OutIn(L))
  BY <1>2, <1>3, FS_Subset
<1>5. {l \in L : Reorder[l] > 0 /\ stock[l] \in 1 .. Reorder[l]} = LowIn(L)
  BY <1>1 DEF LowIn
<1>6. {l \in L : Reorder[l] > 0 /\ stock[l] > 0 /\ stock[l] <= Reorder[l]} = LowIn(L)
  BY DEF LowIn
<1>7. {l \in L : Reorder[l] > 0 /\ 0 < stock[l] /\ stock[l] <= Reorder[l]} = LowIn(L)
  BY <1>1 DEF LowIn
<1>8. LowIn(L) \cap OutIn(L) = {}
  BY <1>1 DEF LowIn, OutIn
<1>9. {l \in L : stock[l] <= 0 \/ (Reorder[l] > 0 /\ stock[l] <= Reorder[l])}
                = LowIn(L) \cup OutIn(L)
  BY <1>1 DEF LowIn, OutIn
<1> QED
  BY <1>2, <1>3, <1>4, <1>5, <1>6, <1>7, <1>8, <1>9

LEMMA CardinalityOfTwo ==
    ASSUME NEW A, IsFiniteSet(A), NEW B, IsFiniteSet(B), A \cap B = {}
    PROVE  /\ Cardinality(A \cup B) = Cardinality(A) + Cardinality(B)
           /\ Cardinality(A) \in Nat /\ Cardinality(B) \in Nat
<1>1. Cardinality(A \cup B) = Cardinality(A) + Cardinality(B) - Cardinality(A \cap B)
  BY FS_Union
<1>2. Cardinality(A \cap B) = 0 /\ Cardinality(A) \in Nat /\ Cardinality(B) \in Nat
  BY FS_EmptySet, FS_CardinalityType
<1> QED
  BY <1>1, <1>2

Standing(S, w) == {l \in S : l[2] = w}

\* What is counted or summed building by building is all there is.
LEMMA CountedByBuilding ==
    ASSUME StockTyped, NEW S \in SUBSET DOMAIN stock,
           NEW part, \A w \in Warehouses : part[w] = Cardinality(Standing(S, w))
    PROVE  Cardinality(S) = SumFunctionOnSet(part, Warehouses)
<1> DEFINE key == [l \in S |-> l[2]]
<1>1. IsFiniteSet(S) /\ IsFiniteSet(Warehouses) /\ key \in [S -> Warehouses]
  BY StockFacts, FS_Subset
<1>2. \A w \in Warehouses : {l \in S : key[l] = w} = Standing(S, w)
  BY DEF Standing
<1> HIDE DEF key
<1>3. \A w \in Warehouses : part[w] = Cardinality({l \in S : key[l] = w})
  BY <1>2
<1> QED
  BY <1>1, <1>3, CardinalityOfParts, ZenonT(60)

LEMMA SummedByBuilding ==
    ASSUME StockTyped, NEW f, \A l \in DOMAIN stock : f[l] \in Int,
           NEW part, \A w \in Warehouses : part[w] = SumFunctionOnSet(f, At(w))
    PROVE  SumFunctionOnSet(f, DOMAIN stock) = SumFunctionOnSet(part, Warehouses)
<1> DEFINE S == DOMAIN stock
           key == [l \in S |-> l[2]]
<1>1. IsFiniteSet(S) /\ IsFiniteSet(Warehouses) /\ key \in [S -> Warehouses]
  BY StockFacts
<1>2. \A w \in Warehouses : {l \in S : key[l] = w} = At(w)
  BY DEF At
<1> HIDE DEF key
<1>3. \A w \in Warehouses : part[w] = SumFunctionOnSet(f, {l \in S : key[l] = w})
  BY <1>2
<1>4. \A l \in S : f[l] \in Int
  OBVIOUS
<1> HIDE DEF S
<1>5. SumFunctionOnSet(f, S) = SumFunctionOnSet(part, Warehouses)
  BY <1>1, <1>3, <1>4, SumOfParts, SMTT(60)
<1> QED
  BY <1>5 DEF S

\* A column of the network's nodes.
NodeFigures ==
    \A w \in Warehouses :
        /\ Node(w).units = Units(At(w)) /\ Node(w).value = Value(At(w))
        /\ Node(w).lines = Cardinality(At(w))
        /\ Node(w).low = Cardinality(LowIn(At(w)))
        /\ Node(w).out = Cardinality(OutIn(At(w)))
        /\ Node(w).alerts = Cardinality(Alerted(At(w)))

LEMMA NodeFacts ==
    ASSUME StockTyped
    PROVE  NodeFigures
<1> SUFFICES ASSUME NEW w \in Warehouses
             PROVE  /\ Node(w).units = Units(At(w)) /\ Node(w).value = Value(At(w))
                    /\ Node(w).lines = Cardinality(At(w))
                    /\ Node(w).low = Cardinality(LowIn(At(w)))
                    /\ Node(w).out = Cardinality(OutIn(At(w)))
                    /\ Node(w).alerts = Cardinality(Alerted(At(w)))
  BY DEF NodeFigures
<1>1. At(w) \in SUBSET DOMAIN stock
  BY StockFacts
<1>2. {l \in At(w) : Reorder[l] > 0 /\ stock[l] \in 1 .. Reorder[l]} = LowIn(At(w))
  BY <1>1, LowAndOut
<1>3. Node(w).low = Cardinality({l \in At(w) : Reorder[l] > 0 /\ stock[l] \in 1 .. Reorder[l]})
  BY DEF Node
<1>4. /\ Node(w).units = Units(At(w)) /\ Node(w).value = Value(At(w))
      /\ Node(w).lines = Cardinality(At(w))
      /\ Node(w).out = Cardinality(OutIn(At(w)))
      /\ Node(w).alerts = Cardinality(Alerted(At(w)))
  BY DEF Node, OutIn
<1> QED
  BY <1>2, <1>3, <1>4

LEMMA OverviewIsTheNetwork ==
    ASSUME StockTyped
    PROVE  /\ \A f \in DOMAIN Position : Position[f] = Summary[f]
           /\ NetworkAlerts.out_of_stock = Position.out
           /\ NetworkAlerts.low_stock = Position.low
<1> DEFINE D == DOMAIN stock
           column(f) == [w \in Warehouses |-> [v \in Warehouses |-> Node(v)][w][f]]
<1>1. NodeFigures
  BY NodeFacts
<1>2. /\ Summary.units = SumFunctionOnSet(column("units"), Warehouses)
      /\ Summary.value = SumFunctionOnSet(column("value"), Warehouses)
      /\ Summary.lines = SumFunctionOnSet(column("lines"), Warehouses)
      /\ Summary.low = SumFunctionOnSet(column("low"), Warehouses)
      /\ Summary.out = SumFunctionOnSet(column("out"), Warehouses)
  BY DEF Summary, Total
<1>3. \A w \in Warehouses :
         /\ column("units")[w] = Units(At(w)) /\ column("value")[w] = Value(At(w))
         /\ column("lines")[w] = Cardinality(At(w))
         /\ column("low")[w] = Cardinality(LowIn(At(w)))
         /\ column("out")[w] = Cardinality(OutIn(At(w)))
  BY <1>1 DEF NodeFigures
<1> HIDE DEF column
<1>4. /\ Position.lines = Cardinality(D) /\ Position.units = Units(D)
      /\ Position.value = Value(D) /\ Position.low = Cardinality(LowIn(D))
      /\ Position.out = Cardinality(OutIn(D))
      /\ DOMAIN Position = {"lines", "units", "value", "low", "out"}
  BY DEF Position, LowIn, OutIn
<1>5. Summary.units = Units(D)
  <2>1. \A w \in Warehouses : column("units")[w] = SumFunctionOnSet(stock, At(w))
    BY <1>3, StockIsSummed, StockFacts
  <2>2. \A l \in DOMAIN stock : stock[l] \in Int
    BY StockFacts
  <2>3. SumFunctionOnSet(stock, D) = SumFunctionOnSet(column("units"), Warehouses)
    BY <2>1, <2>2, SummedByBuilding
  <2> QED
    BY <1>2, <2>3, StockIsSummed
<1>6. Summary.value = Value(D)
  <2>1. \A w \in Warehouses : column("value")[w] = SumFunctionOnSet(WorthOf, At(w))
    BY <1>3, StockIsSummed, StockFacts
  <2>2. \A l \in DOMAIN stock : WorthOf[l] \in Int
    BY StockFacts DEF WorthOf
  <2>3. SumFunctionOnSet(WorthOf, D) = SumFunctionOnSet(column("value"), Warehouses)
    BY <2>1, <2>2, SummedByBuilding
  <2> QED
    BY <1>2, <2>3, StockIsSummed
<1>7. Summary.lines = Cardinality(D)
  <2>1. \A w \in Warehouses : column("lines")[w] = Cardinality(Standing(D, w))
    BY <1>3 DEF At, Standing
  <2> QED
    BY <1>2, <2>1, CountedByBuilding
<1>8. Summary.low = Cardinality(LowIn(D))
  <2>1. \A w \in Warehouses : Standing(LowIn(D), w) = LowIn(At(w))
    BY DEF At, LowIn, Standing
  <2>2. LowIn(D) \in SUBSET DOMAIN stock
    BY DEF LowIn
  <2>3. \A w \in Warehouses : column("low")[w] = Cardinality(Standing(LowIn(D), w))
    BY <1>3, <2>1
  <2> QED
    BY <1>2, <2>2, <2>3, CountedByBuilding
<1>9. Summary.out = Cardinality(OutIn(D))
  <2>1. \A w \in Warehouses : Standing(OutIn(D), w) = OutIn(At(w))
    BY DEF At, OutIn, Standing
  <2>2. OutIn(D) \in SUBSET DOMAIN stock
    BY DEF OutIn
  <2>3. \A w \in Warehouses : column("out")[w] = Cardinality(Standing(OutIn(D), w))
    BY <1>3, <2>1
  <2> QED
    BY <1>2, <2>2, <2>3, CountedByBuilding
<1>10. NetworkAlerts.out_of_stock = Summary.out /\ NetworkAlerts.low_stock = Summary.low
  BY DEF NetworkAlerts
<1>11. \A f \in DOMAIN Position : Position[f] = Summary[f]
  BY <1>4, <1>5, <1>6, <1>7, <1>8, <1>9
<1> QED
  BY <1>4, <1>8, <1>9, <1>10, <1>11


LEMMA AlertsBySite ==
    ASSUME StockTyped, AlertsTyped
    PROVE  AlertCounts.warning + AlertCounts.critical
                = Total(Warehouses, LAMBDA w : Site(w).alerts)
<1> DEFINE A == {a \in alerts : a[1] = "low_stock"}
           B == {a \in alerts : a[1] = "out_of_stock"}
           key == [a \in alerts |-> a[2][2]]
           part == [w \in Warehouses |-> Site(w).alerts]
<1>1. \A a \in alerts : a[1] \in {"low_stock", "out_of_stock"} /\ a[2] \in DOMAIN stock
  BY DEF AlertsTyped
<1>2. A \cup B = alerts /\ A \cap B = {}
  BY <1>1
<1>3. IsFiniteSet(alerts)
  <2>1. IsFiniteSet({"low_stock"}) /\ IsFiniteSet({"out_of_stock"})
    BY FS_Singleton
  <2>2. IsFiniteSet({"low_stock"} \cup {"out_of_stock"})
    BY <2>1, FS_Union
  <2>3. IsFiniteSet(({"low_stock"} \cup {"out_of_stock"}) \X DOMAIN stock)
    BY <2>2, StockFacts, FS_Product
  <2>4. alerts \in SUBSET (({"low_stock"} \cup {"out_of_stock"}) \X DOMAIN stock)
    BY DEF AlertsTyped
  <2> QED
    BY <2>3, <2>4, FS_Subset
<1>4. IsFiniteSet(A) /\ IsFiniteSet(B)
  BY <1>3, FS_Subset
<1>5. AlertCounts.warning = Cardinality(A) /\ AlertCounts.critical = Cardinality(B)
  BY DEF AlertCounts
<1>6. key \in [alerts -> Warehouses]
  BY <1>1, StockFacts
<1>7. ASSUME NEW w \in Warehouses PROVE part[w] = Cardinality({a \in alerts : key[a] = w})
  <2>1. {a \in alerts : key[a] = w} = Alerted(At(w))
    BY <1>1 DEF Alerted, At
  <2> QED
    BY <2>1 DEF Site
<1>8. Total(Warehouses, LAMBDA w : Site(w).alerts) = SumFunctionOnSet(part, Warehouses)
  BY DEF Total
<1> HIDE DEF A, B, key, part
<1>9. Cardinality(A \cup B) = Cardinality(A) + Cardinality(B)
  BY <1>2, <1>4, CardinalityOfTwo
<1>10. Cardinality(alerts) = SumFunctionOnSet(part, Warehouses)
  BY <1>3, <1>6, <1>7, StockFacts, CardinalityOfParts, ZenonT(60)
<1> QED
  BY <1>2, <1>5, <1>8, <1>9, <1>10

LEMMA TransfersFacts ==
    ASSUME DocumentsTyped
    PROVE  /\ IsFiniteSet(DOMAIN transfers) /\ Len(transfers) \in Nat
           /\ DOMAIN transfers = 1 .. Len(transfers)
           /\ \A i \in DOMAIN transfers :
                /\ transfers[i].status \in {"pending", "in_transit", "completed"}
                /\ transfers[i].from \in Warehouses /\ transfers[i].to \in Warehouses
                /\ transfers[i].quantity \in Nat
           /\ IsFiniteSet(Edges) /\ Edges \in SUBSET DOMAIN transfers
           /\ Edges = {i \in DOMAIN transfers : transfers[i].status # "completed"}
<1>1. transfers \in Seq(Transfer) /\ DOMAIN transfers = 1..Len(transfers) /\ Len(transfers) \in Nat
  BY DEF DocumentsTyped
<1>2. \A i \in DOMAIN transfers : transfers[i] \in Transfer
  BY <1>1, ElementOfSeq
<1>3. IsFiniteSet(DOMAIN transfers)
  BY <1>1, FS_Interval
<1>4. \A i \in DOMAIN transfers :
                /\ transfers[i].status \in {"pending", "in_transit", "completed"}
                /\ transfers[i].from \in Warehouses /\ transfers[i].to \in Warehouses
                /\ transfers[i].quantity \in Nat
  BY <1>2 DEF Transfer
<1>5. Edges \in SUBSET DOMAIN transfers
      /\ Edges = {i \in DOMAIN transfers : transfers[i].status # "completed"}
  BY <1>4 DEF Edges
<1>6. IsFiniteSet(Edges)
  BY <1>3, <1>5, FS_Subset
<1> QED
  BY <1>1, <1>3, <1>4, <1>5, <1>6

LEMMA EdgesByBuilding ==
    ASSUME DocumentsTyped
    PROVE  Cardinality(Edges) = Total(Warehouses, LAMBDA w : CommandCenter(w).inbound)
<1> DEFINE key == [i \in Edges |-> transfers[i].to]
           part == [w \in Warehouses |-> CommandCenter(w).inbound]
<1>1. key \in [Edges -> Warehouses] /\ IsFiniteSet(Edges) /\ IsFiniteSet(Warehouses)
  BY TransfersFacts, TradingAssumption
<1>2. ASSUME NEW w \in Warehouses PROVE part[w] = Cardinality({i \in Edges : key[i] = w})
  <2>1. {i \in Edges : key[i] = w} = {i \in Edges : transfers[i].to = w}
    OBVIOUS
  <2> QED
    BY <2>1 DEF CommandCenter
<1>3. Total(Warehouses, LAMBDA w : CommandCenter(w).inbound) = SumFunctionOnSet(part, Warehouses)
  BY DEF Total
<1> HIDE DEF key, part
<1> QED
  BY <1>1, <1>2, <1>3, CardinalityOfParts, SMTT(60)

LEMMA BoardHasWhatIsOpen ==
    ASSUME DocumentsTyped, Len(transfers) <= BoardShown
    PROVE  EdgeUnits = Total({i \in DOMAIN TransferBoard :
                                    TransferBoard[i].status # "completed"},
                             LAMBDA i : TransferBoard[i].units)
<1>1. LastRows(transfers) = DOMAIN transfers
  BY TransfersFacts, ScreensAssumption DEF LastRows
<1>2. /\ DOMAIN TransferBoard = DOMAIN transfers
      /\ \A i \in DOMAIN transfers : /\ TransferBoard[i].status = transfers[i].status
                                     /\ TransferBoard[i].units = transfers[i].quantity
  BY <1>1 DEF TransferBoard
<1>3. {i \in DOMAIN TransferBoard : TransferBoard[i].status # "completed"} = Edges
  BY <1>2, TransfersFacts
<1>4. [i \in Edges |-> TransferBoard[i].units] = [i \in Edges |-> transfers[i].quantity]
  BY <1>2, TransfersFacts
<1> QED
  BY <1>3, <1>4 DEF EdgeUnits, Total

LEMMA CountsAreNotNetted ==
    ASSUME DocumentsTyped
    PROVE  \A i \in DOMAIN CountBoard :
                LET row == CountBoard[i]
                IN  /\ row.over - row.short = Variance(i)
                    /\ row.discrepancies = 0 <=> row.over + row.short = 0
<1> SUFFICES ASSUME NEW i \in DOMAIN CountBoard
             PROVE  /\ CountRow(i).over - CountRow(i).short = Variance(i)
                    /\ CountRow(i).discrepancies = 0 <=> CountRow(i).over + CountRow(i).short = 0
  BY DEF CountBoard
<1>1. counts \in Seq(StockCount) /\ i \in DOMAIN counts
  BY DEF CountBoard, LastRows, DocumentsTyped
<1>2. counts[i] \in StockCount
  BY <1>1, ElementOfSeq
<1>3. Variance(i) \in Int
  BY <1>2 DEF Variance, StockCount
<1>4. /\ CountRow(i).over = AtLeastZero(Variance(i)) /\ CountRow(i).short = AtLeastZero(-Variance(i))
      /\ CountRow(i).discrepancies = IF Variance(i) # 0 THEN 1 ELSE 0
  BY DEF CountRow
<1> QED
  BY <1>3, <1>4 DEF AtLeastZero

-----------------------------------------------------------------------------
(* Zones.                                                                  *)

Here(w) == {z \in Zones : z.warehouse = w}

LEMMA ZoneFacts ==
    ASSUME StockTyped, NEW z \in Zones
    PROVE  /\ Zone(z).lines = {l \in DOMAIN stock : /\ l[2] = z.warehouse
                                                    /\ Category[l[1]] = z.category}
           /\ Zone(z).lines \in SUBSET DOMAIN stock /\ IsFiniteSet(Zone(z).lines)
           /\ Zone(z).units = Units(Zone(z).lines)
           /\ Zone(z).low = Cardinality(LowIn(Zone(z).lines))
           /\ Zone(z).out = Cardinality(OutIn(Zone(z).lines))
<1> DEFINE L == {l \in DOMAIN stock : l[2] = z.warehouse /\ Category[l[1]] = z.category}
<1>1. Zone(z).lines = L /\ Zone(z).units = Units(L)
      /\ Zone(z).low = Cardinality({l \in L : Reorder[l] > 0 /\ stock[l] > 0
                                              /\ stock[l] <= Reorder[l]})
      /\ Zone(z).out = Cardinality({l \in L : stock[l] <= 0})
  BY DEF Zone
<1>2. L \in SUBSET DOMAIN stock
  OBVIOUS
<1> HIDE DEF L
<1>3. IsFiniteSet(L)
      /\ {l \in L : Reorder[l] > 0 /\ stock[l] > 0 /\ stock[l] <= Reorder[l]} = LowIn(L)
  BY <1>2, LowAndOut
<1> QED
  BY <1>1, <1>2, <1>3 DEF OutIn, L

\* What is free in a critical zone, and in one that is not, to half a part of the share.
RoomTold(z) ==
    LET free == 2 * ShareScale * Zone(z).available
        left == (2 * (ShareScale - ZoneCritical) + 1) * z.capacity
    IN  IF Zone(z).state = "critical" THEN free <= left ELSE free >= left

\* A zone sends somebody to every line that is low or out, and is critical when it
\* has next to no room and only then.
LEMMA ZonesAttend ==
    ASSUME StockTyped, NEW z \in Zones
    PROVE  /\ Zone(z).attention = AtMost(Zone(z).low + Zone(z).out, AttentionShown)
           /\ RoomTold(z)
<1> DEFINE L == Zone(z).lines
<1>1. /\ L = {l \in DOMAIN stock : l[2] = z.warehouse /\ Category[l[1]] = z.category}
      /\ L \in SUBSET DOMAIN stock /\ IsFiniteSet(L) /\ Zone(z).units = Units(L)
      /\ Zone(z).low = Cardinality(LowIn(L)) /\ Zone(z).out = Cardinality(OutIn(L))
  BY ZoneFacts
<1>2. Zone(z).attention = AtMost(Cardinality(LowIn(L) \cup OutIn(L)), AttentionShown)
  <2>1. Zone(z).attention
          = AtMost(Cardinality({l \in L : stock[l] <= 0
                                    \/ (Reorder[l] > 0 /\ stock[l] <= Reorder[l])}), AttentionShown)
    <3> DEFINE M == {l \in DOMAIN stock : l[2] = z.warehouse /\ Category[l[1]] = z.category}
    <3>1. Zone(z).attention
            = AtMost(Cardinality({l \in M : stock[l] <= 0
                                    \/ (Reorder[l] > 0 /\ stock[l] <= Reorder[l])}), AttentionShown)
      BY DEF Zone
    <3>2. M = L
      BY <1>1
    <3> HIDE DEF M, L
    <3> QED
      BY <3>1, <3>2
  <2> HIDE DEF L
  <2>2. {l \in L : stock[l] <= 0 \/ (Reorder[l] > 0 /\ stock[l] <= Reorder[l])}
          = LowIn(L) \cup OutIn(L)
    BY <1>1, LowAndOut
  <2> QED
    BY <2>1, <2>2
<1>3. Cardinality(LowIn(L) \cup OutIn(L)) = Cardinality(LowIn(L)) + Cardinality(OutIn(L))
  <2> HIDE DEF L
  <2>1. LowIn(L) \cap OutIn(L) = {} /\ IsFiniteSet(LowIn(L)) /\ IsFiniteSet(OutIn(L))
    BY <1>1, LowAndOut
  <2> QED
    BY <2>1, CardinalityOfTwo
<1>4. RoomTold(z)
  <2> DEFINE units == Units({l \in DOMAIN stock : /\ l[2] = z.warehouse
                                                  /\ Category[l[1]] = z.category})
             c == z.capacity
             share == IF c = 0 THEN 0 ELSE Rounded(ShareScale * units, c)
             room == AtLeastZero(c - units)
  <2>1. /\ Zone(z).available = room
        /\ Zone(z).state = IF share >= ZoneCritical THEN "critical"
                           ELSE IF share >= ZoneWarn THEN "warning" ELSE "ok"
    BY DEF Zone
  <2>2. /\ units \in Nat /\ c \in Nat
        /\ ShareScale \in Nat /\ ZoneCritical \in Nat /\ ZoneCritical <= ShareScale
        /\ 0 < ZoneCritical
    BY <1>1, StockIsSummed, ScreensAssumption
  <2> HIDE DEF units, c
  <2>3. room \in Nat /\ room >= c - units /\ (room = 0 \/ room = c - units)
    BY <2>2 DEF AtLeastZero
  <2>4. /\ share >= ZoneCritical =>
             2 * ShareScale * room <= (2 * (ShareScale - ZoneCritical) + 1) * c
        /\ ~(share >= ZoneCritical) =>
             2 * ShareScale * room >= (2 * (ShareScale - ZoneCritical) + 1) * c
    <3>1. CASE c = 0
      BY <2>2, <2>3, <3>1
    <3>2. CASE c # 0
      <4> DEFINE a == ShareScale * units
                 b == ShareScale * c
                 z0 == c * ZoneCritical
                 r == Rounded(a, c)
                 p == c * r
                 t == ShareScale * room
      <4>1. a \in Nat /\ b \in Int /\ z0 \in Int /\ t \in Int /\ c \in Nat \ {0}
        BY <2>2, <2>3, <3>2
      <4>2. r \in Int /\ p \in Int /\ 2 * p <= 2 * a + c /\ 2 * a - c <= 2 * p
        <5>1. a \in Int
          BY <4>1
        <5> HIDE DEF a
        <5>2. r \in Int /\ 2 * p <= 2 * a + c /\ 2 * a - c <= 2 * p
          BY <4>1, <5>1, RoundedIsNear
        <5> HIDE DEF r
        <5>3. p \in Int
          BY <4>1, <5>2
        <5> QED
          BY <5>2, <5>3
      <4>3. share = r
        BY <3>2
      <4>4. (2 * (ShareScale - ZoneCritical) + 1) * c = 2 * b - 2 * z0 + c
        BY <2>2
      <4>5. t >= b - a /\ (t = 0 \/ t = b - a) /\ 2 * ShareScale * room = 2 * t
        <5>1. ShareScale * (c - units) = b - a
          BY <2>2, ProductsDistribute
        <5>2. ShareScale * (c - units) <= ShareScale * room
          <6>1. c - units \in Int /\ room \in Int /\ c - units <= room
            BY <2>2, <2>3
          <6> HIDE DEF room
          <6> QED
            BY <2>2, <6>1, ProductsAreMonotone
        <5> HIDE DEF room
        <5>3. ShareScale * 0 = 0 /\ 2 * ShareScale * room = 2 * (ShareScale * room)
          BY <2>2, <2>3
        <5> QED
          BY <2>2, <2>3, <5>1, <5>2, <5>3
      <4>6. z0 <= b
        BY <2>2, ProductsAreMonotone
      <4> HIDE DEF r, a, b, room, t, share
      <4>7. ASSUME r >= ZoneCritical PROVE 2 * t <= 2 * b - 2 * z0 + c
        <5>1. z0 <= p
          BY <2>2, <4>2, <4>7, ProductsAreMonotone
        <5> HIDE DEF p, z0
        <5> QED
          BY <2>2, <4>1, <4>2, <4>5, <4>6, <5>1
      <4>8. ASSUME ~(r >= ZoneCritical) PROVE 2 * t >= 2 * b - 2 * z0 + c
        <5>1. c * r <= c * (ZoneCritical - 1)
          BY <2>2, <4>2, <4>8, ProductsAreMonotone
        <5>2. c * (ZoneCritical - 1) = z0 - c
          BY <2>2, ProductsDistribute
        <5>3. p <= z0 - c
          BY <5>1, <5>2
        <5> HIDE DEF p, z0
        <5> QED
          BY <2>2, <4>1, <4>2, <4>5, <5>3
      <4> QED
        BY <4>3, <4>4, <4>5, <4>7, <4>8
    <3> QED
      BY <3>1, <3>2
  <2> HIDE DEF share, room
  <2>5. Zone(z).state = "critical" <=> share >= ZoneCritical
    BY <2>1
  <2> QED
    BY <2>1, <2>4, <2>5 DEF RoomTold, c
<1> QED
  BY <1>1, <1>2, <1>3, <1>4

ZoneLines(T, z) == T \cap Zone(z).lines
Zoned(w) == UNION {Zone(z).lines : z \in Here(w)}

\* The lines of a building are in one zone of it each, or in none.
LEMMA CountedByZone ==
    ASSUME StockTyped, NEW w \in Warehouses, NEW T \in SUBSET At(w),
           NEW part, \A z \in Here(w) : part[z] = Cardinality(ZoneLines(T, z))
    PROVE  /\ SumFunctionOnSet(part, Here(w)) \in Int
           /\ Cardinality(T) - SumFunctionOnSet(part, Here(w)) = Cardinality(T \ Zoned(w))
<1> DEFINE H == Here(w)
           U == Zoned(w)
           S == T \cap U
           key == [l \in S |-> CHOOSE z \in H : l \in Zone(z).lines]
<1>1. IsFiniteSet(T) /\ IsFiniteSet(S) /\ IsFiniteSet(T \ U) /\ T \in SUBSET DOMAIN stock
  <2>1. T \in SUBSET DOMAIN stock /\ IsFiniteSet(DOMAIN stock)
    BY StockFacts
  <2>2. IsFiniteSet(T)
    BY <2>1, FS_Subset
  <2> QED
    BY <2>1, <2>2, FS_Subset
<1>2. IsFiniteSet(H)
  BY ScreensAssumption, FS_Subset DEF Here
<1>3. /\ \A l \in S : \E z \in H : l \in Zone(z).lines
      /\ \A z \in H : ZoneLines(T, z) \subseteq S
  BY DEF Zoned, ZoneLines
<1>4. key \in [S -> H] /\ \A l \in S : l \in Zone(key[l]).lines
  BY <1>3
<1>5. ASSUME NEW l \in T, NEW y \in H, NEW z \in H, l \in Zone(y).lines, l \in Zone(z).lines
      PROVE  y = z
  <2>1. y \in Zones /\ z \in Zones /\ y.warehouse = w /\ z.warehouse = w
    BY DEF Here
  <2>2. Category[l[1]] = y.category /\ Category[l[1]] = z.category
    BY <1>5, <2>1, ZoneFacts
  <2> QED
    BY <2>1, <2>2, ScreensAssumption
<1>6. ASSUME NEW z \in H PROVE {l \in S : key[l] = z} = ZoneLines(T, z)
  <2>1. ASSUME NEW l \in S, key[l] = z PROVE l \in ZoneLines(T, z)
    BY <1>4, <2>1 DEF ZoneLines
  <2>2. ASSUME NEW l \in ZoneLines(T, z) PROVE l \in S /\ key[l] = z
    <3>1. l \in S /\ l \in T /\ l \in Zone(z).lines
      BY <1>3 DEF ZoneLines
    <3>2. key[l] \in H /\ l \in Zone(key[l]).lines
      BY <1>4, <3>1
    <3> QED
      BY <1>5, <3>1, <3>2
  <2> HIDE DEF S, key
  <2> QED
    BY <2>1, <2>2
<1>7. T = S \cup (T \ U) /\ S \cap (T \ U) = {}
  OBVIOUS
<1> HIDE DEF U, S, key
<1>8. \A z \in H : part[z] = Cardinality({l \in S : key[l] = z})
  BY <1>6
<1> HIDE DEF H
<1>9. Cardinality(S) = SumFunctionOnSet(part, H)
  BY <1>1, <1>2, <1>4, <1>8, CardinalityOfParts, ZenonT(60)
<1>10. /\ Cardinality(S \cup (T \ U)) = Cardinality(S) + Cardinality(T \ U)
       /\ Cardinality(S) \in Nat /\ Cardinality(T \ U) \in Nat
  BY <1>1, <1>7, CardinalityOfTwo
<1>11. Cardinality(T) - SumFunctionOnSet(part, H) = Cardinality(T \ U)
  <2> DEFINE V == T \ U
  <2>1. Cardinality(T) = Cardinality(S \cup V)
    BY <1>7, Zenon
  <2>2. /\ Cardinality(S \cup V) = Cardinality(S) + Cardinality(V)
        /\ Cardinality(S) \in Nat /\ Cardinality(V) \in Nat
    BY <1>10
  <2> HIDE DEF V
  <2>3. Cardinality(T) - Cardinality(S) = Cardinality(V)
    BY <2>1, <2>2
  <2> QED
    BY <2>3, <1>9, Zenon DEF V
<1> QED
  BY <1>9, <1>10, <1>11 DEF U, H


\* What the zones of a building leave out is what stands in none of them.
LEMMA ZonesMissTheUnzoned ==
    ASSUME StockTyped, NEW w \in Warehouses
    PROVE  /\ Node(w).low - CommandCenter(w).lines_low
                = Cardinality({l \in At(w) \ Zoned(w) : IsLow(l) /\ stock[l] > 0})
           /\ Node(w).out - CommandCenter(w).lines_out
                = Cardinality({l \in At(w) \ Zoned(w) : stock[l] = 0})
<1> DEFINE lows == [z \in Here(w) |-> Zone(z).low]
           outs == [z \in Here(w) |-> Zone(z).out]
           A == LowIn(At(w))
           B == OutIn(At(w))
<1>1. /\ CommandCenter(w).lines_low = SumFunctionOnSet(lows, Here(w))
      /\ CommandCenter(w).lines_out = SumFunctionOnSet(outs, Here(w))
  BY DEF CommandCenter, Total, Here
<1>2. A \in SUBSET At(w) /\ B \in SUBSET At(w) /\ At(w) \in SUBSET DOMAIN stock
  BY StockFacts DEF LowIn, OutIn
<1>3. ASSUME NEW z \in Here(w)
      PROVE  /\ lows[z] = Cardinality(ZoneLines(A, z))
             /\ outs[z] = Cardinality(ZoneLines(B, z))
  <2>1. z \in Zones /\ z.warehouse = w
    BY DEF Here
  <2>2. \A l \in Zone(z).lines : l \in At(w)
    BY <2>1, ZoneFacts DEF At
  <2>3. LowIn(Zone(z).lines) = ZoneLines(A, z) /\ OutIn(Zone(z).lines) = ZoneLines(B, z)
    BY <2>2 DEF LowIn, OutIn, ZoneLines
  <2> QED
    BY <2>1, <2>3, ZoneFacts
<1>4. Node(w).low = Cardinality(A) /\ Node(w).out = Cardinality(B)
  BY NodeFacts DEF NodeFigures
<1>5. /\ A \ Zoned(w) = {l \in At(w) \ Zoned(w) : IsLow(l) /\ stock[l] > 0}
      /\ B \ Zoned(w) = {l \in At(w) \ Zoned(w) : stock[l] = 0}
  <2>1. \A l \in At(w) : stock[l] \in Nat
    BY StockFacts
  <2>2. A \ Zoned(w) = {l \in At(w) \ Zoned(w) : IsLow(l) /\ stock[l] > 0}
    BY DEF LowIn, IsLow
  <2>3. B \ Zoned(w) = {l \in At(w) \ Zoned(w) : stock[l] = 0}
    BY <2>1 DEF OutIn
  <2> QED
    BY <2>2, <2>3
<1> HIDE DEF A, B, lows, outs
<1>6. Cardinality(A) - SumFunctionOnSet(lows, Here(w)) = Cardinality(A \ Zoned(w))
  BY <1>2, <1>3, CountedByZone
<1>7. Cardinality(B) - SumFunctionOnSet(outs, Here(w)) = Cardinality(B \ Zoned(w))
  BY <1>2, <1>3, CountedByZone
<1> QED
  BY <1>1, <1>4, <1>5, <1>6, <1>7

-----------------------------------------------------------------------------
(* Health, and the screens of one building.                                *)

LEMMA RoundedWhole ==
    ASSUME NEW n \in Nat \ {0}
    PROVE  Rounded(500 * n, 5 * n) = 100
<1> DEFINE a == 500 * n
           d == 5 * n
<1>1. a \in Int /\ d \in Nat \ {0} /\ 100 \in Int /\ a >= 100 * d /\ a <= 100 * d
  OBVIOUS
<1> HIDE DEF a, d
<1>2. Rounded(a, d) \in Int /\ Rounded(a, d) >= 100 /\ Rounded(a, d) <= 100
  BY <1>1, RoundedIsNear, RoundedKeepsOrder
<1> QED
  BY <1>2 DEF a, d

LEMMA NothingWrongIsHealthy ==
    ASSUME NEW lines \in Nat \ {0}
    PROVE  Health(lines, 0, 0, 0) = 100
<1>1. Health(lines, 0, 0, 0)
        = AtLeastZero(Rounded(500 * lines - 300 * 0 - 125 * 0
                                - 15 * lines * AtMost(0, 5), 5 * lines))
  BY DEF Health
<1>2. AtMost(0, 5) = 0 /\ 15 * lines * 0 = 0
  BY DEF AtMost
<1>3. 500 * lines - 300 * 0 - 125 * 0 - 15 * lines * AtMost(0, 5) = 500 * lines
  BY <1>2
<1> QED
  BY <1>1, <1>3, RoundedWhole DEF AtLeastZero

LEMMA BuildingsAgree ==
    ASSUME StockTyped, NEW w \in Warehouses
    PROVE  /\ \A f \in {"units", "lines", "low", "out", "alerts"} : Site(w)[f] = Node(w)[f]
           /\ \A f \in {"units", "value", "lines"} : CommandCenter(w)[f] = Node(w)[f]
           /\ CommandCenter(w).outbound = Node(w).active
           /\ Node(w).low + Node(w).out = 0 /\ Node(w).alerts = 0 /\ Node(w).lines > 0
                => Node(w).health = 100
<1>1. /\ Node(w).units = Units(At(w)) /\ Node(w).value = Value(At(w))
      /\ Node(w).lines = Cardinality(At(w))
      /\ Node(w).low = Cardinality(LowIn(At(w)))
      /\ Node(w).out = Cardinality(OutIn(At(w)))
      /\ Node(w).alerts = Cardinality(Alerted(At(w)))
  BY NodeFacts DEF NodeFigures
<1>2. /\ Site(w).units = Units(At(w)) /\ Site(w).lines = Cardinality(At(w))
      /\ Site(w).low = Cardinality(LowIn(At(w)))
      /\ Site(w).out = Cardinality(OutIn(At(w)))
      /\ Site(w).alerts = Cardinality(Alerted(At(w)))
  BY DEF Site, LowIn, OutIn
<1>3. \A f \in {"units", "lines", "low", "out", "alerts"} : Site(w)[f] = Node(w)[f]
  BY <1>1, <1>2
<1>4. \A f \in {"units", "value", "lines"} : CommandCenter(w)[f] = Node(w)[f]
  BY <1>1 DEF CommandCenter
<1>5. CommandCenter(w).outbound = Node(w).active
  BY DEF CommandCenter, Node
<1>6. ASSUME Node(w).low + Node(w).out = 0, Node(w).alerts = 0, Node(w).lines > 0
      PROVE  Node(w).health = 100
  <2>1. At(w) \in SUBSET DOMAIN stock
    BY StockFacts
  <2>2. /\ IsFiniteSet(At(w)) /\ IsFiniteSet(LowIn(At(w))) /\ IsFiniteSet(OutIn(At(w)))
        /\ {l \in At(w) : Reorder[l] > 0 /\ stock[l] \in 1 .. Reorder[l]} = LowIn(At(w))
    BY <2>1, LowAndOut
  <2>3. /\ Node(w).lines \in Nat /\ Node(w).low \in Nat /\ Node(w).out \in Nat
    BY <1>1, <2>2, FS_CardinalityType
  <2>4. Node(w).low = 0 /\ Node(w).out = 0 /\ Node(w).lines \in Nat \ {0}
    BY <1>6, <2>3
  <2>5. Node(w).health = Health(Cardinality(At(w)), Cardinality(OutIn(At(w))),
                Cardinality({l \in At(w) : Reorder[l] > 0 /\ stock[l] \in 1 .. Reorder[l]}),
                Cardinality(Alerted(At(w))))
    BY DEF Node, OutIn
  <2>6. Node(w).health = Health(Node(w).lines, Node(w).out, Node(w).low, Node(w).alerts)
    BY <1>1, <2>2, <2>5
  <2> QED
    BY <1>6, <2>4, <2>6, NothingWrongIsHealthy
<1> QED
  BY <1>3, <1>4, <1>5, <1>6

LEMMA RowsAgreeOnStock ==
    ASSUME RowsTyped
    PROVE  StockScreensAgree
<1> USE DEF RowsTyped
<1>1. ASSUME NEW w \in Warehouses
      PROVE  LET site == Site(w)
                 node == Node(w)
                 centre == CommandCenter(w)
                 unzoned == At(w) \ UNION {Zone(z).lines : z \in centre.zones}
             IN  /\ \A f \in {"units", "lines", "low", "out", "alerts"} : site[f] = node[f]
                 /\ \A f \in {"units", "value", "lines"} : centre[f] = node[f]
                 /\ centre.outbound = node.active
                 /\ node.low - centre.lines_low =
                         Cardinality({l \in unzoned : IsLow(l) /\ stock[l] > 0})
                 /\ node.out - centre.lines_out = Cardinality({l \in unzoned : stock[l] = 0})
                 /\ node.low + node.out = 0 /\ node.alerts = 0 /\ node.lines > 0
                         => node.health = 100
  <2>1. CommandCenter(w).zones = Here(w)
    BY DEF CommandCenter, Here
  <2>2. UNION {Zone(z).lines : z \in CommandCenter(w).zones} = Zoned(w)
    BY <2>1 DEF Zoned
  <2> QED
    BY <2>2, BuildingsAgree, ZonesMissTheUnzoned
<1>2. ASSUME NEW z \in Zones
      PROVE  LET row == Zone(z)
                 free == 2 * ShareScale * row.available
                 left == (2 * (ShareScale - ZoneCritical) + 1) * z.capacity
             IN  /\ row.attention = AtMost(row.low + row.out, AttentionShown)
                 /\ IF row.state = "critical" THEN free <= left ELSE free >= left
  BY ZonesAttend DEF RoomTold
<1>3. \A i \in DOMAIN CountBoard :
          LET row == CountBoard[i]
          IN  /\ row.over - row.short = Variance(i)
              /\ row.discrepancies = 0 <=> row.over + row.short = 0
  BY CountsAreNotNetted
<1>4. Len(transfers) <= BoardShown =>
          EdgeUnits = Total({i \in DOMAIN TransferBoard :
                                  TransferBoard[i].status # "completed"},
                            LAMBDA i : TransferBoard[i].units)
  BY BoardHasWhatIsOpen
<1>5. /\ \A f \in DOMAIN Position : Position[f] = Summary[f]
      /\ NetworkAlerts.out_of_stock = Position.out /\ NetworkAlerts.low_stock = Position.low
      /\ AlertCounts.warning + AlertCounts.critical
                = Total(Warehouses, LAMBDA w : Site(w).alerts)
      /\ Cardinality(Edges) = Total(Warehouses, LAMBDA w : CommandCenter(w).inbound)
  BY OverviewIsTheNetwork, AlertsBySite, EdgesByBuilding
<1> QED
  BY <1>1, <1>2, <1>3, <1>4, <1>5 DEF StockScreensAgree

\* Every screen that counts the lines of a building, of a zone or of the network
\* counts them alike, whenever it is read (warehouses/command.py,
\* dashboard/service.py, analytics/readmodels.py, StockScreensAgree).
THEOREM StockAgrees == Spec => []StockFigures
<1>1. IInv => StockFigures
  BY RowsAgreeOnStock DEF IInv, StockFigures
<1> QED
  BY <1>1, RowsKeepShape, PTL

-----------------------------------------------------------------------------
(* What is sold, day by day.                                               *)

OfProduct(p) == [i \in DOMAIN sales |-> Of(i, p)]
InDaysAt(D, w) == {i \in InDays(D) : sales[i].warehouse = w}

LEMMA SoldIsSummed ==
    ASSUME SalesTyped, NEW p, NEW S \in SUBSET DOMAIN sales
    PROVE  /\ IsFiniteSet(S)
           /\ Total(S, LAMBDA i : Of(i, p)) = SumFunctionOnSet(OfProduct(p), S)
           /\ SumFunctionOnSet(OfProduct(p), S) \in Nat
           /\ SumFunctionOnSet(OfProduct(p), S) > 0 <=> \E i \in S : Of(i, p) > 0
           /\ \A i \in DOMAIN sales : OfProduct(p)[i] \in Nat /\ OfProduct(p)[i] = Of(i, p)
<1> DEFINE f == [i \in S |-> Of(i, p)]
<1>1. IsFiniteSet(S)
  BY SalesFinite, FS_Subset
<1>2. \A i \in DOMAIN sales : OfProduct(p)[i] \in Nat /\ OfProduct(p)[i] = Of(i, p)
  BY SalesFinite DEF OfProduct
<1>3. \A i \in S : f[i] \in Int /\ f[i] = OfProduct(p)[i]
  BY <1>2
<1>4. Total(S, LAMBDA i : Of(i, p)) = SumFunctionOnSet(f, S)
  BY DEF Total
<1> HIDE DEF f
<1>5. SumFunctionOnSet(f, S) = SumFunctionOnSet(OfProduct(p), S)
  BY <1>1, <1>3, SumExtensional
<1>6. SumFunctionOnSet(OfProduct(p), S) \in Nat
  BY <1>1, <1>2, SumMonotone
<1>7. SumFunctionOnSet(OfProduct(p), S) > 0 <=> \E i \in S : OfProduct(p)[i] > 0
  BY <1>1, <1>2, SumIsPositive
<1> QED
  BY <1>1, <1>2, <1>4, <1>5, <1>6, <1>7

LEMMA SoldFacts ==
    ASSUME SalesTyped, NEW p, NEW D
    PROVE  /\ Sold(p, D) = SumFunctionOnSet(OfProduct(p), InDays(D))
           /\ Sold(p, D) \in Nat
           /\ Sold(p, D) > 0 <=> \E i \in DOMAIN sales : sales[i].day \in D /\ Of(i, p) > 0
<1>1. InDays(D) \in SUBSET DOMAIN sales
  BY SalesFinite
<1>2. Sold(p, D) = Total(InDays(D), LAMBDA i : Of(i, p))
  BY DEF Sold
<1>3. /\ Total(InDays(D), LAMBDA i : Of(i, p)) = SumFunctionOnSet(OfProduct(p), InDays(D))
      /\ SumFunctionOnSet(OfProduct(p), InDays(D)) \in Nat
      /\ SumFunctionOnSet(OfProduct(p), InDays(D)) > 0 <=> \E i \in InDays(D) : Of(i, p) > 0
  BY <1>1, SoldIsSummed
<1>4. (\E i \in InDays(D) : Of(i, p) > 0)
        <=> \E i \in DOMAIN sales : sales[i].day \in D /\ Of(i, p) > 0
  BY DEF InDays
<1> QED
  BY <1>2, <1>3, <1>4

LEMMA SoldAtFacts ==
    ASSUME SalesTyped, NEW l, NEW D
    PROVE  /\ SoldAt(l, D) = SumFunctionOnSet(OfProduct(l[1]), InDaysAt(D, l[2]))
           /\ SoldAt(l, D) \in Nat
           /\ SoldAt(l, D) > 0 <=> \E i \in DOMAIN sales :
                    sales[i].day \in D /\ sales[i].warehouse = l[2] /\ Of(i, l[1]) > 0
<1>1. InDaysAt(D, l[2]) \in SUBSET DOMAIN sales
  BY SalesFinite DEF InDaysAt
<1> DEFINE S == InDaysAt(D, l[2])
           p == l[1]
<1>2. SoldAt(l, D) = Total(S, LAMBDA i : Of(i, p))
  BY DEF SoldAt, InDaysAt
<1>3. (\E i \in S : Of(i, p) > 0)
        <=> \E i \in DOMAIN sales :
                sales[i].day \in D /\ sales[i].warehouse = l[2] /\ Of(i, p) > 0
  BY DEF InDays, InDaysAt
<1>4. S \in SUBSET DOMAIN sales
  BY <1>1
<1> HIDE DEF S, p
<1>5. /\ Total(S, LAMBDA i : Of(i, p)) = SumFunctionOnSet(OfProduct(p), S)
      /\ SumFunctionOnSet(OfProduct(p), S) \in Nat
      /\ SumFunctionOnSet(OfProduct(p), S) > 0 <=> \E i \in S : Of(i, p) > 0
  BY <1>4, SoldIsSummed
<1> QED
  BY <1>2, <1>3, <1>5 DEF S, p

LEMMA WindowsAreDays ==
    ASSUME today \in Days, NEW n \in Int
    PROVE  /\ Recent(n) \in SUBSET Days /\ IsFiniteSet(Recent(n))
           /\ \A d \in Recent(n) : d \in Nat /\ d <= today /\ d > today - n
           /\ \A m \in Int : m >= n => Recent(n) \subseteq Recent(m)
           /\ today \in Int /\ today >= 0 /\ Days \subseteq Nat
<1>1. Days \subseteq Nat
  BY TradingAssumption DEF Days
<1>2. Recent(n) \in SUBSET Days
  BY DEF Recent
<1>3. IsFiniteSet(Recent(n))
  BY <1>2, LinesFinite, FS_Subset
<1>4. ASSUME NEW m \in Int, m >= n PROVE Recent(n) \subseteq Recent(m)
  <2>1. today \in Nat /\ \A d \in Days : d \in Nat /\ (d > today - n => d > today - m)
    BY <1>1, <1>4
  <2> QED
    BY <2>1 DEF Recent
<1> QED
  BY <1>1, <1>2, <1>3, <1>4 DEF Recent

OnDay(S, d) == {i \in S : sales[i].day = d}

\* What sold over some days is what sold on each of them; at one building, too.
LEMMA SoldDayByDay ==
    ASSUME SalesTyped, NEW D, IsFiniteSet(D), NEW f, \A i \in DOMAIN sales : f[i] \in Int,
           NEW part, NEW S \in SUBSET InDays(D),
           \A d \in D : part[d] = SumFunctionOnSet(f, OnDay(S, d))
    PROVE  SumFunctionOnSet(f, S) = SumFunctionOnSet(part, D)
<1> DEFINE key == [i \in S |-> sales[i].day]
<1>1. S \in SUBSET DOMAIN sales /\ IsFiniteSet(S) /\ \A i \in S : f[i] \in Int
  BY SalesFinite, FS_Subset
<1>2. key \in [S -> D]
  BY DEF InDays
<1>3. \A d \in D : OnDay(S, d) = {i \in S : key[i] = d}
  BY DEF OnDay
<1> HIDE DEF key
<1>4. \A d \in D : part[d] = SumFunctionOnSet(f, {i \in S : key[i] = d})
  BY <1>3
<1>5. IsFiniteSet(S) /\ IsFiniteSet(D) /\ \A i \in S : f[i] \in Int
  BY <1>1
<1> QED
  BY <1>2, <1>4, <1>5, SumOfParts, SMTT(60)

-----------------------------------------------------------------------------
(* One line: how long it lasts, and which screen calls it what.            *)

\* A line sells nothing a day only when nothing sold, and no more than its busiest day.
LEMMA UsageFacts ==
    ASSUME SalesTyped, NEW l
    PROVE  /\ Usage(l) \in Nat /\ SoldAt(l, Recent(Lookback)) \in Nat
           /\ Usage(l) = 0 <=> SoldAt(l, Recent(Lookback)) = 0
           /\ \A k \in Nat : SoldAt(l, Recent(Lookback)) <= k * Lookback
                                => Usage(l) <= UsageScale * k
<1> DEFINE sold == SoldAt(l, Recent(Lookback))
           a == UsageScale * sold
<1>1. /\ sold \in Nat /\ Lookback \in Nat \ {0} /\ UsageScale \in Nat \ {0}
      /\ Lookback <= UsageScale
  BY SoldAtTyped, TradingAssumption, ProductScreensAssumption
<1>2. Usage(l) = Rounded(a, Lookback)
  BY DEF Usage
<1> HIDE DEF sold
<1>3. a \in Nat /\ a \in Int
  BY <1>1
<1>4. CASE sold = 0
  <2>1. a = 0
    BY <1>1, <1>4
  <2>2. Usage(l) = 0
    BY <1>1, <1>2, <2>1, RoundedTyped
  <2>3. \A k \in Nat : 0 <= UsageScale * k
    BY <1>1
  <2> QED
    BY <1>4, <2>2, <2>3 DEF sold
<1>5. CASE sold # 0
  <2>1. a >= 1 * Lookback
    <3>1. UsageScale * 1 <= a
      BY <1>1, <1>5, ProductsAreMonotone
    <3> QED
      BY <1>1, <1>3, <3>1
  <2> HIDE DEF a
  <2>2. Usage(l) \in Nat /\ Usage(l) >= 1
    <3>1. 1 \in Int
      OBVIOUS
    <3> QED
      BY <1>1, <1>2, <1>3, <2>1, <3>1, RoundedKeepsOrder, RoundedTyped
  <2>3. ASSUME NEW k \in Nat, sold <= k * Lookback PROVE Usage(l) <= UsageScale * k
    <3>1. UsageScale * sold <= UsageScale * (k * Lookback)
      <4>1. k * Lookback \in Int
        BY <1>1
      <4> QED
        BY <1>1, <2>3, <4>1, ProductsAreMonotone
    <3>2. UsageScale * (k * Lookback) = (UsageScale * k) * Lookback /\ UsageScale * k \in Int
      BY <1>1
    <3>3. a <= (UsageScale * k) * Lookback
      BY <3>1, <3>2 DEF a
    <3> DEFINE m == UsageScale * k
    <3>4. m \in Int /\ a <= m * Lookback
      BY <3>2, <3>3
    <3> HIDE DEF m
    <3>5. Usage(l) <= m
      BY <1>1, <1>2, <1>3, <3>4, RoundedKeepsOrder
    <3> QED
      BY <3>5 DEF m
  <2> QED
    BY <1>1, <1>5, <2>2, <2>3 DEF sold
<1> QED
  BY <1>4, <1>5

LEMMA DaysLeftFacts ==
    ASSUME StockTyped, SalesTyped, NEW l \in DOMAIN stock
    PROVE  /\ stock[l] \in Nat
           /\ DaysLeft(l).n \in Nat /\ DaysLeft(l).d \in Nat
           /\ DaysLeft(l) = Never <=> DaysLeft(l).d = 0
           /\ DaysLeft(l) = Never
                <=> stock[l] > 0 /\ SoldAt(l, Recent(Lookback)) = 0
           /\ stock[l] = 0 => DaysLeft(l) = [n |-> 0, d |-> 1]
<1> DEFINE u == Usage(l)
<1>1. stock[l] \in Nat /\ u \in Nat /\ UsageScale \in Nat /\ HorizonCap \in Nat
      /\ stock[l] * UsageScale \in Nat
      /\ (u = 0 <=> SoldAt(l, Recent(Lookback)) = 0)
  <2>1. /\ stock[l] \in Nat /\ u \in Nat /\ UsageScale \in Nat /\ HorizonCap \in Nat
        /\ (u = 0 <=> SoldAt(l, Recent(Lookback)) = 0)
    BY StockFacts, UsageFacts, ProductScreensAssumption
  <2> QED
    BY <2>1
<1>2. DaysLeft(l)
        = IF stock[l] <= 0 THEN [n |-> 0, d |-> 1]
          ELSE IF u = 0 THEN Never
          ELSE IF stock[l] * UsageScale > HorizonCap * u THEN [n |-> HorizonCap, d |-> 1]
          ELSE [n |-> stock[l] * UsageScale, d |-> u]
  BY DEF DaysLeft
<1> HIDE DEF u
<1>3. CASE stock[l] <= 0
  BY <1>1, <1>2, <1>3 DEF Never
<1>4. CASE stock[l] > 0 /\ u = 0
  BY <1>1, <1>2, <1>4 DEF Never
<1>5. CASE stock[l] > 0 /\ u > 0 /\ stock[l] * UsageScale > HorizonCap * u
  BY <1>1, <1>2, <1>5 DEF Never
<1>6. CASE stock[l] > 0 /\ u > 0 /\ ~(stock[l] * UsageScale > HorizonCap * u)
  BY <1>1, <1>2, <1>6 DEF Never
<1> QED
  BY <1>1, <1>3, <1>4, <1>5, <1>6

LEMMA DaysFacts ==
    ASSUME StockTyped, SalesTyped, NEW l \in DOMAIN stock
    PROVE  /\ stock[l] \in Nat
           /\ DaysRemaining(l).n \in Nat /\ DaysRemaining(l).d \in Nat
           /\ DaysRemaining(l) = Never <=> DaysRemaining(l).d = 0
           /\ DaysRemaining(l) = Never <=> DaysLeft(l) = Never
           /\ DaysRemaining(l) # Never => DaysRemaining(l).d = DaysScale
           /\ DaysRemaining(l) = Never
                <=> stock[l] > 0 /\ SoldAt(l, Recent(Lookback)) = 0
           /\ stock[l] = 0 => DaysRemaining(l) = [n |-> 0, d |-> DaysScale]
<1> DEFINE x == DaysLeft(l)
<1>1. /\ stock[l] \in Nat /\ x.n \in Nat /\ x.d \in Nat /\ (x = Never <=> x.d = 0)
      /\ (x = Never <=> stock[l] > 0 /\ SoldAt(l, Recent(Lookback)) = 0)
      /\ (stock[l] = 0 => x = [n |-> 0, d |-> 1])
      /\ DaysScale \in Nat \ {0}
  BY DaysLeftFacts, ProductScreensAssumption
<1>2. DaysRemaining(l) = IF x = Never THEN Never
                         ELSE [n |-> Rounded(DaysScale * x.n, x.d), d |-> DaysScale]
  BY DEF DaysRemaining
<1> HIDE DEF x
<1>3. CASE x = Never
  BY <1>1, <1>2, <1>3 DEF Never, x
<1>4. CASE x # Never
  <2>1. x.d \in Nat \ {0} /\ DaysScale * x.n \in Nat
    BY <1>1, <1>4
  <2>2. Rounded(DaysScale * x.n, x.d) \in Nat /\ Rounded(0, x.d) = 0
    BY <2>1, RoundedTyped
  <2>3. stock[l] = 0 => Rounded(DaysScale * x.n, x.d) = 0
    BY <1>1, <2>2
  <2> QED
    BY <1>1, <1>2, <1>4, <2>2, <2>3 DEF Never, x
<1> QED
  BY <1>3, <1>4

\* What lasts fewer days than some number lasts fewer than any greater one.
LEMMA LaterIsLater ==
    ASSUME NEW x, x.n \in Nat, x.d \in Nat, NEW j \in Nat, NEW k \in Nat, j <= k
    PROVE  /\ LE(x, j) => LE(x, k)
           /\ GT(x, k) => GT(x, j) /\ ~LE(x, k)
           /\ x.d > 0 => LE(x, k) \/ GT(x, k)
<1>1. j * x.d <= k * x.d /\ j * x.d \in Nat /\ k * x.d \in Nat
  BY ProductsAreMonotone
<1> QED
  BY <1>1 DEF LE, GT

LEMMA BandFacts ==
    /\ Len(BandEnds) \in Nat \ {0} /\ DOMAIN BandEnds = 1 .. Len(BandEnds)
    /\ \A k \in 1 .. Len(BandEnds) : BandEnds[k] \in Nat
    /\ \A j, k \in 1 .. Len(BandEnds) : j <= k => BandEnds[j] <= BandEnds[k]
    /\ CriticalDays \in Nat /\ BandEnds[1] < CriticalDays
<1>1. BandEnds \in Seq(Nat) /\ BandEnds # << >>
  BY ProductScreensAssumption
<1>2. DOMAIN BandEnds = 1 .. Len(BandEnds) /\ Len(BandEnds) \in Nat
      /\ \A k \in 1 .. Len(BandEnds) : BandEnds[k] \in Nat
  BY <1>1, ElementOfSeq
<1>3. Len(BandEnds) # 0
  BY <1>1, EmptySeq
<1>4. \A j, k \in 1 .. Len(BandEnds) : j < k => BandEnds[j] < BandEnds[k]
  BY <1>2, ProductScreensAssumption
<1>5. \A j, k \in 1 .. Len(BandEnds) : j <= k => BandEnds[j] <= BandEnds[k]
  BY <1>2, <1>4
<1> QED
  BY <1>2, <1>3, <1>5, ProductScreensAssumption

\* A line whose days are known is in one band and no other.
LEMMA OneBand ==
    ASSUME StockTyped, SalesTyped, NEW R \in SUBSET DOMAIN stock, NEW l \in R
    PROVE  Cardinality({k \in RiskBands : l \in RiskBand(R, k)})
                = (IF DaysRemaining(l) = Never THEN 0 ELSE 1)
<1> DEFINE x == DaysRemaining(l)
           m == Len(BandEnds)
           In(k) == l \in RiskBand(R, k)
<1>1. x.n \in Nat /\ x.d \in Nat /\ (x = Never <=> x.d = 0)
  BY DaysFacts
<1>2. m \in Nat \ {0} /\ RiskBands = 1 .. m + 1
  BY BandFacts DEF RiskBands
<1>3. \A k \in RiskBands : In(k) <=>
        /\ x # Never
        /\ k > 1 => GT(x, BandEnds[k - 1])
        /\ k <= m => LE(x, BandEnds[k])
  BY DEF RiskBand
<1> HIDE DEF In, x
<1>4. CASE x = Never
  <2>1. {k \in RiskBands : In(k)} = {}
    BY <1>3, <1>4
  <2> QED
    BY <1>4, <2>1, FS_EmptySet DEF In, x
<1>5. CASE x # Never
  <2> DEFINE G == {0} \cup {k \in 1 .. m : GT(x, BandEnds[k])}
             t == Max(G)
  <2>1. t \in G /\ \A k \in G : t >= k
    <3>1. IsFiniteSet(1 .. m) /\ IsFiniteSet({0})
      <4>1. 1 \in Int /\ m \in Int
        BY <1>2
      <4> HIDE DEF m
      <4> QED
        BY <4>1, FS_Interval, FS_Singleton
    <3>2. IsFiniteSet({k \in 1 .. m : GT(x, BandEnds[k])})
      BY <3>1, FS_Subset
    <3>3. IsFiniteSet(G)
      BY <3>1, <3>2, FS_Union
    <3>4. G \subseteq Int /\ G # {}
      BY <1>2
    <3> HIDE DEF G
    <3> QED
      BY <3>3, <3>4, MaxIsGreatest
  <2> HIDE DEF t
  <2>2. t \in 0 .. m /\ (t > 0 => GT(x, BandEnds[t]))
        /\ \A k \in 1 .. m : k > t => ~GT(x, BandEnds[k])
    BY <1>2, <2>1
  <2> HIDE DEF G
  <2>3. \A k \in 1 .. m : LE(x, BandEnds[k]) <=> ~GT(x, BandEnds[k])
    BY <1>1, <1>5, BandFacts, LaterIsLater
  <2>4. PICK k \in RiskBands : k = t + 1
    BY <1>2, <2>2
  <2>5. In(k)
    <3>1. k - 1 = t /\ k \in Int
      BY <2>2, <2>4
    <3>2. k > 1 => GT(x, BandEnds[k - 1])
      BY <2>2, <2>4, <3>1
    <3>3. k <= m => LE(x, BandEnds[k])
      BY <1>2, <2>2, <2>3, <2>4
    <3> QED
      BY <1>3, <1>5, <3>2, <3>3
  <2>6. ASSUME NEW j \in RiskBands, In(j) PROVE j = k
    <3>1. ASSUME j < t + 1 PROVE FALSE
      <4>1. j \in 1 .. m /\ t \in 1 .. m /\ j <= t
        BY <1>2, <2>2, <3>1
      <4>2. GT(x, BandEnds[j])
        BY <1>1, <2>2, <4>1, BandFacts, LaterIsLater
      <4> QED
        BY <1>3, <2>3, <2>6, <4>1, <4>2
    <3>2. ASSUME j > t + 1 PROVE FALSE
      <4>1. j - 1 \in 1 .. m /\ j - 1 > t /\ j > 1
        BY <1>2, <2>2, <3>2
      <4> QED
        BY <1>3, <2>2, <2>6, <4>1
    <3> QED
      BY <1>2, <2>2, <2>4, <3>1, <3>2
  <2>7. {j \in RiskBands : In(j)} = {k}
    BY <2>5, <2>6
  <2> QED
    BY <1>5, <2>7, FS_Singleton DEF In, x
<1> QED
  BY <1>4, <1>5

\* What is in the first band is critical: its days are rounded to less than the limit
\* of the band, which is less than the limit of what is critical by a day.
LEMMA FirstBandIsCritical ==
    ASSUME StockTyped, SalesTyped, NEW l \in RiskBand(DOMAIN stock, 1)
    PROVE  Severity(l) = "critical"
<1> DEFINE left == DaysLeft(l)
           b == BandEnds[1]
<1>1. l \in DOMAIN stock /\ DaysRemaining(l) # Never /\ LE(DaysRemaining(l), b)
  BY BandFacts DEF RiskBand
<1>2. /\ left.n \in Nat /\ left.d \in Nat \ {0} /\ left # Never
      /\ DaysScale \in Nat \ {0} /\ b \in Nat /\ CriticalDays \in Nat /\ b < CriticalDays
  <2>1. left # Never
    BY <1>1, DaysFacts
  <2>2. left.n \in Nat /\ left.d \in Nat /\ (left = Never <=> left.d = 0)
    BY <1>1, DaysLeftFacts
  <2>3. /\ DaysScale \in Nat \ {0} /\ b \in Nat
        /\ CriticalDays \in Nat /\ b < CriticalDays
    BY BandFacts, ProductScreensAssumption
  <2> HIDE DEF left
  <2> QED
    BY <2>1, <2>2, <2>3
<1>3. DaysRemaining(l) = [n |-> Rounded(DaysScale * left.n, left.d), d |-> DaysScale]
  BY <1>1, <1>2 DEF DaysRemaining
<1> DEFINE n == left.n
           d == left.d
<1>4. Rounded(DaysScale * n, d) <= b * DaysScale
  BY <1>1, <1>3 DEF LE
<1> HIDE DEF left, b
<1>5. n <= CriticalDays * d
  <2> SUFFICES ASSUME n > CriticalDays * d PROVE FALSE
    BY <1>2
  <2> DEFINE k == DaysScale * (b + 1)
             r == Rounded(DaysScale * n, d)
  <2>1. (b + 1) * d <= CriticalDays * d
    BY <1>2, ProductsAreMonotone
  <2>2. (b + 1) * d \in Int /\ CriticalDays * d \in Int
    BY <1>2
  <2>3. DaysScale * ((b + 1) * d) <= DaysScale * n
    <3>1. (b + 1) * d <= n
      BY <1>2, <2>1, <2>2
    <3> HIDE DEF n, d
    <3> QED
      BY <1>2, <2>2, <3>1, ProductsAreMonotone DEF n
  <2>4. DaysScale * ((b + 1) * d) = k * d /\ k \in Int /\ DaysScale * n \in Int
    BY <1>2
  <2>5. k = b * DaysScale + DaysScale /\ b * DaysScale \in Int
    BY <1>2
  <2> HIDE DEF k
  <2>6. r \in Int /\ r >= k
    BY <1>2, <2>3, <2>4, RoundedKeepsOrder, RoundedIsNear
  <2> HIDE DEF r
  <2>7. r <= b * DaysScale
    BY <1>4 DEF r
  <2> QED
    BY <1>2, <2>5, <2>6, <2>7
<1>6. LE(left, CriticalDays)
  BY <1>2, <1>5 DEF LE
<1> QED
  BY <1>1, <1>2, <1>6 DEF Severity, left

LEMMA EmptyIsInTheFirstBand ==
    ASSUME StockTyped, SalesTyped, NEW l \in DOMAIN stock, stock[l] = 0
    PROVE  l \in RiskBand(DOMAIN stock, 1)
<1>1. DaysRemaining(l) = [n |-> 0, d |-> DaysScale] /\ DaysScale \in Nat \ {0}
  BY DaysFacts, ProductScreensAssumption
<1>2. BandEnds[1] * DaysScale \in Nat /\ 1 <= Len(BandEnds)
  <2>1. BandEnds[1] \in Nat /\ 1 <= Len(BandEnds)
    BY BandFacts
  <2> QED
    BY <1>1, <2>1
<1>3. LE(DaysRemaining(l), BandEnds[1]) /\ DaysRemaining(l) # Never
  BY <1>1, <1>2 DEF LE, Never
<1> QED
  BY <1>3 DEF RiskBand

\* A rate somebody may rely on is the rate of something that sold.
LEMMA SureMeansKnown ==
    ASSUME StockTyped, SalesTyped, NEW l \in DOMAIN stock, Confidence(l) # "low"
    PROVE  DaysRemaining(l) # Never
<1>1. Lookback \in Nat \ {0}
  BY TradingAssumption
<1>2. ActiveDays(l) # {}
  <2> SUFFICES ASSUME ActiveDays(l) = {} PROVE FALSE
    OBVIOUS
  <2>1. Cardinality(ActiveDays(l)) = 0
    BY FS_EmptySet
  <2> QED
    BY <1>1, <2>1 DEF Confidence
<1>3. PICK d \in Recent(Lookback) : SoldAt(l, {d}) > 0
  BY <1>2 DEF ActiveDays
<1>4. PICK i \in DOMAIN sales :
        sales[i].day \in {d} /\ sales[i].warehouse = l[2] /\ Of(i, l[1]) > 0
  BY <1>3, SoldAtFacts
<1>5. sales[i].day \in Recent(Lookback)
  BY <1>3, <1>4
<1>6. SoldAt(l, Recent(Lookback)) > 0
  BY <1>4, <1>5, SoldAtFacts
<1> QED
  BY <1>6, DaysFacts

\* A line that has not sold for longer than rates are taken over has no rate.
LEMMA DeadHasNoRate ==
    ASSUME StockTyped, SalesTyped, today \in Days, NEW l \in DeadLines
    PROVE  Severity(l) \in {"idle", "warning"}
<1>1. l \in DOMAIN stock /\ stock[l] > 0 /\ SoldAt(l, Recent(DeadDays)) = 0
  BY DEF DeadLines
<1>2. Recent(Lookback) \subseteq Recent(DeadDays)
  <2>1. Lookback \in Int /\ DeadDays \in Int /\ Lookback <= DeadDays
    BY TradingAssumption, ProductScreensAssumption
  <2> QED
    BY <2>1, WindowsAreDays
<1>3. ~(SoldAt(l, Recent(Lookback)) > 0)
  BY <1>1, <1>2, SoldAtFacts
<1>4. DaysLeft(l) = Never /\ stock[l] \in Nat
  BY <1>1, <1>3, SoldAtFacts, DaysLeftFacts
<1> QED
  BY <1>1, <1>4 DEF Severity

\* A window of n days has no more than n days in it.
LEMMA WindowIsNoLonger ==
    ASSUME today \in Days, NEW n \in Nat
    PROVE  Cardinality(Recent(n)) \in Nat /\ Cardinality(Recent(n)) <= n
<1> DEFINE I == today - n + 1 .. today
<1>1. today \in Int /\ today - n + 1 \in Int /\ Days \subseteq Nat
  BY WindowsAreDays
<1>2. Recent(n) \in SUBSET I
  <2> SUFFICES ASSUME NEW d \in Recent(n) PROVE d \in I
    OBVIOUS
  <2>1. n \in Int
    OBVIOUS
  <2>2. d \in Nat /\ d <= today /\ d > today - n
    BY <2>1, WindowsAreDays
  <2> QED
    BY <1>1, <2>2
<1>3. IsFiniteSet(I) /\ Cardinality(I) = (IF today - n + 1 > today THEN 0
                                          ELSE today - (today - n + 1) + 1)
  BY <1>1, FS_Interval
<1>4. Cardinality(I) = n
  BY <1>1, <1>3
<1> HIDE DEF I
<1> QED
  BY <1>2, <1>3, <1>4, FS_Subset, FS_CardinalityType

OrZero(g, D) == {0} \cup {g[d] : d \in D}

LEMMA LargestOf ==
    ASSUME NEW D, IsFiniteSet(D), NEW g, \A d \in D : g[d] \in Nat
    PROVE  Max(OrZero(g, D)) \in Nat /\ \A d \in D : g[d] <= Max(OrZero(g, D))
<1> DEFINE W == {g[d] : d \in D}
           V == {0} \cup W
           h == [d \in D |-> g[d]]
<1>1. IsFiniteSet(W)
  <2>1. h \in Surjection(D, W)
    BY DEF Surjection
  <2> HIDE DEF W, h
  <2> QED
    BY <2>1, FS_Surjection
<1>2. W \subseteq Nat /\ \A d \in D : g[d] \in W
  OBVIOUS
<1> HIDE DEF W
<1>3. IsFiniteSet(V)
  BY <1>1, FS_Singleton, FS_Union
<1>4. V \subseteq Nat /\ V # {} /\ \A d \in D : g[d] \in V
  BY <1>2
<1> HIDE DEF V
<1>5. Max(V) \in V /\ \A v \in V : Max(V) >= v
  <2>1. V \subseteq Int
    BY <1>4
  <2> QED
    BY <1>3, <1>4, <2>1, MaxIsGreatest
<1>6. Max(V) \in Nat /\ \A d \in D : g[d] <= Max(V)
  <2>1. Max(V) \in Nat
    BY <1>4, <1>5
  <2>2. ASSUME NEW d \in D PROVE g[d] <= Max(V)
    <3>1. g[d] \in V /\ g[d] \in Nat
      BY <1>4
    <3> QED
      BY <1>5, <2>1, <3>1
  <2> QED
    BY <2>1, <2>2
<1> QED
  BY <1>6 DEF V, W, OrZero

\* What sold in the window is no more than its busiest day, every day of it.
LEMMA PeakBoundsTheWindow ==
    ASSUME today \in Days, SalesTyped, NEW l
    PROVE  /\ Peak(l) \in Nat
           /\ SoldAt(l, Recent(Lookback)) <= Peak(l) * Lookback
<1> DEFINE D == Recent(Lookback)
           daily == [d \in D |-> SoldAt(l, {d})]
           S == InDaysAt(D, l[2])
           f == OfProduct(l[1])
<1>1. Lookback \in Nat /\ IsFiniteSet(D) /\ Cardinality(D) \in Nat /\ Cardinality(D) <= Lookback
  <2>1. Lookback \in Nat /\ Lookback \in Int
    BY TradingAssumption
  <2> QED
    BY <2>1, WindowsAreDays, WindowIsNoLonger
<1>2. \A d \in D : daily[d] = SoldAt(l, {d}) /\ daily[d] \in Nat
  BY SoldAtTyped
<1>3. Peak(l) = Max(OrZero(daily, D))
  <2>1. {daily[d] : d \in D} = {SoldAt(l, {d}) : d \in D}
    BY <1>2
  <2> QED
    BY <2>1 DEF Peak, OrZero
<1>4. SoldAt(l, D) = SumFunctionOnSet(f, S) /\ SoldAt(l, D) \in Nat
  BY SoldAtFacts
<1>5. \A d \in D : daily[d] = SumFunctionOnSet(f, OnDay(S, d))
  <2>1. \A d \in D : OnDay(S, d) = InDaysAt({d}, l[2])
    BY DEF InDaysAt, InDays, OnDay
  <2> QED
    BY <1>2, <2>1, SoldAtFacts
<1>6. S \in SUBSET InDays(D) /\ \A i \in DOMAIN sales : f[i] \in Int
  BY SalesFinite DEF InDaysAt, OfProduct
<1> HIDE DEF D, daily, S, f
<1>7. Peak(l) \in Nat /\ \A d \in D : daily[d] <= Peak(l)
  BY <1>1, <1>2, <1>3, LargestOf
<1>8. SoldAt(l, D) = SumFunctionOnSet(daily, D)
  BY <1>1, <1>4, <1>5, <1>6, SoldDayByDay
<1>9. SumFunctionOnSet(daily, D) <= Peak(l) * Cardinality(D)
  BY <1>1, <1>2, <1>7, SumIsBounded
<1>10. Peak(l) * Cardinality(D) <= Peak(l) * Lookback
       /\ Peak(l) * Cardinality(D) \in Int /\ Peak(l) * Lookback \in Int
  BY <1>1, <1>7, ProductsAreMonotone
<1> QED
  BY <1>4, <1>7, <1>8, <1>9, <1>10 DEF D

\* Stock at the suggested reorder point outlasts the lead time.
LEMMA ReorderPointLasts ==
    ASSUME today \in Days, StockTyped, SalesTyped, NEW l \in DOMAIN stock,
           NEW n \in ReorderAt(l), stock[l] >= n
    PROVE  DaysRemaining(l).n >= LeadTime * DaysRemaining(l).d
<1> DEFINE u == Usage(l)
           k == Peak(l)
           left == DaysLeft(l)
<1>1. /\ stock[l] \in Nat /\ u \in Nat /\ k \in Nat /\ u <= UsageScale * k
      /\ UsageScale \in Nat /\ DaysScale \in Nat \ {0}
      /\ HorizonCap \in Nat /\ LeadTime \in Nat /\ LeadTime <= HorizonCap
  <2>1. k \in Nat /\ SoldAt(l, Recent(Lookback)) <= k * Lookback
    BY PeakBoundsTheWindow
  <2> QED
    BY <2>1, StockFacts, UsageFacts, ProductScreensAssumption
<1>2. u # 0 /\ n = Max({1, LeadTime * k})
  BY DEF ReorderAt
<1>3. LeadTime * k \in Nat
  BY <1>1
<1>4. n >= 1 /\ n >= LeadTime * k /\ n \in Nat
  <2>1. IsFiniteSet({1, LeadTime * k})
    <3>1. IsFiniteSet({1}) /\ IsFiniteSet({LeadTime * k})
      BY FS_Singleton
    <3>2. IsFiniteSet({1} \cup {LeadTime * k})
      BY <3>1, FS_Union
    <3>3. {1} \cup {LeadTime * k} = {1, LeadTime * k}
      OBVIOUS
    <3> QED
      BY <3>2, <3>3
  <2>2. {1, LeadTime * k} \subseteq Int /\ {1, LeadTime * k} # {}
    BY <1>3
  <2>3. n \in {1, LeadTime * k} /\ \A y \in {1, LeadTime * k} : n >= y
    BY <1>2, <2>1, <2>2, MaxIsGreatest
  <2> QED
    BY <1>3, <2>3
<1>5. left = IF stock[l] * UsageScale > HorizonCap * u THEN [n |-> HorizonCap, d |-> 1]
             ELSE [n |-> stock[l] * UsageScale, d |-> u]
  BY <1>1, <1>2, <1>4 DEF DaysLeft
<1>6. stock[l] * UsageScale >= LeadTime * u
  <2>1. (LeadTime * k) * UsageScale <= stock[l] * UsageScale
    BY <1>1, <1>3, <1>4, ProductsAreMonotone
  <2>2. UsageScale * k \in Int
    BY <1>1
  <2>3. LeadTime * u <= LeadTime * (UsageScale * k)
    BY <1>1, <2>2, ProductsAreMonotone
  <2>4. LeadTime * (UsageScale * k) = (LeadTime * k) * UsageScale
    BY <1>1
  <2>5. /\ LeadTime * u \in Int /\ stock[l] * UsageScale \in Int
        /\ (LeadTime * k) * UsageScale \in Int
    BY <1>1, <1>3
  <2> QED
    BY <2>1, <2>3, <2>4, <2>5
<1>7. /\ left.n \in Nat /\ left.d \in Nat \ {0} /\ left # Never
      /\ left.n >= LeadTime * left.d
  <2>1. left.n \in Nat /\ left.d \in Nat /\ (left = Never <=> left.d = 0)
    BY DaysLeftFacts
  <2> HIDE DEF u, k
  <2>2. left.d # 0 /\ left.n >= LeadTime * left.d
    BY <1>1, <1>2, <1>5, <1>6
  <2> QED
    BY <2>1, <2>2
<1>8. DaysRemaining(l) = [n |-> Rounded(DaysScale * left.n, left.d), d |-> DaysScale]
  BY <1>7 DEF DaysRemaining
<1> HIDE DEF u, k, left
<1> DEFINE m == LeadTime * DaysScale
<1>9. m \in Int /\ DaysScale * left.n \in Int /\ DaysScale * left.n >= m * left.d
  <2>1. LeadTime * left.d \in Int
    BY <1>1, <1>7
  <2>2. DaysScale * (LeadTime * left.d) <= DaysScale * left.n
    BY <1>1, <1>7, <2>1, ProductsAreMonotone
  <2>3. DaysScale * (LeadTime * left.d) = m * left.d
    BY <1>1, <1>7
  <2> QED
    BY <1>1, <1>7, <2>2, <2>3
<1> HIDE DEF m
<1>10. Rounded(DaysScale * left.n, left.d) >= m
  BY <1>7, <1>9, RoundedKeepsOrder
<1> QED
  BY <1>8, <1>10 DEF m

-----------------------------------------------------------------------------
(* The lists of lines.                                                     *)

LEMMA RisksFacts ==
    ASSUME StockTyped, NEW R \in Risks
    PROVE  /\ R \in SUBSET DOMAIN stock /\ IsFiniteSet(R)
           /\ \A l \in DOMAIN stock \ R :
                /\ Cardinality(R) = RiskLimit
                /\ \A k \in R : ~Sooner(l, k)
<1> DEFINE D == DOMAIN stock
           before == {kl \in D \X D : Sooner(kl[1], kl[2])}
<1>1. IsFiniteSet(D) /\ RiskLimit \in Nat
  BY StockFacts, ProductScreensAssumption
<1>2. R \in Firsts(D, RiskLimit, before)
  BY DEF Risks
<1>3. \A k, l \in D : <<k, l>> \in before <=> Sooner(k, l)
  OBVIOUS
<1> HIDE DEF D, before
<1>4. /\ R \in SUBSET D /\ IsFiniteSet(R)
      /\ \A l \in D \ R : Cardinality(R) = RiskLimit /\ \A k \in R : <<l, k>> \notin before
  BY <1>1, <1>2, FirstsFacts
<1>5. ASSUME NEW l \in D \ R, NEW k \in R PROVE ~Sooner(l, k)
  BY <1>3, <1>4
<1> QED
  BY <1>4, <1>5 DEF D

\* What a list leaves out of a band it leaves out for what is in that band or before it.
LEMMA CutBandsAreFull ==
    ASSUME StockTyped, SalesTyped, NEW R \in Risks,
           NEW k \in RiskBands, NEW l \in RiskBand(DOMAIN stock, k) \ R, NEW x \in R
    PROVE  \E j \in 1 .. k : x \in RiskBand(R, j)
<1> DEFINE y == DaysRemaining(l)
           z == DaysRemaining(x)
           m == Len(BandEnds)
<1>1. /\ l \in DOMAIN stock /\ x \in DOMAIN stock /\ ~Sooner(l, x)
      /\ y # Never /\ (k <= m => LE(y, BandEnds[k]))
  BY RisksFacts DEF RiskBand
<1>2. /\ y.n \in Nat /\ z.n \in Nat /\ y.d = DaysScale /\ DaysScale \in Nat \ {0}
      /\ (z # Never => z.d = DaysScale)
  BY <1>1, DaysFacts, ProductScreensAssumption
<1>3. z # Never /\ z.n <= y.n
  BY <1>1, <1>2 DEF Sooner
<1>4. RiskBands = 1 .. m + 1 /\ m \in Nat \ {0}
  BY BandFacts DEF RiskBands
<1>5. PICK j \in RiskBands : x \in RiskBand(R, j)
  <2>1. R \in SUBSET DOMAIN stock
    BY RisksFacts
  <2>2. Cardinality({j \in RiskBands : x \in RiskBand(R, j)}) = 1
    BY <1>3, <2>1, OneBand
  <2>3. {j \in RiskBands : x \in RiskBand(R, j)} # {}
    BY <2>2, FS_EmptySet
  <2> QED
    BY <2>3
<1>6. j > 1 => GT(z, BandEnds[j - 1])
  BY <1>5 DEF RiskBand
<1> HIDE DEF y, z, m
<1>7. ASSUME j > k PROVE FALSE
  <2>1. j - 1 \in 1 .. m /\ k \in 1 .. m /\ k <= j - 1 /\ j > 1
    BY <1>4, <1>7
  <2>2. BandEnds[k] <= BandEnds[j - 1] /\ BandEnds[k] \in Nat /\ BandEnds[j - 1] \in Nat
    BY <2>1, BandFacts DEF m
  <2>3. BandEnds[k] * DaysScale <= BandEnds[j - 1] * DaysScale
    BY <1>2, <2>2, ProductsAreMonotone
  <2>4. y.n <= BandEnds[k] * DaysScale /\ z.n > BandEnds[j - 1] * DaysScale
    BY <1>1, <1>2, <1>3, <1>6, <2>1 DEF LE, GT
  <2>5. BandEnds[k] * DaysScale \in Int /\ BandEnds[j - 1] * DaysScale \in Int
    BY <1>2, <2>2
  <2> QED
    BY <1>2, <1>3, <2>3, <2>4, <2>5
<1>8. j \in 1 .. k
  BY <1>4, <1>7
<1> QED
  BY <1>5, <1>8

\* Every row has one severity.
LEMMA SeveritiesAreParts ==
    ASSUME NEW R, IsFiniteSet(R)
    PROVE  Total(DOMAIN Severities(R), LAMBDA s : Cardinality(Severities(R)[s]))
                = Cardinality(R)
<1> DEFINE K == {"critical", "warning", "watch", "ok", "idle"}
           key == [l \in R |-> Severity(l)]
           part == [s \in K |-> Cardinality(Severities(R)[s])]
<1>1. DOMAIN Severities(R) = K
      /\ \A s \in K : Severities(R)[s] = {l \in R : Severity(l) = s}
  BY DEF Severities
<1>2. key \in [R -> K]
  BY DEF Severity
<1>3. \A s \in K : part[s] = Cardinality({l \in R : key[l] = s})
  <2>1. \A s \in K : {l \in R : key[l] = s} = {l \in R : Severity(l) = s}
    OBVIOUS
  <2> QED
    BY <1>1, <2>1
<1>4. Total(DOMAIN Severities(R), LAMBDA s : Cardinality(Severities(R)[s]))
        = SumFunctionOnSet(part, K)
  BY <1>1 DEF Total
<1>5. IsFiniteSet(K)
  <2>1. /\ IsFiniteSet({"critical"}) /\ IsFiniteSet({"warning"}) /\ IsFiniteSet({"watch"})
        /\ IsFiniteSet({"ok"}) /\ IsFiniteSet({"idle"})
    BY FS_Singleton
  <2>2. IsFiniteSet({"critical"} \cup {"warning"}) /\ IsFiniteSet({"watch"} \cup {"ok"})
    BY <2>1, FS_Union
  <2>3. IsFiniteSet(({"critical"} \cup {"warning"}) \cup ({"watch"} \cup {"ok"}))
    BY <2>2, FS_Union
  <2>4. IsFiniteSet((({"critical"} \cup {"warning"}) \cup ({"watch"} \cup {"ok"})) \cup {"idle"})
    BY <2>1, <2>3, FS_Union
  <2>5. K = (({"critical"} \cup {"warning"}) \cup ({"watch"} \cup {"ok"})) \cup {"idle"}
    OBVIOUS
  <2> QED
    BY <2>4, <2>5
<1> HIDE DEF K, key, part
<1>6. Cardinality(R) = SumFunctionOnSet(part, K)
  BY <1>2, <1>3, <1>5, CardinalityOfParts, ZenonT(60)
<1> QED
  BY <1>4, <1>6

\* What runs out sooner than the soonest on the list has run out.
LEMMA SoonestIsFirst ==
    ASSUME StockTyped, SalesTyped, NEW R \in Risks,
           NEW l \in Soonest(R), NEW k \in DOMAIN stock, Sooner(k, l)
    PROVE  stock[k] = 0
<1> SUFFICES ASSUME stock[k] > 0 PROVE FALSE
  BY StockFacts
<1> DEFINE S == {j \in R : DaysRemaining(j) # Never /\ stock[j] > 0}
<1>1. l \in S /\ \A j \in S : ~Sooner(j, l)
  BY DEF Soonest
<1>2. k \in R
  BY <1>1, RisksFacts
<1>3. DaysRemaining(k) = Never
  BY <1>1, <1>2
<1> QED
  BY <1>1, <1>3 DEF Sooner

\* What is dead, what is too much and the rest are worth what the stock is worth.
LEMMA ValuesAddUp ==
    ASSUME StockTyped, NEW R \in SUBSET DOMAIN stock
    PROVE  InventoryHealth(R).dead + InventoryHealth(R).excess + InventoryHealth(R).healthy
                = Position.value
<1> DEFINE D == DOMAIN stock
           E == ExcessLines(R)
<1>1. /\ InventoryHealth(R).dead = Value(DeadLines) /\ InventoryHealth(R).excess = Value(E)
      /\ InventoryHealth(R).healthy
            = AtLeastZero(Value(D) - Value(DeadLines) - Value(E))
      /\ Position.value = Value(D)
  BY DEF InventoryHealth, Position
<1>2. /\ DeadLines \in SUBSET D /\ E \in SUBSET D
      /\ DeadLines \cap E = {} /\ DeadLines \cup E \in SUBSET D
  BY DEF DeadLines, ExcessLines
<1> HIDE DEF E
<1>3. \A l \in D : WorthOf[l] \in Nat
  BY StockFacts DEF WorthOf
<1>4. /\ Value(DeadLines) = SumFunctionOnSet(WorthOf, DeadLines) /\ Value(DeadLines) \in Nat
      /\ Value(E) = SumFunctionOnSet(WorthOf, E) /\ Value(E) \in Nat
      /\ Value(D) = SumFunctionOnSet(WorthOf, D) /\ Value(D) \in Nat
      /\ IsFiniteSet(DeadLines) /\ IsFiniteSet(E) /\ IsFiniteSet(D)
  BY <1>2, StockIsSummed
<1>5. \A l \in DeadLines \cup E : WorthOf[l] \in Int
  BY <1>2, <1>3
<1>6. SumFunctionOnSet(WorthOf, DeadLines \cup E)
        = SumFunctionOnSet(WorthOf, DeadLines) + SumFunctionOnSet(WorthOf, E)
  BY <1>2, <1>4, <1>5, SumOfDisjoint, ZenonT(60)
<1> HIDE DEF D
<1>7. SumFunctionOnSet(WorthOf, DeadLines \cup E) <= SumFunctionOnSet(WorthOf, D)
  BY <1>2, <1>3, <1>4, SumMonotone
<1> QED
  BY <1>1, <1>4, <1>6, <1>7 DEF AtLeastZero

LEMMA PerformanceIsTheNode ==
    ASSUME StockTyped, NEW w \in Warehouses, NEW n
    PROVE  \A f \in {"value", "lines", "out", "low", "alerts"} :
                Performance(w, n)[f] = Node(w)[f]
<1>1. /\ Node(w).value = Value(At(w)) /\ Node(w).lines = Cardinality(At(w))
      /\ Node(w).low = Cardinality(LowIn(At(w)))
      /\ Node(w).out = Cardinality(OutIn(At(w)))
      /\ Node(w).alerts = Cardinality(Alerted(At(w)))
  BY NodeFacts DEF NodeFigures
<1>2. {l \in At(w) : Reorder[l] > 0 /\ 0 < stock[l] /\ stock[l] <= Reorder[l]} = LowIn(At(w))
  BY StockFacts, LowAndOut
<1>3. /\ Performance(w, n).value = Value(At(w)) /\ Performance(w, n).lines = Cardinality(At(w))
      /\ Performance(w, n).out = Cardinality(OutIn(At(w)))
      /\ Performance(w, n).low = Cardinality({l \in At(w) : /\ Reorder[l] > 0 /\ 0 < stock[l]
                                                            /\ stock[l] <= Reorder[l]})
      /\ Performance(w, n).alerts = Cardinality(Alerted(At(w)))
  BY DEF Performance, OutIn
<1> QED
  BY <1>1, <1>2, <1>3

-----------------------------------------------------------------------------
(* One product: what the hub and its own page call it.                     *)

LinesOf(p) == {l \in DOMAIN stock : l[1] = p}

LEMMA OnHandFacts ==
    ASSUME StockTyped, NEW p
    PROVE  /\ OnHand(p) \in Nat
           /\ OnHand(p) = SumFunctionOnSet(stock, LinesOf(p))
           /\ OnHand(p) > 0 <=> \E l \in DOMAIN stock : l[1] = p /\ stock[l] > 0
<1>1. LinesOf(p) \in SUBSET DOMAIN stock /\ OnHand(p) = Units(LinesOf(p))
  BY DEF LinesOf, OnHand
<1>2. /\ IsFiniteSet(LinesOf(p)) /\ Units(LinesOf(p)) = SumFunctionOnSet(stock, LinesOf(p))
      /\ Units(LinesOf(p)) \in Nat
  BY <1>1, StockIsSummed
<1>3. \A l \in LinesOf(p) : stock[l] \in Nat
  BY <1>1, StockFacts
<1>4. SumFunctionOnSet(stock, LinesOf(p)) > 0 <=> \E l \in LinesOf(p) : stock[l] > 0
  BY <1>2, <1>3, SumIsPositive
<1> QED
  BY <1>1, <1>2, <1>4 DEF LinesOf

\* A product is idle when nothing of it has sold for as long as makes a line dead.
LEMMA IdleHasNotSold ==
    ASSUME SalesTyped, today \in Days, NEW p
    PROVE  Idle(p) <=> Sold(p, Recent(DeadDays)) = 0
<1> DEFINE D == {d \in Days : Sold(p, {d}) > 0}
           m == Max(D)
<1>1. Days \subseteq Nat /\ DeadDays \in Int /\ today \in Nat
  BY WindowsAreDays, ProductScreensAssumption
<1>2. Sold(p, Recent(DeadDays)) \in Nat
  BY SoldFacts
<1>3. \A d : d \in D <=> d \in Days /\ \E i \in DOMAIN sales : sales[i].day = d /\ Of(i, p) > 0
  <2> SUFFICES ASSUME NEW d
               PROVE  d \in D <=> /\ d \in Days
                                  /\ \E i \in DOMAIN sales : sales[i].day = d /\ Of(i, p) > 0
    OBVIOUS
  <2>1. Sold(p, {d}) > 0 <=> \E i \in DOMAIN sales : sales[i].day \in {d} /\ Of(i, p) > 0
    BY SoldFacts
  <2> QED
    BY <2>1
<1>4. \A d \in D : d <= today
  BY <1>3, SalesFinite, WindowsAreDays
<1>5. Sold(p, Recent(DeadDays)) > 0 <=> \E d \in D : d > today - DeadDays
  <2>1. Sold(p, Recent(DeadDays)) > 0
            <=> \E i \in DOMAIN sales : sales[i].day \in Recent(DeadDays) /\ Of(i, p) > 0
    BY SoldFacts
  <2> HIDE DEF D
  <2>2. ASSUME NEW i \in DOMAIN sales, sales[i].day \in Recent(DeadDays), Of(i, p) > 0
        PROVE  \E d \in D : d > today - DeadDays
    BY <1>3, <2>2 DEF Recent
  <2>3. ASSUME NEW d \in D, d > today - DeadDays
        PROVE  \E i \in DOMAIN sales : sales[i].day \in Recent(DeadDays) /\ Of(i, p) > 0
    <3>1. d \in Recent(DeadDays)
      BY <1>3, <1>4, <2>3 DEF Recent
    <3> QED
      BY <1>3, <3>1
  <2> QED
    BY <2>1, <2>2, <2>3
<1>6. LastSale(p) = IF D = {} THEN {} ELSE {m}
  BY DEF LastSale
<1>7. Idle(p) <=> \A d \in LastSale(p) : today - d >= DeadDays
  BY DEF Idle, DaysSince
<1>8. D # {} => m \in D /\ \A d \in D : m >= d
  <2>1. IsFiniteSet(D) /\ D \subseteq Int /\ D \subseteq Days
    <3>1. D \in SUBSET Days
      OBVIOUS
    <3> HIDE DEF D
    <3>2. IsFiniteSet(D)
      BY <3>1, LinesFinite, FS_Subset
    <3> QED
      BY <1>1, <3>1, <3>2
  <2> HIDE DEF D
  <2> QED
    BY <2>1, MaxIsGreatest
<1>9. \A d \in D : d \in Nat
  BY <1>1
<1> HIDE DEF D, m
<1>10. CASE D = {}
  BY <1>2, <1>5, <1>6, <1>7, <1>10
<1>11. CASE D # {}
  <2>1. Idle(p) <=> today - m >= DeadDays
    BY <1>6, <1>7, <1>11
  <2>2. (\E d \in D : d > today - DeadDays) <=> m > today - DeadDays
    <3>1. m \in D /\ m \in Nat /\ \A d \in D : d \in Nat /\ m >= d
      BY <1>8, <1>9, <1>11
    <3>2. ASSUME NEW d \in D, d > today - DeadDays PROVE m > today - DeadDays
      BY <1>1, <3>1, <3>2
    <3> QED
      BY <3>1, <3>2
  <2> QED
    BY <1>1, <1>2, <1>5, <1>8, <1>9, <1>11, <2>1, <2>2
<1> QED
  BY <1>10, <1>11

LEMMA CoverFacts ==
    ASSUME StockTyped, SalesTyped, NEW p, NEW n \in Nat
    PROVE  /\ Sold(p, Recent(n)) \in Nat /\ Sold(p, Prior(n)) \in Nat
           /\ Cover(p, n).n \in Nat /\ Cover(p, n).d \in Nat
           /\ Cover(p, n).d = Sold(p, Recent(n))
<1>1. Sold(p, Recent(n)) \in Nat /\ Sold(p, Prior(n)) \in Nat /\ OnHand(p) \in Nat
  BY SoldFacts, OnHandFacts
<1>2. OnHand(p) * n \in Nat
  BY <1>1
<1> QED
  BY <1>1, <1>2 DEF Cover, Never

LEMMA BucketIs ==
    ASSUME NEW p, NEW n
    PROVE  LET gone == Sold(p, Recent(n)) > 0 /\ OnHand(p) <= 0
               short == LE(Cover(p, n), AtRiskCover)
               over == GT(Cover(p, n), ExcessCover)
           IN  /\ Bucket(p, n) \in Buckets
               /\ Bucket(p, n) = "critical" <=> gone
               /\ Bucket(p, n) = "at_risk" <=> ~gone /\ short
               /\ Bucket(p, n) = "dead" <=> ~gone /\ ~short /\ Idle(p) /\ OnHand(p) > 0
               /\ Bucket(p, n) = "overstocked" <=> ~gone /\ ~short /\ ~Idle(p) /\ over
               /\ Bucket(p, n) = "growing"
                    <=> ~gone /\ ~short /\ ~Idle(p) /\ ~over /\ Growing(p, n)
BY DEF Bucket, Buckets

\* What the hub calls dead the analytics page calls dead, line by line, and the
\* other way round.
LEMMA DeadOnBothScreens ==
    ASSUME StockTyped, SalesTyped, today \in Days, NEW p \in Products, NEW n \in Nat
    PROVE  LET stocked == {l \in DOMAIN stock : l[1] = p /\ stock[l] > 0}
           IN  /\ Bucket(p, n) = "dead" => stocked # {} /\ stocked \subseteq DeadLines
               /\ stocked # {} /\ Sold(p, Recent(DeadDays)) = 0
                        => Bucket(p, n) \in {"dead", "at_risk"}
<1> DEFINE stocked == {l \in DOMAIN stock : l[1] = p /\ stock[l] > 0}
<1>1. stocked # {} <=> OnHand(p) > 0
  BY OnHandFacts
<1>2. OnHand(p) \in Nat
  BY OnHandFacts
<1>3. ASSUME Bucket(p, n) = "dead" PROVE stocked # {} /\ stocked \subseteq DeadLines
  <2>1. Idle(p) /\ OnHand(p) > 0
    BY <1>3, BucketIs
  <2>2. Sold(p, Recent(DeadDays)) = 0
    BY <2>1, IdleHasNotSold
  <2>3. ASSUME NEW l \in stocked PROVE l \in DeadLines
    <3>1. ~(SoldAt(l, Recent(DeadDays)) > 0)
      BY <2>2, SoldAtFacts, SoldFacts
    <3>2. SoldAt(l, Recent(DeadDays)) = 0
      BY <3>1, SoldAtFacts
    <3> QED
      BY <3>2 DEF DeadLines
  <2> QED
    BY <1>1, <2>1, <2>3
<1>4. ASSUME stocked # {}, Sold(p, Recent(DeadDays)) = 0
      PROVE  Bucket(p, n) \in {"dead", "at_risk"}
  <2>1. Idle(p) /\ OnHand(p) > 0 /\ ~(OnHand(p) <= 0)
    BY <1>1, <1>2, <1>4, IdleHasNotSold
  <2> QED
    BY <2>1, BucketIs
<1> QED
  BY <1>3, <1>4

\* What sells and is gone is gone from every shelf, and its page says to order it.
LEMMA CriticalIsGone ==
    ASSUME StockTyped, SalesTyped, NEW p \in Products, NEW n \in Nat,
           Bucket(p, n) = "critical"
    PROVE  /\ \A l \in DOMAIN stock : l[1] = p => l \in RiskBand(DOMAIN stock, 1)
           /\ Sold(p, Recent(n)) > 0 /\ OnHand(p) = 0
<1>1. Sold(p, Recent(n)) > 0 /\ OnHand(p) <= 0
  BY BucketIs
<1>2. OnHand(p) = 0
  BY <1>1, OnHandFacts
<1>3. ASSUME NEW l \in DOMAIN stock, l[1] = p PROVE l \in RiskBand(DOMAIN stock, 1)
  <2>1. ~(stock[l] > 0)
    BY <1>2, <1>3, OnHandFacts
  <2>2. stock[l] = 0
    BY <2>1, StockFacts
  <2> QED
    BY <2>2, EmptyIsInTheFirstBand
<1> QED
  BY <1>1, <1>2, <1>3

LEMMA PlannedLeadTyped ==
    ASSUME DocumentsTyped, NEW p
    PROVE  PlannedLead(p).n \in Nat /\ PlannedLead(p).d \in Nat
<1> DEFINE bought == {j \in DOMAIN orders : orders[j].line[1] = p}
           S == {i \in Newest(bought, PurchasesShown) :
                    orders[i].promised # {} /\ LeadOf(i) >= 0}
           f == [i \in S |-> LeadOf(i)]
<1>1. IsFiniteSet(S) /\ \A i \in S : f[i] \in Nat
  <2>1. bought \in SUBSET DOMAIN orders /\ PurchasesShown \in Nat
    BY ProductScreensAssumption
  <2> HIDE DEF bought
  <2>2. S \in SUBSET DOMAIN orders
    BY <2>1, NewestFacts
  <2>3. ASSUME NEW i \in S PROVE f[i] \in Nat
    <3>1. i \in DOMAIN orders /\ orders[i].promised # {} /\ LeadOf(i) >= 0
      BY <2>2
    <3>2. Promised(i) \in Int /\ orders[i].raised \in Int
      BY <3>1, OrdersFacts
    <3> QED
      BY <3>1, <3>2 DEF LeadOf
  <2> HIDE DEF S, f
  <2> QED
    BY <2>2, <2>3, OrdersFacts, FS_Subset
<1>2. PlannedLead(p) = IF S = {} THEN [n |-> UnknownLead, d |-> 1]
                       ELSE [n |-> SumFunctionOnSet(f, S), d |-> Cardinality(S)]
  BY DEF PlannedLead, Total
<1> HIDE DEF S, f
<1>3. SumFunctionOnSet(f, S) \in Nat /\ Cardinality(S) \in Nat
  BY <1>1, SumMonotone, FS_CardinalityType
<1>4. UnknownLead \in Nat
  BY ProductScreensAssumption
<1> QED
  BY <1>2, <1>3, <1>4

LEMMA CriticalIsOrdered ==
    ASSUME StockTyped, SalesTyped, DocumentsTyped, NEW p \in Products, NEW n \in Nat,
           Bucket(p, n) = "critical", Cost[p] > 0
    PROVE  OrderNow(p, n)
<1>1. OnHand(p) = 0 /\ Sold(p, Recent(n)) > 0 /\ Sold(p, Recent(n)) \in Nat
  BY CriticalIsGone, SoldFacts
<1> DEFINE lead == PlannedLead(p)
<1>2. lead.n \in Nat /\ lead.d \in Nat
  BY PlannedLeadTyped
<1>3. OnHand(p) * lead.d = 0
  BY <1>1, <1>2
<1>4. (OnHand(p) * lead.d) * n = 0 /\ lead.n * Sold(p, Recent(n)) \in Nat
  BY <1>1, <1>2, <1>3
<1>5. (OnHand(p) * lead.d) * n <= lead.n * Sold(p, Recent(n))
  BY <1>4
<1> QED
  BY <1>1, <1>5 DEF OrderNow

\* The health of a page is a hundred only where nothing is wrong with the product,
\* and three quarters of that at most where it is dead.
LEMMA HealthTells ==
    ASSUME StockTyped, SalesTyped, NEW p \in Products, NEW n \in Nat
    PROVE  /\ Page(p, n).health = 100 => Bucket(p, n) \in {"healthy", "growing"}
           /\ Bucket(p, n) = "dead" => Page(p, n).health <= 75
<1> DEFINE a == IF Bucket(p, n) = "critical" THEN 40
                ELSE IF LE(Cover(p, n), AtRiskCover) THEN 22
                ELSE IF GT(Cover(p, n), ExcessCover) THEN 15 ELSE 0
           b == IF Idle(p) THEN 25 ELSE 0
           c == IF Sold(p, Prior(n)) > 0 /\ 5 * (Sold(p, Recent(n)) - Sold(p, Prior(n)))
                                                <= -Sold(p, Prior(n)) THEN 15 ELSE 0
           d == IF Price[p] > 0 /\ 10 * (Price[p] - Cost[p]) < Price[p] THEN 10 ELSE 0
<1>1. Page(p, n).health = AtLeastZero(100 - (a + b + c + d))
  BY DEF Page, Deductions
<1>2. a \in {0, 15, 22, 40} /\ b \in {0, 25} /\ c \in {0, 15} /\ d \in {0, 10}
  OBVIOUS
<1>3. a = 0 /\ b = 0 => Bucket(p, n) \in {"healthy", "growing"}
  <2>1. ASSUME a = 0, b = 0
        PROVE  Bucket(p, n) # "critical" /\ ~LE(Cover(p, n), AtRiskCover)
               /\ ~GT(Cover(p, n), ExcessCover) /\ ~Idle(p)
    BY <2>1
  <2> QED
    BY <2>1, BucketIs DEF Buckets
<1>4. Bucket(p, n) = "dead" => b = 25
  BY BucketIs
<1> HIDE DEF a, b, c, d
<1> QED
  BY <1>1, <1>2, <1>3, <1>4 DEF AtLeastZero

LEMMA GrowingIsOnTheList ==
    ASSUME SalesTyped, NEW p \in Products, NEW n \in Nat, Bucket(p, n) = "growing"
    PROVE  p \in Workspace("growing", n)
<1>1. Growing(p, n)
  BY BucketIs
<1>2. Sold(p, Recent(n)) \in Nat /\ Sold(p, Prior(n)) \in Nat
  BY SoldFacts
<1> QED
  BY <1>1, <1>2 DEF Growing, Workspace

-----------------------------------------------------------------------------
(* A product's page.                                                       *)

\* The chart of a page adds up to what sold in the window, but for today.
LEMMA ChartAddsUp ==
    ASSUME SalesTyped, today \in Days, NEW p, NEW n \in Nat \ {0}
    PROVE  Sold(p, Recent(n)) = Total(DOMAIN Series(p, n), LAMBDA d : Series(p, n)[d])
                                    + Sold(p, {today})
<1> DEFINE D == Recent(n)
           E == D \ {today}
           I == today - n .. today - 1
           daily == [d \in D |-> Sold(p, {d})]
           chart == [d \in I |-> Series(p, n)[d]]
           S == InDays(D)
           f == OfProduct(p)
<1>1. n \in Int /\ today \in Nat /\ today - n \in Int /\ today - 1 \in Int
  BY WindowsAreDays
<1>2. IsFiniteSet(D) /\ today \in D /\ \A d \in D : d \in Nat /\ d <= today /\ d > today - n
  <2>1. today \in D
    BY <1>1 DEF Recent
  <2> QED
    BY <1>1, <2>1, WindowsAreDays
<1>3. \A d \in D : daily[d] = Sold(p, {d}) /\ daily[d] \in Int
  BY SoldFacts
<1>4. /\ Sold(p, D) = SumFunctionOnSet(f, S) /\ S \in SUBSET InDays(D)
      /\ \A i \in DOMAIN sales : f[i] \in Int
  BY SoldFacts, SalesFinite DEF OfProduct
<1>5. ASSUME NEW d \in D PROVE daily[d] = SumFunctionOnSet(f, OnDay(S, d))
  <2>1. OnDay(S, d) = InDays({d})
    BY DEF OnDay, InDays
  <2>2. Sold(p, {d}) = SumFunctionOnSet(f, InDays({d}))
    BY SoldFacts
  <2> QED
    BY <1>3, <2>1, <2>2
<1>6. E \in SUBSET I /\ IsFiniteSet(I) /\ IsFiniteSet(E)
  <2>1. ASSUME NEW d \in E PROVE d \in I
    <3>1. d \in Nat /\ d <= today /\ d > today - n /\ d # today
      BY <1>2
    <3> QED
      BY <1>1, <3>1
  <2>2. IsFiniteSet(I)
    BY <1>1, FS_Interval
  <2> HIDE DEF I, E
  <2> QED
    BY <2>1, <2>2, FS_Subset
<1>7. /\ \A d \in E : chart[d] = daily[d] /\ chart[d] \in Int
      /\ \A d \in I \ E : chart[d] = 0
  <2>1. \A d \in I : chart[d] = IF d \in D THEN Sold(p, {d}) ELSE 0
    BY DEF Series
  <2>2. today \notin I
    BY <1>1
  <2>3. \A d \in I : d \in E <=> d \in D
    BY <2>2
  <2> HIDE DEF chart, E, D, I
  <2>4. \A d \in E : d \in I /\ d \in D
    BY <1>6, <2>3
  <2> QED
    BY <1>3, <2>1, <2>3, <2>4
<1>8. Total(DOMAIN Series(p, n), LAMBDA d : Series(p, n)[d]) = SumFunctionOnSet(chart, I)
  BY DEF Series, Total
<1>9. daily[today] = Sold(p, {today})
  BY <1>2, <1>3
<1> HIDE DEF I, daily, chart, S, f, D
<1>10. Sold(p, D) = SumFunctionOnSet(daily, D)
  BY <1>2, <1>4, <1>5, SoldDayByDay
<1>11. SumFunctionOnSet(daily, D) = daily[today] + SumFunctionOnSet(daily, E)
  BY <1>2, <1>3, SumTakesAny
<1> HIDE DEF E
<1>12. SumFunctionOnSet(chart, I) = SumFunctionOnSet(chart, E)
  BY <1>6, <1>7, SumDropsZeros
<1>13. SumFunctionOnSet(chart, E) = SumFunctionOnSet(daily, E)
  BY <1>6, <1>7, SumExtensional
<1>14. SumFunctionOnSet(chart, E) \in Int
  BY <1>6, <1>7, SumType
<1>15. Sold(p, {today}) \in Int
  BY SoldFacts
<1> QED
  BY <1>8, <1>9, <1>10, <1>11, <1>12, <1>13, <1>14, <1>15 DEF D

LEMMA BestMonthsAreOver ==
    ASSUME today \in Days, NEW p, NEW m \in BestMonths(p)
    PROVE  m < Month(today)
<1>1. m \in Season /\ m # Month(today)
  BY DEF BestMonths
<1>2. Month(today) \in Int
  <2>1. today \in Int /\ MonthDays \in Nat \ {0}
    BY WindowsAreDays, ProductScreensAssumption
  <2> QED
    BY <2>1, Quotients DEF Month
<1>3. Months \in Nat
  BY ProductScreensAssumption
<1> QED
  BY <1>1, <1>2, <1>3 DEF Season

\* What sells together with another sells together with it, and no more often
\* than it sells.
LEMMA TogetherIsMutual ==
    ASSUME SalesTyped, NEW p \in Products, NEW q \in Products \ {p}, NEW n
    PROVE  /\ Together(p, n)[q] = Together(q, n)[p]
           /\ Together(p, n)[q] <= Page(p, n).orders
           /\ Together(p, n)[q] \in Nat
<1> DEFINE A == {i \in InDays(Recent(n)) : Of(i, p) > 0 /\ Of(i, q) > 0}
           B == {i \in InDays(Recent(n)) : Of(i, q) > 0 /\ Of(i, p) > 0}
           C == {i \in InDays(Recent(n)) : Of(i, p) > 0}
<1>1. Together(p, n)[q] = Cardinality(A) /\ Together(q, n)[p] = Cardinality(B)
  BY DEF Together
<1>2. Page(p, n).orders = Cardinality(C)
  BY DEF Page
<1>3. A = B /\ A \in SUBSET C /\ C \in SUBSET DOMAIN sales
  BY SalesFinite
<1> HIDE DEF A, B, C
<1>4. IsFiniteSet(C)
  BY <1>3, SalesFinite, FS_Subset
<1>5. Cardinality(A) <= Cardinality(C) /\ IsFiniteSet(A)
  BY <1>3, <1>4, FS_Subset
<1> QED
  BY <1>1, <1>2, <1>3, <1>5, FS_CardinalityType

\* A companion is left out only for others no less frequent by its own page.
LEMMA CompanionsAreMutual ==
    ASSUME SalesTyped, NEW p \in Products, NEW q \in Products \ {p}, NEW n
    PROVE  CompanionsAgree(p, q, n)
<1> SUFFICES ASSUME NEW C \in Companions(p, n), NEW D \in Companions(q, n)
             PROVE  /\ q \in C => Together(p, n)[q] <= Page(q, n).orders
                    /\ p \in D /\ q \in C => Together(p, n)[q] = Together(q, n)[p]
                    /\ p \in D /\ q \notin C =>
                            /\ Cardinality(C) = CompanionsShown
                            /\ \A r \in C : Together(p, n)[r] >= Together(q, n)[p]
  BY DEF CompanionsAgree
<1> DEFINE with == Together(p, n)
           S == {r \in Products \ {p} : with[r] > 0}
           before == {qr \in (DOMAIN with) \X (DOMAIN with) : with[qr[1]] > with[qr[2]]}
           back == Together(q, n)
           T == {r \in Products \ {q} : back[r] > 0}
           after == {qr \in (DOMAIN back) \X (DOMAIN back) : back[qr[1]] > back[qr[2]]}
<1>1. /\ with[q] = back[p] /\ back[p] <= Page(q, n).orders
      /\ \A r \in Products \ {p} : with[r] \in Nat
  BY TogetherIsMutual
<1>2. /\ C \in Firsts(S, CompanionsShown, before) /\ D \in Firsts(T, CompanionsShown, after)
      /\ DOMAIN with = Products \ {p}
  BY DEF Companions, Together
<1>3. \A r, t \in Products \ {p} : <<r, t>> \in before <=> with[r] > with[t]
  BY <1>2
<1>4. IsFiniteSet(S) /\ IsFiniteSet(T) /\ CompanionsShown \in Nat
  <2>1. S \in SUBSET Products /\ T \in SUBSET Products
    OBVIOUS
  <2> HIDE DEF S, T
  <2> QED
    BY <2>1, TradingAssumption, ProductScreensAssumption, FS_Subset
<1>5. /\ \A r : r \in S <=> r \in Products \ {p} /\ with[r] > 0
      /\ \A r \in T : back[r] > 0
  OBVIOUS
<1> HIDE DEF with, back, S, T, before, after
<1>6. /\ C \in SUBSET S
      /\ \A r \in S \ C : /\ Cardinality(C) = CompanionsShown
                          /\ \A t \in C : <<r, t>> \notin before
  BY <1>2, <1>4, FirstsFacts
<1>7. D \in SUBSET T
  BY <1>2, <1>4, FirstsFacts
<1>8. ASSUME p \in D, q \notin C
      PROVE  /\ Cardinality(C) = CompanionsShown
             /\ \A r \in C : with[r] >= back[p]
  <2>1. with[q] > 0 /\ q \in S \ C
    BY <1>1, <1>5, <1>7, <1>8
  <2>2. ASSUME NEW r \in C PROVE with[r] >= back[p]
    <3>1. r \in Products \ {p} /\ <<q, r>> \notin before
      BY <1>5, <1>6, <2>1
    <3>2. ~(with[q] > with[r]) /\ with[q] \in Nat /\ with[r] \in Nat
      BY <1>1, <1>3, <3>1
    <3> QED
      BY <1>1, <3>2
  <2> QED
    BY <1>6, <2>1, <2>2
<1> QED
  BY <1>1, <1>8 DEF with, back

\* A page shows what the hub shows, but for the revenue.
LEMMA PageIsTheRow ==
    ASSUME NEW p \in Products, NEW n
    PROVE  /\ \A f \in DOMAIN HubRow(p, n) \ {"revenue"} : HubRow(p, n)[f] = Page(p, n)[f]
           /\ HubRow(p, n).bucket = Bucket(p, n) /\ Page(p, n).sold = Sold(p, Recent(n))
           /\ Page(p, n).order_now = OrderNow(p, n)
BY DEF HubRow, Page

-----------------------------------------------------------------------------
(* The buckets, the buildings and the days each add up.                    *)

OnHandWorth == [p \in Products |-> Cost[p] * OnHand(p)]

\* What the stock is worth, product by product.
LEMMA ValueByProduct ==
    ASSUME StockTyped
    PROVE  /\ \A p \in Products : OnHandWorth[p] \in Nat
           /\ SumFunctionOnSet(OnHandWorth, Products) = Position.value
<1> DEFINE D == DOMAIN stock
           key == [l \in D |-> l[1]]
<1>1. /\ IsFiniteSet(D) /\ IsFiniteSet(Products) /\ key \in [D -> Products]
      /\ \A l \in D : WorthOf[l] \in Int
  BY StockFacts, TradingAssumption DEF WorthOf
<1>2. ASSUME NEW p \in Products
      PROVE  /\ OnHandWorth[p] = SumFunctionOnSet(WorthOf, {l \in D : key[l] = p})
             /\ OnHandWorth[p] \in Nat
  <2> DEFINE S == {l \in D : key[l] = p}
             c == Cost[p]
  <2>1. S = LinesOf(p) /\ S \in SUBSET DOMAIN stock
    BY DEF LinesOf
  <2>2. c \in Nat /\ c \in Int
    BY TradingAssumption
  <2>3. \A l \in S : stock[l] \in Int /\ WorthOf[l] = c * stock[l]
    BY StockFacts DEF WorthOf
  <2>4. IsFiniteSet(S)
    BY <2>1, StockIsSummed
  <2>5. OnHandWorth[p] = c * OnHand(p) /\ OnHand(p) \in Nat
        /\ OnHand(p) = SumFunctionOnSet(stock, S)
    BY <2>1, OnHandFacts DEF OnHandWorth
  <2> HIDE DEF S, c
  <2>6. SumFunctionOnSet(WorthOf, S) = c * SumFunctionOnSet(stock, S)
    BY <2>2, <2>3, <2>4, SumScales
  <2> QED
    BY <2>2, <2>5, <2>6 DEF S
<1>3. Position.value = SumFunctionOnSet(WorthOf, D)
  BY StockIsSummed DEF Position
<1> HIDE DEF D, key
<1>4. SumFunctionOnSet(WorthOf, D) = SumFunctionOnSet(OnHandWorth, Products)
  BY <1>1, <1>2, SumOfParts, SMTT(60)
<1> QED
  BY <1>2, <1>3, <1>4

BucketTotals(n) ==
    /\ Total(Buckets, LAMBDA b : Distribution(n)[b].value) = Position.value
    /\ Total(Buckets, LAMBDA b : Distribution(n)[b].count) = Cardinality(Products)

LEMMA BucketsAddUp ==
    ASSUME StockTyped, NEW n
    PROVE  BucketTotals(n)
<1> DEFINE key == [p \in Products |-> Bucket(p, n)]
           values == [b \in Buckets |-> Distribution(n)[b].value]
           numbers == [b \in Buckets |-> Distribution(n)[b].count]
<1>1. key \in [Products -> Buckets]
  BY BucketIs
<1>2. \A b : {p \in Products : key[p] = b} = InBucket(b, n)
  BY DEF InBucket
<1>3. IsFiniteSet(Products) /\ IsFiniteSet(Buckets)
  <2>1. /\ IsFiniteSet({"critical"}) /\ IsFiniteSet({"at_risk"}) /\ IsFiniteSet({"dead"})
        /\ IsFiniteSet({"overstocked"}) /\ IsFiniteSet({"growing"}) /\ IsFiniteSet({"healthy"})
    BY FS_Singleton
  <2>2. /\ IsFiniteSet({"critical"} \cup {"at_risk"}) /\ IsFiniteSet({"dead"} \cup {"overstocked"})
        /\ IsFiniteSet({"growing"} \cup {"healthy"})
    BY <2>1, FS_Union
  <2>3. IsFiniteSet(({"critical"} \cup {"at_risk"}) \cup ({"dead"} \cup {"overstocked"}))
    BY <2>2, FS_Union
  <2>4. IsFiniteSet((({"critical"} \cup {"at_risk"}) \cup ({"dead"} \cup {"overstocked"}))
                        \cup ({"growing"} \cup {"healthy"}))
    BY <2>2, <2>3, FS_Union
  <2>5. Buckets = (({"critical"} \cup {"at_risk"}) \cup ({"dead"} \cup {"overstocked"}))
                        \cup ({"growing"} \cup {"healthy"})
    BY DEF Buckets
  <2> QED
    BY <2>4, <2>5, TradingAssumption
<1>4. \A b \in Buckets : numbers[b] = Cardinality({p \in Products : key[p] = b})
  BY <1>2 DEF Distribution
<1>5. ASSUME NEW b \in Buckets
      PROVE  values[b] = SumFunctionOnSet(OnHandWorth, {p \in Products : key[p] = b})
  <2> DEFINE S == InBucket(b, n)
             f == [p \in S |-> HubRow(p, n).value]
  <2>1. values[b] = SumFunctionOnSet(f, S)
    BY DEF Distribution, Total
  <2>2. S \in SUBSET Products
    BY DEF InBucket
  <2>3. \A p \in S : f[p] = OnHandWorth[p] /\ f[p] \in Int
    BY <2>2, ValueByProduct DEF HubRow, OnHandWorth
  <2> HIDE DEF S, f, values
  <2>4. IsFiniteSet(S)
    BY <1>3, <2>2, FS_Subset
  <2>5. SumFunctionOnSet(f, S) = SumFunctionOnSet(OnHandWorth, S)
    BY <2>3, <2>4, SumExtensional
  <2> QED
    BY <1>2, <2>1, <2>5 DEF S
<1>6. /\ Total(Buckets, LAMBDA b : Distribution(n)[b].value) = SumFunctionOnSet(values, Buckets)
      /\ Total(Buckets, LAMBDA b : Distribution(n)[b].count) = SumFunctionOnSet(numbers, Buckets)
  BY DEF Total
<1>7. \A p \in Products : OnHandWorth[p] \in Int
  BY ValueByProduct
<1> HIDE DEF key, values, numbers
<1>8. SumFunctionOnSet(OnHandWorth, Products) = SumFunctionOnSet(values, Buckets)
  BY <1>1, <1>3, <1>5, <1>7, SumOfParts, SMTT(60)
<1>9. Cardinality(Products) = SumFunctionOnSet(numbers, Buckets)
  BY <1>1, <1>3, <1>4, CardinalityOfParts, SMTT(60)
<1> QED
  BY <1>6, <1>8, <1>9, ValueByProduct DEF BucketTotals

\* What a sale brings in, product by product.
Priced(i) == [p \in Products |-> Price[p] * Of(i, p)]
BasketOf == [i \in DOMAIN sales |-> Basket(i)]

LEMMA BasketFacts ==
    ASSUME SalesTyped, NEW i \in DOMAIN sales
    PROVE  /\ \A p \in Products : Priced(i)[p] \in Nat /\ Price[p] \in Nat /\ Of(i, p) \in Nat
           /\ Basket(i) = SumFunctionOnSet(Priced(i), Products) /\ Basket(i) \in Nat
           /\ BasketOf[i] = Basket(i)
<1> DEFINE S == DOMAIN sales[i].items
           f == [p \in S |-> Price[p] * Of(i, p)]
           g == Priced(i)
<1>1. \A p \in Products : Price[p] \in Nat /\ Of(i, p) \in Nat
  BY SalesFinite, TradingAssumption
<1>2. \A p \in Products : g[p] = Price[p] * Of(i, p) /\ g[p] \in Nat
  BY <1>1 DEF Priced
<1>3. S \in SUBSET Products
  <2>1. sales[i].items \in Baskets
    BY SalesFinite DEF Sale
  <2> QED
    BY <2>1, TradingAssumption
<1>4. \A p \in Products \ S : g[p] = 0
  <2>1. \A p \in Products \ S : Of(i, p) = 0
    BY DEF Of
  <2> QED
    BY <1>1, <1>2, <2>1
<1>5. \A p \in S : f[p] = g[p] /\ f[p] \in Int
  BY <1>2, <1>3
<1>6. Basket(i) = SumFunctionOnSet(f, S)
  BY DEF Basket, Total
<1>7. IsFiniteSet(Products) /\ IsFiniteSet(S)
  BY <1>3, TradingAssumption, FS_Subset
<1> HIDE DEF S, f, g
<1>8. SumFunctionOnSet(f, S) = SumFunctionOnSet(g, S)
  BY <1>5, <1>7, SumExtensional
<1>9. SumFunctionOnSet(g, Products) = SumFunctionOnSet(g, S)
  <2>1. \A p \in S : g[p] \in Int
    BY <1>5
  <2> QED
    BY <1>3, <1>4, <1>7, <2>1, SumDropsZeros
<1>10. SumFunctionOnSet(g, Products) \in Nat
  BY <1>2, <1>7, SumMonotone
<1> QED
  BY <1>1, <1>2, <1>6, <1>8, <1>9, <1>10 DEF g, BasketOf

LEMMA RevenueFacts ==
    ASSUME SalesTyped, NEW S \in SUBSET DOMAIN sales
    PROVE  Total(S, Basket) = SumFunctionOnSet(BasketOf, S)
<1> DEFINE f == [i \in S |-> Basket(i)]
<1>1. IsFiniteSet(S) /\ \A i \in S : f[i] = BasketOf[i] /\ f[i] \in Int
  BY SalesFinite, BasketFacts, FS_Subset
<1>2. Total(S, Basket) = SumFunctionOnSet(f, S)
  BY DEF Total
<1> HIDE DEF f
<1> QED
  BY <1>1, <1>2, SumExtensional

LEMMA PerformanceFacts ==
    ASSUME SalesTyped, NEW w, NEW n
    PROVE  Performance(w, n).revenue = SumFunctionOnSet(BasketOf, InDaysAt(Recent(n), w))
<1>1. InDaysAt(Recent(n), w) \in SUBSET DOMAIN sales
  BY SalesFinite DEF InDaysAt
<1>2. Performance(w, n).revenue = Total(InDaysAt(Recent(n), w), Basket)
  BY DEF Performance, InDaysAt
<1> QED
  BY <1>1, <1>2, RevenueFacts

EarnedBy(n) == [p \in Products |-> Revenue(p, Recent(n))]

\* What the buildings took is what the products brought in: the sales, added up by
\* building and by product.
LEMMA RevenueByProduct ==
    ASSUME SalesTyped, today \in Days, NEW n \in Nat
    PROVE  /\ SumFunctionOnSet(EarnedBy(n), Products)
                = Total(Warehouses, LAMBDA w : Performance(w, n).revenue)
           /\ \A p \in Products : EarnedBy(n)[p] \in Nat
<1> DEFINE S == InDays(Recent(n))
           took == [w \in Warehouses |-> Performance(w, n).revenue]
           place == [i \in S |-> sales[i].warehouse]
           brought == EarnedBy(n)
           rows_of == [i \in S |-> Priced(i)]
           columns == [p \in Products |-> [i \in S |-> Price[p] * Of(i, p)]]
<1>1. /\ IsFiniteSet(S) /\ S \in SUBSET DOMAIN sales
      /\ IsFiniteSet(Warehouses) /\ IsFiniteSet(Products)
  BY SalesFinite, TradingAssumption, FS_Subset
<1>2. \A i \in S : BasketOf[i] \in Int
  BY <1>1, BasketFacts
<1>3. place \in [S -> Warehouses]
  BY <1>1, SalesFinite DEF Sale
<1>4. ASSUME NEW w \in Warehouses
      PROVE  took[w] = SumFunctionOnSet(BasketOf, {i \in S : place[i] = w})
  <2>1. {i \in S : place[i] = w} = InDaysAt(Recent(n), w)
    BY DEF InDaysAt
  <2> QED
    BY <2>1, PerformanceFacts
<1>5. Transposed(rows_of, columns, S, Products)
  <2> SUFFICES ASSUME NEW i \in S, NEW p \in Products
               PROVE  rows_of[i][p] \in Int /\ columns[p][i] = rows_of[i][p]
    BY DEF Transposed
  <2>1. Priced(i)[p] \in Nat /\ Priced(i)[p] = Price[p] * Of(i, p)
    BY <1>1, BasketFacts DEF Priced
  <2> QED
    BY <2>1
<1>6. AreSums(BasketOf, rows_of, S, Products)
  <2> SUFFICES ASSUME NEW i \in S
               PROVE  BasketOf[i] = SumFunctionOnSet(rows_of[i], Products)
    BY DEF AreSums
  <2> QED
    BY <1>1, BasketFacts
<1>7. AreSums(brought, columns, Products, S)
  <2> SUFFICES ASSUME NEW p \in Products
               PROVE  brought[p] = SumFunctionOnSet(columns[p], S)
    BY DEF AreSums
  <2> DEFINE c == Price[p]
             f == OfProduct(p)
             g == columns[p]
  <2>1. c \in Int /\ \A i \in S : f[i] \in Int /\ g[i] = c * f[i]
    BY <1>1, SalesFinite, TradingAssumption DEF OfProduct
  <2>2. brought[p] = c * SumFunctionOnSet(f, S)
    BY SoldFacts DEF Revenue, EarnedBy
  <2> HIDE DEF c, f, g, S, brought, columns
  <2>3. SumFunctionOnSet(g, S) = c * SumFunctionOnSet(f, S)
    BY <1>1, <2>1, SumScales
  <2> QED
    BY <2>2, <2>3 DEF g
<1>8. \A p \in Products : brought[p] \in Nat
  BY SoldFacts, TradingAssumption DEF Revenue, EarnedBy
<1>9. Total(Warehouses, LAMBDA w : Performance(w, n).revenue) = SumFunctionOnSet(took, Warehouses)
  BY DEF Total
<1> HIDE DEF S, took, place, brought, rows_of, columns
<1>10. SumFunctionOnSet(BasketOf, S) = SumFunctionOnSet(took, Warehouses)
  <2>1. IsFiniteSet(S) /\ IsFiniteSet(Warehouses)
    BY <1>1
  <2> HIDE DEF BasketOf
  <2> QED
    BY <1>2, <1>3, <1>4, <2>1, SumOfParts, SMTT(60)
<1>11. SumFunctionOnSet(BasketOf, S) = SumFunctionOnSet(brought, Products)
  BY <1>1, <1>5, <1>6, <1>7, SumsExchange
<1> QED
  BY <1>8, <1>9, <1>10, <1>11 DEF brought

\* The best sellers earn no more than the buildings took, and all of it where every
\* product that sold is shown.
LEMMA BestSellersEarn ==
    ASSUME SalesTyped, today \in Days, NEW n \in Nat
    PROVE  RevenueAgrees(n)
<1> DEFINE earns == EarnedBy(n)
           earned == Total(Warehouses, LAMBDA w : Performance(w, n).revenue)
           positive == {p \in Products : earns[p] > 0}
           before == {pq \in Products \X Products : earns[pq[1]] > earns[pq[2]]}
           chosen == Firsts(Products, BestSellersShown, before)
<1>1. /\ IsFiniteSet(Products) /\ BestSellersShown \in Nat
      /\ SumFunctionOnSet(earns, Products) = earned
      /\ \A p \in Products : earns[p] \in Nat
  BY RevenueByProduct, TradingAssumption, ProductScreensAssumption
<1>2. /\ BestSellers(n) = {{p \in R : earns[p] > 0} : R \in chosen}
      /\ \A p \in Products : earns[p] = Revenue(p, Recent(n))
  BY DEF BestSellers, EarnedBy
<1>3. /\ positive \in SUBSET Products
      /\ \A p : p \in positive <=> p \in Products /\ earns[p] > 0
      /\ positive = {p \in Products : Revenue(p, Recent(n)) > 0}
  BY <1>2
<1>4. \A p, q \in Products : <<p, q>> \in before <=> earns[p] > earns[q]
  OBVIOUS
<1> HIDE DEF earns, earned, positive, before
<1>5. ASSUME NEW R \in chosen, Cardinality(positive) <= BestSellersShown
      PROVE  positive \subseteq R
  <2>1. /\ R \in SUBSET Products /\ IsFiniteSet(R)
        /\ \A p \in Products \ R : /\ Cardinality(R) = BestSellersShown
                                   /\ \A x \in R : <<p, x>> \notin before
    BY <1>1, FirstsFacts
  <2> SUFFICES ASSUME NEW p \in positive, p \notin R PROVE FALSE
    OBVIOUS
  <2>2. Cardinality(R) = BestSellersShown /\ p \in Products /\ earns[p] > 0
    BY <1>3, <2>1
  <2>3. ASSUME NEW x \in R PROVE x \in positive
    <3>1. x \in Products /\ <<p, x>> \notin before
      BY <1>3, <2>1
    <3>2. ~(earns[p] > earns[x]) /\ earns[p] \in Nat /\ earns[x] \in Nat
      BY <1>1, <1>4, <2>2, <3>1
    <3> QED
      BY <1>3, <2>2, <3>1, <3>2
  <2>4. R \in SUBSET positive /\ IsFiniteSet(positive)
    BY <1>1, <1>3, <2>3, FS_Subset
  <2>5. Cardinality(R) <= Cardinality(positive)
        /\ (Cardinality(positive) = Cardinality(R) => positive = R)
    BY <2>4, FS_Subset
  <2>6. Cardinality(R) \in Nat /\ Cardinality(positive) \in Nat
    BY <2>1, <2>4, FS_CardinalityType
  <2> QED
    BY <1>1, <1>5, <2>2, <2>5, <2>6
<1>6. ASSUME NEW best \in BestSellers(n)
      PROVE  /\ Total(best, LAMBDA p : Revenue(p, Recent(n))) <= earned
             /\ Cardinality(positive) <= BestSellersShown
                    => Total(best, LAMBDA p : Revenue(p, Recent(n))) = earned
  <2>1. PICK R \in chosen : best = {p \in R : earns[p] > 0}
    BY <1>2
  <2>2. R \in SUBSET Products
    BY <1>1, FirstsFacts
  <2>3. /\ best \in SUBSET positive /\ best \in SUBSET Products
        /\ \A p \in R : p \in best <=> earns[p] > 0
    BY <1>3, <2>1, <2>2
  <2> DEFINE f == [p \in best |-> Revenue(p, Recent(n))]
  <2>4. Total(best, LAMBDA p : Revenue(p, Recent(n))) = SumFunctionOnSet(f, best)
    BY DEF Total
  <2>5. IsFiniteSet(best) /\ \A p \in best : f[p] \in Int /\ f[p] = earns[p]
    BY <1>1, <1>2, <2>3, FS_Subset
  <2> HIDE DEF f
  <2>6. SumFunctionOnSet(f, best) = SumFunctionOnSet(earns, best)
    BY <2>5, SumExtensional
  <2>7. SumFunctionOnSet(earns, best) <= SumFunctionOnSet(earns, Products)
    BY <1>1, <2>3, SumMonotone
  <2>8. ASSUME Cardinality(positive) <= BestSellersShown
        PROVE  SumFunctionOnSet(earns, Products) = SumFunctionOnSet(earns, best)
    <3>1. positive \subseteq R
      BY <1>5, <2>8
    <3>2. \A p \in Products \ best : earns[p] = 0
      BY <1>1, <1>3, <2>3, <3>1
    <3>3. \A p \in best : earns[p] \in Int
      BY <1>1, <2>3
    <3> QED
      BY <1>1, <2>3, <3>2, <3>3, SumDropsZeros
  <2> QED
    BY <1>1, <2>4, <2>6, <2>7, <2>8
<1> QED
  BY <1>3, <1>6 DEF RevenueAgrees, earned

\* The days of a building's chart add up to what it took.
LEMMA SiteChartAddsUp ==
    ASSUME SalesTyped, today \in Days, NEW w, NEW n \in Nat
    PROVE  Total(Recent(n), LAMBDA d : SiteSeries(w, n)[d]) = Performance(w, n).revenue
<1> DEFINE D == Recent(n)
           S == InDaysAt(D, w)
           daily == [d \in D |-> SiteSeries(w, n)[d]]
<1>1. IsFiniteSet(D) /\ S \in SUBSET InDays(D) /\ \A i \in DOMAIN sales : BasketOf[i] \in Int
  <2>1. n \in Int
    OBVIOUS
  <2> QED
    BY <2>1, WindowsAreDays, BasketFacts DEF InDaysAt
<1>2. ASSUME NEW d \in D PROVE daily[d] = SumFunctionOnSet(BasketOf, OnDay(S, d))
  <2>1. OnDay(S, d) = {i \in InDays({d}) : sales[i].warehouse = w}
    BY DEF OnDay, InDaysAt, InDays
  <2>2. daily[d] = Total({i \in InDays({d}) : sales[i].warehouse = w}, Basket)
    BY DEF SiteSeries
  <2>3. OnDay(S, d) \in SUBSET DOMAIN sales
    BY DEF OnDay, InDaysAt, InDays
  <2> HIDE DEF daily, S
  <2> QED
    BY <2>1, <2>2, <2>3, RevenueFacts
<1>3. Total(Recent(n), LAMBDA d : SiteSeries(w, n)[d]) = SumFunctionOnSet(daily, D)
  BY DEF Total
<1> HIDE DEF daily, S, D
<1>4. SumFunctionOnSet(BasketOf, S) = SumFunctionOnSet(daily, D)
  BY <1>1, <1>2, SoldDayByDay
<1> QED
  BY <1>3, <1>4, PerformanceFacts DEF S, D

-----------------------------------------------------------------------------
(* The products' screens together.                                         *)

LEMMA LinesAgree ==
    ASSUME RowsTyped
    PROVE  StockLinesAgree
<1> SUFFICES ASSUME NEW l \in DOMAIN stock
             PROVE  /\ Confidence(l) # "low" => DaysRemaining(l) # Never
                    /\ \A n \in ReorderAt(l) : stock[l] >= n =>
                            DaysRemaining(l).n >= LeadTime * DaysRemaining(l).d
                    /\ l \in DeadLines => Severity(l) \in {"idle", "warning"}
  BY DEF StockLinesAgree
<1> USE DEF RowsTyped
<1>1. /\ Confidence(l) # "low" => DaysRemaining(l) # Never
      /\ l \in DeadLines => Severity(l) \in {"idle", "warning"}
  BY SureMeansKnown, DeadHasNoRate
<1>2. \A n \in ReorderAt(l) : stock[l] >= n =>
            DaysRemaining(l).n >= LeadTime * DaysRemaining(l).d
  BY ReorderPointLasts
<1> QED
  BY <1>1, <1>2

LEMMA RiskListsAgree ==
    ASSUME StockTyped, SalesTyped, NEW R \in Risks
    PROVE  RiskListAgrees(R)
<1> DEFINE banded == [k \in RiskBands |-> RiskBand(R, k)]
<1>1. R \in SUBSET DOMAIN stock /\ IsFiniteSet(R)
  BY RisksFacts
<1>2. 1 \in RiskBands /\ \A k \in RiskBands : k \in Nat /\ 1 .. k \subseteq RiskBands
  BY BandFacts DEF RiskBands
<1>3. \A k \in RiskBands : banded[k] = RiskBand(R, k)
  OBVIOUS
<1>4. ASSUME NEW l \in R
      PROVE  Cardinality({k \in RiskBands : l \in banded[k]})
                = (IF DaysRemaining(l) = Never THEN 0 ELSE 1)
  <2>1. {k \in RiskBands : l \in banded[k]} = {k \in RiskBands : l \in RiskBand(R, k)}
    BY <1>3
  <2> HIDE DEF banded
  <2> QED
    BY <1>1, <2>1, OneBand
<1> HIDE DEF banded
<1>5. ASSUME NEW l \in banded[1] PROVE Severity(l) = "critical"
  <2>1. l \in RiskBand(R, 1)
    BY <1>2, <1>3, <1>5
  <2>2. l \in RiskBand(DOMAIN stock, 1)
    BY <1>1, <2>1 DEF RiskBand
  <2> QED
    BY <2>2, FirstBandIsCritical
<1>6. ASSUME NEW k \in RiskBands, NEW l \in RiskBand(DOMAIN stock, k) \ R
      PROVE  Cardinality(R) = RiskLimit /\ R \subseteq UNION {banded[j] : j \in 1 .. k}
  <2>1. l \in DOMAIN stock \ R
    BY DEF RiskBand
  <2>2. Cardinality(R) = RiskLimit
    BY <2>1, RisksFacts
  <2>3. ASSUME NEW x \in R PROVE x \in UNION {banded[j] : j \in 1 .. k}
    <3>1. PICK j \in 1 .. k : x \in RiskBand(R, j)
      BY CutBandsAreFull
    <3>2. x \in banded[j]
      BY <1>2, <1>3, <3>1
    <3> QED
      BY <3>2
  <2> QED
    BY <2>2, <2>3
<1>7. Total(DOMAIN Severities(R), LAMBDA s : Cardinality(Severities(R)[s])) = Cardinality(R)
  BY <1>1, SeveritiesAreParts
<1>8. \A l \in Soonest(R) : \A k \in DOMAIN stock : Sooner(k, l) => stock[k] = 0
  BY SoonestIsFirst
<1>9. InventoryHealth(R).dead + InventoryHealth(R).excess + InventoryHealth(R).healthy
            = Position.value
  BY <1>1, ValuesAddUp
<1> QED
  BY <1>4, <1>5, <1>6, <1>7, <1>8, <1>9, Zenon DEF RiskListAgrees, banded

LEMMA ProductAgrees ==
    ASSUME RowsTyped, NEW n \in Ranges, NEW p \in Products
    PROVE  PageAgrees(p, n)
<1> DEFINE stocked == {l \in DOMAIN stock : l[1] = p /\ stock[l] > 0}
           first == RiskBand(DOMAIN stock, 1)
<1>1. /\ today \in Days /\ StockTyped /\ SalesTyped /\ DocumentsTyped
      /\ n \in Nat \ {0} /\ n \in Nat
  BY ProductScreensAssumption DEF RowsTyped
<1>2. /\ \A f \in DOMAIN HubRow(p, n) \ {"revenue"} : HubRow(p, n)[f] = Page(p, n)[f]
      /\ HubRow(p, n).bucket = Bucket(p, n) /\ Page(p, n).sold = Sold(p, Recent(n))
      /\ Page(p, n).order_now = OrderNow(p, n)
  BY PageIsTheRow
<1>3. /\ Bucket(p, n) = "dead" => stocked # {} /\ stocked \subseteq DeadLines
      /\ stocked # {} /\ Sold(p, Recent(DeadDays)) = 0 => Bucket(p, n) \in {"dead", "at_risk"}
  BY <1>1, DeadOnBothScreens
<1>4. /\ Bucket(p, n) = "critical" => {l \in DOMAIN stock : l[1] = p} \subseteq first
      /\ Bucket(p, n) = "critical" /\ Cost[p] > 0 => OrderNow(p, n)
  BY <1>1, CriticalIsGone, CriticalIsOrdered
<1>5. /\ Page(p, n).health = 100 => Bucket(p, n) \in {"healthy", "growing"}
      /\ Bucket(p, n) = "dead" => Page(p, n).health <= 75
      /\ Bucket(p, n) = "growing" => p \in Workspace("growing", n)
  BY <1>1, HealthTells, GrowingIsOnTheList
<1>6. Sold(p, Recent(n)) = Total(DOMAIN Series(p, n), LAMBDA d : Series(p, n)[d])
                                + Sold(p, {today})
  BY <1>1, ChartAddsUp
<1>7. \A m \in BestMonths(p) : m < Month(today)
  BY <1>1, BestMonthsAreOver
<1> HIDE DEF stocked, first
<1>8. /\ HubRow(p, n).bucket = "dead" => stocked # {} /\ stocked \subseteq DeadLines
      /\ stocked # {} /\ Sold(p, Recent(DeadDays)) = 0
              => HubRow(p, n).bucket \in {"dead", "at_risk"}
      /\ HubRow(p, n).bucket = "critical" => {l \in DOMAIN stock : l[1] = p} \subseteq first
      /\ HubRow(p, n).bucket = "critical" /\ Cost[p] > 0 => Page(p, n).order_now
      /\ Page(p, n).health = 100 => HubRow(p, n).bucket \in {"healthy", "growing"}
      /\ HubRow(p, n).bucket = "growing" => p \in Workspace("growing", n)
      /\ n <= DeadDays /\ HubRow(p, n).bucket = "dead" => Page(p, n).health <= 75
  BY <1>2, <1>3, <1>4, <1>5
<1>9. Page(p, n).sold = Total(DOMAIN Series(p, n), LAMBDA d : Series(p, n)[d])
                            + Sold(p, {today})
  BY <1>2, <1>6
<1> QED
  BY <1>2, <1>7, <1>8, <1>9 DEF stocked, first, PageAgrees

LEMMA RowsAgreeOnProducts ==
    ASSUME RowsTyped
    PROVE  ProductScreensAgree
<1>1. today \in Days /\ StockTyped /\ SalesTyped /\ Lookback \in Nat
  BY TradingAssumption DEF RowsTyped
<1>2. StockLinesAgree /\ \A R \in Risks : RiskListAgrees(R)
  BY <1>1, LinesAgree, RiskListsAgree
<1>3. \A w \in Warehouses : \A f \in {"value", "lines", "out", "low", "alerts"} :
            Performance(w, Lookback)[f] = Node(w)[f]
  BY <1>1, PerformanceIsTheNode
<1>4. ASSUME NEW n \in Ranges
      PROVE  /\ Total(Buckets, LAMBDA b : Distribution(n)[b].value) = Position.value
             /\ Total(Buckets, LAMBDA b : Distribution(n)[b].count) = Cardinality(Products)
             /\ RevenueAgrees(n)
             /\ \A w \in Warehouses :
                    Total(Recent(n), LAMBDA d : SiteSeries(w, n)[d]) = Performance(w, n).revenue
  <2>1. n \in Nat
    BY ProductScreensAssumption
  <2>2. /\ Total(Buckets, LAMBDA b : Distribution(n)[b].value) = Position.value
        /\ Total(Buckets, LAMBDA b : Distribution(n)[b].count) = Cardinality(Products)
    <3>1. BucketTotals(n)
      BY <1>1, BucketsAddUp
    <3> QED
      BY <3>1, Zenon DEF BucketTotals
  <2>3. RevenueAgrees(n)
    BY <1>1, <2>1, BestSellersEarn
  <2>4. ASSUME NEW w \in Warehouses
        PROVE  Total(Recent(n), LAMBDA d : SiteSeries(w, n)[d]) = Performance(w, n).revenue
    BY <1>1, <2>1, SiteChartAddsUp
  <2> QED
    BY <2>2, <2>3, <2>4
<1>5. ASSUME NEW n \in Ranges, NEW p \in Products
      PROVE  /\ PageAgrees(p, n)
             /\ \A q \in Products \ {p} : CompanionsAgree(p, q, n)
  BY <1>1, ProductAgrees, CompanionsAreMutual
<1> QED
  BY <1>2, <1>3, <1>4, <1>5, ZenonT(60) DEF ProductScreensAgree

\* The lists of what runs out, the analytics page, the hub and a product's page agree
\* on every product, whatever is sold and whichever window is asked for
\* (analytics/stockout.py, dashboard.py, products/intelligence.py, command_center.py,
\* ProductScreensAgree).
THEOREM ProductsAgree == Spec => []ProductFigures
<1>1. IInv => ProductFigures
  BY RowsAgreeOnProducts DEF IInv, ProductFigures
<1> QED
  BY <1>1, RowsKeepShape, PTL
=============================================================================
