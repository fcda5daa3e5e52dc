-------------------------- MODULE AccountTools_proofs --------------------------
(***************************************************************************)
(* Proofs about AccountTools: what an answer says, for every portfolio,    *)
(* every set of orders and every ticker.                                   *)
(***************************************************************************)
EXTENDS AccountTools, FoldLemmas

-----------------------------------------------------------------------------
(* What is made of the portfolio and of the tickers.                       *)

\* The options that account a holds by the quantities given.
Options(quantity, a) ==
  { p \in P : IsOption(p) /\ quantity[p] # 0 /\ AccountOf[p] = a }

\* list has one item for each member of s, with its quantity.
Enumerates(list, quantity, s) ==
  /\ list \in Seq(RowSet)
  /\ \A i \in DOMAIN list : list[i][1] \in s /\ list[i][2] = quantity[list[i][1]]
  /\ \A p \in s : \E i \in DOMAIN list : list[i][1] = p
  /\ \A i, j \in DOMAIN list : list[i][1] = list[j][1] => i = j
  /\ IsFiniteSet(s) /\ Len(list) = Cardinality(s)

LEMMA EnumeratesOneMore ==
  ASSUME NEW quantity \in Lists, NEW s, NEW list, Enumerates(list, quantity, s),
         NEW p \in P, p \notin s
  PROVE  Enumerates(Append(list, << p, quantity[p] >>), quantity, s \cup {p})
<1> DEFINE more == Append(list, << p, quantity[p] >>)
           n == Len(list)
<1>1. /\ list \in Seq(RowSet) /\ n \in Nat /\ << p, quantity[p] >> \in RowSet
      /\ DOMAIN list = 1..n
  BY DEF Enumerates, RowSet, Lists
<1>2. /\ more \in Seq(RowSet) /\ Len(more) = n + 1 /\ DOMAIN more = 1..(n + 1)
      /\ more[n + 1] = << p, quantity[p] >> /\ \A i \in 1..n : more[i] = list[i]
  BY <1>1
<1> HIDE DEF more
<1>3. \A i \in 1..n : list[i][1] \in s /\ list[i][2] = quantity[list[i][1]]
  BY <1>1 DEF Enumerates
<1>4. \A i \in 1..(n + 1) : i \in 1..n \/ i = n + 1
  BY <1>1
<1>5. ASSUME NEW i \in DOMAIN more
      PROVE  more[i][1] \in s \cup {p} /\ more[i][2] = quantity[more[i][1]]
  BY <1>2, <1>3, <1>4
<1>6. ASSUME NEW q \in s \cup {p} PROVE \E i \in DOMAIN more : more[i][1] = q
  <2>1. CASE q = p
    <3>1. n + 1 \in DOMAIN more /\ more[n + 1][1] = q
      BY <1>1, <1>2, <2>1
    <3> QED
      BY <3>1
  <2>2. CASE q \in s
    <3>1. PICK i \in DOMAIN list : list[i][1] = q
      BY <2>2 DEF Enumerates
    <3>2. i \in DOMAIN more /\ more[i][1] = q
      BY <1>1, <1>2, <3>1
    <3> QED
      BY <3>2
  <2> QED
    BY <2>1, <2>2
<1>7. ASSUME NEW i \in DOMAIN more, NEW j \in DOMAIN more, more[i][1] = more[j][1]
      PROVE  i = j
  <2>1. CASE i \in 1..n /\ j \in 1..n
    BY <1>1, <1>2, <1>7, <2>1 DEF Enumerates
  <2>2. CASE i = n + 1 /\ j = n + 1
    BY <2>2
  <2>3. CASE i = n + 1 /\ j \in 1..n
    BY <1>2, <1>3, <1>7, <2>3
  <2>4. CASE i \in 1..n /\ j = n + 1
    BY <1>2, <1>3, <1>7, <2>4
  <2> QED
    BY <1>2, <1>4, <2>1, <2>2, <2>3, <2>4
<1>8. IsFiniteSet(s \cup {p}) /\ Cardinality(s \cup {p}) = n + 1
  BY FS_AddElement DEF Enumerates
<1>9. Enumerates(more, quantity, s \cup {p})
  BY <1>2, <1>5, <1>6, <1>7, <1>8 DEF Enumerates
<1> QED
  BY <1>9 DEF more

\* OptionItems with the quantities as an argument.
ItemsOf(quantity, a) ==
  LET Pick(found, p) ==
        IF IsOption(p) /\ quantity[p] # 0 /\ AccountOf[p] = a
        THEN Append(found, << p, quantity[p] >>) ELSE found
  IN FoldLeft(Pick, << >>, Positions)

\* get_portfolio_greeks makes one item of each option of the account, in one
\* pass over the portfolio.
LEMMA ItemsEnumerate ==
  ASSUME NEW quantity \in Lists, NEW a
  PROVE  Enumerates(ItemsOf(quantity, a), quantity, Options(quantity, a))
<1> DEFINE n == Len(Positions)
           Counts(p) == IsOption(p) /\ quantity[p] # 0 /\ AccountOf[p] = a
           Pick(found, p) == IF Counts(p) THEN Append(found, << p, quantity[p] >>) ELSE found
           A == Seq(RowSet)
           step == [x \in A \X (1..n) |-> Pick(x[1], Positions[x[2]])]
           Fold(f) == f = [s \in SUBSET (1..n) |->
                             IF s = {} THEN << >>
                             ELSE Pick(f[s \ {Max(s)}], Positions[Max(s)])]
           h == CHOOSE f : Fold(f)
           Seen(k) == { p \in P : Counts(p) /\ \E j \in 1..k : p = Positions[j] }
<1>1. /\ n \in Nat /\ DOMAIN Positions = 1..n /\ \A i \in 1..n : Positions[i] \in P
      /\ \A i, j \in 1..n : Positions[i] = Positions[j] => i = j
      /\ P = { Positions[i] : i \in 1..n }
  BY PortfolioAssumption DEF P, ToSet
<1>2. \A p \in P : << p, quantity[p] >> \in RowSet
  BY DEF RowSet, Lists
<1>3. << >> \in A /\ step \in StepsOf(A, n)
  <2>1. ASSUME NEW x \in A \X (1..n) PROVE Pick(x[1], Positions[x[2]]) \in A
    BY <1>1, <1>2
  <2> QED
    BY <2>1 DEF StepsOf
<1>4. ItemsOf(quantity, a) = h[1..n]
  BY <1>1 DEF ItemsOf, FoldLeft, MapThenFoldSet
<1> HIDE DEF A
<1>5. Fold(h)
  <2>1. PICK g : Iterates(g, A, << >>, n, step)
    BY <1>1, <1>3, IterationExists
  <2>2. Fold(g)
    <3>1. g = [s \in SUBSET (1..n) |-> g[s]] /\ g[{}] = << >>
      BY <2>1 DEF Iterates
    <3>2. ASSUME NEW s \in SUBSET (1..n), s # {}
          PROVE  g[s] = Pick(g[s \ {Max(s)}], Positions[Max(s)])
      <4>1. Max(s) \in 1..n /\ g[s \ {Max(s)}] \in A
        BY <2>1, <3>2 DEF Iterates
      <4>2. g[s] = step[<< g[s \ {Max(s)}], Max(s) >>]
        BY <2>1, <3>2 DEF Iterates
      <4> QED
        BY <4>1, <4>2
    <3>3. ASSUME NEW s \in SUBSET (1..n)
          PROVE  g[s] = IF s = {} THEN << >>
                        ELSE Pick(g[s \ {Max(s)}], Positions[Max(s)])
      BY <3>1, <3>2
    <3> QED
      BY <3>1, <3>3
  <2> QED
    BY <2>2
<1> HIDE DEF h
<1>6. FoldsBy(h, A, << >>, n, step)
  <2>1. h[{}] = << >>
    BY <1>5
  <2>2. ASSUME NEW s \in SUBSET (1..n), s # {}, h[s \ {Max(s)}] \in A
        PROVE  h[s] = step[<< h[s \ {Max(s)}], Max(s) >>]
    <3>1. Max(s) \in 1..n
      <4>1. PICK g : Iterates(g, A, << >>, n, step)
        BY <1>1, <1>3, IterationExists
      <4> QED
        BY <2>2, <4>1 DEF Iterates
    <3> QED
      BY <1>5, <2>2, <3>1
  <2> QED
    BY <2>1, <2>2 DEF FoldsBy
<1>7. PICK acc : Accumulates(acc, A, << >>, n, step) /\ acc[n] = h[1..n]
  <2> HIDE DEF step
  <2> QED
    BY <1>1, <1>3, <1>6, FoldByPlace
<1> DEFINE S == { k \in Nat : k <= n => Enumerates(acc[k], quantity, Seen(k)) }
<1>8. 0 \in S
  <2>1. acc[0] = << >> /\ Seen(0) = {}
    BY <1>7 DEF Accumulates
  <2>2. Enumerates(<< >>, quantity, {})
    BY FS_EmptySet DEF Enumerates
  <2> QED
    BY <2>1, <2>2
<1>9. ASSUME NEW k \in Nat, k \in S PROVE k + 1 \in S
  <2> SUFFICES ASSUME k + 1 <= n PROVE Enumerates(acc[k + 1], quantity, Seen(k + 1))
    BY k + 1 \in Nat
  <2> DEFINE p == Positions[k + 1]
  <2>1. k + 1 \in 1..n /\ k \in 0..n /\ (k + 1) - 1 = k
    BY <1>1
  <2>2. Enumerates(acc[k], quantity, Seen(k))
    BY <1>1, <1>9, <2>1
  <2>3. acc[k + 1] = Pick(acc[k], p)
    <3>1. acc[k] \in A /\ acc[k + 1] = step[<< acc[k], k + 1 >>]
      BY <1>7, <2>1 DEF Accumulates
    <3> QED
      BY <2>1, <3>1
  <2>4. p \in P /\ p \notin Seen(k) /\ \A j \in 1..(k + 1) : j \in 1..k \/ j = k + 1
    BY <1>1, <2>1
  <2>5. CASE Counts(p)
    <3>1. Seen(k + 1) = Seen(k) \cup {p}
      <4>1. 1..k \subseteq 1..(k + 1) /\ k + 1 \in 1..(k + 1)
        OBVIOUS
      <4> QED
        BY <2>4, <2>5, <4>1
    <3>2. Enumerates(Append(acc[k], << p, quantity[p] >>), quantity, Seen(k) \cup {p})
      <4> HIDE DEF p, Seen
      <4> QED
        BY <2>2, <2>4, EnumeratesOneMore
    <3> QED
      BY <2>3, <2>5, <3>1, <3>2
  <2>6. CASE ~Counts(p)
    <3>1. Seen(k + 1) = Seen(k)
      <4>1. 1..k \subseteq 1..(k + 1)
        OBVIOUS
      <4> QED
        BY <2>4, <2>6, <4>1
    <3> QED
      BY <2>2, <2>3, <2>6, <3>1
  <2> QED
    BY <2>5, <2>6
<1>10. Enumerates(acc[n], quantity, Seen(n))
  <2>1. Nat \subseteq S
    BY <1>8, <1>9, SetInduction
  <2>2. n \in S
    BY <1>1, <2>1
  <2>3. n <= n
    BY <1>1
  <2> QED
    BY <2>2, <2>3, Zenon
<1>11. Seen(n) = Options(quantity, a)
  BY <1>1 DEF Options
<1> QED
  BY <1>4, <1>7, <1>10, <1>11

LEMMA TimesIsFloat ==
  ASSUME NEW x \in Float, NEW w \in Int
  PROVE  Times(x, w) \in Float
BY DEF Times, Float

LEMMA PlusIsFloat ==
  ASSUME NEW x \in Float, NEW y \in Float
  PROVE  /\ Plus(x, y) \in Float
         /\ Plus(x, y) = NaN <=> NaN \in {x, y}
         /\ NaN \notin {x, y} => Plus(x, y) = x + y /\ x \in Int /\ y \in Int
<1>1. CASE NaN \in {x, y}
  BY <1>1 DEF Plus, Float
<1>2. CASE NaN \notin {x, y}
  <2>1. x \in Int /\ y \in Int /\ Plus(x, y) = x + y
    BY <1>2 DEF Plus, Float
  <2>2. x + y \in Int /\ x + y # NaN
    BY <2>1, NoneAssumption
  <2> QED
    BY <1>2, <2>1, <2>2 DEF Float
<1> QED
  BY <1>1, <1>2

LEMMA FourBundles ==
  ASSUME NEW t
  PROVE  /\ 1..Len(Bundles(t)) = 1..4 /\ DOMAIN Priority = 1..4
         /\ \A n \in 1..4 : Bundles(t)[n] = t[Priority[n]]
BY DEF Bundles, Priority

\* What line l may say, given its ticker.
ExplainedBy(l, t) ==
  LET bundle(n) == t[Priority[n]]
      has(n) == bundle(n) # None /\ \E g \in GreekNames : bundle(n).greeks[g] # None
  IN \/ /\ l.source = "model"
        /\ \E n \in DOMAIN Priority :
             /\ has(n) /\ \A m \in 1..(n - 1) : ~has(m)
             /\ \A g \in GreekNames :
                  l.greeks[g] =
                    Times(IF bundle(n).greeks[g] = None THEN 0 ELSE bundle(n).greeks[g],
                          Weight(l.quantity, Contract[l.position]))
     \/ /\ l.source \in {"fallback", "missing"}
        /\ \A n \in DOMAIN Priority : ~has(n)
        /\ l.source = "fallback" =>
             /\ Contract[l.position].days >= 0
             /\ \E n \in DOMAIN Priority :
                  /\ bundle(n) # None /\ bundle(n).impliedVol # None
                  /\ ~AtMostZero(bundle(n).impliedVol)

LEMMA ModelGreeks ==
  ASSUME NEW t \in Tickers
  PROVE  \/ /\ GreeksOf(t) = None
            /\ \A n \in 1..4 : ~HasGreeks(t[Priority[n]])
         \/ /\ GreeksOf(t) \in GreekValues /\ GreeksOf(t) # None
            /\ \E n \in 1..4 :
                 /\ HasGreeks(t[Priority[n]])
                 /\ \A m \in 1..(n - 1) : ~HasGreeks(t[Priority[m]])
                 /\ \A g \in GreekNames :
                      GreeksOf(t)[g] = IF t[Priority[n]].greeks[g] = None THEN 0
                                       ELSE t[Priority[n]].greeks[g]
<1> DEFINE I == { n \in 1..Len(Bundles(t)) : HasGreeks(Bundles(t)[n]) }
<1>1. PICK i : i = SelectInSeq(Bundles(t), HasGreeks)
  OBVIOUS
<1>2. \/ i = 0 /\ \A n \in 1..4 : ~HasGreeks(t[Priority[n]])
      \/ /\ i \in 1..4 /\ HasGreeks(t[Priority[i]])
         /\ \A m \in 1..(i - 1) : ~HasGreeks(t[Priority[m]])
  <2>1. i = IF I # {} THEN Min(I) ELSE 0
    BY <1>1 DEF SelectInSeq
  <2>2. I = { n \in 1..4 : HasGreeks(t[Priority[n]]) } /\ I \in SUBSET (1..4)
    BY FourBundles
  <2>3. (i = 0 /\ I = {}) \/ (i \in I /\ \A m \in 1..(i - 1) : m \notin I)
    <3> HIDE DEF I
    <3> QED
      BY <2>1, <2>2, FirstPlace
  <2>4. ASSUME i \in I, NEW m \in 1..(i - 1) PROVE m \in 1..4
    BY <2>2, <2>4
  <2> HIDE DEF I
  <2> QED
    BY <2>2, <2>3, <2>4
<1>3. CASE i = 0 /\ \A n \in 1..4 : ~HasGreeks(t[Priority[n]])
  BY <1>1, <1>3 DEF GreeksOf
<1>4. CASE /\ i \in 1..4 /\ HasGreeks(t[Priority[i]])
           /\ \A m \in 1..(i - 1) : ~HasGreeks(t[Priority[m]])
  <2> DEFINE greeks == t[Priority[i]].greeks
  <2>1. Bundles(t)[i] = t[Priority[i]] /\ i # 0
    BY <1>4 DEF Bundles, Priority
  <2>2. GreeksOf(t) = [n \in GreekNames |-> IF greeks[n] = None THEN 0 ELSE greeks[n]]
    BY <1>1, <2>1 DEF GreeksOf
  <2>3. t[Priority[i]] \in Bundle
    <3>1. Priority[i] \in ToSet(Priority)
      BY <1>4 DEF Priority, ToSet
    <3>2. t[Priority[i]] \in Bundle \cup {None}
      BY <3>1, QuotesAssumption
    <3> QED
      BY <1>4, <3>2 DEF HasGreeks
  <2>4. greeks \in [GreekNames -> Number]
    BY <2>3 DEF Bundle
  <2>5. GreeksOf(t) \in GreekValues
    <3>1. \A g \in GreekNames : greeks[g] \in Float \cup {None} /\ 0 \in Float
      BY <2>4 DEF Number, Float
    <3> QED
      BY <2>2, <3>1 DEF GreekValues
  <2> QED
    BY <1>4, <2>2, <2>5, NoneAssumption
<1> QED
  BY <1>2, <1>3, <1>4

LEMMA LineExplained ==
  ASSUME NEW p \in P, NEW quantity \in Quantities, NEW t \in Tickers,
         NEW l, l = Line(p, quantity, Contract[p], t)
  PROVE  l.position = p /\ l.quantity = quantity /\ IsLine(l) /\ ExplainedBy(l, t)
<1> DEFINE model == GreeksOf(t)
           fallback == FallbackGreeks(Contract[p], Spot(t, Contract[p].marketPrice), LastIv(t))
           Of(source, greeks) ==
             [position |-> p, quantity |-> quantity, source |-> source, greeks |-> greeks]
           weight == Weight(quantity, Contract[p])
           has(n) == HasGreeks(t[Priority[n]])
<1>1. l = IF model # None THEN Of("model", Weighted(model, weight))
          ELSE IF fallback # None THEN Of("fallback", Weighted(fallback, weight))
          ELSE Of("missing", None)
  BY DEF Line
<1>2. weight \in Int
  BY QuotesAssumption, DataAssumption DEF Weight
<1>3. \A greeks \in GreekValues : Weighted(greeks, weight) \in GreekValues
  <2> HIDE DEF weight
  <2> QED
    BY <1>2, TimesIsFloat DEF Weighted, GreekValues
<1>4. fallback \in GreekValues \cup {None}
  BY QuotesAssumption
<1>5. l.position = p /\ l.quantity = quantity
  BY <1>1
<1>6. DOMAIN Priority = 1..4
  BY DEF Priority
<1>7. \A n \in 1..4 :
        has(n) <=> /\ t[Priority[n]] # None
                   /\ \E g \in GreekNames : t[Priority[n]].greeks[g] # None
  BY DEF HasGreeks
<1> HIDE DEF weight, fallback
<1>8. CASE model # None
  <2>1. /\ model \in GreekValues
        /\ \E n \in 1..4 :
             /\ has(n) /\ \A m \in 1..(n - 1) : ~has(m)
             /\ \A g \in GreekNames :
                  model[g] = IF t[Priority[n]].greeks[g] = None THEN 0
                             ELSE t[Priority[n]].greeks[g]
    BY <1>8, ModelGreeks
  <2>2. l = Of("model", Weighted(model, weight))
    BY <1>1, <1>8
  <2>3. IsLine(l)
    BY <1>3, <2>1, <2>2 DEF IsLine
  <2>4. PICK n \in 1..4 :
             /\ has(n) /\ \A m \in 1..(n - 1) : ~has(m)
             /\ \A g \in GreekNames :
                  model[g] = IF t[Priority[n]].greeks[g] = None THEN 0
                             ELSE t[Priority[n]].greeks[g]
    BY <2>1
  <2>5. \A m \in 1..(n - 1) : m \in 1..4
    OBVIOUS
  <2>6. \A g \in GreekNames :
          l.greeks[g] = Times(IF t[Priority[n]].greeks[g] = None THEN 0
                              ELSE t[Priority[n]].greeks[g],
                              Weight(l.quantity, Contract[l.position]))
    <3>1. l.greeks = [g \in GreekNames |-> Times(model[g], weight)]
      BY <2>2 DEF Weighted
    <3>2. weight = Weight(l.quantity, Contract[l.position])
      BY <1>5 DEF weight
    <3> QED
      BY <2>4, <3>1, <3>2
  <2>7. l.source = "model"
    BY <2>2
  <2> QED
    BY <1>5, <1>6, <1>7, <2>3, <2>4, <2>5, <2>6, <2>7 DEF ExplainedBy
<1>9. CASE model = None
  <2>1. \A n \in 1..4 : ~has(n)
    BY <1>9, ModelGreeks
  <2>2. CASE fallback # None
    <3>1. l = Of("fallback", Weighted(fallback, weight)) /\ fallback \in GreekValues
      BY <1>1, <1>4, <1>9, <2>2
    <3>2. IsLine(l)
      BY <1>3, <3>1 DEF IsLine
    <3>3. Contract[p].days >= 0 /\ ~AtMostZero(LastIv(t)) /\ LastIv(t) # None
      BY <2>2 DEF fallback, FallbackGreeks, ValidInputs
    <3>4. \E n \in 1..4 : /\ t[Priority[n]] # None /\ t[Priority[n]].impliedVol # None
                          /\ ~AtMostZero(t[Priority[n]].impliedVol)
      <4>1. PICK i : i = SelectInSeq(Bundles(t), HasIv)
        OBVIOUS
      <4>2. i # 0 /\ LastIv(t) = Bundles(t)[i].impliedVol
        BY <3>3, <4>1 DEF LastIv
      <4>3. i \in 1..4 /\ HasIv(t[Priority[i]])
        <5> DEFINE I == { n \in 1..Len(Bundles(t)) : HasIv(Bundles(t)[n]) }
        <5>1. i = IF I # {} THEN Min(I) ELSE 0
          BY <4>1 DEF SelectInSeq
        <5>2. I = { n \in 1..4 : HasIv(t[Priority[n]]) } /\ I \in SUBSET (1..4)
          BY FourBundles
        <5>3. i \in I
          <6> HIDE DEF I
          <6> QED
            BY <4>2, <5>1, <5>2, FirstPlace
        <5> QED
          BY <5>2, <5>3
      <4>4. Bundles(t)[i] = t[Priority[i]]
        BY <4>3 DEF Bundles, Priority
      <4> QED
        BY <3>3, <4>2, <4>3, <4>4 DEF HasIv
    <3>5. l.source = "fallback"
      BY <3>1
    <3> QED
      BY <1>5, <1>6, <1>7, <2>1, <3>2, <3>3, <3>4, <3>5 DEF ExplainedBy
  <2>3. CASE fallback = None
    <3>1. l = Of("missing", None)
      BY <1>1, <1>9, <2>3
    <3> QED
      BY <1>5, <1>6, <1>7, <2>1, <3>1 DEF ExplainedBy, IsLine
  <2> QED
    BY <2>2, <2>3
<1> QED
  BY <1>8, <1>9

\* What line i adds to the total of greek g: the summand of GreeksAccounted.
Adds(lines, g, i) == IF lines[i].source = "missing" THEN 0 ELSE lines[i].greeks[g]

\* What GreeksAccounted says of the total of g.
TotalOf(lines, g) ==
  IF \E i \in DOMAIN lines : Spoils(lines[i], g) THEN NaN ELSE SumOver(lines, g)

\* The running totals of the loop are the sums over the lines, in whatever
\* order these are taken, or NaN if a line spoils them.
LEMMA TotalsAddUp ==
  ASSUME NEW n \in Nat, NEW lines, DOMAIN lines = 1..n, \A i \in 1..n : IsLine(lines[i])
  PROVE  /\ Totals(lines) \in GreekValues
         /\ n = 0 => Totals(lines) = NoGreeks
         /\ \A g \in GreekNames : Totals(lines)[g] = TotalOf(lines, g)
<1> DEFINE A == GreekValues
           step == [x \in A \X (1..n) |-> AddLine(x[1], lines[x[2]])]
           Fold(f) == f = [s \in SUBSET (1..n) |->
                             IF s = {} THEN NoGreeks
                             ELSE AddLine(f[s \ {Max(s)}], lines[Max(s)])]
           h == CHOOSE f : Fold(f)
<1>1. NoGreeks \in A
  BY DEF NoGreeks, GreekValues, Float
<1>2. ASSUME NEW totals \in A, NEW i \in 1..n
      PROVE  /\ AddLine(totals, lines[i]) \in A
             /\ \A g \in GreekNames :
                  /\ totals[g] \in Float /\ Adds(lines, g, i) \in Float
                  /\ AddLine(totals, lines[i])[g] = Plus(totals[g], Adds(lines, g, i))
                  /\ Spoils(lines[i], g) <=> Adds(lines, g, i) = NaN
  <2>1. CASE lines[i].source = "missing"
    <3>1. AddLine(totals, lines[i]) = totals
      BY <2>1 DEF AddLine
    <3>2. ASSUME NEW g \in GreekNames
          PROVE  /\ totals[g] \in Float /\ Adds(lines, g, i) = 0 /\ 0 \in Float /\ 0 # NaN
                 /\ Plus(totals[g], 0) = totals[g] /\ ~Spoils(lines[i], g)
      <4>1. totals[g] \in Float /\ 0 \in Float /\ 0 # NaN
        BY NoneAssumption DEF GreekValues, Float
      <4>2. Plus(totals[g], 0) = totals[g]
        BY <4>1 DEF Plus, Float
      <4> QED
        BY <2>1, <4>1, <4>2 DEF Adds, Spoils
    <3> QED
      BY <3>1, <3>2
  <2>2. CASE lines[i].source # "missing"
    <3>1. lines[i].greeks \in GreekValues
      BY <2>2 DEF IsLine
    <3>2. AddLine(totals, lines[i]) = [g \in GreekNames |-> Plus(totals[g], lines[i].greeks[g])]
      BY <2>2 DEF AddLine
    <3>3. \A g \in GreekNames : totals[g] \in Float /\ lines[i].greeks[g] \in Float
      BY <3>1 DEF GreekValues
    <3>4. AddLine(totals, lines[i]) \in A
      BY <3>2, <3>3, PlusIsFloat DEF GreekValues
    <3> QED
      BY <2>2, <3>2, <3>3, <3>4 DEF Adds, Spoils
  <2> QED
    BY <2>1, <2>2
<1>3. step \in StepsOf(A, n)
  <2>1. ASSUME NEW x \in A \X (1..n) PROVE AddLine(x[1], lines[x[2]]) \in A
    <3>1. x[1] \in A /\ x[2] \in 1..n
      OBVIOUS
    <3> QED
      BY <1>2, <3>1
  <2> QED
    BY <2>1 DEF StepsOf
<1>4. Totals(lines) = h[1..n]
  BY DEF Totals, FoldLeft, MapThenFoldSet
<1> HIDE DEF A
<1>5. Fold(h)
  <2>1. PICK f : Iterates(f, A, NoGreeks, n, step)
    BY <1>1, <1>3, IterationExists
  <2>2. Fold(f)
    <3>1. f = [s \in SUBSET (1..n) |-> f[s]] /\ f[{}] = NoGreeks
      BY <2>1 DEF Iterates
    <3>2. ASSUME NEW s \in SUBSET (1..n), s # {}
          PROVE  f[s] = AddLine(f[s \ {Max(s)}], lines[Max(s)])
      <4>1. Max(s) \in 1..n /\ f[s \ {Max(s)}] \in A
        BY <2>1, <3>2 DEF Iterates
      <4>2. f[s] = step[<< f[s \ {Max(s)}], Max(s) >>]
        BY <2>1, <3>2 DEF Iterates
      <4> QED
        BY <4>1, <4>2
    <3>3. ASSUME NEW s \in SUBSET (1..n)
          PROVE  f[s] = IF s = {} THEN NoGreeks
                        ELSE AddLine(f[s \ {Max(s)}], lines[Max(s)])
      BY <3>1, <3>2
    <3> QED
      BY <3>1, <3>3
  <2> QED
    BY <2>2
<1> HIDE DEF h
<1>6. FoldsBy(h, A, NoGreeks, n, step)
  <2>1. h[{}] = NoGreeks
    BY <1>5
  <2>2. ASSUME NEW s \in SUBSET (1..n), s # {}, h[s \ {Max(s)}] \in A
        PROVE  h[s] = step[<< h[s \ {Max(s)}], Max(s) >>]
    <3>1. Max(s) \in 1..n
      <4>1. PICK f : Iterates(f, A, NoGreeks, n, step)
        BY <1>1, <1>3, IterationExists
      <4> QED
        BY <2>2, <4>1 DEF Iterates
    <3> QED
      BY <1>5, <2>2, <3>1
  <2> QED
    BY <2>1, <2>2 DEF FoldsBy
<1>7. PICK acc : Accumulates(acc, A, NoGreeks, n, step) /\ acc[n] = h[1..n]
  <2> HIDE DEF step
  <2> QED
    BY <1>1, <1>3, <1>6, FoldByPlace
<1>8. /\ acc \in [0..n -> A] /\ acc[0] = NoGreeks
      /\ \A k \in 1..n : k - 1 \in 0..n /\ acc[k - 1] \in A
                         /\ acc[k] = AddLine(acc[k - 1], lines[k])
  <2>1. \A k \in 1..n : k - 1 \in 0..n
    OBVIOUS
  <2>2. acc \in [0..n -> A] /\ acc[0] = NoGreeks
    BY <1>7 DEF Accumulates
  <2>3. \A k \in 1..n : acc[k - 1] \in A /\ acc[k] = step[<< acc[k - 1], k >>]
    BY <1>7, <2>1, <2>2 DEF Accumulates
  <2> QED
    BY <2>1, <2>2, <2>3
<1>9. Totals(lines) \in GreekValues
  <2>1. n \in 0..n
    OBVIOUS
  <2> QED
    BY <1>4, <1>7, <1>8, <2>1 DEF A
<1>10. n = 0 => Totals(lines) = NoGreeks
  BY <1>4, <1>7, <1>8
<1>11. ASSUME NEW g \in GreekNames
       PROVE  /\ 0 \in 0..n /\ NoGreeks[g] = 0
              /\ \A k \in 0..n : acc[k] \in A /\ acc[k][g] \in Float
              /\ \A k \in 1..n : acc[k][g] = Plus(acc[k - 1][g], Adds(lines, g, k))
  BY <1>2, <1>8 DEF A, GreekValues, NoGreeks
<1>12. ASSUME NEW g \in GreekNames, NEW i \in 1..n, Spoils(lines[i], g)
       PROVE  Totals(lines)[g] = NaN
  <2> DEFINE S == { k \in Nat : k \in i..n => acc[k][g] = NaN }
  <2>1. 0 \in S
    OBVIOUS
  <2>2. ASSUME NEW k \in Nat, k \in S PROVE k + 1 \in S
    <3> SUFFICES ASSUME k + 1 \in i..n PROVE acc[k + 1][g] = NaN
      BY k + 1 \in Nat
    <3>1. /\ k + 1 \in 1..n /\ k \in 0..n /\ (k + 1) - 1 = k
          /\ k \in i..n \/ k + 1 = i
      OBVIOUS
    <3>2. /\ acc[k][g] \in Float /\ Adds(lines, g, k + 1) \in Float
          /\ acc[k + 1][g] = Plus(acc[k][g], Adds(lines, g, k + 1))
          /\ Spoils(lines[k + 1], g) <=> Adds(lines, g, k + 1) = NaN
      <4>1. acc[k] \in A
        BY <1>11, <3>1
      <4> QED
        BY <1>2, <1>11, <3>1, <4>1
    <3>3. acc[k][g] = NaN \/ Adds(lines, g, k + 1) = NaN
      BY <1>12, <2>2, <3>1, <3>2
    <3> QED
      BY <3>2, <3>3, PlusIsFloat
  <2>3. n \in S
    <3>1. Nat \subseteq S
      <4> HIDE DEF S
      <4> QED
        BY <2>1, <2>2, SetInduction
    <3> QED
      BY <3>1
  <2>4. n \in i..n
    OBVIOUS
  <2> QED
    BY <1>4, <1>7, <2>3, <2>4
<1>13. ASSUME NEW g \in GreekNames, \A i \in 1..n : ~Spoils(lines[i], g)
       PROVE  /\ \A k \in 0..n : acc[k][g] \in Int
              /\ \A k \in 1..n : /\ Adds(lines, g, k) \in Int
                                 /\ acc[k][g] = acc[k - 1][g] + Adds(lines, g, k)
  <2>1. ASSUME NEW k \in 1..n PROVE Adds(lines, g, k) \in Int /\ Adds(lines, g, k) # NaN
    <3>1. acc[k - 1] \in A
      BY <1>8
    <3> QED
      BY <1>2, <1>13, <3>1 DEF Float
  <2> DEFINE S == { k \in Nat : k <= n => acc[k][g] \in Int }
  <2>2. 0 \in S
    BY <1>8, <1>11
  <2>3. ASSUME NEW k \in 1..n, acc[k - 1][g] \in Int
        PROVE  acc[k][g] = acc[k - 1][g] + Adds(lines, g, k)
    <3>1. acc[k - 1][g] # NaN
      BY <2>3, NoneAssumption
    <3> QED
      BY <1>11, <2>1, <3>1 DEF Plus
  <2>4. ASSUME NEW k \in Nat, k \in S PROVE k + 1 \in S
    <3> SUFFICES ASSUME k + 1 <= n PROVE acc[k + 1][g] \in Int
      BY k + 1 \in Nat
    <3>1. k + 1 \in 1..n /\ (k + 1) - 1 = k /\ k <= n
      OBVIOUS
    <3>2. acc[k][g] \in Int
      BY <2>4, <3>1
    <3>3. acc[k + 1][g] = acc[k][g] + Adds(lines, g, k + 1)
      BY <2>3, <3>1, <3>2
    <3> QED
      BY <2>1, <3>1, <3>2, <3>3
  <2>5. \A k \in 0..n : acc[k][g] \in Int
    <3>1. Nat \subseteq S
      <4> HIDE DEF S
      <4> QED
        BY <2>2, <2>4, SetInduction
    <3> QED
      BY <3>1
  <2>6. \A k \in 1..n : k - 1 \in 0..n
    OBVIOUS
  <2> QED
    BY <2>1, <2>3, <2>5, <2>6
<1>14. ASSUME NEW g \in GreekNames, \A i \in 1..n : ~Spoils(lines[i], g)
       PROVE  Totals(lines)[g] = SumOver(lines, g)
  <2> DEFINE f == [i \in 1..n |-> Adds(lines, g, i)]
             sum == [k \in 0..n |-> acc[k][g]]
             Summed(t) == t = [s \in SUBSET (1..n) |->
                                IF s = {} THEN 0
                                ELSE LET x == CHOOSE x \in s : TRUE
                                     IN Adds(lines, g, x) + t[s \ {x}]]
             t == CHOOSE t : Summed(t)
  <2>1. f \in [1..n -> Int]
    BY <1>13, <1>14
  <2>2. /\ \A k \in 0..n : acc[k] \in A /\ acc[k][g] \in Int
        /\ 0 \in 0..n /\ NoGreeks[g] = 0
    BY <1>11, <1>13, <1>14
  <2>3. Accumulates(sum, Int, 0, n, Adding(f, n))
    <3>1. sum \in [0..n -> Int] /\ sum[0] = 0
      BY <1>8, <2>2
    <3>2. ASSUME NEW k \in 1..n PROVE sum[k] = Adding(f, n)[<< sum[k - 1], k >>]
      <4>1. k \in 0..n /\ k - 1 \in 0..n
        OBVIOUS
      <4>2. acc[k][g] = acc[k - 1][g] + Adds(lines, g, k)
        BY <1>13, <1>14
      <4>3. sum[k] = acc[k][g] /\ sum[k - 1] = acc[k - 1][g] /\ sum[k - 1] \in Int
        BY <2>2, <4>1
      <4> QED
        BY <4>2, <4>3 DEF Adding
    <3> QED
      BY <3>1, <3>2 DEF Accumulates
  <2>4. Adding(f, n) \in StepsOf(Int, n)
    <3> HIDE DEF f
    <3> QED
      BY <2>1 DEF Adding, StepsOf
  <2>5. PICK it : Iterates(it, Int, 0, n, Adding(f, n))
    <3> HIDE DEF f
    <3> QED
      BY <2>4, IterationExists
  <2>6. PICK sum2 : Accumulates(sum2, Int, 0, n, Adding(f, n)) /\ sum2[n] = it[1..n]
    <3> DEFINE adding == Adding(f, n)
    <3>1. adding \in StepsOf(Int, n) /\ Iterates(it, Int, 0, n, adding)
      BY <2>4, <2>5
    <3> HIDE DEF adding
    <3>2. \E sum2 : Accumulates(sum2, Int, 0, n, adding) /\ sum2[n] = it[1..n]
      BY <3>1, IterationByPlace
    <3> QED
      BY <3>2 DEF adding
  <2>7. sum[n] = sum2[n]
    <3> HIDE DEF f, sum
    <3> QED
      BY <2>3, <2>6, AccumulatesOnce
  <2>8. SumsUp(it, f, n) /\ \A u : SumsUp(u, f, n) => u[1..n] = it[1..n]
    <3> HIDE DEF f
    <3> QED
      BY <2>1, <2>5, SumBySet
  <2>9. \A u : Summed(u) <=> SumsUp(u, f, n)
    <3> SUFFICES ASSUME NEW u PROVE Summed(u) <=> SumsUp(u, f, n)
      OBVIOUS
    <3>1. ASSUME NEW s \in SUBSET (1..n)
          PROVE  (IF s = {} THEN 0
                  ELSE LET x == CHOOSE x \in s : TRUE IN Adds(lines, g, x) + u[s \ {x}])
               = (IF s = {} THEN 0
                  ELSE LET x == CHOOSE x \in s : TRUE IN f[x] + u[s \ {x}])
      <4> DEFINE x == CHOOSE x \in s : TRUE
      <4>1. CASE s = {}
        BY <4>1
      <4>2. CASE s # {}
        <5>1. x \in 1..n
          BY <4>2
        <5>2. f[x] = Adds(lines, g, x)
          <6> HIDE DEF x
          <6> QED
            BY <5>1
        <5> QED
          BY <4>2, <5>2
      <4> QED
        BY <4>1, <4>2
    <3> QED
      BY <3>1 DEF SumsUp
  <2>10. SumOver(lines, g) = t[1..n]
    BY DEF SumOver, Adds, MapThenSumSet, MapThenFoldSet
  <2>11. Summed(t)
    <3>1. Summed(it)
      BY <2>8, <2>9
    <3> HIDE DEF Summed
    <3> QED
      BY <3>1
  <2>12. t[1..n] = it[1..n]
    <3> HIDE DEF t, Summed
    <3> QED
      BY <2>8, <2>9, <2>11
  <2>13. sum[n] = Totals(lines)[g]
    BY <1>4, <1>7
  <2> QED
    BY <2>6, <2>7, <2>10, <2>12, <2>13
<1>15. ASSUME NEW g \in GreekNames PROVE Totals(lines)[g] = TotalOf(lines, g)
  BY <1>12, <1>14, <1>15 DEF TotalOf
<1> QED
  BY <1>9, <1>10, <1>15

-----------------------------------------------------------------------------
(* The invariant: what a call knows at each stage, and what it may rely on. *)

Live(status) == { o \in Orders : status[o] \in LiveStatuses }
Asked == IF requested = None THEN account_id ELSE requested

\* A call awaits a reply on behalf of a linked account; a lookup never waits.
Phases ==
  /\ pc = "idle" => tool = None /\ answer = Nothing /\ received = NoReply
  /\ pc = "awaiting" =>
       /\ tool \in RequestTools /\ reply # "none" /\ answer = Nothing
       /\ account = Asked /\ account \in managed
       /\ requested \in Accounts \cup {None}
  /\ pc # "awaiting" => reply = "none"
  /\ reply = "pending" => is_connected

\* The copy has no order that the gateway lacks, and still has what was listed.
Known ==
  /\ \A o \in Orders : trades[o] # None => book[o] # None
  /\ \A o \in listed : trades[o] # None

LiveFollowed ==
  pc = "awaiting" /\ tool = "get_live_orders" =>
    /\ is_connected => always \subseteq Live(book) /\ Live(book) \subseteq ever
    /\ ~is_connected => always = {} /\ Live(trades) = {}
    /\ reply = "data" =>
         /\ always \cap Own \subseteq Live(trades)
         /\ Live(trades) \cap Own \subseteq ever

PositionsFollowed ==
  pc = "awaiting" /\ tool = "get_positions" =>
    /\ Rows(seen) = {}
    /\ is_connected => always \subseteq Rows(holdings)
    /\ ~is_connected => always = {}
    /\ reply = "data" =>
         /\ always \subseteq received.positions
         /\ \E quantity \in Lists : received.positions = Rows(quantity)

\* What happens to the portfolio during the request does not touch the items.
OptionsHeld ==
  pc = "awaiting" /\ tool = "get_portfolio_greeks" =>
    /\ Enumerates(items, seen, Options(seen, account))
    /\ reply = "data" =>
         /\ received.some
         /\ received.quotes \in [DOMAIN items -> Tickers] \cup {<< >>}

Answers ==
  /\ LiveOrdersAreLive /\ LiveOrdersComplete /\ FoundUnderItsId
  /\ ServesTheAccount /\ PositionsComplete /\ GreeksAccounted

AInv ==
  /\ TypeOK /\ Phases /\ Known
  /\ LiveFollowed /\ PositionsFollowed /\ OptionsHeld /\ Answers

-----------------------------------------------------------------------------
(* How a call starts.                                                      *)

LEMMA RowsOfQuantities ==
  ASSUME NEW quantity \in Lists
  PROVE  /\ Rows(quantity) \subseteq RowSet
         /\ \A r1, r2 \in Rows(quantity) : r1[1] = r2[1] => r1 = r2
BY DEF Rows, RowSet, Lists

LEMMA NothingTyped == IsAnswer(Nothing)
BY DEF IsAnswer, Nothing, NoGreeks, GreekValues, Float

LEMMA OrderStatusStep ==
  ASSUME AInv, NEW id \in AskedIds, GetOrderStatus(id)
  PROVE  AInv'
<1> USE DEF Nothing
<1>1. /\ pc = "idle" /\ pc' = "done" /\ tool' = "get_order_status" /\ requested' = id
      /\ reply' = "none" /\ seen' = portfolio /\ ever' = {} /\ always' = {}
      /\ UNCHANGED << sessionVars, gatewayVars, cacheVars, received, account, items >>
      /\ listed' = listed \cup answer'.orders
  BY DEF GetOrderStatus, Begin, Shown, Refuse, Respond
<1>2. \/ answer' = [Nothing EXCEPT !.code = "IB_NOT_CONNECTED"]
      \/ Matches(id) = {} /\ answer' = [Nothing EXCEPT !.code = "VALIDATION_ERROR"]
      \/ \E o \in Matches(id) : answer' = [Nothing EXCEPT !.code = "ok", !.orders = {o}]
  BY DEF GetOrderStatus, Refuse, Respond
<1>3. /\ answer'.orders \subseteq Matches(id)
      /\ answer'.code = "VALIDATION_ERROR" => Matches(id) = {}
      /\ IsAnswer(answer')
  <2>1. CASE answer' = [Nothing EXCEPT !.code = "IB_NOT_CONNECTED"]
    BY <2>1, NothingTyped DEF IsAnswer, Codes
  <2>2. CASE Matches(id) = {} /\ answer' = [Nothing EXCEPT !.code = "VALIDATION_ERROR"]
    BY <2>2, NothingTyped DEF IsAnswer, Codes
  <2>3. ASSUME NEW o \in Matches(id), answer' = [Nothing EXCEPT !.code = "ok", !.orders = {o}]
        PROVE  /\ answer'.orders \subseteq Matches(id) /\ answer'.code # "VALIDATION_ERROR"
               /\ IsAnswer(answer')
    <3>1. o \in Orders
      BY DEF Matches
    <3> QED
      BY <2>3, <3>1, NothingTyped DEF IsAnswer, Codes
  <2> QED
    BY <1>2, <2>1, <2>2, <2>3
<1>5. TypeOK'
  BY <1>1, <1>3 DEF AInv, TypeOK, Tools, Matches, sessionVars, gatewayVars, cacheVars
<1>6. Phases'
  BY <1>1 DEF Phases
<1>7. Known'
  BY <1>1, <1>3 DEF AInv, Known, Matches, gatewayVars, cacheVars
<1>8. LiveFollowed' /\ PositionsFollowed' /\ OptionsHeld'
  BY <1>1 DEF LiveFollowed, PositionsFollowed, OptionsHeld
<1>9. FoundUnderItsId'
  <2>1. \A o \in Matches(id) : OrderId[o] = id \/ (id = -1 /\ OrderId[o] = 0)
    BY DEF Matches
  <2>2. ASSUME answer'.code = "VALIDATION_ERROR", NEW o \in listed'
        PROVE  OrderId[o] # id \/ OrderId[o] = 0
    <3>1. o \in listed /\ o \in Orders /\ trades[o] # None /\ o \notin Matches(id)
      BY <1>1, <1>2, <1>3, <2>2 DEF AInv, Known, TypeOK
    <3> QED
      BY <3>1 DEF Matches
  <2> QED
    BY <1>1, <1>3, <2>1, <2>2 DEF FoundUnderItsId
<1>10. Answers'
  BY <1>1, <1>9 DEF Answers, LiveOrdersAreLive, LiveOrdersComplete, ServesTheAccount,
     PositionsComplete, GreeksAccounted, Answered, RequestTools
<1> QED
  BY <1>5, <1>6, <1>7, <1>8, <1>10 DEF AInv

LEMMA RejectedStep ==
  ASSUME AInv, NEW t \in RequestTools, NEW id \in Accounts \cup {None}, Rejected(t, id)
  PROVE  AInv'
<1> USE DEF Nothing
<1>1. /\ pc = "idle" /\ pc' = "done" /\ tool' = t /\ requested' = id
      /\ reply' = "none" /\ seen' = portfolio
      /\ ever' = Shown(t, is_connected, book, holdings) /\ always' = ever'
      /\ UNCHANGED << sessionVars, gatewayVars, cacheVars, received, account, items >>
      /\ listed' = listed \cup answer'.orders
  BY DEF Rejected, Begin, Refuse, Respond
<1>2. \/ answer' = [Nothing EXCEPT !.code = "IB_NOT_CONNECTED"]
      \/ answer' = [Nothing EXCEPT !.code = "IB_ACCOUNT_NOT_FOUND"]
  BY DEF Rejected, Refuse, Respond
<1>3. IsAnswer(answer') /\ answer'.orders = {} /\ answer'.code # "ok"
  BY <1>2, NothingTyped DEF IsAnswer, Codes
<1>4. ever' \subseteq Orders \cup RowSet
  BY <1>1, RowsOfQuantities DEF AInv, TypeOK, Shown
<1>5. TypeOK'
  BY <1>1, <1>3, <1>4
     DEF AInv, TypeOK, Tools, sessionVars, gatewayVars, cacheVars
<1>6. Phases'
  BY <1>1 DEF Phases
<1>7. Known'
  BY <1>1, <1>3 DEF AInv, Known, gatewayVars, cacheVars
<1>8. LiveFollowed' /\ PositionsFollowed' /\ OptionsHeld'
  BY <1>1 DEF LiveFollowed, PositionsFollowed, OptionsHeld
<1>9. Answers'
  BY <1>1, <1>3 DEF Answers, LiveOrdersAreLive, LiveOrdersComplete, FoundUnderItsId,
     ServesTheAccount, PositionsComplete, GreeksAccounted, Answered, RequestTools
<1> QED
  BY <1>5, <1>6, <1>7, <1>8, <1>9 DEF AInv

\* A tool begins for an account of the login, and what it watches begins with
\* what the gateway shows now.
LEMMA Begun ==
  ASSUME AInv, NEW t \in RequestTools, NEW id \in Accounts \cup {None}, BeginFor(t, id)
  PROVE  /\ pc = "idle" /\ tool' = t /\ requested' = id /\ seen' = portfolio
         /\ is_connected /\ answer = Nothing /\ received = NoReply
         /\ account' = Asked' /\ account' \in managed /\ account' = Resolve(id)
         /\ ever' = Shown(t, TRUE, book, holdings) /\ always' = ever'
         /\ ever' \subseteq Orders \cup RowSet
         /\ UNCHANGED << is_connected, account_id, managed, subscribed, book, holdings,
                         trades, portfolio, received >>
<1>1. /\ pc = "idle" /\ tool' = t /\ requested' = id /\ seen' = portfolio
      /\ is_connected /\ account' = Resolve(id) /\ Resolve(id) # None
      /\ ever' = Shown(t, is_connected, book, holdings) /\ always' = ever'
      /\ UNCHANGED << is_connected, account_id, managed, subscribed, book, holdings,
                      trades, portfolio, received >>
  BY DEF BeginFor, Begin, sessionVars, gatewayVars, cacheVars
<1>2. answer = Nothing /\ received = NoReply
  BY <1>1 DEF AInv, Phases
<1>3. account' = Asked' /\ account' \in managed
  BY <1>1 DEF Resolve, Asked, AInv, TypeOK
<1>4. ever' = Shown(t, TRUE, book, holdings)
  BY <1>1 DEF Shown
<1>5. ever' \subseteq Orders \cup RowSet
  BY <1>4, RowsOfQuantities DEF AInv, TypeOK, Shown
<1> QED
  BY <1>1, <1>2, <1>3, <1>4, <1>5

LEMMA AskStep ==
  ASSUME AInv, NEW t \in RequestTools, NEW id \in Accounts \cup {None},
         BeginFor(t, id), Send,
         \A i \in DOMAIN items' : items'[i] \in RowSet,
         t = "get_positions" => Rows(portfolio) = {},
         t = "get_portfolio_greeks" => items' = OptionItems(Resolve(id))
  PROVE  AInv'
<1>1. /\ pc = "idle" /\ tool' = t /\ requested' = id /\ seen' = portfolio
      /\ is_connected /\ answer = Nothing /\ received = NoReply
      /\ account' = Asked' /\ account' \in managed /\ account' = Resolve(id)
      /\ ever' = Shown(t, TRUE, book, holdings) /\ always' = ever'
      /\ ever' \subseteq Orders \cup RowSet
      /\ UNCHANGED << is_connected, account_id, managed, subscribed, book, holdings,
                      trades, portfolio, received >>
  BY Begun
<1>2. pc' = "awaiting" /\ reply' = "pending" /\ UNCHANGED << answer, listed >>
  BY DEF Send
<1>3. TypeOK'
  BY <1>1, <1>2 DEF AInv, TypeOK, Tools
<1>4. Phases'
  BY <1>1, <1>2 DEF Phases
<1>5. Known'
  BY <1>1, <1>2 DEF AInv, Known
<1>6. LiveFollowed'
  BY <1>1, <1>2 DEF LiveFollowed, Live, Shown
<1>7. PositionsFollowed'
  BY <1>1, <1>2 DEF PositionsFollowed, Rows, Shown
<1>8. OptionsHeld'
  <2> SUFFICES ASSUME t = "get_portfolio_greeks" PROVE OptionsHeld'
    BY <1>1, <1>2 DEF OptionsHeld
  <2>1. PICK quantity \in Lists : quantity = portfolio
    BY DEF AInv, TypeOK
  <2>2. PICK a : a = Resolve(id)
    OBVIOUS
  <2>3. OptionItems(Resolve(id)) = ItemsOf(quantity, a)
    <3>1. OptionItems(Resolve(id)) = ItemsOf(portfolio, Resolve(id))
      BY DEF OptionItems, ItemsOf, FoldLeft, MapThenFoldSet
    <3> QED
      BY <2>1, <2>2, <3>1
  <2>4. Enumerates(ItemsOf(quantity, a), quantity, Options(quantity, a))
    BY ItemsEnumerate
  <2>5. items' = ItemsOf(quantity, a) /\ seen' = quantity /\ account' = a
    BY <1>1, <2>1, <2>2, <2>3
  <2>6. Enumerates(items', seen', Options(seen', account'))
    BY <2>4, <2>5
  <2> QED
    BY <1>2, <2>6 DEF OptionsHeld, Options, Enumerates
<1>9. Answers'
  BY <1>1, <1>2, NoneAssumption
     DEF Answers, LiveOrdersAreLive, LiveOrdersComplete, FoundUnderItsId,
     ServesTheAccount, PositionsComplete, GreeksAccounted, Answered, RequestTools
<1> QED
  BY <1>3, <1>4, <1>5, <1>6, <1>7, <1>8, <1>9 DEF AInv

LEMMA AsksStep ==
  ASSUME AInv, NEW id \in Accounts \cup {None}, GetLiveOrders(id) \/ GetAccountInfo(id)
  PROVE  AInv'
<1>1. \A i \in DOMAIN items : items[i] \in RowSet
  BY DEF AInv, TypeOK
<1>2. CASE GetLiveOrders(id)
  BY <1>1, <1>2, AskStep DEF GetLiveOrders, RequestTools
<1>3. CASE GetAccountInfo(id)
  BY <1>1, <1>3, AskStep DEF GetAccountInfo, RequestTools
<1> QED
  BY <1>2, <1>3

LEMMA PositionsStep ==
  ASSUME AInv, NEW id \in Accounts \cup {None}, GetPositions(id)
  PROVE  AInv'
<1>0. /\ BeginFor("get_positions", id) /\ CacheOrRequest(Resolve(id)) /\ items' = items
      /\ \A i \in DOMAIN items : items[i] \in RowSet
  BY DEF GetPositions, AInv, TypeOK
<1>1. CASE Rows(portfolio) = {} /\ Send
  BY <1>0, <1>1, AskStep DEF RequestTools
<1>2. CASE Rows(portfolio) # {} /\ FromCache(Resolve(id))
  <2> USE DEF Nothing
  <2>1. /\ pc = "idle" /\ tool' = "get_positions" /\ requested' = id /\ seen' = portfolio
        /\ is_connected /\ answer = Nothing /\ received = NoReply
        /\ account' = Asked' /\ account' \in managed /\ account' = Resolve(id)
        /\ always' = ever' /\ ever' \subseteq Orders \cup RowSet
        /\ UNCHANGED << is_connected, account_id, managed, subscribed, book, holdings,
                        trades, portfolio, received >>
    BY <1>0, Begun DEF RequestTools
  <2>2. PICK a : a = Resolve(id)
    OBVIOUS
  <2>3. PICK response :
          response = [Nothing EXCEPT !.code = "ok", !.account = a,
                                     !.positions = RowsOf(a, Rows(portfolio))]
    OBVIOUS
  <2>4. /\ pc' = "done" /\ answer' = response /\ reply' = "none"
        /\ listed' = listed \cup response.orders
    BY <1>2, <2>2, <2>3 DEF FromCache, Respond
  <2>5. /\ response.orders = {} /\ response.values = {} /\ response.lines = << >>
        /\ response.code = "ok" /\ response.account = a
        /\ response.positions = RowsOf(a, Rows(portfolio))
    BY <2>3
  <2>6. Rows(portfolio) \subseteq RowSet
        /\ \A r1, r2 \in Rows(portfolio) : r1[1] = r2[1] => r1 = r2
    BY RowsOfQuantities DEF AInv, TypeOK
  <2>7. a \in Accounts
    BY <2>1, <2>2 DEF AInv, TypeOK
  <2>8. IsAnswer(response)
    BY <2>3, <2>6, <2>7, NothingTyped DEF IsAnswer, Codes, RowsOf
  <2>9. TypeOK'
    BY <1>0, <2>1, <2>4, <2>5, <2>8 DEF AInv, TypeOK, Tools, RequestTools
  <2>10. Phases' /\ Known'
    BY <2>1, <2>4, <2>5 DEF AInv, Phases, Known
  <2>11. LiveFollowed' /\ PositionsFollowed' /\ OptionsHeld'
    BY <2>4 DEF LiveFollowed, PositionsFollowed, OptionsHeld
  <2>12. ServesTheAccount'
    BY <2>1, <2>2, <2>4, <2>5 DEF ServesTheAccount, Asked, RowsOf
  <2>13. PositionsComplete'
    <3>1. \A row \in RowsOf(a, always' \cap RowSet) :
            Rows(portfolio) = {} \/ row \in Rows(portfolio) => row \in response.positions
      BY <1>2, <2>5 DEF RowsOf
    <3>2. \A r1, r2 \in response.positions : r1[1] = r2[1] => r1 = r2
      BY <2>5, <2>6 DEF RowsOf
    <3>3. Rows(portfolio) = Rows(seen)'
      BY <2>1 DEF Rows
    <3> QED
      BY <2>1, <2>4, <2>5, <3>1, <3>2, <3>3 DEF PositionsComplete, RowsOf
  <2>14. Answers'
    BY <2>1, <2>12, <2>13 DEF Answers, LiveOrdersAreLive, LiveOrdersComplete,
       FoundUnderItsId, GreeksAccounted, Answered
  <2> QED
    BY <2>9, <2>10, <2>11, <2>14 DEF AInv
<1> QED
  BY <1>0, <1>1, <1>2 DEF CacheOrRequest

\* The lines made of the items and the tickers, and the item of a position.
Breakdown(list, quotes) ==
  [i \in DOMAIN quotes |-> Line(list[i][1], list[i][2], Contract[list[i][1]], quotes[i])]
Place(list, p) == CHOOSE j \in DOMAIN list : list[j][1] = p

\* What is promised of the lines and of their totals.
Accounted(lines, quantity, a, list, quotes) ==
  /\ DOMAIN lines = DOMAIN list
  /\ { lines[i].position : i \in DOMAIN lines } = Options(quantity, a)
  /\ Len(lines) = Cardinality(Options(quantity, a))
  /\ \A i \in DOMAIN lines :
       /\ IsLine(lines[i])
       /\ lines[i].quantity = quantity[lines[i].position]
       /\ ExplainedBy(lines[i], quotes[Place(list, lines[i].position)])
  /\ Totals(lines) \in GreekValues
  /\ list = << >> => Totals(lines) = NoGreeks
  /\ \A g \in GreekNames : Totals(lines)[g] = TotalOf(lines, g)

LEMMA BreakdownMade ==
  ASSUME NEW quantity \in Lists, NEW a, NEW list, NEW quotes,
         Enumerates(list, quantity, Options(quantity, a)),
         quotes \in [DOMAIN list -> Tickers]
  PROVE  Accounted(Breakdown(list, quotes), quantity, a, list, quotes)
<1> DEFINE n == Len(list)
<1>0. PICK lines : lines = Breakdown(list, quotes)
  OBVIOUS
<1>1. /\ n \in Nat /\ DOMAIN list = 1..n /\ DOMAIN lines = 1..n /\ Len(lines) = n
      /\ \A i \in 1..n : list[i] \in RowSet
      /\ n = Cardinality(Options(quantity, a))
  BY <1>0 DEF Enumerates, Breakdown
<1>2. \A i \in 1..n : list[i][1] \in Options(quantity, a) /\ list[i][2] = quantity[list[i][1]]
  BY <1>1 DEF Enumerates
<1>3. ASSUME NEW i \in 1..n
      PROVE  /\ lines[i].position = list[i][1] /\ lines[i].quantity = list[i][2]
             /\ IsLine(lines[i]) /\ ExplainedBy(lines[i], quotes[i])
             /\ Place(list, list[i][1]) = i
  <2>1. list[i][1] \in P /\ list[i][2] \in Quantities /\ quotes[i] \in Tickers
    BY <1>1 DEF RowSet
  <2>2. lines[i] = Line(list[i][1], list[i][2], Contract[list[i][1]], quotes[i])
    BY <1>0, <1>1 DEF Breakdown
  <2>3. \A j \in DOMAIN list : list[j][1] = list[i][1] <=> j = i
    BY <1>1 DEF Enumerates
  <2>4. Place(list, list[i][1]) = i
    BY <1>1, <2>3 DEF Place
  <2> QED
    BY <2>1, <2>2, <2>4, LineExplained
<1>4. { lines[i].position : i \in DOMAIN lines } = Options(quantity, a)
  <2>1. \A p \in Options(quantity, a) : \E i \in 1..n : list[i][1] = p
    BY <1>1 DEF Enumerates
  <2> QED
    BY <1>1, <1>2, <1>3, <2>1
<1>5. \A i \in DOMAIN lines :
        /\ IsLine(lines[i])
        /\ lines[i].quantity = quantity[lines[i].position]
        /\ ExplainedBy(lines[i], quotes[Place(list, lines[i].position)])
  BY <1>1, <1>2, <1>3
<1>6. /\ Totals(lines) \in GreekValues
      /\ n = 0 => Totals(lines) = NoGreeks
      /\ \A g \in GreekNames : Totals(lines)[g] = TotalOf(lines, g)
  <2>1. n \in Nat /\ DOMAIN lines = 1..n /\ \A i \in 1..n : IsLine(lines[i])
    BY <1>1, <1>3
  <2> HIDE DEF n
  <2> QED
    BY <2>1, TotalsAddUp
<1>7. list = << >> => n = 0
  OBVIOUS
<1> HIDE DEF n
<1>8. Accounted(lines, quantity, a, list, quotes)
  BY <1>1, <1>4, <1>5, <1>6, <1>7 DEF Accounted
<1> QED
  BY <1>0, <1>8

\* What an answer with such a breakdown claims, once the call is done.
LEMMA BreakdownAnswered ==
  ASSUME NEW quantity \in Lists, NEW a, NEW list, NEW quotes,
         Enumerates(list, quantity, Options(quantity, a)),
         quotes \in [DOMAIN list -> Tickers],
         NEW lines, lines = Breakdown(list, quotes),
         answer'.lines = lines, answer'.totals = Totals(lines),
         answer'.account = a, items' = list, received'.quotes = quotes, seen' = quantity
  PROVE  GreeksAccounted'
<1>1. Accounted(lines, quantity, a, list, quotes)
  BY BreakdownMade
<1>2. Options(quantity, a) =
        { p \in P : Contract[p].secType \in {"OPT", "FOP"} /\ seen'[p] # 0
                    /\ AccountOf[p] = answer'.account }
  BY DEF Options, IsOption
<1>3. \A p : received'.quotes[CHOOSE i \in DOMAIN items' : items'[i][1] = p]
             = quotes[Place(list, p)]
  BY DEF Place
<1>4. ASSUME NEW l, ExplainedBy(l, quotes[Place(list, l.position)])
      PROVE  Explained(l)'
  <2>1. PICK t : t = quotes[Place(list, l.position)]
    OBVIOUS
  <2>2. QuoteOf(l.position)' = t
    BY <1>3, <2>1 DEF QuoteOf
  <2>3. ExplainedBy(l, QuoteOf(l.position)')
    BY <1>4, <2>1, <2>2
  <2> QED
    BY <2>3 DEF ExplainedBy, Explained
<1>5. \A i \in DOMAIN lines : Explained(lines[i])'
  BY <1>1, <1>4 DEF Accounted
<1>6. \A g \in GreekNames : answer'.totals[g] = TotalOf(answer'.lines, g)
  BY <1>1 DEF Accounted
<1>7. /\ { answer'.lines[i].position : i \in DOMAIN answer'.lines } = Options(quantity, a)
      /\ Len(answer'.lines) = Cardinality(Options(quantity, a))
  BY <1>1 DEF Accounted
<1>8. \A i \in DOMAIN answer'.lines :
        /\ answer'.lines[i].quantity = seen'[answer'.lines[i].position]
        /\ Explained(answer.lines[i])'
  BY <1>1, <1>5 DEF Accounted
<1>9. received'.quotes = << >> => answer'.lines = << >>
  BY DEF Breakdown
<1> QED
  BY <1>2, <1>6, <1>7, <1>8, <1>9 DEF GreeksAccounted, TotalOf

\* Without lines the totals are those at the start of the loop.
LEMMA NoLines ==
  /\ Totals(<< >>) = NoGreeks /\ Totals(<< >>) \in GreekValues
  /\ \A g \in GreekNames : Totals(<< >>)[g] = TotalOf(<< >>, g)
<1>1. PICK lines : lines = << >>
  OBVIOUS
<1>2. DOMAIN lines = 1..0 /\ \A i \in 1..0 : IsLine(lines[i])
  BY <1>1
<1> QED
  BY <1>1, <1>2, TotalsAddUp

\* What an answer claims that was given without tickers.
LEMMA NothingAnswered ==
  ASSUME answer'.lines = << >>, answer'.totals = Totals(<< >>),
         received'.some, received'.quotes = << >>
  PROVE  GreeksAccounted'
<1>1. DOMAIN answer'.lines = {}
  OBVIOUS
<1>2. \A g \in GreekNames : answer'.totals[g] = TotalOf(answer'.lines, g)
  BY NoLines
<1> QED
  BY <1>1, <1>2 DEF GreeksAccounted, TotalOf

LEMMA GreeksStep ==
  ASSUME AInv, NEW id \in Accounts \cup {None}, GetPortfolioGreeks(id)
  PROVE  AInv'
<1> DEFINE t == "get_portfolio_greeks"
<1>0. BeginFor(t, id) /\ items' = OptionItems(Resolve(id)) /\ t \in RequestTools
  BY DEF GetPortfolioGreeks, RequestTools
<1>1. PICK quantity \in Lists : quantity = portfolio
  BY DEF AInv, TypeOK
<1>2. PICK a : a = Resolve(id)
  OBVIOUS
<1>3. Enumerates(items', quantity, Options(quantity, a))
  <2>1. OptionItems(Resolve(id)) = ItemsOf(portfolio, Resolve(id))
    BY DEF OptionItems, ItemsOf, FoldLeft, MapThenFoldSet
  <2> QED
    BY <1>0, <1>1, <1>2, <2>1, ItemsEnumerate
<1>4. \A i \in DOMAIN items' : items'[i] \in RowSet
  BY <1>3 DEF Enumerates
<1>5. CASE Send
  BY <1>0, <1>4, <1>5, AskStep
<1>6. CASE /\ items' = << >>
           /\ Respond([Nothing EXCEPT !.code = "ok", !.account = Resolve(id)])
  <2>1. /\ pc = "idle" /\ tool' = t /\ requested' = id /\ seen' = portfolio
        /\ is_connected /\ answer = Nothing /\ received = NoReply
        /\ account' = Asked' /\ account' \in managed /\ account' = Resolve(id)
        /\ always' = ever' /\ ever' \subseteq Orders \cup RowSet
        /\ UNCHANGED << is_connected, account_id, managed, subscribed, book, holdings,
                        trades, portfolio, received >>
    BY <1>0, Begun
  <2>2. PICK response : response = [Nothing EXCEPT !.code = "ok", !.account = a]
    OBVIOUS
  <2>3. /\ pc' = "done" /\ answer' = response /\ reply' = "none"
        /\ listed' = listed \cup response.orders
    BY <1>2, <1>6, <2>2 DEF Respond
  <2>4. /\ response.orders = {} /\ response.values = {} /\ response.lines = << >>
        /\ response.code = "ok" /\ response.account = a /\ response.positions = {}
        /\ response.totals = NoGreeks
    BY <2>2 DEF Nothing
  <2>5. a \in Accounts
    BY <1>2, <2>1 DEF AInv, TypeOK
  <2>6. IsAnswer(response)
    BY <2>4, <2>5, NothingTyped DEF IsAnswer, Codes, Nothing
  <2>7. TypeOK'
    BY <1>0, <1>4, <2>1, <2>3, <2>4, <2>6 DEF AInv, TypeOK, Tools
  <2>8. Phases' /\ Known'
    BY <2>1, <2>3, <2>4 DEF AInv, Phases, Known
  <2>9. LiveFollowed' /\ PositionsFollowed' /\ OptionsHeld'
    BY <2>3 DEF LiveFollowed, PositionsFollowed, OptionsHeld
  <2>10. ServesTheAccount'
    BY <1>2, <2>1, <2>3, <2>4 DEF ServesTheAccount, Asked
  <2>11. GreeksAccounted'
    <3>1. << >> \in [DOMAIN << >> -> Tickers] /\ Breakdown(<< >>, << >>) = << >>
      BY DEF Breakdown
    <3>2. Totals(<< >>) = NoGreeks
      BY NoLines
    <3>3. received'.quotes = << >>
      BY <2>1 DEF NoReply
    <3> QED
      BY <1>1, <1>3, <1>6, <2>1, <2>3, <2>4, <3>1, <3>2, <3>3, BreakdownAnswered
  <2>12. Answers'
    BY <2>1, <2>10, <2>11 DEF Answers, LiveOrdersAreLive, LiveOrdersComplete,
       FoundUnderItsId, PositionsComplete, Answered
  <2> QED
    BY <2>7, <2>8, <2>9, <2>12 DEF AInv
<1> QED
  BY <1>5, <1>6 DEF GetPortfolioGreeks

-----------------------------------------------------------------------------
(* How it goes on.                                                         *)

LEMMA CollectStep ==
  ASSUME AInv, Collect
  PROVE  AInv'
<1>1. /\ pc' = "idle" /\ tool' = None /\ requested' = None /\ account' = None
      /\ items' = << >> /\ answer' = Nothing /\ received' = NoReply
      /\ seen' = [p \in P |-> 0] /\ ever' = {} /\ always' = {} /\ reply' = reply
      /\ pc = "done" /\ listed' = listed
      /\ UNCHANGED << is_connected, account_id, managed, subscribed, book, holdings,
                      trades, portfolio >>
  BY DEF Collect, sessionVars, gatewayVars, cacheVars
<1>2. TypeOK'
  BY <1>1, NothingTyped, DataAssumption DEF AInv, TypeOK, NoReply, Lists
<1>3. Phases'
  BY <1>1 DEF AInv, Phases
<1>4. Known'
  BY <1>1 DEF AInv, Known
<1>5. LiveFollowed' /\ PositionsFollowed' /\ OptionsHeld'
  BY <1>1 DEF LiveFollowed, PositionsFollowed, OptionsHeld
<1>6. Answers'
  BY <1>1, NoneAssumption DEF Answers, LiveOrdersAreLive, LiveOrdersComplete,
     FoundUnderItsId, ServesTheAccount, PositionsComplete, GreeksAccounted, Answered, Tools
<1> QED
  BY <1>2, <1>3, <1>4, <1>5, <1>6 DEF AInv

LEMMA RepliesStep ==
  ASSUME AInv, GatewayReplies
  PROVE  AInv'
<1>1. /\ pc = "awaiting" /\ reply = "pending" /\ reply' = "data"
      /\ received' \in Replies
      /\ IF tool = "get_live_orders"
         THEN \E pushed \in SUBSET (Orders \ Own) : trades' = Refreshed(pushed)
         ELSE trades' = trades
      /\ UNCHANGED << is_connected, account_id, managed, subscribed, book, holdings,
                      portfolio, pc, tool, requested, account, items, answer,
                      seen, ever, always, listed >>
  BY DEF GatewayReplies, sessionVars, gatewayVars, historyVars
<1>2. is_connected /\ tool \in RequestTools /\ answer = Nothing
  BY <1>1 DEF AInv, Phases
<1>3. /\ received'.positions \subseteq RowSet
      /\ received'.values \subseteq Accounts \cup {NoAccount}
      /\ \A i \in DOMAIN received'.quotes : received'.quotes[i] \in Tickers
      /\ tool = "get_positions" => received'.positions = Rows(holdings)
      /\ tool = "get_portfolio_greeks" =>
           /\ received'.some
           /\ received'.quotes \in [DOMAIN items -> Tickers] \cup {<< >>}
  <2> USE DEF AReply, NoReply
  <2>1. CASE tool = "get_live_orders"
    BY <1>1, <2>1 DEF Replies
  <2>2. CASE tool = "get_positions"
    <3>1. Rows(holdings) \subseteq RowSet
      BY RowsOfQuantities DEF AInv, TypeOK
    <3>2. received' = [AReply EXCEPT !.positions = Rows(holdings)]
      BY <1>1, <2>2 DEF Replies
    <3> QED
      BY <2>2, <3>1, <3>2
  <2>3. CASE tool = "get_account_info"
    <3>1. PICK v \in SUBSET (managed \cup {NoAccount}) :
            received' = [AReply EXCEPT !.values = v]
      BY <1>1, <2>3 DEF Replies
    <3>2. v \subseteq Accounts \cup {NoAccount}
      BY DEF AInv, TypeOK
    <3> QED
      BY <2>3, <3>1, <3>2
  <2>4. CASE tool = "get_portfolio_greeks"
    <3>1. PICK q \in [DOMAIN items -> Tickers] \cup {<< >>} :
            received' = [AReply EXCEPT !.quotes = q]
      BY <1>1, <2>4 DEF Replies
    <3>2. \A i \in DOMAIN q : q[i] \in Tickers
      OBVIOUS
    <3> QED
      BY <2>4, <3>1, <3>2
  <2> QED
    BY <1>2, <2>1, <2>2, <2>3, <2>4 DEF RequestTools
<1>0. /\ trades' \in [Orders -> Statuses \cup {None}]
      /\ \A o \in Orders : trades'[o] \in {trades[o], book[o]}
      /\ tool = "get_live_orders" => \A o \in Own : trades'[o] = book[o]
  <2>1. /\ trades \in [Orders -> Statuses \cup {None}]
        /\ book \in [Orders -> Statuses \cup {None}] /\ Own \subseteq Orders
    BY DataAssumption DEF AInv, TypeOK
  <2>2. CASE tool = "get_live_orders"
    <3>1. PICK pushed : trades' = Refreshed(pushed)
      BY <1>1, <2>2
    <3> QED
      BY <2>1, <3>1 DEF Refreshed
  <2>3. CASE tool # "get_live_orders"
    BY <1>1, <2>1, <2>3
  <2> QED
    BY <2>2, <2>3
<1>4. TypeOK'
  BY <1>0, <1>1, <1>3 DEF AInv, TypeOK
<1>5. Phases'
  BY <1>1, <1>2 DEF AInv, Phases, Asked
<1>6. Known'
  <2>1. \A o \in listed : o \in Orders
    BY DEF AInv, TypeOK
  <2> QED
    BY <1>0, <1>1, <2>1 DEF AInv, Known
<1>7. LiveFollowed'
  <2> SUFFICES ASSUME tool = "get_live_orders" PROVE LiveFollowed'
    BY <1>1 DEF LiveFollowed
  <2>1. always \subseteq Live(book) /\ Live(book) \subseteq ever
    BY <1>1, <1>2 DEF AInv, LiveFollowed
  <2>2. \A o \in Own : o \in Live(trades)' <=> o \in Live(book)
    BY <1>0, DataAssumption DEF Live
  <2>3. always' = always /\ ever' = ever /\ Live(book)' = Live(book) /\ is_connected'
    BY <1>1, <1>2 DEF Live
  <2> QED
    BY <2>1, <2>2, <2>3 DEF LiveFollowed
<1>8. PositionsFollowed'
  <2>1. holdings \in Lists
    BY DEF AInv, TypeOK
  <2> QED
    BY <1>1, <1>2, <1>3, <2>1 DEF AInv, PositionsFollowed, Rows
<1>9. OptionsHeld'
  BY <1>1, <1>3 DEF AInv, OptionsHeld, Enumerates, Options
<1>10. Answers'
  BY <1>1, <1>2 DEF Answers, LiveOrdersAreLive, LiveOrdersComplete,
     FoundUnderItsId, ServesTheAccount, PositionsComplete, GreeksAccounted, Answered, RequestTools
<1> QED
  BY <1>4, <1>5, <1>6, <1>7, <1>8, <1>9, <1>10 DEF AInv

\* Nothing is claimed while there is no answer.
LEMMA NoAnswerYet ==
  ASSUME AInv, pc # "done", UNCHANGED << pc, tool >>
  PROVE  Answers'
<1>1. tool # "get_order_status"
  BY NoneAssumption DEF AInv, TypeOK, Phases, RequestTools, Tools
<1> QED
  BY <1>1 DEF Answers, LiveOrdersAreLive, LiveOrdersComplete, FoundUnderItsId,
     ServesTheAccount, PositionsComplete, GreeksAccounted, Answered

\* The copies catch up.
LEMMA ArrivesStep ==
  ASSUME AInv,
         \/ \E o \in Orders : TradeArrives(o)
         \/ \E p \in P : PositionArrives(p)
  PROVE  AInv'
<1>1. /\ is_connected /\ pc # "done"
      /\ \/ portfolio' = portfolio /\ \E o \in Orders : trades' = [trades EXCEPT ![o] = book[o]]
         \/ trades' = trades /\ \E p \in P : portfolio' = [portfolio EXCEPT ![p] = holdings[p]]
      /\ UNCHANGED << is_connected, account_id, managed, subscribed, book, holdings,
                      pc, tool, requested, account, items, reply, received, answer,
                      seen, ever, always, listed >>
  BY DEF TradeArrives, PositionArrives, Moving, sessionVars, gatewayVars, callVars, historyVars
<1>2. \A o \in Orders : trades'[o] \in {trades[o], book[o]}
  BY <1>1 DEF AInv, TypeOK
<1>3. TypeOK'
  <2>1. trades' \in [Orders -> Statuses \cup {None}] /\ portfolio' \in Lists
    BY <1>1 DEF AInv, TypeOK, Lists
  <2> QED
    BY <1>1, <2>1 DEF AInv, TypeOK
<1>4. Phases'
  BY <1>1 DEF AInv, Phases, Asked
<1>5. Known'
  <2>1. \A o \in listed : o \in Orders
    BY DEF AInv, TypeOK
  <2> QED
    BY <1>1, <1>2, <2>1 DEF AInv, Known
<1>6. LiveFollowed'
  <2>1. Live(trades)' \subseteq Live(trades) \cup Live(book)
    BY <1>2 DEF Live
  <2>2. Live(trades) \cap Live(book) \subseteq Live(trades)'
    BY <1>2 DEF Live
  <2> QED
    BY <1>1, <2>1, <2>2 DEF AInv, LiveFollowed, Live
<1>7. PositionsFollowed' /\ OptionsHeld'
  BY <1>1 DEF AInv, PositionsFollowed, OptionsHeld, Rows, Options, Enumerates
<1>8. Answers'
  BY <1>1, NoAnswerYet
<1> QED
  BY <1>3, <1>4, <1>5, <1>6, <1>7, <1>8 DEF AInv

\* What a call watches grows with ever and shrinks with always.
LEMMA Watched ==
  ASSUME AInv, Watch
  PROVE  /\ ever \subseteq ever' /\ always' \subseteq always
         /\ pc = "awaiting" =>
              LET shown == Shown(tool, is_connected', book', holdings')
              IN shown \subseteq ever' /\ always' \subseteq shown
         /\ ever' \subseteq ever \cup Shown(tool, is_connected', book', holdings')
BY DEF Watch

LEMMA MovesStep ==
  ASSUME AInv,
         \/ \E o \in Orders : OrderMoves(o)
         \/ \E p \in P : PositionMoves(p)
  PROVE  AInv'
<1>1. /\ is_connected /\ pc # "done" /\ Watch
      /\ \/ /\ holdings' = holdings
            /\ \E o \in Orders, status \in Statuses : book' = [book EXCEPT ![o] = status]
         \/ /\ book' = book
            /\ \E p \in P, q \in Quantities : holdings' = [holdings EXCEPT ![p] = q]
      /\ UNCHANGED << is_connected, account_id, managed, subscribed, trades, portfolio,
                      pc, tool, requested, account, items, reply, received, answer,
                      seen, listed >>
  BY DEF OrderMoves, PositionMoves, Moving, sessionVars, cacheVars, callVars
<1>2. /\ book' \in [Orders -> Statuses \cup {None}] /\ holdings' \in Lists
      /\ \A o \in Orders : book[o] # None => book'[o] # None
  <2>1. None \notin Statuses
    BY DataAssumption
  <2> QED
    BY <1>1, <2>1 DEF AInv, TypeOK, Lists
<1>3. /\ ever \subseteq ever' /\ always' \subseteq always
      /\ pc = "awaiting" =>
           LET shown == Shown(tool, TRUE, book', holdings')
           IN shown \subseteq ever' /\ always' \subseteq shown
      /\ ever' \subseteq ever \cup Shown(tool, TRUE, book', holdings')
  <2>1. is_connected' = TRUE
    BY <1>1 DEF AInv, TypeOK
  <2> QED
    BY <1>1, <2>1, Watched
<1>4. TypeOK'
  <2>1. Shown(tool, TRUE, book', holdings') \subseteq Orders \cup RowSet
    BY <1>2, RowsOfQuantities DEF Shown
  <2> QED
    BY <1>1, <1>2, <1>3, <2>1 DEF AInv, TypeOK
<1>5. Phases'
  BY <1>1 DEF AInv, Phases, Asked
<1>6. Known'
  BY <1>1, <1>2 DEF AInv, Known
<1>7. LiveFollowed'
  <2>1. tool = "get_live_orders" => Shown(tool, TRUE, book', holdings') = Live(book)'
    BY DEF Shown, Live
  <2>2. Live(trades)' = Live(trades)
    BY <1>1 DEF Live
  <2> QED
    BY <1>1, <1>3, <2>1, <2>2 DEF AInv, LiveFollowed
<1>8. PositionsFollowed'
  <2>1. tool = "get_positions" => Shown(tool, TRUE, book', holdings') = Rows(holdings)'
    BY DEF Shown, Rows
  <2>2. Rows(seen)' = Rows(seen)
    BY <1>1 DEF Rows
  <2> QED
    BY <1>1, <1>3, <2>1, <2>2 DEF AInv, PositionsFollowed
<1>9. OptionsHeld'
  BY <1>1 DEF AInv, OptionsHeld, Options, Enumerates
<1>10. Answers'
  BY <1>1, NoAnswerYet
<1> QED
  BY <1>4, <1>5, <1>6, <1>7, <1>8, <1>9, <1>10 DEF AInv

LEMMA LoseStep ==
  ASSUME AInv, Lose
  PROVE  AInv'
<1>1. /\ is_connected /\ is_connected' = FALSE /\ pc # "done" /\ Watch
      /\ trades' = [o \in Orders |-> None] /\ portfolio' = [p \in P |-> 0]
      /\ reply' = IF reply = "pending" THEN "lost" ELSE reply
      /\ listed' = {}
      /\ UNCHANGED << account_id, managed, subscribed, book, holdings,
                      pc, tool, requested, account, items, received, answer, seen >>
  BY DEF Lose, Moving, gatewayVars
<1>2. /\ Shown(tool, is_connected', book', holdings') = {}
      /\ ever \subseteq ever' /\ ever' \subseteq ever /\ always' \subseteq always
      /\ pc = "awaiting" => always' = {}
  BY <1>1, Watched DEF Shown
<1>3. TypeOK'
  BY <1>1, <1>2, DataAssumption DEF AInv, TypeOK, Lists
<1>4. Phases'
  BY <1>1 DEF AInv, Phases, Asked
<1>5. Known'
  BY <1>1 DEF Known
<1>6. LiveFollowed'
  BY <1>1, <1>2, NoneAssumption DEF AInv, LiveFollowed, Live
<1>7. PositionsFollowed'
  BY <1>1, <1>2 DEF AInv, PositionsFollowed, Rows
<1>8. OptionsHeld'
  BY <1>1 DEF AInv, OptionsHeld, Options, Enumerates
<1>9. Answers'
  BY <1>1, NoAnswerYet
<1> QED
  BY <1>3, <1>4, <1>5, <1>6, <1>7, <1>8, <1>9 DEF AInv

\* What a call answers once its reply is there.
LEMMA Responded ==
  ASSUME AInv, pc = "awaiting", reply = "data", NEW response, response = Response
  PROVE  /\ IsAnswer(response) /\ response.code = "ok" /\ response.account = account
         /\ response.orders = IF tool = "get_live_orders" THEN LiveOrders ELSE {}
         /\ response.positions = IF tool = "get_positions"
                                 THEN RowsOf(account, received.positions) ELSE {}
         /\ response.values \subseteq {account, NoAccount}
         /\ response.lines = IF tool = "get_portfolio_greeks"
                             THEN Breakdown(items, received.quotes) ELSE << >>
         /\ response.totals = IF tool = "get_portfolio_greeks"
                              THEN Totals(Breakdown(items, received.quotes)) ELSE NoGreeks
<1> USE DEF Nothing, Success
<1>1. tool \in RequestTools /\ account \in Accounts
  BY DEF AInv, TypeOK, Phases
<1>2. CASE tool = "get_live_orders"
  <2>1. response = [Success EXCEPT !.orders = LiveOrders]
    BY <1>2 DEF Response
  <2>2. LiveOrders \subseteq Orders
    BY DEF LiveOrders
  <2> QED
    BY <1>1, <1>2, <2>1, <2>2, NothingTyped DEF IsAnswer, Codes
<1>3. CASE tool = "get_positions"
  <2>1. response = [Success EXCEPT !.positions = RowsOf(account, received.positions)]
    BY <1>3 DEF Response
  <2>2. RowsOf(account, received.positions) \subseteq RowSet
    BY DEF RowsOf, AInv, TypeOK
  <2> QED
    BY <1>1, <1>3, <2>1, <2>2, NothingTyped DEF IsAnswer, Codes
<1>4. CASE tool = "get_account_info"
  <2>1. response = [Success EXCEPT !.values = received.values \cap {account, NoAccount}]
    BY <1>4 DEF Response
  <2> QED
    BY <1>1, <1>4, <2>1, NothingTyped DEF IsAnswer, Codes
<1>5. CASE tool = "get_portfolio_greeks"
  <2>1. PICK quantity \in Lists : quantity = seen
    BY DEF AInv, TypeOK
  <2>2. PICK a, list, quotes : a = account /\ list = items /\ quotes = received.quotes
    OBVIOUS
  <2>3. /\ Enumerates(list, quantity, Options(quantity, a))
        /\ quotes \in [DOMAIN list -> Tickers] \cup {<< >>}
    BY <1>5, <2>1, <2>2 DEF AInv, OptionsHeld
  <2>5. PICK lines : lines = Breakdown(list, quotes)
    OBVIOUS
  <2>6. Lines(received.quotes) = lines
    BY <2>2, <2>5 DEF Lines, Breakdown
  <2>7. response = [Success EXCEPT !.lines = lines, !.totals = Totals(lines)]
    BY <1>5, <2>6 DEF Response
  <2>8. Totals(lines) \in GreekValues /\ \A i \in DOMAIN lines : IsLine(lines[i])
    <3>1. CASE quotes \in [DOMAIN list -> Tickers]
      <4>1. Accounted(lines, quantity, a, list, quotes)
        BY <2>3, <2>5, <3>1, BreakdownMade
      <4> QED
        BY <4>1 DEF Accounted
    <3>2. CASE quotes = << >>
      <4>1. lines = << >>
        BY <2>5, <3>2 DEF Breakdown
      <4> QED
        BY <4>1, NoLines
    <3> QED
      BY <2>3, <3>1, <3>2
  <2>9. IsAnswer(response)
    BY <1>1, <2>7, <2>8, NothingTyped DEF IsAnswer, Codes
  <2> QED
    BY <1>5, <2>2, <2>5, <2>7, <2>9
<1> QED
  BY <1>1, <1>2, <1>3, <1>4, <1>5 DEF RequestTools

LEMMA ResumeStep ==
  ASSUME AInv, Resume
  PROVE  AInv'
<1>1. /\ pc = "awaiting" /\ pc' = "done" /\ reply' = "none"
      /\ listed' = listed \cup answer'.orders
      /\ \/ reply = "data" /\ answer' = Response
         \/ answer' = [Nothing EXCEPT !.code = "IB_NOT_CONNECTED"]
      /\ UNCHANGED << is_connected, account_id, managed, subscribed, book, holdings,
                      trades, portfolio, tool, requested, account, items, received,
                      seen, ever, always >>
  BY DEF Resume, Respond, RaiseLoss, Refuse, sessionVars, gatewayVars, cacheVars
<1>2. /\ tool \in RequestTools /\ account = Asked /\ account \in managed
      /\ requested \in Accounts \cup {None} /\ tool # "get_order_status"
  BY <1>1 DEF AInv, Phases, RequestTools
<1>3. LiveFollowed' /\ PositionsFollowed' /\ OptionsHeld'
  BY <1>1 DEF LiveFollowed, PositionsFollowed, OptionsHeld
<1>4. CASE answer' = [Nothing EXCEPT !.code = "IB_NOT_CONNECTED"]
  <2>1. IsAnswer(answer') /\ answer'.code # "ok" /\ answer'.orders = {}
    BY <1>4, NothingTyped DEF IsAnswer, Codes, Nothing
  <2>2. TypeOK' /\ Phases' /\ Known'
    BY <1>1, <2>1 DEF AInv, TypeOK, Phases, Known
  <2>3. Answers'
    BY <1>1, <1>2, <2>1 DEF Answers, LiveOrdersAreLive, LiveOrdersComplete, FoundUnderItsId,
       ServesTheAccount, PositionsComplete, GreeksAccounted, Answered
  <2> QED
    BY <1>3, <2>2, <2>3 DEF AInv
<1>5. CASE reply = "data" /\ answer' = Response
  <2>0. PICK response : response = Response
    OBVIOUS
  <2>1. /\ answer' = response
        /\ IsAnswer(response) /\ response.code = "ok" /\ response.account = account
        /\ response.orders = IF tool = "get_live_orders" THEN LiveOrders ELSE {}
        /\ response.positions = IF tool = "get_positions"
                                THEN RowsOf(account, received.positions) ELSE {}
        /\ response.values \subseteq {account, NoAccount}
        /\ response.lines = IF tool = "get_portfolio_greeks"
                            THEN Breakdown(items, received.quotes) ELSE << >>
        /\ response.totals = IF tool = "get_portfolio_greeks"
                             THEN Totals(Breakdown(items, received.quotes)) ELSE NoGreeks
    BY <1>1, <1>5, <2>0, Responded
  <2>2. response.orders \subseteq Orders /\ \A o \in response.orders : trades[o] # None
    BY <2>1, NoneAssumption DEF LiveOrders
  <2>3. TypeOK'
    BY <1>1, <2>1, <2>2 DEF AInv, TypeOK
  <2>4. Phases' /\ Known'
    BY <1>1, <2>1, <2>2 DEF AInv, Phases, Known
  <2>5. LiveOrdersAreLive' /\ LiveOrdersComplete'
    <3> SUFFICES ASSUME tool = "get_live_orders" PROVE LiveOrdersAreLive' /\ LiveOrdersComplete'
      BY <1>1 DEF LiveOrdersAreLive, LiveOrdersComplete, Answered
    <3>1. always \cap Own \subseteq Live(trades) /\ Live(trades) \cap Own \subseteq ever
      BY <1>1, <1>5 DEF AInv, LiveFollowed
    <3>2. answer'.orders = LiveOrders /\ LiveOrders \subseteq Live(trades)
      BY <2>1 DEF LiveOrders, Live
    <3>3. \A o \in Live(trades) :
            (requested # None => AccountOf[o] = requested) => o \in LiveOrders
      BY <1>2 DEF LiveOrders, Live, Asked
    <3> QED
      BY <1>1, <3>1, <3>2, <3>3 DEF LiveOrdersAreLive, LiveOrdersComplete
  <2>6. PositionsComplete'
    <3> SUFFICES ASSUME tool = "get_positions" PROVE PositionsComplete'
      BY <1>1 DEF PositionsComplete, Answered
    <3>1. PICK quantity \in Lists : received.positions = Rows(quantity)
      BY <1>1, <1>5 DEF AInv, PositionsFollowed
    <3>2. always \subseteq received.positions
      BY <1>1, <1>5 DEF AInv, PositionsFollowed
    <3>3. answer'.positions = RowsOf(account, received.positions) /\ answer'.account = account
      BY <2>1
    <3>4. \A r1, r2 \in answer'.positions : r1[1] = r2[1] => r1 = r2
      BY <3>1, <3>3, RowsOfQuantities DEF RowsOf
    <3>5. RowsOf(account, always' \cap RowSet) \subseteq answer'.positions
      BY <1>1, <3>2, <3>3 DEF RowsOf
    <3> QED
      BY <3>3, <3>4, <3>5 DEF PositionsComplete, RowsOf
  <2>7. GreeksAccounted'
    <3> SUFFICES ASSUME tool = "get_portfolio_greeks" PROVE GreeksAccounted'
      BY <1>1 DEF GreeksAccounted, Answered
    <3>1. PICK quantity \in Lists : quantity = seen
      BY DEF AInv, TypeOK
    <3>2. PICK a, list, quotes : a = account /\ list = items /\ quotes = received.quotes
      OBVIOUS
    <3>3. /\ Enumerates(list, quantity, Options(quantity, a))
          /\ quotes \in [DOMAIN list -> Tickers] \cup {<< >>} /\ received.some
      BY <1>1, <1>5, <3>1, <3>2 DEF AInv, OptionsHeld
    <3>4. PICK lines : lines = Breakdown(list, quotes)
      OBVIOUS
    <3>5. answer'.lines = lines /\ answer'.totals = Totals(lines) /\ answer'.account = a
      BY <2>1, <3>2, <3>4
    <3>6. CASE quotes \in [DOMAIN list -> Tickers]
      BY <1>1, <3>1, <3>2, <3>3, <3>4, <3>5, <3>6, BreakdownAnswered
    <3>7. CASE quotes = << >>
      <4>1. lines = << >>
        BY <3>4, <3>7 DEF Breakdown
      <4>2. received'.some /\ received'.quotes = << >>
        BY <1>1, <3>2, <3>3, <3>7
      <4> QED
        BY <3>5, <4>1, <4>2, NothingAnswered
    <3> QED
      BY <3>3, <3>6, <3>7
  <2>8. ServesTheAccount'
    <3>1. Asked' = account /\ account \in managed'
      BY <1>1, <1>2 DEF Asked
    <3>2. \A o \in response.orders : requested # None => AccountOf[o] \in {account, NoAccount}
      BY <2>1 DEF LiveOrders
    <3>3. \A row \in response.positions : AccountOf[row[1]] = account
      BY <2>1 DEF RowsOf
    <3>4. \A i \in DOMAIN response.lines : AccountOf[response.lines[i].position] = account
      <4> SUFFICES ASSUME tool = "get_portfolio_greeks", NEW i \in DOMAIN received.quotes
                   PROVE  AccountOf[response.lines[i].position] = account
        <5>1. PICK list, quotes : list = items /\ quotes = received.quotes
          OBVIOUS
        <5>2. DOMAIN Breakdown(list, quotes) = DOMAIN quotes /\ DOMAIN << >> = {}
          BY DEF Breakdown
        <5> QED
          BY <2>1, <5>1, <5>2
      <4>0. i \in DOMAIN items
        BY <1>1, <1>5 DEF AInv, OptionsHeld
      <4>1. Enumerates(items, seen, Options(seen, account))
        BY <1>1 DEF AInv, OptionsHeld
      <4>2. items[i][1] \in Options(seen, account)
        BY <4>0, <4>1 DEF Enumerates
      <4>3. response.lines[i] = Line(items[i][1], items[i][2], Contract[items[i][1]],
                                     received.quotes[i])
        BY <2>1 DEF Breakdown
      <4>4. response.lines[i].position = items[i][1]
        BY <4>3 DEF Line
      <4> QED
        BY <4>2, <4>4 DEF Options
    <3> QED
      BY <1>1, <2>1, <3>1, <3>2, <3>3, <3>4 DEF ServesTheAccount, Asked
  <2>9. FoundUnderItsId'
    BY <1>1, <1>2 DEF FoundUnderItsId
  <2> QED
    BY <1>3, <2>3, <2>4, <2>5, <2>6, <2>7, <2>8, <2>9 DEF AInv, Answers
<1> QED
  BY <1>1, <1>4, <1>5

-----------------------------------------------------------------------------

LEMMA AInductive ==
  /\ Init => AInv
  /\ AInv /\ [Next]_vars => AInv'
<1>1. ASSUME Init PROVE AInv
  <2> USE <1>1 DEF Init
  <2>0. /\ trades \in [Orders -> Statuses \cup {None}]
        /\ \A o \in Orders : trades[o] \in {book[o], None}
    OBVIOUS
  <2>1. TypeOK
    <3>1. managed \subseteq Accounts /\ account_id \in managed \cup {None}
      BY DataAssumption
    <3>2. portfolio \in Lists /\ trades \in [Orders -> Statuses \cup {None}]
      BY <2>0, DataAssumption DEF Lists
    <3> QED
      BY <3>1, <3>2, NothingTyped, DataAssumption DEF TypeOK, NoReply, Lists
  <2>2. Phases /\ Known /\ LiveFollowed /\ PositionsFollowed /\ OptionsHeld
    BY <2>0 DEF Phases, Known, LiveFollowed, PositionsFollowed, OptionsHeld
  <2>3. Answers
    BY NoneAssumption DEF Answers, LiveOrdersAreLive, LiveOrdersComplete, FoundUnderItsId,
       ServesTheAccount, PositionsComplete, GreeksAccounted, Answered, Tools
  <2> QED
    BY <2>1, <2>2, <2>3 DEF AInv
<1>2. ASSUME AInv, [Next]_vars PROVE AInv'
  <2>1. CASE Invoke
    BY <1>2, <2>1, OrderStatusStep, AsksStep, PositionsStep, GreeksStep, RejectedStep DEF Invoke
  <2>2. CASE Resume
    BY <1>2, <2>2, ResumeStep
  <2>3. CASE Collect
    BY <1>2, <2>3, CollectStep
  <2>4. CASE Gateway
    BY <1>2, <2>4, RepliesStep, LoseStep, ArrivesStep, MovesStep DEF Gateway
  <2>5. CASE UNCHANGED vars
    <3>1. UNCHANGED << is_connected, account_id, managed, subscribed, book, holdings,
                       trades, portfolio, pc, tool, requested, account, items, reply,
                       received, answer, seen, ever, always, listed >>
      BY <2>5 DEF vars, sessionVars, gatewayVars, cacheVars, callVars, historyVars
    <3>2. TypeOK' /\ Phases' /\ Known'
      BY <1>2, <3>1 DEF AInv, TypeOK, Phases, Known, Asked
    <3>3. LiveFollowed' /\ PositionsFollowed' /\ OptionsHeld'
      <4>1. LiveFollowed'
        BY <1>2, <3>1 DEF AInv, LiveFollowed, Live
      <4>2. PositionsFollowed'
        BY <1>2, <3>1 DEF AInv, PositionsFollowed, Rows
      <4>3. OptionsHeld'
        BY <1>2, <3>1 DEF AInv, OptionsHeld, Options, Enumerates
      <4> QED
        BY <4>1, <4>2, <4>3
    <3>4. LiveOrdersAreLive' /\ LiveOrdersComplete' /\ FoundUnderItsId'
      BY <1>2, <3>1 DEF AInv, Answers, LiveOrdersAreLive, LiveOrdersComplete,
         FoundUnderItsId, Answered
    <3>5. ServesTheAccount' /\ PositionsComplete'
      BY <1>2, <3>1 DEF AInv, Answers, ServesTheAccount, PositionsComplete, Answered,
         Rows, RowsOf
    <3>6. GreeksAccounted'
      <4>1. ASSUME NEW l, Explained(l) PROVE Explained(l)'
        <5>1. QuoteOf(l.position)' = QuoteOf(l.position)
          BY <3>1 DEF QuoteOf
        <5>2. ExplainedBy(l, QuoteOf(l.position)')
          BY <4>1, <5>1 DEF Explained, ExplainedBy
        <5> QED
          BY <5>2 DEF Explained, ExplainedBy
      <4>2. PICK r : r = answer
        OBVIOUS
      <4>3. (\A i \in DOMAIN r.lines : Explained(r.lines[i]))
            => \A i \in DOMAIN r.lines : Explained(r.lines[i])'
        BY <4>1
      <4> QED
        BY <1>2, <3>1, <4>2, <4>3 DEF AInv, Answers, GreeksAccounted, Answered
    <3> QED
      BY <3>2, <3>3, <3>4, <3>5, <3>6 DEF AInv, Answers
  <2> QED
    BY <1>2, <2>1, <2>2, <2>3, <2>4, <2>5 DEF Next
<1> QED
  BY <1>1, <1>2

LEMMA AlwaysAInv == Spec => []AInv
<1>1. Init => AInv
  BY AInductive
<1>2. AInv /\ [Next]_vars => AInv'
  BY AInductive
<1> QED
  BY <1>1, <1>2, PTL DEF Spec

-----------------------------------------------------------------------------
(* What is proved.                                                         *)

\* Every variable keeps its type, among them the totals of the Greeks, which
\* are numbers or NaN however many lines are added up (account.py, lines 308-384).
THEOREM TypeCorrect == Spec => []TypeOK
<1>1. AInv => TypeOK
  BY DEF AInv
<1> QED
  BY <1>1, AlwaysAInv, PTL

\* get_live_orders lists no order of this client id that was already done with
\* when the client asked, for any number of orders and however far the copy lags
\* behind (orders.py, lines 220-240).
THEOREM ListedOrdersWereLive == Spec => []LiveOrdersAreLive
<1>1. AInv => LiveOrdersAreLive
  BY DEF AInv, Answers
<1> QED
  BY <1>1, AlwaysAInv, PTL

\* get_live_orders leaves out no order of this client id that stays live from
\* the question to the answer, if the connection lasts, whatever the refresh
\* brings of the orders of other clients (orders.py, lines 220-240).
THEOREM NoLiveOrderMissing == Spec => []LiveOrdersComplete
<1>1. AInv => LiveOrdersComplete
  BY DEF AInv, Answers
<1> QED
  BY <1>1, AlwaysAInv, PTL

\* get_order_status answers with an order of the id asked for, and finds what
\* any earlier answer on this connection has shown (orders.py, lines 184-194).
THEOREM OnceListedStillFound == Spec => []FoundUnderItsId
<1>1. AInv => FoundUnderItsId
  BY DEF AInv, Answers
<1> QED
  BY <1>1, AlwaysAInv, PTL

\* An answer is about the account asked for, or the session's, which is one of
\* the login's own (account.py, lines 37-60).
THEOREM OneAccountPerAnswer == Spec => []ServesTheAccount
<1>1. AInv => ServesTheAccount
  BY DEF AInv, Answers
<1> QED
  BY <1>1, AlwaysAInv, PTL

\* get_positions leaves out no position that is held all along, unless the
\* portfolio copy that it answers from had it wrong (account.py, lines 196-216).
THEOREM NoPositionMissing == Spec => []PositionsComplete
<1>1. AInv => PositionsComplete
  BY DEF AInv, Answers
<1> QED
  BY <1>1, AlwaysAInv, PTL

\* get_portfolio_greeks has one line for each option held, made of its own
\* ticker, or no line if no ticker came; the totals are the sums over the lines,
\* and NaN exactly if a line is: for any portfolio and any tickers, those with
\* NaN for a greek included (account.py, lines 301-384).
THEOREM BreakdownAddsUp == Spec => []GreeksAccounted
<1>1. AInv => GreeksAccounted
  BY DEF AInv, Answers
<1> QED
  BY <1>1, AlwaysAInv, PTL

-----------------------------------------------------------------------------
(* AccountTools implements ToolCalls.                                      *)

\* A reply has come exactly if the call is told so.
ReplyIsThere == pc = "awaiting" => (received.some <=> reply = "data")

RInv == AInv /\ ReplyIsThere

\* What ToolCalls sees of the calls of this module.
HasAccount == account_id # None \/ managed # {}
TheStep == IF pc = "done" /\ received.some THEN 1 ELSE 0
TheOwner == IF pc = "awaiting" THEN Me ELSE None
TheRequests == IF reply = "pending" THEN {Me} ELSE {}
SessionKeeps == UNCHANGED << is_connected, account_id, managed >>

CallStep == Calls!Next \/ UNCHANGED Calls!vars

LEMMA OneCall ==
  ASSUME NEW x, NEW y
  PROVE  Only(x)[Me] = x /\ [Only(x) EXCEPT ![Me] = y] = Only(y)
BY DEF Only

LEMMA MapsAnswer ==
  ASSUME NEW code, pc' = "done", reply' = "none", answer'.code = code
  PROVE  Calls!Answer(Me, code)
<1>1. Only(pc)' = Only("done") /\ Only(reply)' = Only("none") /\ Only(answer.code)' = Only(code)
  BY DEF Only
<1> QED
  BY <1>1, OneCall DEF Calls!Answer

LEMMA MapsSession ==
  ASSUME SessionKeeps
  PROVE  UNCHANGED << is_connected, HasAccount >>
BY DEF SessionKeeps, HasAccount

\* A call that begins.
LEMMA MapsBegin ==
  ASSUME RInv, NEW t \in Tools, NEW arg, Begin(t, arg)
  PROVE  /\ Only(pc)[Me] = "idle" /\ Only(tool)' = [Only(tool) EXCEPT ![Me] = t]
         /\ TheOwner = None /\ TheRequests = {} /\ Only(TheStep)' = Only(TheStep)
         /\ UNCHANGED << is_connected, HasAccount >>
<1>1. pc = "idle" /\ tool' = t /\ received = NoReply /\ received' = NoReply
      /\ reply = "none" /\ SessionKeeps
  BY DEF Begin, RInv, AInv, Phases, sessionVars, SessionKeeps
<1>2. Only(tool)' = [Only(tool) EXCEPT ![Me] = t]
  <2>1. Only(tool)' = Only(t)
    BY <1>1 DEF Only
  <2> QED
    BY <2>1, OneCall
<1>3. TheStep = 0 /\ TheStep' = 0
  BY <1>1 DEF TheStep, NoReply
<1>4. Only(TheStep)' = Only(TheStep)
  BY <1>3 DEF Only
<1> QED
  BY <1>1, <1>2, <1>4, OneCall, MapsSession DEF TheOwner, TheRequests

\* It answers at once, or it asks for the lock and gets it.
LEMMA MapsImmediate ==
  ASSUME RInv, NEW t \in Tools, NEW arg, Begin(t, arg), NEW code,
         pc' = "done", reply' = "none", answer'.code = code, code \in Calls!ImmediateAnswers(t)
  PROVE  Calls!Invoke(Me)
<1>1. Calls!Answer(Me, code)
  BY MapsAnswer
<1>2. TheOwner' = None /\ TheRequests' = {}
  BY DEF TheOwner, TheRequests
<1> QED
  BY <1>1, <1>2, MapsBegin
     DEF Calls!Invoke, Calls!connVars, TheStep, TheOwner, TheRequests, HasAccount

\* An account that is found is one that there is.
LEMMA FoundAccount ==
  ASSUME NEW id, Resolve(id) # None
  PROVE  HasAccount
BY DEF Resolve, HasAccount

LEMMA MapsFirstRequest ==
  ASSUME RInv, NEW t \in RequestTools, NEW id, BeginFor(t, id), Send
  PROVE  Calls!Invoke(Me)
<1>1. /\ pc' = "awaiting" /\ reply' = "pending" /\ answer' = answer
      /\ Begin(t, id) /\ is_connected /\ t \in Tools /\ HasAccount
  BY FoundAccount DEF Send, BeginFor, Tools
<1>2. Calls!Await(Me)
  <2>1. Only(pc)' = Only("awaiting") /\ Only(reply)' = Only("pending")
        /\ Only(answer.code)' = Only(answer.code) /\ TheRequests' = {Me}
    BY <1>1 DEF Only, TheRequests
  <2>2. TheRequests = {}
    BY <1>1, MapsBegin
  <2> QED
    BY <2>1, <2>2, OneCall DEF Calls!Await, TheRequests
<1>3. TheOwner' = Me /\ TheOwner = None
  BY <1>1, MapsBegin DEF TheOwner
<1>4. Calls!EnterSection(Me)
  BY <1>2, <1>3 DEF Calls!EnterSection, TheOwner
<1>5. Calls!AsksGateway(t)
  BY <1>1 DEF Calls!AsksGateway, Calls!Proceeds, Calls!GatewayTools, Calls!LockFreeTools,
     Calls!AccountTools, RequestTools, HasAccount
<1> QED
  BY <1>1, <1>4, <1>5, MapsBegin DEF Calls!Invoke, Calls!connVars, TheStep, HasAccount

\* What ToolCalls lets the tools of this module answer at once.
LEMMA Immediately ==
  /\ \A t \in Tools :
       ~is_connected => "IB_NOT_CONNECTED" \in Calls!ImmediateAnswers(t)
  /\ \A t \in RequestTools :
       is_connected => "IB_ACCOUNT_NOT_FOUND" \in Calls!ImmediateAnswers(t)
  /\ \A t \in {"get_positions", "get_portfolio_greeks"} :
       is_connected /\ HasAccount => "ok" \in Calls!ImmediateAnswers(t)
  /\ is_connected =>
       {"ok", "VALIDATION_ERROR"} \subseteq Calls!ImmediateAnswers("get_order_status")
BY DEF Tools, RequestTools, Calls!ImmediateAnswers, Calls!UncheckedAnswers, Calls!GatewayTools,
       Calls!AccountTools, Calls!ArgumentErrors, Calls!LocalAnswers, HasAccount

LEMMA MapsRefusal ==
  ASSUME RInv, NEW t \in Tools, NEW arg, Begin(t, arg), NEW code, Refuse(code),
         code \in Calls!ImmediateAnswers(t)
  PROVE  Calls!Invoke(Me)
<1>1. pc' = "done" /\ reply' = "none" /\ answer'.code = code
  BY DEF Refuse, Respond, Nothing
<1> QED
  BY <1>1, MapsImmediate

LEMMA OrderStatusMaps ==
  ASSUME RInv, NEW id, GetOrderStatus(id)
  PROVE  Calls!Invoke(Me)
<1>1. Begin("get_order_status", id) /\ "get_order_status" \in Tools
  BY DEF GetOrderStatus, Tools
<1>2. CASE ~is_connected /\ Refuse("IB_NOT_CONNECTED")
  BY <1>1, <1>2, Immediately, MapsRefusal
<1>3. CASE is_connected /\ Refuse("VALIDATION_ERROR")
  BY <1>1, <1>3, Immediately, MapsRefusal
<1>4. ASSUME is_connected, NEW o, Respond([Nothing EXCEPT !.code = "ok", !.orders = {o}])
      PROVE  Calls!Invoke(Me)
  <2>1. pc' = "done" /\ reply' = "none" /\ answer'.code = "ok"
    BY <1>4 DEF Respond, Nothing
  <2> QED
    BY <1>1, <1>4, <2>1, Immediately, MapsImmediate
<1> QED
  BY <1>2, <1>3, <1>4 DEF GetOrderStatus

LEMMA RejectedMaps ==
  ASSUME RInv, NEW t \in RequestTools, NEW id, Rejected(t, id)
  PROVE  Calls!Invoke(Me)
<1>1. Begin(t, id) /\ t \in Tools
  BY DEF Rejected, Tools
<1>2. PICK code \in Calls!ImmediateAnswers(t) : Refuse(code)
  BY <1>1, Immediately DEF Rejected
<1> QED
  BY <1>1, <1>2, MapsRefusal

\* An answer made of what is at hand.
LEMMA MapsAtHand ==
  ASSUME RInv, NEW t \in {"get_positions", "get_portfolio_greeks"}, NEW id, BeginFor(t, id),
         pc' = "done", reply' = "none", answer'.code = "ok"
  PROVE  Calls!Invoke(Me)
<1>1. Begin(t, id) /\ is_connected /\ HasAccount /\ t \in Tools
  BY FoundAccount DEF BeginFor, Tools, RequestTools
<1> QED
  BY <1>1, Immediately, MapsImmediate

LEMMA PositionsMaps ==
  ASSUME RInv, NEW id, GetPositions(id)
  PROVE  Calls!Invoke(Me)
<1>1. BeginFor("get_positions", id)
  BY DEF GetPositions
<1>2. CASE FromCache(Resolve(id))
  <2>1. pc' = "done" /\ reply' = "none" /\ answer'.code = "ok"
    BY <1>2 DEF FromCache, Respond, Nothing
  <2> QED
    BY <1>1, <2>1, MapsAtHand
<1>3. CASE Send
  BY <1>1, <1>3, MapsFirstRequest DEF RequestTools
<1> QED
  BY <1>2, <1>3 DEF GetPositions, CacheOrRequest

LEMMA GreeksMaps ==
  ASSUME RInv, NEW id, GetPortfolioGreeks(id)
  PROVE  Calls!Invoke(Me)
<1>1. BeginFor("get_portfolio_greeks", id)
  BY DEF GetPortfolioGreeks
<1>2. CASE Respond([Nothing EXCEPT !.code = "ok", !.account = Resolve(id)])
  <2>1. pc' = "done" /\ reply' = "none" /\ answer'.code = "ok"
    BY <1>2 DEF Respond, Nothing
  <2> QED
    BY <1>1, <2>1, MapsAtHand
<1>3. CASE Send
  BY <1>1, <1>3, MapsFirstRequest DEF RequestTools
<1> QED
  BY <1>2, <1>3 DEF GetPortfolioGreeks

LEMMA InvokeMaps ==
  ASSUME RInv, Invoke
  PROVE  Calls!Invoke(Me)
<1>1. ASSUME NEW id, GetLiveOrders(id) \/ GetAccountInfo(id)
      PROVE  Calls!Invoke(Me)
  BY <1>1, MapsFirstRequest DEF GetLiveOrders, GetAccountInfo, RequestTools
<1> QED
  BY <1>1, OrderStatusMaps, RejectedMaps, PositionsMaps, GreeksMaps DEF Invoke

\* The reply that a handler waits for is the first, and the last.
LEMMA AfterTheReply ==
  ASSUME NEW t \in RequestTools
  PROVE  /\ "ok" \in Calls!AnswersTo(t, 1, "data")
         /\ "IB_NOT_CONNECTED" \in Calls!AnswersTo(t, 1, "lost")
BY DEF RequestTools, Calls!AnswersTo, Calls!ResolvingTools

LEMMA ResponseIsOk == tool \in RequestTools => Response.code = "ok"
BY DEF RequestTools, Response, Success, Nothing

LEMMA ResumeMaps ==
  ASSUME RInv, Resume
  PROVE  Calls!Resume(Me)
<1>1. /\ pc = "awaiting" /\ tool \in RequestTools /\ tool' = tool /\ received' = received
      /\ received.some <=> reply = "data"
      /\ SessionKeeps
  BY DEF Resume, RInv, ReplyIsThere, AInv, Phases, sessionVars, SessionKeeps
<1>2. PICK code : /\ pc' = "done" /\ reply' = "none" /\ answer'.code = code
                  /\ \/ reply = "data" /\ code = "ok"
                     \/ reply = "lost" /\ code = "IB_NOT_CONNECTED"
  <2>1. CASE reply = "data" /\ Respond(Response)
    BY <1>1, <2>1, ResponseIsOk DEF Respond
  <2>2. CASE reply = "lost" /\ RaiseLoss
    BY <2>2 DEF RaiseLoss, Refuse, Respond, Nothing
  <2> QED
    BY <2>1, <2>2 DEF Resume
<1>3. Calls!Answer(Me, code)
  BY <1>2, MapsAnswer
<1>4. TheStep = 0 /\ TheStep' = (IF reply \in {"lost", "raised"} THEN 0 ELSE 1)
  BY <1>1, <1>2 DEF TheStep
<1>5. /\ Only(TheStep)[Me] = 0
      /\ Only(TheStep)' = [Only(TheStep) EXCEPT ![Me] =
                             IF reply \in {"lost", "raised"} THEN @ ELSE 0 + 1]
  <2>1. PICK k : k = IF reply \in {"lost", "raised"} THEN 0 ELSE 1
    OBVIOUS
  <2>2. Only(TheStep)' = Only(k)
    BY <1>4, <2>1 DEF Only
  <2>3. [Only(TheStep) EXCEPT ![Me] = k] = Only(k) /\ Only(TheStep)[Me] = 0
    BY <1>4, OneCall
  <2> QED
    BY <2>1, <2>2, <2>3
<1>6. TheOwner = Me /\ TheOwner' = None /\ TheRequests = {} /\ TheRequests' = {}
  BY <1>1, <1>2 DEF TheOwner, TheRequests
<1>7. code \in Calls!AnswersTo(tool, 0 + 1, reply)
  BY <1>1, <1>2, AfterTheReply
<1>8. /\ Only(pc)[Me] = "awaiting" /\ Only(tool)[Me] = tool /\ Only(reply)[Me] = reply
      /\ Only(tool)' = Only(tool) /\ reply # "pending"
  BY <1>1, <1>2, OneCall DEF Only
<1>9. UNCHANGED << is_connected, HasAccount >>
  BY <1>1, MapsSession
<1> QED
  BY <1>3, <1>5, <1>6, <1>7, <1>8, <1>9
     DEF Calls!Resume, Calls!connVars, TheStep, TheOwner, TheRequests, HasAccount

LEMMA CollectMaps ==
  ASSUME RInv, Collect
  PROVE  Calls!Collect(Me)
<1>1. /\ pc = "done" /\ reply = "none" /\ pc' = "idle" /\ tool' = None
      /\ answer'.code = None /\ reply' = reply /\ SessionKeeps
  BY DEF Collect, RInv, AInv, Phases, Nothing, sessionVars, SessionKeeps
<1>2. TheStep' = 0
  BY <1>1 DEF TheStep
<1>3. /\ Only(pc)' = Only("idle") /\ Only(tool)' = Only(None) /\ Only(reply)' = Only(reply)
      /\ Only(answer.code)' = Only(None) /\ Only(TheStep)' = Only(0)
  BY <1>1, <1>2 DEF Only
<1>4. TheOwner' = TheOwner /\ TheRequests' = TheRequests /\ TheRequests = {}
  BY <1>1 DEF TheOwner, TheRequests
<1> QED
  BY <1>1, <1>3, <1>4, OneCall, MapsSession
     DEF Calls!Collect, Calls!connVars, TheStep, TheOwner, TheRequests, HasAccount

LEMMA GatewayRepliesMaps ==
  ASSUME RInv, GatewayReplies
  PROVE  Calls!GatewayReplies(Me)
<1>1. /\ pc = "awaiting" /\ reply = "pending" /\ reply' = "data"
      /\ UNCHANGED << pc, tool, answer >> /\ SessionKeeps
  BY DEF GatewayReplies, sessionVars, SessionKeeps
<1>2. TheStep = 0 /\ TheStep' = 0
  BY <1>1 DEF TheStep
<1>3. /\ Only(pc)' = Only(pc) /\ Only(tool)' = Only(tool) /\ Only(reply)' = Only("data")
      /\ Only(answer.code)' = Only(answer.code) /\ Only(TheStep)' = Only(TheStep)
  BY <1>1, <1>2 DEF Only
<1>4. TheOwner' = TheOwner /\ TheRequests = {Me} /\ TheRequests' = {}
  BY <1>1 DEF TheOwner, TheRequests
<1>5. Only(pc)[Me] = "awaiting" /\ Only(reply)' = [Only(reply) EXCEPT ![Me] = "data"]
  BY <1>1, <1>3, OneCall
<1> QED
  BY <1>1, <1>3, <1>4, <1>5, MapsSession
     DEF Calls!GatewayReplies, Calls!connVars, TheStep, TheOwner, TheRequests, HasAccount

LEMMA LoseMaps ==
  ASSUME RInv, Lose
  PROVE  Calls!Lose
<1>1. /\ is_connected /\ is_connected' = FALSE
      /\ reply' = IF reply = "pending" THEN "lost" ELSE reply
      /\ UNCHANGED << account_id, managed, pc, tool, received, answer >>
  BY DEF Lose, Moving
<1>2. TheStep' = TheStep /\ HasAccount' = HasAccount
  BY <1>1 DEF TheStep, HasAccount
<1>3. /\ Only(pc)' = Only(pc) /\ Only(tool)' = Only(tool)
      /\ Only(answer.code)' = Only(answer.code) /\ Only(TheStep)' = Only(TheStep)
  BY <1>1, <1>2 DEF Only
<1>4. Only(reply)' = [c \in {Me} |-> IF Only(reply)[c] = "pending" THEN "lost"
                                     ELSE Only(reply)[c]]
  BY <1>1 DEF Only
<1>5. TheOwner' = TheOwner /\ TheRequests' = {}
  BY <1>1 DEF TheOwner, TheRequests
<1> QED
  BY <1>1, <1>2, <1>3, <1>4, <1>5 DEF Calls!Lose, TheStep, TheOwner, TheRequests, HasAccount

\* A step in which nothing of what ToolCalls sees changes.
LEMMA Unseen ==
  ASSUME SessionKeeps, UNCHANGED << pc, tool, answer, received, reply >>
  PROVE  UNCHANGED Calls!vars
<1>1. TheStep' = TheStep
  BY DEF TheStep
<1>2. /\ Only(pc)' = Only(pc) /\ Only(tool)' = Only(tool) /\ Only(reply)' = Only(reply)
      /\ Only(answer.code)' = Only(answer.code) /\ Only(TheStep)' = Only(TheStep)
  BY <1>1 DEF Only
<1>3. TheOwner' = TheOwner /\ TheRequests' = TheRequests
  BY DEF TheOwner, TheRequests
<1> QED
  BY <1>2, <1>3, MapsSession
     DEF Calls!vars, Calls!connVars, TheStep, TheOwner, TheRequests, HasAccount

LEMMA ReplyStep ==
  ASSUME RInv, [Next]_vars
  PROVE  ReplyIsThere'
<1>1. CASE GatewayReplies
  <2>1. reply' = "data" /\ received' \in Replies
    BY <1>1 DEF GatewayReplies
  <2>2. \A r \in Replies : r.some
    BY DEF Replies, AReply, NoReply
  <2> QED
    BY <2>1, <2>2 DEF ReplyIsThere
<1>2. CASE Invoke
  <2>1. received' = NoReply
    BY <1>2 DEF Invoke, GetOrderStatus, GetLiveOrders, GetAccountInfo, GetPositions,
       GetPortfolioGreeks, Rejected, BeginFor, Begin, RInv, AInv, Phases
  <2>2. pc' = "awaiting" => reply' = "pending"
    <3>1. ASSUME NEW t, NEW id, Rejected(t, id) PROVE pc' = "done"
      BY <3>1 DEF Rejected, Refuse, Respond
    <3>2. ASSUME NEW id, GetOrderStatus(id) PROVE pc' = "done"
      BY <3>2 DEF GetOrderStatus, Refuse, Respond
    <3>3. ASSUME NEW id, GetPositions(id) PROVE pc' = "done" \/ reply' = "pending"
      BY <3>3 DEF GetPositions, CacheOrRequest, FromCache, Respond, Send
    <3>4. ASSUME NEW id, GetPortfolioGreeks(id) PROVE pc' = "done" \/ reply' = "pending"
      BY <3>4 DEF GetPortfolioGreeks, Respond, Send
    <3>5. ASSUME NEW id, GetLiveOrders(id) \/ GetAccountInfo(id) PROVE reply' = "pending"
      BY <3>5 DEF GetLiveOrders, GetAccountInfo, Send
    <3> QED
      BY <1>2, <3>1, <3>2, <3>3, <3>4, <3>5 DEF Invoke
  <2> QED
    BY <2>1, <2>2 DEF ReplyIsThere, NoReply
<1>3. CASE Lose
  <2>1. /\ reply' = IF reply = "pending" THEN "lost" ELSE reply
        /\ UNCHANGED << pc, received >>
    BY <1>3 DEF Lose
  <2> QED
    BY <2>1 DEF RInv, ReplyIsThere
<1>4. CASE Resume
  BY <1>4 DEF Resume, Respond, RaiseLoss, Refuse, ReplyIsThere
<1>5. CASE Collect
  BY <1>5 DEF Collect, ReplyIsThere
<1>6. ASSUME UNCHANGED callVars PROVE ReplyIsThere'
  BY <1>6 DEF callVars, RInv, ReplyIsThere
<1>7. ASSUME NEW x, \/ TradeArrives(x) \/ OrderMoves(x) \/ PositionArrives(x)
                    \/ PositionMoves(x)
      PROVE  UNCHANGED callVars
  BY <1>7 DEF TradeArrives, OrderMoves, PositionArrives, PositionMoves
<1>8. UNCHANGED vars => UNCHANGED callVars
  BY DEF vars
<1> QED
  BY <1>1, <1>2, <1>3, <1>4, <1>5, <1>6, <1>7, <1>8 DEF Next, Gateway

LEMMA StepImplements ==
  ASSUME RInv, [Next]_vars
  PROVE  CallStep
<1>1. ASSUME \/ Calls!Invoke(Me) \/ Calls!Resume(Me) \/ Calls!Collect(Me)
             \/ Calls!GatewayReplies(Me) \/ Calls!Lose
      PROVE  CallStep
  BY <1>1 DEF CallStep, Calls!Next, Calls!Handler, Calls!Client
<1>2. ASSUME UNCHANGED << sessionVars, callVars >> PROVE CallStep
  <2>1. SessionKeeps /\ UNCHANGED << pc, tool, answer, received, reply >>
    BY <1>2 DEF sessionVars, callVars, SessionKeeps
  <2> QED
    BY <2>1, Unseen DEF CallStep
<1>3. ASSUME NEW x, \/ TradeArrives(x) \/ OrderMoves(x) \/ PositionArrives(x)
                    \/ PositionMoves(x)
      PROVE  UNCHANGED << sessionVars, callVars >>
  BY <1>3 DEF TradeArrives, OrderMoves, PositionArrives, PositionMoves
<1>4. UNCHANGED vars => UNCHANGED << sessionVars, callVars >>
  BY DEF vars
<1> QED
  BY <1>1, <1>2, <1>3, <1>4, InvokeMaps, ResumeMaps, CollectMaps, GatewayRepliesMaps, LoseMaps
     DEF Next, Gateway

\* What the account and order tools answer from copies and replies is what
\* ToolCalls lets them answer: the same codes, after the same requests, on the
\* same connection (the handlers of orders.py and account.py).
THEOREM Refinement == Spec => ImplementsToolCalls
<1>1. Init => RInv /\ Calls!Init
  <2> SUFFICES ASSUME Init PROVE RInv /\ Calls!Init
    OBVIOUS
  <2>1. RInv
    BY AInductive DEF Init, RInv, ReplyIsThere
  <2>2. TheStep = 0 /\ TheOwner = None /\ TheRequests = {} /\ HasAccount \in BOOLEAN
    BY DEF Init, TheStep, TheOwner, TheRequests, HasAccount
  <2> QED
    BY <2>1, <2>2
       DEF Init, Calls!Init, Only, Nothing, TheStep, TheOwner, TheRequests, HasAccount
<1>2. RInv /\ [Next]_vars => RInv'
  BY AInductive, ReplyStep DEF RInv
<1>3. RInv /\ [Next]_vars => [Calls!Next]_(Calls!vars)
  BY StepImplements DEF CallStep
<1> QED
  BY <1>1, <1>2, <1>3, PTL DEF Spec, ImplementsToolCalls, Calls!Spec

===============================================================================
