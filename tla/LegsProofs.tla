------------------------------ MODULE LegsProofs ------------------------------
(***************************************************************************)
(* Proofs about Legs, for every series of hours, every configuration and   *)
(* every length: first what holds of the pair strategies' trades and of    *)
(* the bars they train on, then that two loops over the same trade agree,  *)
(* then, simulator by simulator, that none looks ahead.                    *)
(***************************************************************************)
EXTENDS Legs, SequenceTheorems, Sums

(* A series of hours, and two that share their first k. *)
Hourly(bs) == /\ bs \in Seq(Hour) /\ Len(bs) \in Nat \ {0} /\ DOMAIN bs = 1..Len(bs)
              /\ \A i \in 1..Len(bs) : IsHour(bs[i])
Agree(bs, cs, k) ==
    /\ k \in Nat /\ k <= Len(bs) /\ k <= Len(cs) /\ \A i \in 1..k : bs[i] = cs[i]

LegsInv == Hourly(bars) /\ legs = Reports(bars)

LEMMA LegsNumbers ==
    /\ {MaxHours, Split, LagH, LagD, LagW, Warm, MinTrades, FeeBp} \subseteq Nat
    /\ {FastSpan, SlowSpan, WindowEvents, PairCap, Stake, Unit} \subseteq Nat \ {0}
    /\ NoValue \notin Int /\ NoValue \notin Reasons
BY LegsAssumption

LEMMA HourFields ==
    ASSUME NEW b, IsHour(b)
    PROVE  /\ {b.o, b.h, b.l, b.c, b.b} \subseteq Nat \ {0} /\ b.f \in Int \cup {NoValue}
           /\ b.l <= b.o /\ b.o <= b.h /\ b.l <= b.c /\ b.c <= b.h
BY DEF IsHour, Hour

(* A continuation is the series and one hour. *)
LEMMA ContinuationIs ==
    ASSUME NEW bs, Hourly(bs), NEW ls \in Continuations(bs)
    PROVE  Hourly(ls) /\ Len(ls) = Len(bs) + 1 /\ Agree(bs, ls, Len(bs))
<1>1. PICK s \in Shapes : ls = Longer(bs, s)
  BY DEF Continuations
<1>2. PICK b : ls = Append(bs, b)
  BY <1>1 DEF Longer
<1>3. IsHour(Last(ls))
  BY DEF Continuations
<1>4. bs \in Seq(Hour) /\ bs \in Seq(Hour \cup {b})
  <2>1. bs \in Seq(Hour)
    BY DEF Hourly
  <2>2. \A i \in 1..Len(bs) : bs[i] \in Hour \cup {b}
    BY <2>1
  <2> QED
    BY <2>1, <2>2
<1>5. /\ Len(ls) = Len(bs) + 1 /\ \A i \in 1..Len(bs) : ls[i] = bs[i]
      /\ ls[Len(bs) + 1] = b /\ ls \in Seq(Hour \cup {b}) /\ DOMAIN ls = 1..Len(ls)
  BY <1>2, <1>4, AppendProperties
<1>6. Last(ls) = b
  BY <1>5 DEF Last
<1>7. b \in Hour
  BY <1>3, <1>6 DEF IsHour
<1>8. Hour \cup {b} = Hour
  BY <1>7
<1>9. \A i \in 1..Len(ls) : IsHour(ls[i])
  <2> SUFFICES ASSUME NEW i \in 1..Len(ls) PROVE IsHour(ls[i])
    OBVIOUS
  <2>1. i \in 1..Len(bs) \/ i = Len(bs) + 1
    BY <1>5 DEF Hourly
  <2> QED
    BY <1>3, <1>5, <1>6, <2>1 DEF Hourly
<1>10. Len(bs) \in Nat \ {0}
  BY DEF Hourly
<1> QED
  BY <1>5, <1>8, <1>9, <1>10 DEF Hourly, Agree

LEMMA LegsInitHolds == LegsInit => LegsInv
<1> SUFFICES ASSUME LegsInit PROVE LegsInv
  OBVIOUS
<1>1. bars \in Seq(Hour) /\ bars # <<>> /\ \A i \in DOMAIN bars : IsHour(bars[i])
  BY LegsAssumption DEF LegsInit
<1>2. Len(bars) \in Nat \ {0} /\ DOMAIN bars = 1..Len(bars)
  BY <1>1, LenProperties, EmptySeq
<1> QED
  BY <1>1, <1>2 DEF LegsInit, LegsInv, Hourly

LEMMA LegsStep == LegsInv /\ [LegsNext]_legsVars => LegsInv'
<1> SUFFICES ASSUME LegsInv, [LegsNext]_legsVars PROVE LegsInv'
  OBVIOUS
<1>1. CASE LegsNext
  <2>1. PICK ls \in Continuations(bars) : NextHour(ls)
    BY <1>1 DEF LegsNext
  <2>2. Hourly(ls)
    BY ContinuationIs DEF LegsInv
  <2>3. bars' = ls /\ legs' = Reports(ls)
    BY <2>1 DEF NextHour
  <2> QED
    BY <2>2, <2>3 DEF LegsInv
<1>2. CASE UNCHANGED legsVars
  <2>1. bars' = bars /\ legs' = legs
    BY <1>2 DEF legsVars
  <2> QED
    BY <2>1 DEF LegsInv
<1> QED
  BY <1>1, <1>2

LEMMA LegsHolds == LegsSpec => []LegsInv
<1>1. LegsInit => LegsInv
  BY LegsInitHolds
<1>2. LegsInv /\ [LegsNext]_legsVars => LegsInv'
  BY LegsStep
<1> QED
  BY <1>1, <1>2, PTL DEF LegsSpec

LEMMA LastIs ==
    ASSUME NEW bs, Hourly(bs), NEW hi \in Nat
    PROVE  /\ MinOf(hi + 1, Len(bs)) \in Nat \ {0}
           /\ MinOf(hi + 1, Len(bs)) <= hi + 1 /\ MinOf(hi + 1, Len(bs)) <= Len(bs)
<1>1. PICK n : n = Len(bs)
  OBVIOUS
<1>2. n \in Nat \ {0}
  BY <1>1 DEF Hourly
<1> QED
  BY <1>1, <1>2 DEF MinOf

-----------------------------------------------------------------------------
(* The pair. *)

LEMMA MaxPair ==
    ASSUME NEW a \in Int, NEW b \in Int
    PROVE  Max({a, b}) \in {a, b} /\ Max({a, b}) >= a /\ Max({a, b}) >= b
<1>1. \E x \in {a, b} : \A y \in {a, b} : x >= y
  OBVIOUS
<1>2. Max({a, b}) \in {a, b} /\ \A y \in {a, b} : Max({a, b}) >= y
  BY <1>1, Zenon DEF Max
<1> QED
  BY <1>2

LEMMA RatioType ==
    ASSUME NEW bs, Hourly(bs)
    PROVE  DOMAIN Ratio(bs) = 1..Len(bs) /\ \A i \in 1..Len(bs) : Ratio(bs)[i] \in Int
<1>1. DOMAIN bs = 1..Len(bs)
  BY DEF Hourly
<1>2. ASSUME NEW i \in 1..Len(bs)
      PROVE  Ratio(bs)[i] \in Int
  <2>1. bs[i].c \in Nat \ {0} /\ bs[i].b \in Nat \ {0}
    BY <1>2, HourFields DEF Hourly
  <2>2. Ratio(bs)[i] = (1000 * bs[i].c) \div bs[i].b
    BY <1>1, <1>2 DEF Ratio
  <2> QED
    BY <2>1, <2>2
<1>3. DOMAIN Ratio(bs) = 1..Len(bs)
  BY <1>1 DEF Ratio
<1> QED
  BY <1>2, <1>3

(* The score at a bar is made of numbers. *)
LEMMA ScoreType ==
    ASSUME NEW x, NEW n \in Nat, \A i \in 1..n : x[i] \in Int, NEW m \in Nat \ {0}, NEW t \in 1..n
    PROVE  roll_stats(x, m, t) \in [known : BOOLEAN, dev : Int, var : Int]
<1> DEFINE window == (t - m + 1)..t
           sum == SumFunctionOnSet(x, window)
           y == [i \in window |-> x[i] * x[i]]
           squares == SumFunctionOnSet(y, window)
<1>1. CASE t < m
  BY <1>1 DEF roll_stats
<1>2. CASE ~ (t < m)
  <2>1. IsFiniteSet(window)
    <3>1. t - m + 1 \in Int /\ t \in Int
      OBVIOUS
    <3> QED
      BY <3>1, FS_Interval, Zenon
  <2>2. \A i \in window : x[i] \in Int
    BY <1>2
  <2>3. sum \in Int
    BY <2>1, <2>2, SumType
  <2>4. \A i \in window : y[i] \in Int
    BY <2>2
  <2> HIDE DEF y, window
  <2>5. squares \in Int
    BY <2>1, <2>4, SumType
  <2>6. roll_stats(x, m, t) = [known |-> TRUE, dev |-> m * x[t] - sum,
                               var |-> Max({1, m * squares - sum * sum})]
    BY <1>2 DEF roll_stats, y, window
  <2> HIDE DEF sum, squares
  <2>7. m * squares - sum * sum \in Int /\ m * x[t] - sum \in Int
    BY <2>3, <2>5
  <2>8. Max({1, m * squares - sum * sum}) \in Int
    <3>1. PICK y2 \in Int : y2 = m * squares - sum * sum
      BY <2>7
    <3>2. Max({1, y2}) \in {1, y2}
      <4>1. 1 \in Int /\ y2 \in Int
        OBVIOUS
      <4> QED
        BY <4>1, MaxPair, Zenon
    <3> QED
      BY <3>1, <3>2
  <2> QED
    BY <2>6, <2>7, <2>8
<1> QED
  BY <1>1, <1>2

(* No score is calm and out of bounds. *)
LEMMA CalmIsInside ==
    ASSUME NEW z \in [known : BOOLEAN, dev : Int, var : Int], NEW square \in Nat
    PROVE  ~ (Within(z, square) /\ Outside(z, square))
<1> DEFINE a == 100 * z.dev * z.dev
           b == square * z.var
<1>1. z.dev \in Int /\ z.var \in Int
  OBVIOUS
<1>2. a \in Int /\ b \in Int
  BY <1>1
<1>3. (Within(z, square) => a < b) /\ (Outside(z, square) => a > b)
  BY Zenon DEF Within, Outside
<1> HIDE DEF a, b
<1> QED
  BY <1>2, <1>3

PairTrades(bs) ==
    {[d |-> d, e |-> e, x |-> x, reason |-> r, net |-> PairProfit(d, bs, e, x) - 4 * Fee(1000)] :
        d \in -1..1, e \in Nat, x \in Nat, r \in Reasons}
LEMMA PairTradeIn ==
    ASSUME NEW bs, NEW d \in -1..1, NEW e \in Nat, NEW x \in Nat, NEW r \in Reasons
    PROVE  [d |-> d, e |-> e, x |-> x, reason |-> r,
            net |-> PairProfit(d, bs, e, x) - 4 * Fee(1000)] \in PairTrades(bs)
BY DEF PairTrades

PairState(bs) == [pos : -1..1, e : Nat, blocked : -1..1, trades : Seq(PairTrades(bs))]

PairFollows(cell, bs, hi, last, f) ==
    f = [t \in 0..last |-> IF t = 0 THEN PairFlat
                           ELSE PairBar(cell, bs, Ratio(bs), hi, last, f[t - 1], t)]

LEMMA PairBarType ==
    ASSUME NEW bs, NEW cell, NEW x, NEW hi \in Nat, NEW last \in Nat, NoValue \notin Reasons,
           NEW s \in PairState(bs), NEW t \in 1..last
    PROVE  PairBar(cell, bs, x, hi, last, s, t) \in PairState(bs)
<1> DEFINE z == roll_stats(x, cell.m, t)
<1>0. PICK y : y = z
  OBVIOUS
<1>1. CASE s.pos = 0
  <2>1. PairBar(cell, bs, x, hi, last, s, t) = PairEnter(cell, s, y, t, t <= hi)
    BY <1>0, <1>1 DEF PairBar
  <2>2. PairEnter(cell, s, y, t, t <= hi) \in PairState(bs)
    <3> DEFINE blocked == IF Within(y, cell.zin) THEN 0 ELSE s.blocked
               d == IF y.dev > 0 THEN -1 ELSE 1
               goes == t <= hi /\ Outside(y, cell.zin) /\ d # blocked
    <3>1. PairEnter(cell, s, y, t, t <= hi) =
              IF goes THEN [pos |-> d, e |-> t + 1, blocked |-> 0, trades |-> s.trades]
              ELSE [s EXCEPT !.blocked = blocked]
      BY Zenon DEF PairEnter
    <3>2. blocked \in -1..1 /\ d \in -1..1 /\ t + 1 \in Nat
      BY DEF PairState
    <3> HIDE DEF blocked, d, goes
    <3>3. [pos |-> d, e |-> t + 1, blocked |-> 0, trades |-> s.trades] \in PairState(bs)
      BY <3>2 DEF PairState
    <3>4. [s EXCEPT !.blocked = blocked] \in PairState(bs)
      BY <3>2 DEF PairState
    <3> QED
      BY <3>1, <3>3, <3>4, Zenon
  <2> QED
    BY <2>1, <2>2
<1>2. CASE s.pos # 0
  <2>1. PairBar(cell, bs, x, hi, last, s, t) = PairExit(cell, s, y, t, last, bs)
    BY <1>0, <1>2 DEF PairBar
  <2> DEFINE reason == IF s.pos * y.dev >= 0 THEN "cross0"
                       ELSE IF Outside(y, cell.zstop) THEN "stop"
                       ELSE IF t - s.e >= PairCap THEN "timecap"
                       ELSE IF t = last THEN "forced" ELSE NoValue
             at == IF reason # "forced" /\ t + 1 <= last THEN t + 1 ELSE t
             net == PairProfit(s.pos, bs, s.e, at) - 4 * Fee(1000)
             trade == [d |-> s.pos, e |-> s.e, x |-> at, reason |-> reason, net |-> net]
  <2>2. PairExit(cell, s, y, t, last, bs) =
            IF reason = NoValue THEN s
            ELSE [pos |-> 0, e |-> 0, blocked |-> IF Blocks(reason) THEN s.pos ELSE 0,
                  trades |-> Append(s.trades, trade)]
    BY Zenon DEF PairExit
  <2>3. reason = NoValue \/ reason \in Reasons
    BY DEF Reasons
  <2>4. at \in Nat /\ s.pos \in -1..1 /\ s.e \in Nat /\ s.trades \in Seq(PairTrades(bs))
    BY DEF PairState
  <2> HIDE DEF reason, at
  <2>5. ASSUME reason \in Reasons
        PROVE  trade \in PairTrades(bs)
    <3>1. s.pos \in -1..1 /\ s.e \in Nat /\ at \in Nat /\ reason \in Reasons
      BY <2>4, <2>5
    <3> QED
      BY <3>1, PairTradeIn
  <2> HIDE DEF trade
  <2>6. reason \in Reasons => Append(s.trades, trade) \in Seq(PairTrades(bs))
    BY <2>4, <2>5, AppendProperties
  <2> QED
    BY <2>1, <2>2, <2>3, <2>4, <2>6 DEF PairState
<1> QED
  BY <1>1, <1>2



LEMMA PairRuns ==
    ASSUME NEW bs, NEW cell, NEW hi \in Nat, NEW last \in Nat
    PROVE  /\ PairStates(cell, bs, hi, last)[0] = PairFlat
           /\ \A i \in (0 + 1)..last : PairStates(cell, bs, hi, last)[i] = PairBar(cell, bs, Ratio(bs), hi, last, PairStates(cell, bs, hi, last)[i - 1], i)
           /\ \A i \in 0..last : PairStates(cell, bs, hi, last)[i] \in PairState(bs)
<1> DEFINE G == [z \in ((0 + 1)..last) \X PairState(bs) |-> PairBar(cell, bs, Ratio(bs), hi, last, z[2], z[1])]
<1>0. 0 \in Int /\ last \in Int /\ 0 <= last /\ PairFlat \in PairState(bs)
  <2>1. 0 \in -1..1 /\ 0 \in Nat /\ 0 \in Int /\ last \in Int /\ 0 <= last
    OBVIOUS
  <2>2. <<>> \in Seq(PairTrades(bs))
    BY EmptySeq, Zenon
  <2> QED
    BY <2>1, <2>2 DEF PairFlat, PairState
<1>1. \A i \in (0 + 1)..last, u \in PairState(bs) : PairBar(cell, bs, Ratio(bs), hi, last, u, i) \in PairState(bs)
  <2>1. NoValue \notin Reasons
    BY LegsNumbers
  <2>2. 0 + 1 = 1
    OBVIOUS
  <2> QED
    BY <2>1, <2>2, PairBarType
<1>2. \A i \in (0 + 1)..last, u \in PairState(bs) : G[<<i, u>>] = PairBar(cell, bs, Ratio(bs), hi, last, u, i)
  OBVIOUS
<1> HIDE DEF G
<1>3. PICK f \in [0..last -> PairState(bs)] : Repeats(f, PairFlat, G, 0, last)
  <2>1. \A i \in (0 + 1)..last, u \in PairState(bs) : G[<<i, u>>] \in PairState(bs)
    BY <1>1, <1>2, Zenon
  <2> QED
    BY <1>0, <2>1, SomeRepeats, Zenon
<1>4. \A i \in 0..last : f[i] = IF i = 0 THEN PairFlat ELSE G[<<i, f[i - 1]>>]
  BY <1>3, Zenon DEF Repeats
<1>5. \A i \in 0..last : f[i] = IF i = 0 THEN PairFlat ELSE PairBar(cell, bs, Ratio(bs), hi, last, f[i - 1], i)
  <2> SUFFICES ASSUME NEW i \in 0..last, i # 0 PROVE f[i] = PairBar(cell, bs, Ratio(bs), hi, last, f[i - 1], i)
    BY <1>4, Zenon
  <2>1. i \in (0 + 1)..last /\ i - 1 \in 0..last
    BY <1>0
  <2>2. f[i - 1] \in PairState(bs)
    BY <1>3, <2>1, Zenon
  <2> QED
    BY <1>2, <1>4, <2>1, <2>2, Zenon
<1>6. f = [i \in 0..last |-> f[i]]
  BY <1>3, Zenon
<1>7. PairFollows(cell, bs, hi, last, f)
  BY <1>5, <1>6, Zenon DEF PairFollows
<1>8. PairStates(cell, bs, hi, last) = CHOOSE g : PairFollows(cell, bs, hi, last, g)
  BY Zenon DEF PairStates, PairFollows
<1>9. PICK g : PairFollows(cell, bs, hi, last, g) /\ PairStates(cell, bs, hi, last) = g
  BY <1>7, <1>8, Zenon
<1>10. \A i \in 0..last : g[i] = IF i = 0 THEN PairFlat ELSE PairBar(cell, bs, Ratio(bs), hi, last, g[i - 1], i)
  BY <1>9, Zenon DEF PairFollows
<1> DEFINE T == {i \in Int : g[i] \in PairState(bs)}
<1>11. 0 \in T
  <2>1. 0 \in 0..last
    BY <1>0
  <2> QED
    BY <1>0, <1>10, <2>1, Zenon
<1>12. ASSUME NEW i \in (0 + 1)..last
       PROVE  /\ g[i] = PairBar(cell, bs, Ratio(bs), hi, last, g[i - 1], i)
              /\ i - 1 \in T => i \in T
  <2>1. i \in 0..last /\ i # 0 /\ i \in Int
    BY <1>0
  <2>2. g[i] = PairBar(cell, bs, Ratio(bs), hi, last, g[i - 1], i)
    BY <1>10, <2>1, Zenon
  <2> QED
    BY <1>1, <2>1, <2>2, Zenon
<1> HIDE DEF T
<1>13. 0..last \subseteq T
  <2>1. \A i \in (0 + 1)..last : i - 1 \in T => i \in T
    BY <1>12, Zenon
  <2>2. 0 \in Int /\ last \in Int
    BY <1>0, Zenon
  <2> QED
    BY <1>11, <2>1, <2>2, IntervalInduction, Zenon
<1>14. \A i \in 0..last : g[i] \in PairState(bs)
  BY <1>13, Zenon DEF T
<1>15. g[0] = PairFlat
  <2>1. 0 \in 0..last
    BY <1>0
  <2> QED
    BY <1>10, <2>1, Zenon
<1> QED
  BY <1>9, <1>12, <1>14, <1>15, Zenon

(* The score was calm at some bar from a to b. *)
CalmSince(cell, bs, a, b) ==
    \E t \in a..b : Within(roll_stats(Ratio(bs), cell.m, t), cell.zin)
Reentered(cell, bs, p, q) ==
    Blocks(p.reason) /\ q.d = p.d => CalmSince(cell, bs, p.x, q.e - 2)

(* Of the state after bar t: a trade that blocked its direction blocks it still,
   unless the score was calm since or an entry has used that it was. *)
CalmInv(cell, bs, s, t) ==
    /\ \A k \in 2..Len(s.trades) : Reentered(cell, bs, s.trades[k - 1], s.trades[k])
    /\ Len(s.trades) > 0 =>
          LET p == s.trades[Len(s.trades)]
          IN  /\ p.x <= t + 1
              /\ Blocks(p.reason) =>
                    IF s.pos = 0 THEN s.blocked = p.d \/ CalmSince(cell, bs, p.x, t)
                    ELSE s.pos = p.d => CalmSince(cell, bs, p.x, s.e - 2)

LEMMA PairTradeFields ==
    ASSUME NEW bs, NEW p \in PairTrades(bs)
    PROVE  p.d \in -1..1 /\ p.e \in Nat /\ p.x \in Nat /\ p.reason \in Reasons
BY DEF PairTrades

LEMMA CalmKeepsFlat ==
    ASSUME NEW bs, Hourly(bs), NEW cell \in PairCells, NEW t \in 1..Len(bs),
           NEW s \in PairState(bs), CalmInv(cell, bs, s, t - 1), s.pos = 0, NEW may \in BOOLEAN,
           NEW z, z = roll_stats(Ratio(bs), cell.m, t)
    PROVE  CalmInv(cell, bs, PairEnter(cell, s, z, t, may), t)
<1> DEFINE blocked == IF Within(z, cell.zin) THEN 0 ELSE s.blocked
           d == IF z.dev > 0 THEN -1 ELSE 1
           goes == may /\ Outside(z, cell.zin) /\ d # blocked
           p == s.trades[Len(s.trades)]
           s2 == PairEnter(cell, s, z, t, may)
<1>1. s2 = IF goes THEN [pos |-> d, e |-> t + 1, blocked |-> 0, trades |-> s.trades]
           ELSE [s EXCEPT !.blocked = blocked]
  BY Zenon DEF PairEnter
<1>2. ~ (Within(z, cell.zin) /\ Outside(z, cell.zin))
  <2>1. cell.m \in Nat \ {0} /\ cell.zin \in Nat
    BY LegsAssumption
  <2>2. Len(bs) \in Nat /\ \A i \in 1..Len(bs) : Ratio(bs)[i] \in Int
    BY RatioType DEF Hourly
  <2>3. z \in [known : BOOLEAN, dev : Int, var : Int]
    BY <2>1, <2>2, ScoreType
  <2> QED
    BY <2>1, <2>3, CalmIsInside
<1>3. d \in {-1, 1} /\ t \in Nat
  BY DEF Hourly
<1>4. Len(s.trades) \in Nat /\ \A k \in 1..Len(s.trades) : s.trades[k] \in PairTrades(bs)
  <2>1. s.trades \in Seq(PairTrades(bs))
    BY DEF PairState
  <2> QED
    BY <2>1, LenProperties, ElementOfSeq
<1>5. \A k \in 2..Len(s.trades) : Reentered(cell, bs, s.trades[k - 1], s.trades[k])
  BY DEF CalmInv
<1> DEFINE Since(b) == CalmSince(cell, bs, p.x, b)
<1>6. ASSUME Len(s.trades) > 0
      PROVE  /\ p.x \in Nat /\ p.x <= t
             /\ Blocks(p.reason) => s.blocked = p.d \/ Since(t - 1)
  <2>1. p.x \in Nat
    BY <1>4, <1>6, PairTradeFields
  <2>2. p.x <= (t - 1) + 1 /\ (Blocks(p.reason) => s.blocked = p.d \/ Since(t - 1))
    BY <1>6 DEF CalmInv
  <2> QED
    BY <1>3, <2>1, <2>2
<1>7. CASE goes
  <2>1. /\ s2.trades = s.trades /\ s2.pos = d /\ s2.e = t + 1
    BY <1>1, <1>7
  <2>2. ASSUME Len(s.trades) > 0, Blocks(p.reason), d = p.d
        PROVE  Since(t - 1)
    <3>1. s.blocked # p.d \/ Since(t - 1)
      BY <1>2, <1>7, <2>2
    <3> QED
      BY <1>6, <2>2, <3>1
  <2>3. (t + 1) - 2 = t - 1 /\ d # 0
    BY <1>3
  <2>4. Len(s.trades) > 0 => p.x <= t + 1
    BY <1>3, <1>6
  <2> HIDE DEF d, s2, goes
  <2>5. \A k \in 2..Len(s2.trades) : Reentered(cell, bs, s2.trades[k - 1], s2.trades[k])
    BY <1>5, <2>1
  <2>6. Len(s2.trades) > 0 =>
          LET q == s2.trades[Len(s2.trades)]
          IN  /\ q.x <= t + 1
              /\ Blocks(q.reason) =>
                    IF s2.pos = 0 THEN s2.blocked = q.d \/ CalmSince(cell, bs, q.x, t)
                    ELSE s2.pos = q.d => CalmSince(cell, bs, q.x, s2.e - 2)
    BY <2>1, <2>2, <2>3, <2>4
  <2> QED
    BY <2>5, <2>6, Zenon DEF CalmInv, s2
<1>8. CASE ~ goes
  <2>1. s2.trades = s.trades /\ s2.pos = 0 /\ s2.blocked = blocked
    BY <1>1, <1>8 DEF PairState
  <2>2. ASSUME Len(s.trades) > 0, Blocks(p.reason)
        PROVE  blocked = p.d \/ Since(t)
    <3>1. CASE Within(z, cell.zin)
      <4>1. t \in p.x..t
        BY <1>3, <1>6, <2>2
      <4> QED
        BY <3>1, <4>1 DEF CalmSince
    <3>2. CASE ~ Within(z, cell.zin)
      <4>1. ASSUME Since(t - 1) PROVE Since(t)
        <5>1. PICK u \in p.x..(t - 1) : Within(roll_stats(Ratio(bs), cell.m, u), cell.zin)
          BY <4>1 DEF CalmSince
        <5>2. u \in p.x..t
          BY <1>3, <1>6, <2>2
        <5> QED
          BY <5>1, <5>2 DEF CalmSince
      <4> QED
        BY <1>6, <2>2, <3>2, <4>1
    <3> QED
      BY <3>1, <3>2
  <2>3. Len(s.trades) > 0 => p.x <= t + 1
    BY <1>3, <1>6
  <2> HIDE DEF blocked, s2, goes
  <2>4. \A k \in 2..Len(s2.trades) : Reentered(cell, bs, s2.trades[k - 1], s2.trades[k])
    BY <1>5, <2>1
  <2>5. Len(s2.trades) > 0 =>
          LET q == s2.trades[Len(s2.trades)]
          IN  /\ q.x <= t + 1
              /\ Blocks(q.reason) =>
                    IF s2.pos = 0 THEN s2.blocked = q.d \/ CalmSince(cell, bs, q.x, t)
                    ELSE s2.pos = q.d => CalmSince(cell, bs, q.x, s2.e - 2)
    BY <2>1, <2>2, <2>3
  <2> QED
    BY <2>4, <2>5, Zenon DEF CalmInv, s2
<1> QED
  BY <1>7, <1>8

LEMMA CalmKeepsOpen ==
    ASSUME NEW bs, NEW cell, NEW t \in Nat, NEW last \in Nat,
           NEW s \in PairState(bs), CalmInv(cell, bs, s, t - 1), s.pos # 0, NEW z
    PROVE  CalmInv(cell, bs, PairExit(cell, s, z, t, last, bs), t)
<1> DEFINE reason == IF s.pos * z.dev >= 0 THEN "cross0"
                     ELSE IF Outside(z, cell.zstop) THEN "stop"
                     ELSE IF t - s.e >= PairCap THEN "timecap"
                     ELSE IF t = last THEN "forced" ELSE NoValue
           at == IF reason # "forced" /\ t + 1 <= last THEN t + 1 ELSE t
           trade == [d |-> s.pos, e |-> s.e, x |-> at, reason |-> reason,
                     net |-> PairProfit(s.pos, bs, s.e, at) - 4 * Fee(1000)]
           s2 == PairExit(cell, s, z, t, last, bs)
           n == Len(s.trades)
           more == Append(s.trades, trade)
<1>1. s2 = IF reason = NoValue THEN s
           ELSE [pos |-> 0, e |-> 0, blocked |-> IF Blocks(reason) THEN s.pos ELSE 0,
                 trades |-> more]
  BY Zenon DEF PairExit
<1>2. s.trades \in Seq(PairTrades(bs)) /\ n \in Nat
  BY LenProperties DEF PairState
<1>3. \A k \in 2..n : Reentered(cell, bs, s.trades[k - 1], s.trades[k])
  BY DEF CalmInv
<1>4. n > 0 => /\ s.trades[n].x <= (t - 1) + 1 /\ s.trades[n].x \in Nat
               /\ Blocks(s.trades[n].reason) /\ s.pos = s.trades[n].d
                     => CalmSince(cell, bs, s.trades[n].x, s.e - 2)
  <2>1. n > 0 => s.trades[n] \in PairTrades(bs)
    BY <1>2, ElementOfSeq
  <2>2. n > 0 => s.trades[n].x \in Nat
    BY <2>1, PairTradeFields
  <2>3. n > 0 => /\ s.trades[n].x <= (t - 1) + 1
                 /\ Blocks(s.trades[n].reason) /\ s.pos = s.trades[n].d
                       => CalmSince(cell, bs, s.trades[n].x, s.e - 2)
    BY DEF CalmInv
  <2> QED
    BY <2>2, <2>3
<1>5. CASE reason = NoValue
  <2>1. s2 = s
    BY <1>1, <1>5
  <2>2. n > 0 => s.trades[n].x <= t + 1
    BY <1>4
  <2> HIDE DEF s2
  <2>3. CalmInv(cell, bs, s, t)
    BY <1>3, <1>4, <2>2 DEF CalmInv
  <2> QED
    BY <2>1, <2>3 DEF s2
<1>6. CASE reason # NoValue
  <2>1. s2.trades = more /\ s2.pos = 0 /\ s2.blocked = IF Blocks(reason) THEN s.pos ELSE 0
    BY <1>1, <1>6
  <2>2. trade.d = s.pos /\ trade.e = s.e /\ trade.x = at /\ trade.reason = reason
    OBVIOUS
  <2>3. at <= t + 1
    OBVIOUS
  <2> HIDE DEF trade, at, reason, s2
  <2>4. s.trades \in Seq(PairTrades(bs) \cup {trade})
    BY <1>2, ElementOfSeq, LenProperties
  <2>5. Len(more) = n + 1 /\ more[n + 1] = trade /\ \A k \in 1..n : more[k] = s.trades[k]
    BY <2>4, AppendProperties
  <2>6. ASSUME NEW k \in 2..(n + 1)
        PROVE  Reentered(cell, bs, more[k - 1], more[k])
    <3>1. CASE k <= n
      <4>1. k \in 2..n /\ more[k] = s.trades[k] /\ more[k - 1] = s.trades[k - 1]
        BY <1>2, <2>5, <3>1
      <4> QED
        BY <1>3, <4>1
    <3>2. CASE ~ (k <= n)
      <4>1. k = n + 1 /\ n > 0 /\ k - 1 = n /\ n \in 1..n
        BY <1>2, <3>2
      <4>2. more[k] = trade /\ more[k - 1] = s.trades[n]
        BY <2>5, <4>1
      <4> QED
        BY <1>4, <2>2, <4>1, <4>2 DEF Reentered
    <3> QED
      BY <3>1, <3>2
  <2> HIDE DEF more
  <2>7. \A k \in 2..Len(s2.trades) : Reentered(cell, bs, s2.trades[k - 1], s2.trades[k])
    BY <2>1, <2>5, <2>6
  <2>8. Len(s2.trades) > 0 =>
          LET q == s2.trades[Len(s2.trades)]
          IN  /\ q.x <= t + 1
              /\ Blocks(q.reason) =>
                    IF s2.pos = 0 THEN s2.blocked = q.d \/ CalmSince(cell, bs, q.x, t)
                    ELSE s2.pos = q.d => CalmSince(cell, bs, q.x, s2.e - 2)
    BY <2>1, <2>2, <2>3, <2>5
  <2> QED
    BY <2>7, <2>8, Zenon DEF CalmInv, s2
<1> QED
  BY <1>5, <1>6

LEMMA PairCalm ==
    ASSUME NEW bs, Hourly(bs), NEW cell \in PairCells, NEW trades, trades = run_pair(cell, bs, Len(bs))
    PROVE  \A k \in 2..Len(trades) : Reentered(cell, bs, trades[k - 1], trades[k])
<1>1. PICK n \in Nat : n = Len(bs)
  BY DEF Hourly
<1>2. MinOf(n + 1, Len(bs)) = n
  BY <1>1 DEF MinOf
<1> DEFINE f == PairStates(cell, bs, n, n)
<1>3. /\ f[0] = PairFlat
      /\ \A i \in (0 + 1)..n : f[i] = PairBar(cell, bs, Ratio(bs), n, n, f[i - 1], i)
      /\ \A i \in 0..n : f[i] \in PairState(bs)
  BY PairRuns
<1>4. trades = f[n].trades
  BY <1>1, <1>2 DEF run_pair
<1> HIDE DEF f
<1> DEFINE T == {i \in Int : CalmInv(cell, bs, f[i], i)}
<1>5. 0 \in T
  <2>1. Len(PairFlat.trades) = 0
    BY EmptySeq DEF PairFlat
  <2> QED
    BY <1>3, <2>1 DEF CalmInv
<1>6. ASSUME NEW i \in (0 + 1)..n, i - 1 \in T
      PROVE  i \in T
  <2>1. PICK s : s = f[i - 1]
    OBVIOUS
  <2>2. s \in PairState(bs) /\ CalmInv(cell, bs, s, i - 1) /\ i \in 1..Len(bs) /\ i \in Nat
    BY <1>1, <1>3, <1>6, <2>1
  <2>3. PICK z : z = roll_stats(Ratio(bs), cell.m, i)
    OBVIOUS
  <2>4. f[i] = IF s.pos = 0 THEN PairEnter(cell, s, z, i, i <= n) ELSE PairExit(cell, s, z, i, n, bs)
    BY <1>3, <1>6, <2>1, <2>3 DEF PairBar
  <2>5. CalmInv(cell, bs, f[i], i)
    <3>1. CASE s.pos = 0
      <4>1. i <= n
        BY <1>6
      <4>2. f[i] = PairEnter(cell, s, z, i, TRUE)
        BY <2>4, <3>1, <4>1
      <4> QED
        BY <2>2, <2>3, <3>1, <4>2, CalmKeepsFlat
    <3>2. CASE s.pos # 0
      BY <2>2, <2>4, <3>2, CalmKeepsOpen
    <3> QED
      BY <3>1, <3>2
  <2> QED
    BY <2>2, <2>5
<1> HIDE DEF T
<1>7. 0..n \subseteq T
  <2>1. \A i \in (0 + 1)..n : i - 1 \in T => i \in T
    BY <1>6
  <2>2. 0 \in Int /\ n \in Int
    OBVIOUS
  <2> QED
    BY <1>5, <2>1, <2>2, IntervalInduction, Zenon
<1>8. CalmInv(cell, bs, f[n], n)
  BY <1>7 DEF T
<1> QED
  BY <1>4, <1>8 DEF CalmInv

(* After a stop or the time cap no pair is entered again in the same direction
   before its score has been calm ("no re-entry same dir until |z| < z_in"). *)
THEOREM CalmReentry == LegsSpec => []CalmBeforeReentry
<1>1. LegsInv => CalmBeforeReentry
  <2> SUFFICES ASSUME LegsInv, NEW m \in PairCells, NEW trades, trades = legs.pair[m],
                      NEW k \in 2..Len(trades),
                      trades[k - 1].reason \in {"stop", "timecap"}, trades[k].d = trades[k - 1].d
               PROVE  \E t \in trades[k - 1].x..(trades[k].e - 2) :
                          Within(roll_stats(Ratio(bars), m.m, t), m.zin)
    BY DEF CalmBeforeReentry
  <2>1. legs.pair[m] = run_pair(m, bars, Len(bars))
    BY DEF LegsInv, Reports
  <2>2. Reentered(m, bars, trades[k - 1], trades[k])
    BY <2>1, PairCalm DEF LegsInv
  <2> QED
    BY <2>2 DEF Reentered, Blocks, CalmSince
<1> QED
  BY <1>1, LegsHolds, PTL

-----------------------------------------------------------------------------
(* Two series that begin alike. *)

LEMMA RatioSame ==
    ASSUME NEW bs, NEW cs, NEW k, Hourly(bs), Hourly(cs), Agree(bs, cs, k)
    PROVE  \A i \in 1..k : Ratio(bs)[i] = Ratio(cs)[i]
<1> SUFFICES ASSUME NEW i \in 1..k PROVE Ratio(bs)[i] = Ratio(cs)[i]
  OBVIOUS
<1>1. bs[i] = cs[i] /\ i \in DOMAIN bs /\ i \in DOMAIN cs
  BY DEF Agree, Hourly
<1> QED
  BY <1>1 DEF Ratio

LEMMA ScoreSame ==
    ASSUME NEW x, NEW y, NEW t \in Nat, \A i \in 1..t : x[i] = y[i], NEW m \in Nat \ {0}
    PROVE  roll_stats(x, m, t) = roll_stats(y, m, t)
<1>1. CASE t < m
  BY <1>1 DEF roll_stats
<1>2. CASE ~ (t < m)
  <2> DEFINE window == (t - m + 1)..t
             p == [i \in window |-> x[i] * x[i]]
             q == [i \in window |-> y[i] * y[i]]
  <2>1. IsFiniteSet(window)
    <3>1. t - m + 1 \in Int /\ t \in Int
      OBVIOUS
    <3> QED
      BY <3>1, FS_Interval, Zenon
  <2>2. \A i \in window : x[i] = y[i]
    BY <1>2
  <2>3. x[t] = y[t]
    BY <1>2
  <2>4. SumFunctionOnSet(x, window) = SumFunctionOnSet(y, window)
    BY <2>1, <2>2, SumCongruence
  <2>5. p = q
    BY <2>2
  <2> HIDE DEF window
  <2> QED
    BY <1>2, <2>3, <2>4, <2>5 DEF roll_stats, window
<1> QED
  BY <1>1, <1>2

LEMMA PairProfitSame ==
    ASSUME NEW bs, NEW cs, NEW k, Agree(bs, cs, k), NEW i \in 1..k, NEW j \in 1..k, NEW d
    PROVE  PairProfit(d, bs, i, j) = PairProfit(d, cs, i, j) /\ RatioNet(d, bs, i, j) = RatioNet(d, cs, i, j)
<1>1. bs[i] = cs[i] /\ bs[j] = cs[j]
  BY DEF Agree
<1> QED
  BY <1>1 DEF PairProfit, RatioNet

(* At bar t nothing is said of the end of either series, or they end alike. *)
EndAlike(t, k, hi, last, hi2, last2) ==
    /\ t \in 1..k /\ hi \in Nat /\ hi2 \in Nat /\ last \in Nat /\ last2 \in Nat
    /\ t <= hi <=> t <= hi2
    /\ \/ last = last2 /\ t <= last /\ last <= k
       \/ t < last /\ t < last2 /\ t < k

AlikeTo(j, k, hi, last, hi2, last2) ==
    /\ {j, hi, hi2, last, last2} \subseteq Nat /\ j <= last /\ j <= last2
    /\ \A t \in 1..j : EndAlike(t, k, hi, last, hi2, last2)

LEMMA PairBarSame ==
    ASSUME NEW bs, NEW cs, NEW k, Hourly(bs), Hourly(cs), Agree(bs, cs, k), NEW cell \in PairCells,
           NEW t, NEW hi, NEW last, NEW hi2, NEW last2, EndAlike(t, k, hi, last, hi2, last2),
           NEW s, s.pos # 0 => s.e \in 1..t
    PROVE  PairBar(cell, bs, Ratio(bs), hi, last, s, t) = PairBar(cell, cs, Ratio(cs), hi2, last2, s, t)
<1>1. PICK z : z = roll_stats(Ratio(bs), cell.m, t) /\ z = roll_stats(Ratio(cs), cell.m, t)
  <2>1. cell.m \in Nat \ {0}
    BY LegsAssumption
  <2>2. t \in Nat /\ \A i \in 1..t : Ratio(bs)[i] = Ratio(cs)[i]
    BY RatioSame DEF EndAlike, Agree
  <2> QED
    BY <2>1, <2>2, ScoreSame
<1>2. CASE s.pos = 0
  <2>1. (t <= hi) = (t <= hi2)
    BY DEF EndAlike
  <2> QED
    BY <1>1, <1>2, <2>1 DEF PairBar
<1>3. CASE s.pos # 0
  <2> DEFINE Reason(l) == IF s.pos * z.dev >= 0 THEN "cross0"
                          ELSE IF Outside(z, cell.zstop) THEN "stop"
                          ELSE IF t - s.e >= PairCap THEN "timecap"
                          ELSE IF t = l THEN "forced" ELSE NoValue
             At(l) == IF Reason(l) # "forced" /\ t + 1 <= l THEN t + 1 ELSE t
  <2>1. Reason(last) = Reason(last2) /\ At(last) = At(last2)
    BY DEF EndAlike
  <2>2. At(last) \in 1..k /\ s.e \in 1..k
    BY <1>3 DEF EndAlike, Agree
  <2> DEFINE Ends(r, at, b) ==
                IF r = NoValue THEN s
                ELSE [pos |-> 0, e |-> 0, blocked |-> IF Blocks(r) THEN s.pos ELSE 0,
                      trades |-> Append(s.trades,
                                     [d |-> s.pos, e |-> s.e, x |-> at, reason |-> r,
                                      net |-> PairProfit(s.pos, b, s.e, at) - 4 * Fee(1000)])]
  <2>3. \A l, b : PairExit(cell, s, z, t, l, b) = Ends(Reason(l), At(l), b)
    BY Zenon DEF PairExit
  <2> HIDE DEF Reason, At
  <2>4. PICK r, at : r = Reason(last) /\ r = Reason(last2) /\ at = At(last) /\ at = At(last2)
    BY <2>1
  <2>5. PairProfit(s.pos, bs, s.e, at) = PairProfit(s.pos, cs, s.e, at)
    BY <2>2, <2>4, PairProfitSame
  <2>6. Ends(r, at, bs) = Ends(r, at, cs)
    BY <2>5
  <2> HIDE DEF Ends
  <2>7. PairExit(cell, s, z, t, last, bs) = PairExit(cell, s, z, t, last2, cs)
    BY <2>3, <2>4, <2>6
  <2> QED
    BY <1>1, <1>3, <2>7 DEF PairBar
<1> QED
  BY <1>2, <1>3

LEMMA PairStatesSame ==
    ASSUME NEW bs, NEW cs, NEW k, Hourly(bs), Hourly(cs), Agree(bs, cs, k), NEW cell \in PairCells,
           NEW hi, NEW last, NEW hi2, NEW last2, NEW j, AlikeTo(j, k, hi, last, hi2, last2)
    PROVE  \A t \in 0..j : /\ PairStates(cell, bs, hi, last)[t] = PairStates(cell, cs, hi2, last2)[t]
                           /\ PairStates(cell, bs, hi, last)[t] \in PairState(bs)
                           /\ PairStates(cell, bs, hi, last)[t].pos # 0
                                 => PairStates(cell, bs, hi, last)[t].e \in 1..(t + 1)
<1> DEFINE f == PairStates(cell, bs, hi, last)
           g == PairStates(cell, cs, hi2, last2)
           T == {t \in Int : f[t] = g[t] /\ (f[t].pos # 0 => f[t].e \in 1..(t + 1))}
<1>0. /\ {j, hi, hi2, last, last2} \subseteq Nat /\ j <= last /\ j <= last2
      /\ \A t \in 1..j : EndAlike(t, k, hi, last, hi2, last2)
  BY DEF AlikeTo
<1>1. /\ f[0] = PairFlat
      /\ \A i \in (0 + 1)..last : f[i] = PairBar(cell, bs, Ratio(bs), hi, last, f[i - 1], i)
      /\ \A i \in 0..last : f[i] \in PairState(bs)
  BY <1>0, PairRuns
<1>2. /\ g[0] = PairFlat
      /\ \A i \in (0 + 1)..last2 : g[i] = PairBar(cell, cs, Ratio(cs), hi2, last2, g[i - 1], i)
  <2>1. last2 \in Nat /\ hi2 \in Nat
    BY <1>0
  <2> QED
    BY <2>1, PairRuns, Zenon
<1> HIDE DEF f, g
<1>3. 0 \in T
  <2>1. PairFlat.pos = 0
    BY DEF PairFlat
  <2> QED
    BY <1>1, <1>2, <2>1
<1>4. ASSUME NEW t \in (0 + 1)..j, t - 1 \in T
      PROVE  t \in T
  <2>1. PICK s : s = f[t - 1]
    OBVIOUS
  <2>2. /\ g[t - 1] = s /\ s \in PairState(bs) /\ (s.pos # 0 => s.e \in 1..t)
        /\ t \in 1..j /\ t \in 1..last /\ t \in (0 + 1)..last /\ t \in (0 + 1)..last2
    BY <1>0, <1>1, <1>4, <2>1
  <2>3. EndAlike(t, k, hi, last, hi2, last2)
    BY <1>0, <2>2
  <2>4. f[t] = g[t]
    BY <1>1, <1>2, <2>1, <2>2, <2>3, PairBarSame
  <2>5. f[t].pos # 0 => f[t].e \in 1..(t + 1)
    <3>1. PICK z : f[t] = IF s.pos = 0 THEN PairEnter(cell, s, z, t, t <= hi)
                          ELSE PairExit(cell, s, z, t, last, bs)
      BY <1>1, <2>1, <2>2 DEF PairBar
    <3>2. CASE s.pos = 0
      <4>1. f[t] = PairEnter(cell, s, z, t, t <= hi)
        BY <3>1, <3>2
      <4> DEFINE blocked == IF Within(z, cell.zin) THEN 0 ELSE s.blocked
                 d == IF z.dev > 0 THEN -1 ELSE 1
                 goes == t <= hi /\ Outside(z, cell.zin) /\ d # blocked
      <4>2. f[t] = IF goes THEN [pos |-> d, e |-> t + 1, blocked |-> 0, trades |-> s.trades]
                   ELSE [s EXCEPT !.blocked = blocked]
        BY <4>1, Zenon DEF PairEnter
      <4> HIDE DEF blocked, d, goes
      <4>3. CASE goes
        BY <2>2, <4>2, <4>3
      <4>4. CASE ~ goes
        <5>1. f[t].pos = 0
          BY <2>2, <3>2, <4>2, <4>4 DEF PairState
        <5> QED
          BY <5>1
      <4> QED
        BY <4>3, <4>4
    <3>3. CASE s.pos # 0
      <4>1. f[t] = PairExit(cell, s, z, t, last, bs)
        BY <3>1, <3>3
      <4>2. f[t] = s \/ f[t].pos = 0
        BY <4>1 DEF PairExit
      <4> QED
        BY <2>2, <3>3, <4>2
    <3> QED
      BY <3>2, <3>3
  <2> QED
    BY <2>2, <2>4, <2>5
<1> HIDE DEF T
<1>5. 0..j \subseteq T
  <2>1. \A t \in (0 + 1)..j : t - 1 \in T => t \in T
    BY <1>4
  <2>2. 0 \in Int /\ j \in Int
    BY <1>0
  <2> QED
    BY <1>3, <2>1, <2>2, IntervalInduction, Zenon
<1>6. \A t \in 0..j : f[t] \in PairState(bs)
  BY <1>0, <1>1
<1> QED
  BY <1>5, <1>6 DEF T, f, g

-----------------------------------------------------------------------------
(* The same of the ratio. *)

RatioTrades(bs) ==
    {[d |-> d, e |-> e, x |-> x, reason |-> r, net |-> RatioNet(d, bs, e, x)] :
        d \in -1..1, e \in Nat, x \in Nat, r \in Reasons}
RatioState(bs) == [pos : -1..1, e : Nat, next : Nat, trades : Seq(RatioTrades(bs))]
RatioFollows(cell, bs, hi, end, f) ==
    f = [i \in 0..end |-> IF i = 0 THEN RatioFlat(cell)
                          ELSE RatioBar(cell, bs, Ratio(bs), hi, end, f[i - 1], i)]

LEMMA RatioTradeIn ==
    ASSUME NEW bs, NEW d \in -1..1, NEW e \in Nat, NEW x \in Nat, NEW r \in Reasons
    PROVE  [d |-> d, e |-> e, x |-> x, reason |-> r, net |-> RatioNet(d, bs, e, x)] \in RatioTrades(bs)
BY DEF RatioTrades

LEMMA RatioCell ==
    ASSUME NEW cell \in ToSet(RatioGrid)
    PROVE  cell.l \in Nat
<1>1. PICK k \in DOMAIN RatioGrid : cell = RatioGrid[k]
  BY DEF ToSet
<1>2. RatioGrid \in Seq([l : Nat, t : Nat, s : Nat, cap : Nat, short : BOOLEAN])
  BY LegsAssumption
<1>3. cell \in [l : Nat, t : Nat, s : Nat, cap : Nat, short : BOOLEAN]
  BY <1>1, <1>2, ElementOfSeq, LenProperties
<1> QED
  BY <1>3

(* What a bar makes of a state, by the decisions it comes to. *)
RatioStep(s, i, goes, side, reason, j, net) ==
    IF i < s.next THEN s
    ELSE IF s.pos = 0 THEN
        IF goes THEN [pos |-> side, e |-> i + 1, next |-> i + 2, trades |-> s.trades] ELSE s
    ELSE IF reason = NoValue THEN s
    ELSE [pos |-> 0, e |-> 0, next |-> j + 1,
          trades |-> Append(s.trades, [d |-> s.pos, e |-> s.e, x |-> j, reason |-> reason,
                                       net |-> net])]
RatioMoved(cell, x, i, d) == Beyond(d, x, cell.l, i, 0)
RatioFar(cell, x, i, d) == Beyond(d, x, cell.l, i, cell.t) /\ ~(cell.short /\ d = 1)
RatioGoes(cell, x, hi, end, i) ==
    i <= hi /\ i + 1 <= end /\ \E d \in {-1, 1} : RatioFar(cell, x, i, d)
RatioSide(cell, x, i) == CHOOSE d \in {-1, 1} : RatioFar(cell, x, i, d)
RatioReason(cell, bs, x, end, s, i) ==
    IF PairProfit(s.pos, bs, s.e, i) <= -10 * cell.s THEN "stop"
    ELSE IF RatioMoved(cell, x, i, -s.pos) THEN "flip"
    ELSE IF i - s.e >= cell.cap THEN "timecap"
    ELSE IF i = end THEN "eos" ELSE NoValue

LEMMA RatioBarIs ==
    ASSUME NEW cell, NEW bs, NEW x, NEW hi, NEW end, NEW s, NEW i
    PROVE  RatioBar(cell, bs, x, hi, end, s, i) =
               RatioStep(s, i, RatioGoes(cell, x, hi, end, i), RatioSide(cell, x, i),
                         RatioReason(cell, bs, x, end, s, i), MinOf(i + 1, end),
                         RatioNet(s.pos, bs, s.e, MinOf(i + 1, end)))
BY Zenon DEF RatioBar, RatioStep, RatioGoes, RatioSide, RatioReason, RatioMoved, RatioFar, FillBar

LEMMA RatioStepType ==
    ASSUME NEW bs, NEW s \in RatioState(bs), NEW i \in Nat, NEW goes, NEW side,
           goes => side \in -1..1, NEW reason \in Reasons \cup {NoValue}, NEW j \in Nat
    PROVE  RatioStep(s, i, goes, side, reason, j, RatioNet(s.pos, bs, s.e, j)) \in RatioState(bs)
<1> DEFINE trade == [d |-> s.pos, e |-> s.e, x |-> j, reason |-> reason,
                     net |-> RatioNet(s.pos, bs, s.e, j)]
<1>1. s.pos \in -1..1 /\ s.e \in Nat /\ s.trades \in Seq(RatioTrades(bs))
  BY DEF RatioState
<1>2. reason \in Reasons => trade \in RatioTrades(bs)
  BY <1>1, RatioTradeIn
<1> HIDE DEF trade
<1>3. reason \in Reasons => Append(s.trades, trade) \in Seq(RatioTrades(bs))
  BY <1>1, <1>2, AppendProperties
<1>4. reason \in Reasons =>
          [pos |-> 0, e |-> 0, next |-> j + 1, trades |-> Append(s.trades, trade)] \in RatioState(bs)
  BY <1>3 DEF RatioState
<1>5. goes => [pos |-> side, e |-> i + 1, next |-> i + 2, trades |-> s.trades] \in RatioState(bs)
  BY <1>1 DEF RatioState
<1> QED
  BY <1>4, <1>5 DEF RatioStep, trade

LEMMA RatioBarType ==
    ASSUME NEW bs, NEW cell, NEW x, NEW hi, NEW end \in Nat, NEW s \in RatioState(bs), NEW i \in Nat
    PROVE  RatioBar(cell, bs, x, hi, end, s, i) \in RatioState(bs)
<1>1. RatioGoes(cell, x, hi, end, i) => RatioSide(cell, x, i) \in -1..1
  <2> SUFFICES ASSUME \E d \in {-1, 1} : RatioFar(cell, x, i, d) PROVE RatioSide(cell, x, i) \in -1..1
    BY Zenon DEF RatioGoes
  <2>1. RatioSide(cell, x, i) \in {-1, 1}
    BY Zenon DEF RatioSide
  <2> QED
    BY <2>1
<1>2. RatioReason(cell, bs, x, end, s, i) \in Reasons \cup {NoValue}
  BY DEF RatioReason, Reasons
<1>3. MinOf(i + 1, end) \in Nat
  BY DEF MinOf
<1> QED
  BY <1>1, <1>2, <1>3, RatioBarIs, RatioStepType

LEMMA RatioRuns ==
    ASSUME NEW bs, NEW cell \in ToSet(RatioGrid), NEW hi, NEW end \in Nat
    PROVE  /\ RatioStates(cell, bs, hi, end)[0] = RatioFlat(cell)
           /\ \A i \in (0 + 1)..end : RatioStates(cell, bs, hi, end)[i] = RatioBar(cell, bs, Ratio(bs), hi, end, RatioStates(cell, bs, hi, end)[i - 1], i)
           /\ \A i \in 0..end : RatioStates(cell, bs, hi, end)[i] \in RatioState(bs)
<1> DEFINE G == [z \in ((0 + 1)..end) \X RatioState(bs) |-> RatioBar(cell, bs, Ratio(bs), hi, end, z[2], z[1])]
<1>0. 0 \in Int /\ end \in Int /\ 0 <= end /\ RatioFlat(cell) \in RatioState(bs)
  <2>1. 0 \in -1..1 /\ 0 \in Nat /\ 0 \in Int /\ end \in Int /\ 0 <= end /\ cell.l + 1 \in Nat
    BY RatioCell
  <2>2. <<>> \in Seq(RatioTrades(bs))
    BY EmptySeq, Zenon
  <2> QED
    BY <2>1, <2>2 DEF RatioFlat, RatioState
<1>1. \A i \in (0 + 1)..end, u \in RatioState(bs) : RatioBar(cell, bs, Ratio(bs), hi, end, u, i) \in RatioState(bs)
  <2>1. \A i \in (0 + 1)..end : i \in Nat
    OBVIOUS
  <2> QED
    BY <2>1, RatioBarType
<1>2. \A i \in (0 + 1)..end, u \in RatioState(bs) : G[<<i, u>>] = RatioBar(cell, bs, Ratio(bs), hi, end, u, i)
  OBVIOUS
<1> HIDE DEF G
<1>3. PICK f \in [0..end -> RatioState(bs)] : Repeats(f, RatioFlat(cell), G, 0, end)
  <2>1. \A i \in (0 + 1)..end, u \in RatioState(bs) : G[<<i, u>>] \in RatioState(bs)
    BY <1>1, <1>2, Zenon
  <2> QED
    BY <1>0, <2>1, SomeRepeats, Zenon
<1>4. \A i \in 0..end : f[i] = IF i = 0 THEN RatioFlat(cell) ELSE G[<<i, f[i - 1]>>]
  BY <1>3, Zenon DEF Repeats
<1>5. \A i \in 0..end : f[i] = IF i = 0 THEN RatioFlat(cell) ELSE RatioBar(cell, bs, Ratio(bs), hi, end, f[i - 1], i)
  <2> SUFFICES ASSUME NEW i \in 0..end, i # 0 PROVE f[i] = RatioBar(cell, bs, Ratio(bs), hi, end, f[i - 1], i)
    BY <1>4, Zenon
  <2>1. i \in (0 + 1)..end /\ i - 1 \in 0..end
    BY <1>0
  <2>2. f[i - 1] \in RatioState(bs)
    BY <1>3, <2>1, Zenon
  <2> QED
    BY <1>2, <1>4, <2>1, <2>2, Zenon
<1>6. f = [i \in 0..end |-> f[i]]
  BY <1>3, Zenon
<1>7. RatioFollows(cell, bs, hi, end, f)
  BY <1>5, <1>6, Zenon DEF RatioFollows
<1>8. RatioStates(cell, bs, hi, end) = CHOOSE g : RatioFollows(cell, bs, hi, end, g)
  BY Zenon DEF RatioStates, RatioFollows
<1>9. PICK g : RatioFollows(cell, bs, hi, end, g) /\ RatioStates(cell, bs, hi, end) = g
  BY <1>7, <1>8, Zenon
<1>10. \A i \in 0..end : g[i] = IF i = 0 THEN RatioFlat(cell) ELSE RatioBar(cell, bs, Ratio(bs), hi, end, g[i - 1], i)
  BY <1>9, Zenon DEF RatioFollows
<1> DEFINE T == {i \in Int : g[i] \in RatioState(bs)}
<1>11. 0 \in T
  <2>1. 0 \in 0..end
    BY <1>0
  <2> QED
    BY <1>0, <1>10, <2>1, Zenon
<1>12. ASSUME NEW i \in (0 + 1)..end
       PROVE  /\ g[i] = RatioBar(cell, bs, Ratio(bs), hi, end, g[i - 1], i)
              /\ i - 1 \in T => i \in T
  <2>1. i \in 0..end /\ i # 0 /\ i \in Int
    BY <1>0
  <2>2. g[i] = RatioBar(cell, bs, Ratio(bs), hi, end, g[i - 1], i)
    BY <1>10, <2>1, Zenon
  <2> QED
    BY <1>1, <2>1, <2>2, Zenon
<1> HIDE DEF T
<1>13. 0..end \subseteq T
  <2>1. \A i \in (0 + 1)..end : i - 1 \in T => i \in T
    BY <1>12, Zenon
  <2>2. 0 \in Int /\ end \in Int
    BY <1>0, Zenon
  <2> QED
    BY <1>11, <2>1, <2>2, IntervalInduction, Zenon
<1>14. \A i \in 0..end : g[i] \in RatioState(bs)
  BY <1>13, Zenon DEF T
<1>15. g[0] = RatioFlat(cell)
  <2>1. 0 \in 0..end
    BY <1>0
  <2> QED
    BY <1>10, <2>1, Zenon
<1> QED
  BY <1>9, <1>12, <1>14, <1>15, Zenon

LEMMA BeyondSame ==
    ASSUME NEW x, NEW y, NEW i \in Nat, \A j \in 1..i : x[j] = y[j], NEW k \in Nat, NEW d, NEW p
    PROVE  Beyond(d, x, k, i, p) = Beyond(d, y, k, i, p)
<1>1. CASE i > k
  <2>1. x[i] = y[i] /\ x[i - k] = y[i - k]
    BY <1>1
  <2> QED
    BY <2>1 DEF Beyond
<1>2. CASE ~ (i > k)
  BY <1>2 DEF Beyond
<1> QED
  BY <1>1, <1>2

LEMMA RatioBarSame ==
    ASSUME NEW bs, NEW cs, NEW k, Hourly(bs), Hourly(cs), Agree(bs, cs, k),
           NEW cell \in ToSet(RatioGrid),
           NEW t, NEW hi, NEW end, NEW hi2, NEW end2, EndAlike(t, k, hi, end, hi2, end2),
           NEW s, s.pos # 0 => s.e \in 1..k
    PROVE  RatioBar(cell, bs, Ratio(bs), hi, end, s, t) = RatioBar(cell, cs, Ratio(cs), hi2, end2, s, t)
<1> DEFINE x == Ratio(bs)
           y == Ratio(cs)
           at == MinOf(t + 1, end)
<1>1. t \in Nat /\ \A i \in 1..t : x[i] = y[i]
  BY RatioSame DEF EndAlike, Agree
<1>2. \A d, p : Beyond(d, x, cell.l, t, p) = Beyond(d, y, cell.l, t, p)
  BY <1>1, RatioCell, BeyondSame
<1>3. \A d : RatioMoved(cell, x, t, d) = RatioMoved(cell, y, t, d) /\ RatioFar(cell, x, t, d) = RatioFar(cell, y, t, d)
  BY <1>2, Zenon DEF RatioMoved, RatioFar
<1>4. t \in 1..k /\ at = MinOf(t + 1, end2) /\ at \in 1..k /\ (t + 1 <= end) = (t + 1 <= end2)
      /\ (t <= hi) = (t <= hi2) /\ (t = end) = (t = end2)
  BY DEF EndAlike, MinOf, Agree
<1>5. RatioGoes(cell, x, hi, end, t) = RatioGoes(cell, y, hi2, end2, t)
  BY <1>3, <1>4 DEF RatioGoes
<1>6. RatioSide(cell, x, t) = RatioSide(cell, y, t)
  BY <1>3 DEF RatioSide
<1> HIDE DEF x, y, at
<1>7. CASE s.pos = 0
  <2>1. RatioStep(s, t, RatioGoes(cell, y, hi2, end2, t), RatioSide(cell, y, t),
                  RatioReason(cell, bs, x, end, s, t), at, RatioNet(s.pos, bs, s.e, at))
        = RatioStep(s, t, RatioGoes(cell, y, hi2, end2, t), RatioSide(cell, y, t),
                  RatioReason(cell, cs, y, end2, s, t), at, RatioNet(s.pos, cs, s.e, at))
    BY <1>7 DEF RatioStep
  <2> QED
    BY <1>4, <1>5, <1>6, <2>1, RatioBarIs DEF x, y, at
<1>8. CASE s.pos # 0
  <2>1. s.e \in 1..k
    BY <1>8
  <2>2. PairProfit(s.pos, bs, s.e, t) = PairProfit(s.pos, cs, s.e, t)
        /\ RatioNet(s.pos, bs, s.e, at) = RatioNet(s.pos, cs, s.e, at)
    BY <1>4, <2>1, PairProfitSame
  <2>3. RatioReason(cell, bs, x, end, s, t) = RatioReason(cell, cs, y, end2, s, t)
    BY <1>3, <1>4, <2>2 DEF RatioReason
  <2> QED
    BY <1>4, <1>5, <1>6, <2>2, <2>3, RatioBarIs DEF x, y, at
<1> QED
  BY <1>7, <1>8

LEMMA RatioStatesSame ==
    ASSUME NEW bs, NEW cs, NEW k, Hourly(bs), Hourly(cs), Agree(bs, cs, k),
           NEW cell \in ToSet(RatioGrid),
           NEW hi, NEW end, NEW hi2, NEW end2, NEW j, AlikeTo(j, k, hi, end, hi2, end2)
    PROVE  \A t \in 0..j : /\ RatioStates(cell, bs, hi, end)[t] = RatioStates(cell, cs, hi2, end2)[t]
                           /\ RatioStates(cell, bs, hi, end)[t] \in RatioState(bs)
                           /\ RatioStates(cell, bs, hi, end)[t].pos # 0
                                 => RatioStates(cell, bs, hi, end)[t].e \in 1..(t + 1)
<1> DEFINE f == RatioStates(cell, bs, hi, end)
           g == RatioStates(cell, cs, hi2, end2)
           T == {t \in Int : f[t] = g[t] /\ (f[t].pos # 0 => f[t].e \in 1..(t + 1))}
<1>0. /\ {j, hi, hi2, end, end2} \subseteq Nat /\ j <= end /\ j <= end2
      /\ \A t \in 1..j : EndAlike(t, k, hi, end, hi2, end2)
  BY DEF AlikeTo
<1>1. /\ f[0] = RatioFlat(cell)
      /\ \A i \in (0 + 1)..end : f[i] = RatioBar(cell, bs, Ratio(bs), hi, end, f[i - 1], i)
      /\ \A i \in 0..end : f[i] \in RatioState(bs)
  BY <1>0, RatioRuns
<1>2. /\ g[0] = RatioFlat(cell)
      /\ \A i \in (0 + 1)..end2 : g[i] = RatioBar(cell, cs, Ratio(cs), hi2, end2, g[i - 1], i)
  <2>1. end2 \in Nat
    BY <1>0
  <2> QED
    BY <2>1, RatioRuns, Zenon
<1> HIDE DEF f, g
<1>3. 0 \in T
  <2>1. RatioFlat(cell).pos = 0
    BY DEF RatioFlat
  <2> QED
    BY <1>1, <1>2, <2>1
<1>4. ASSUME NEW t \in (0 + 1)..j, t - 1 \in T
      PROVE  t \in T
  <2>1. PICK s : s = f[t - 1]
    OBVIOUS
  <2>2. /\ g[t - 1] = s /\ s \in RatioState(bs) /\ (s.pos # 0 => s.e \in 1..t)
        /\ t \in 1..j /\ t \in 1..end /\ t \in (0 + 1)..end /\ t \in (0 + 1)..end2
    BY <1>0, <1>1, <1>4, <2>1
  <2>3. EndAlike(t, k, hi, end, hi2, end2) /\ t \in 1..k
    BY <1>0, <2>2 DEF EndAlike
  <2>4. s.pos # 0 => s.e \in 1..k
    BY <2>2, <2>3 DEF Agree
  <2>5. f[t] = g[t]
    BY <1>1, <1>2, <2>1, <2>2, <2>3, <2>4, RatioBarSame
  <2>6. PICK goes, side, r, at, net : f[t] = RatioStep(s, t, goes, side, r, at, net)
    BY <1>1, <2>1, <2>2, RatioBarIs
  <2>7. f[t] = s \/ f[t].pos = 0 \/ f[t].e = t + 1
    BY <2>6 DEF RatioStep
  <2>8. f[t].pos # 0 => f[t].e \in 1..(t + 1)
    BY <2>2, <2>7
  <2> QED
    BY <2>2, <2>5, <2>8
<1> HIDE DEF T
<1>5. 0..j \subseteq T
  <2>1. \A t \in (0 + 1)..j : t - 1 \in T => t \in T
    BY <1>4
  <2>2. 0 \in Int /\ j \in Int
    BY <1>0
  <2> QED
    BY <1>3, <2>1, <2>2, IntervalInduction, Zenon
<1>6. \A t \in 0..j : f[t] \in RatioState(bs)
  BY <1>0, <1>1
<1> QED
  BY <1>5, <1>6 DEF T, f, g

(* On the bars to train on, and one more, any two long series that agree give the
   same trades. *)
LEMMA TrainSame ==
    ASSUME NEW bs, NEW cs, Hourly(bs), Hourly(cs), Len(bs) > Split, Agree(bs, cs, Len(bs))
    PROVE  /\ \A m \in PairCells : run_pair(m, cs, Split) = run_pair(m, bs, Split)
           /\ \A m \in ToSet(RatioGrid) : run_ratio(m, cs, Split) = run_ratio(m, bs, Split)
<1> DEFINE last == Split + 1
<1>1. Split \in Nat /\ last \in Nat /\ last <= Len(bs) /\ last <= Len(cs) /\ Len(bs) \in Nat /\ Len(cs) \in Nat
  BY LegsNumbers DEF Agree, Hourly
<1>2. MinOf(Split + 1, Len(bs)) = last /\ MinOf(Split + 1, Len(cs)) = last
  BY <1>1 DEF MinOf
<1>3. AlikeTo(last, Len(bs), Split, last, Split, last)
  BY <1>1 DEF EndAlike, AlikeTo
<1>6. last <= last /\ last \in 0..last
  BY <1>1
<1> HIDE DEF last
<1>7. PICK k : k = Len(bs) /\ Agree(bs, cs, k) /\ AlikeTo(last, k, Split, last, Split, last)
  BY <1>3
<1>4. ASSUME NEW m \in PairCells
      PROVE  run_pair(m, cs, Split) = run_pair(m, bs, Split)
  <2>1. \A t \in 0..last : PairStates(m, bs, Split, last)[t] = PairStates(m, cs, Split, last)[t]
    BY <1>7, PairStatesSame
  <2> QED
    BY <1>2, <1>6, <2>1, Zenon DEF run_pair
<1>5. ASSUME NEW m \in ToSet(RatioGrid)
      PROVE  run_ratio(m, cs, Split) = run_ratio(m, bs, Split)
  <2>1. \A t \in 0..last : RatioStates(m, bs, Split, last)[t] = RatioStates(m, cs, Split, last)[t]
    BY <1>7, RatioStatesSame
  <2> QED
    BY <1>2, <1>6, <2>1, Zenon DEF run_ratio
<1> QED
  BY <1>4, <1>5

(* What the pair strategies train on and choose does not depend on the bars they
   are tested on. *)
THEOREM TrainStays == LegsSpec => TrainUnmoved
<1>1. LegsInv /\ [LegsNext]_legsVars =>
          [ Len(bars) > Split =>
              /\ \A m \in PairCells : run_pair(m, bars', Split) = run_pair(m, bars, Split)
              /\ choose_ratio(bars') = choose_ratio(bars) ]_bars
  <2> SUFFICES ASSUME LegsInv, LegsNext, Len(bars) > Split
               PROVE  /\ \A m \in PairCells : run_pair(m, bars', Split) = run_pair(m, bars, Split)
                      /\ choose_ratio(bars') = choose_ratio(bars)
    BY DEF legsVars
  <2>1. PICK ls \in Continuations(bars) : bars' = ls
    BY DEF LegsNext, NextHour
  <2>2. Hourly(bars) /\ Hourly(ls) /\ Agree(bars, ls, Len(bars))
    BY ContinuationIs DEF LegsInv
  <2>3. /\ \A m \in PairCells : run_pair(m, ls, Split) = run_pair(m, bars, Split)
        /\ \A m \in ToSet(RatioGrid) : run_ratio(m, ls, Split) = run_ratio(m, bars, Split)
    BY <2>2, TrainSame
  <2>4. [g \in ToSet(RatioGrid) |-> run_ratio(g, ls, Split)] = [g \in ToSet(RatioGrid) |-> run_ratio(g, bars, Split)]
    BY <2>3
  <2>5. choose_ratio(ls) = choose_ratio(bars)
    BY <2>4 DEF choose_ratio
  <2> QED
    BY <2>1, <2>3, <2>5
<1> QED
  BY <1>1, LegsHolds, PTL DEF LegsSpec, TrainUnmoved

-----------------------------------------------------------------------------
(* A rebound trade and a trade of H1's mirror with the same levels. *)

LEMMA MinIs ==
    ASSUME NEW S \in SUBSET Int, NEW a \in S, \A y \in S : a <= y
    PROVE  Min(S) = a
<1>1. \E x \in S : \A y \in S : x <= y
  OBVIOUS
<1>2. Min(S) \in S /\ \A y \in S : Min(S) <= y
  BY <1>1, Zenon DEF Min
<1>3. PICK x : x = Min(S)
  OBVIOUS
<1>4. x \in Int /\ a \in Int /\ x <= a /\ a <= x
  BY <1>2, <1>3
<1> QED
  BY <1>3, <1>4

(* The first of four fills that there is. *)
FirstFill(f1, f2, f3, f4) ==
    IF f1 # NoValue THEN f1 ELSE IF f2 # NoValue THEN f2
    ELSE IF f3 # NoValue THEN f3 ELSE f4

LEMMA FirstFillIs ==
    ASSUME NEW f1, NEW f2, NEW f3, NEW f4
    PROVE  LET fills == <<f1, f2, f3, f4>>
               hit == {k \in DOMAIN fills : fills[k] # NoValue}
           IN  (IF hit = {} THEN NoValue ELSE fills[Min(hit)]) = FirstFill(f1, f2, f3, f4)
<1> DEFINE fills == <<f1, f2, f3, f4>>
           hit == {k \in DOMAIN fills : fills[k] # NoValue}
<1>1. DOMAIN fills = 1..4 /\ fills[1] = f1 /\ fills[2] = f2 /\ fills[3] = f3 /\ fills[4] = f4
  OBVIOUS
<1> HIDE DEF fills
<1>2. hit \in SUBSET Int /\ \A k \in 1..4 : k \in hit <=> fills[k] # NoValue
  BY <1>1
<1>3. \A k \in hit : k \in 1..4
  BY <1>1
<1>4. 1 \in 1..4 /\ 2 \in 1..4 /\ 3 \in 1..4 /\ 4 \in 1..4
  OBVIOUS
<1> HIDE DEF hit
<1>5. CASE f1 # NoValue
  <2>1. 1 \in hit /\ \A k \in hit : 1 <= k
    BY <1>1, <1>2, <1>3, <1>4, <1>5
  <2>2. Min(hit) = 1
    BY <1>2, <2>1, MinIs
  <2> QED
    BY <1>1, <1>5, <2>1, <2>2 DEF FirstFill, hit, fills
<1>6. CASE f1 = NoValue /\ f2 # NoValue
  <2>1. 2 \in hit /\ \A k \in hit : 2 <= k
    BY <1>1, <1>2, <1>3, <1>4, <1>6
  <2>2. Min(hit) = 2
    BY <1>2, <2>1, MinIs
  <2> QED
    BY <1>1, <1>6, <2>1, <2>2 DEF FirstFill, hit, fills
<1>7. CASE f1 = NoValue /\ f2 = NoValue /\ f3 # NoValue
  <2>1. 3 \in hit /\ \A k \in hit : 3 <= k
    BY <1>1, <1>2, <1>3, <1>4, <1>7
  <2>2. Min(hit) = 3
    BY <1>2, <2>1, MinIs
  <2> QED
    BY <1>1, <1>7, <2>1, <2>2 DEF FirstFill, hit, fills
<1>8. CASE f1 = NoValue /\ f2 = NoValue /\ f3 = NoValue
  <2>1. CASE f4 # NoValue
    <3>1. 4 \in hit /\ \A k \in hit : 4 <= k
      BY <1>1, <1>2, <1>3, <1>4, <1>8, <2>1
    <3>2. Min(hit) = 4
      BY <1>2, <3>1, MinIs
    <3> QED
      BY <1>1, <1>8, <3>1, <3>2 DEF FirstFill, hit, fills
  <2>2. CASE f4 = NoValue
    <3>1. hit = {}
      BY <1>1, <1>2, <1>3, <1>8, <2>2
    <3> QED
      BY <1>1, <1>8, <2>2, <3>1 DEF FirstFill, hit, fills
  <2> QED
    BY <2>1, <2>2
<1> QED
  BY <1>5, <1>6, <1>7, <1>8

(* A trade that ends by its stop, its target or its time: the two loops' bars. *)
MirrorOf(m) == [kind |-> "A", pct |-> 0, s |-> m.s, t |-> m.t, z |-> 0, cond |-> FALSE, cap |-> m.h]
Stopped(m, bs, e, j) == 100 * bs[j].l <= bs[e].c * (100 - m.s)
Reached(m, bs, e, j) == m.t > 0 /\ 100 * bs[j].h >= bs[e].c * (100 + m.t)
LevelFill(m, bs, e, j) ==
    IF Stopped(m, bs, e, j)
    THEN IF 100 * bs[j].o <= bs[e].c * (100 - m.s) THEN 100 * bs[j].o ELSE bs[e].c * (100 - m.s)
    ELSE IF Reached(m, bs, e, j)
    THEN IF 100 * bs[j].o >= bs[e].c * (100 + m.t) THEN 100 * bs[j].o ELSE bs[e].c * (100 + m.t)
    ELSE IF j >= e + m.h THEN 100 * bs[j].c ELSE NoValue

LEMMA MomentumFillIs ==
    ASSUME NEW d, NEW cell, NEW bs, NEW entry, NEW e, NEW j
    PROVE  LET ep == bs[e].c
               best == d * Max({d * ep} \cup {d * Best(d, bs[k]) : k \in (e + 1)..(j - 1)})
           IN  MomentumFill(d, cell, bs, entry, e, j) =
                   FirstFill(IF cell.s > 0 THEN Against(d, bs[j], ep * (100 - d * cell.s)) ELSE NoValue,
                             IF cell.z > 0 THEN Against(d, bs[j], best * (100 - d * cell.z)) ELSE NoValue,
                             IF cell.t > 0 THEN Towards(d, bs[j], ep * (100 + d * cell.t)) ELSE NoValue,
                             IF \/ cell.cond /\ \E k \in (e + 1)..(j - 1) : ~entry[k]
                                \/ j >= e + cell.cap
                             THEN 100 * bs[j].c ELSE NoValue)
<1> DEFINE ep == bs[e].c
           best == d * Max({d * ep} \cup {d * Best(d, bs[k]) : k \in (e + 1)..(j - 1)})
           f1 == IF cell.s > 0 THEN Against(d, bs[j], ep * (100 - d * cell.s)) ELSE NoValue
           f2 == IF cell.z > 0 THEN Against(d, bs[j], best * (100 - d * cell.z)) ELSE NoValue
           f3 == IF cell.t > 0 THEN Towards(d, bs[j], ep * (100 + d * cell.t)) ELSE NoValue
           f4 == IF \/ cell.cond /\ \E k \in (e + 1)..(j - 1) : ~entry[k]
                    \/ j >= e + cell.cap
                 THEN 100 * bs[j].c ELSE NoValue
<1> HIDE DEF f1, f2, f3, f4
<1>1. LET fills == <<f1, f2, f3, f4>>
          hit == {k \in DOMAIN fills : fills[k] # NoValue}
      IN  (IF hit = {} THEN NoValue ELSE fills[Min(hit)]) = FirstFill(f1, f2, f3, f4)
  BY FirstFillIs, Zenon
<1> QED
  BY <1>1, Zenon DEF MomentumFill, f1, f2, f3, f4

LEMMA LevelFillIs ==
    ASSUME NEW bs, Hourly(bs), NEW m \in CrashCells, NEW e \in 1..Len(bs), NEW j \in 1..Len(bs)
    PROVE  MomentumFill(1, MirrorOf(m), bs, <<>>, e, j) = LevelFill(m, bs, e, j)
<1> DEFINE b == bs[j]
           c == bs[e].c
           stop == c * (100 - 1 * m.s)
           target == c * (100 + 1 * m.t)
           f1 == IF m.s > 0 THEN Against(1, b, stop) ELSE NoValue
           f3 == IF m.t > 0 THEN Towards(1, b, target) ELSE NoValue
           f4 == IF j >= e + m.h THEN 100 * b.c ELSE NoValue
<1>1. {b.o, b.h, b.l, b.c, c} \subseteq Nat \ {0} /\ b.l <= b.o /\ b.o <= b.h
  <2>1. IsHour(bs[j]) /\ IsHour(bs[e])
    BY DEF Hourly
  <2> QED
    BY <2>1, HourFields
<1>2. m.s \in 1..99 /\ m.t \in Nat /\ m.h \in Nat /\ NoValue \notin Int
  BY LegsAssumption
<1>11. PICK p, q : p \in Int /\ q \in Int /\ p = m.s /\ q = m.t /\ p > 0 /\ q >= 0
  <2>1. PICK p, q : p = m.s /\ q = m.t
    OBVIOUS
  <2>2. p \in 1..99 /\ q \in Nat
    BY <1>2, <2>1
  <2>3. p \in Int /\ q \in Int /\ p > 0 /\ q >= 0
    BY <2>2
  <2> QED
    BY <2>1, <2>3, Zenon
<1>3. MomentumFill(1, MirrorOf(m), bs, <<>>, e, j) = FirstFill(f1, NoValue, f3, f4)
  <2>1. /\ MirrorOf(m).s = m.s /\ ~(MirrorOf(m).z > 0) /\ MirrorOf(m).t = m.t
        /\ MirrorOf(m).cond = FALSE /\ MirrorOf(m).cap = m.h
    BY DEF MirrorOf
  <2> QED
    BY <2>1, MomentumFillIs, Zenon
<1>9. stop = c * (100 - m.s) /\ target = c * (100 + m.t)
  <2>1. 1 * p = p /\ 1 * q = q
    BY <1>11
  <2>2. 1 * m.s = m.s /\ 1 * m.t = m.t
    BY <1>11, <2>1, Zenon
  <2> QED
    BY <2>2, Zenon
<1>10. stop \in Int /\ target \in Int
  <2>1. PICK u, v, w : u = c /\ v = 100 - 1 * m.s /\ w = 100 + 1 * m.t
    OBVIOUS
  <2>4. 100 - 1 * p \in Int /\ 100 + 1 * q \in Int
    BY <1>11
  <2>2. u \in Int /\ v \in Int /\ w \in Int
    BY <1>1, <1>11, <2>1, <2>4
  <2>3. u * v \in Int /\ u * w \in Int
    BY <2>2
  <2> QED
    BY <2>1, <2>3, Zenon
<1> HIDE DEF stop, target, b, c
<1>6. f1 = IF 100 * b.o <= stop THEN 100 * b.o ELSE IF 100 * b.l <= stop THEN stop ELSE NoValue
  <2>1. m.s > 0
    BY <1>11
  <2>2. Against(1, b, stop) = IF 100 * b.o <= stop THEN 100 * b.o ELSE IF 100 * b.l <= stop THEN stop ELSE NoValue
    BY <1>1, <1>10 DEF Against, Worst
  <2> QED
    BY <2>1, <2>2
<1>7. f3 = IF m.t = 0 THEN NoValue
           ELSE IF 100 * b.o >= target THEN 100 * b.o ELSE IF 100 * b.h >= target THEN target ELSE NoValue
  BY <1>1, <1>2, <1>10 DEF Towards, Best
<1> HIDE DEF f1, f3, f4
<1>8. LevelFill(m, bs, e, j) =
        IF 100 * b.l <= stop THEN IF 100 * b.o <= stop THEN 100 * b.o ELSE stop
        ELSE IF m.t > 0 /\ 100 * b.h >= target
        THEN IF 100 * b.o >= target THEN 100 * b.o ELSE target
        ELSE IF j >= e + m.h THEN 100 * b.c ELSE NoValue
  BY <1>9, Zenon DEF LevelFill, Stopped, Reached, b, c
<1> QED
  BY <1>1, <1>2, <1>3, <1>6, <1>7, <1>8, <1>10 DEF FirstFill, f4

LEMMA LevelFillIn ==
    ASSUME NEW bs, Hourly(bs), NEW m \in CrashCells, NEW e \in 1..Len(bs), NEW j \in 1..Len(bs)
    PROVE  /\ bs[e].c * (100 - m.s) \in Int /\ bs[e].c * (100 + m.t) \in Int
           /\ 100 * bs[j].o \in Int /\ 100 * bs[j].c \in Int
           /\ LevelFill(m, bs, e, j) # NoValue
                <=> (Stopped(m, bs, e, j) \/ Reached(m, bs, e, j) \/ j >= e + m.h)
<1>1. PICK o, c, ep : /\ o = bs[j].o /\ c = bs[j].c /\ ep = bs[e].c
                      /\ o \in Int /\ c \in Int /\ ep \in Int
  <2>1. IsHour(bs[j]) /\ IsHour(bs[e])
    BY DEF Hourly
  <2>2. {bs[j].o, bs[j].c, bs[e].c} \subseteq Nat \ {0}
    BY <2>1, HourFields
  <2> QED
    BY <2>2
<1>2. PICK p, q : p = 100 - m.s /\ q = 100 + m.t /\ p \in Int /\ q \in Int
  <2>1. PICK s, t : s = m.s /\ t = m.t
    OBVIOUS
  <2>2. s \in 1..99 /\ t \in Nat
    BY <2>1, LegsAssumption
  <2>3. 100 - s \in Int /\ 100 + t \in Int
    BY <2>2
  <2> QED
    BY <2>1, <2>3, Zenon
<1>3. ep * p \in Int /\ ep * q \in Int /\ 100 * o \in Int /\ 100 * c \in Int
  <2>1. \A a, b \in Int : a * b \in Int
    OBVIOUS
  <2>2. 100 * o \in Int /\ 100 * c \in Int
    BY <1>1
  <2> QED
    BY <1>1, <1>2, <2>1, <2>2, Zenon
<1>4. bs[e].c * (100 - m.s) \in Int /\ bs[e].c * (100 + m.t) \in Int
      /\ 100 * bs[j].o \in Int /\ 100 * bs[j].c \in Int
  BY <1>1, <1>2, <1>3, Zenon
<1>5. NoValue \notin Int
  BY LegsNumbers
<1> QED
  BY <1>4, <1>5, Zenon DEF LevelFill

LEMMA ReboundAgrees ==
    ASSUME NEW bs, Hourly(bs), NEW m \in CrashCells, NEW e \in 1..Len(bs)
    PROVE  LET h7 == ReboundTrade(m, bs, e)
               h1 == MomentumTrade(1, MirrorOf(m), bs, <<>>, e)
           IN  /\ h7.x = h1.x
               /\ IF h7.reason = "tp" THEN h7.px <= h1.px ELSE h7.px = h1.px + h7.gap
<1> DEFINE h7 == ReboundTrade(m, bs, e)
           h1 == MomentumTrade(1, MirrorOf(m), bs, <<>>, e)
           n == Len(bs)
           last == MinOf(e + m.h, n)
           stop == bs[e].c * (100 - m.s)
           target == bs[e].c * (100 + m.t)
           hit == {j \in (e + 1)..last : Stopped(m, bs, e, j) \/ Reached(m, bs, e, j)}
           done == {j \in (e + 1)..n : MomentumFill(1, MirrorOf(m), bs, <<>>, e, j) # NoValue}
           x7 == IF hit = {} THEN last ELSE Min(hit)
           x1 == IF done = {} THEN n ELSE Min(done)
           why == IF hit = {} THEN "time" ELSE IF Stopped(m, bs, e, x7) THEN "stop" ELSE "tp"
<1>1. /\ h1.x = x1
      /\ h1.px = IF done = {} THEN 100 * bs[n].c ELSE MomentumFill(1, MirrorOf(m), bs, <<>>, e, x1)
  BY DEF MomentumTrade
<1>2. /\ h7.x = x7 /\ h7.reason = why
      /\ why = "stop" => h7.px = stop /\ h7.gap = Max({0, stop - 100 * bs[x7].o})
      /\ why = "tp" => h7.px = target /\ h7.gap = 0
      /\ why = "time" => h7.px = 100 * bs[x7].c /\ h7.gap = 0
  BY DEF ReboundTrade, Stopped, Reached
<1>3. /\ n \in Nat /\ e \in 1..n /\ m.h \in Nat \ {0} /\ last \in e..n /\ last <= e + m.h
      /\ last = e + m.h \/ (last = n /\ n < e + m.h)
  <2>1. n \in Nat /\ m.h \in Nat \ {0}
    BY LegsAssumption DEF Hourly
  <2> QED
    BY <2>1 DEF MinOf
<1>4. \A j \in 1..n : /\ MomentumFill(1, MirrorOf(m), bs, <<>>, e, j) = LevelFill(m, bs, e, j)
                      /\ LevelFill(m, bs, e, j) # NoValue
                            <=> (Stopped(m, bs, e, j) \/ Reached(m, bs, e, j) \/ j >= e + m.h)
  BY LevelFillIs, LevelFillIn
<1> HIDE DEF h7, h1, n, last, x7, x1
<1>5. hit \in SUBSET Int /\ done \in SUBSET Int /\ \A j \in hit : j \in (e + 1)..last
  BY <1>3
<1>6. \A j \in (e + 1)..n : j \in done <=> (Stopped(m, bs, e, j) \/ Reached(m, bs, e, j) \/ j >= e + m.h)
  BY <1>3, <1>4
<1>7. \A j \in done : j \in (e + 1)..n
  OBVIOUS
<1>8. \A j \in (e + 1)..last : j \in hit <=> (Stopped(m, bs, e, j) \/ Reached(m, bs, e, j))
  OBVIOUS
<1> HIDE DEF hit, done
<1>9. CASE hit # {}
  <2>1. PICK x \in hit : \A y \in hit : x <= y
    <3>1. e + 1 \in Int /\ last \in Int
      BY <1>3
    <3>2. IsFiniteSet((e + 1)..last)
      BY <3>1, FS_Interval, Zenon
    <3>3. IsFiniteSet(hit)
      BY <1>5, <3>2, FS_Subset
    <3> QED
      BY <1>5, <1>9, <3>3, SomeExtremes, Zenon
  <2>2. x \in (e + 1)..last /\ x \in 1..n /\ (Stopped(m, bs, e, x) \/ Reached(m, bs, e, x))
    BY <1>3, <1>5, <1>8, <2>1
  <2>3. x \in done /\ \A y \in done : x <= y
    BY <1>3, <1>6, <1>7, <1>8, <2>1, <2>2
  <2>4. Min(hit) = x /\ Min(done) = x
    BY <1>5, <2>1, <2>3, MinIs
  <2>5. x7 = x /\ x1 = x
    BY <1>9, <2>3, <2>4, Zenon DEF x7, x1
  <2>6. h1.px = LevelFill(m, bs, e, x)
    BY <1>1, <1>4, <2>2, <2>3, <2>5
  <2>7. stop \in Int /\ target \in Int /\ 100 * bs[x].o \in Int
    BY <2>2, LevelFillIn DEF n
  <2>8. CASE Stopped(m, bs, e, x)
    <3>1. why = "stop"
      BY <1>9, <2>5, <2>8
    <3>2. PICK u, v : u = stop /\ v = 100 * bs[x].o /\ u \in Int /\ v \in Int
      BY <2>7
    <3>3. h1.px = IF v <= u THEN v ELSE u
      BY <2>6, <2>8, <3>2, Zenon DEF LevelFill
    <3>4. h7.px = u /\ h7.gap = Max({0, u - v}) /\ h7.reason = "stop" /\ h7.x = h1.x
      BY <1>1, <1>2, <2>5, <3>1, <3>2
    <3>5. PICK g : g = Max({0, u - v})
      OBVIOUS
    <3>6. 0 \in Int /\ u - v \in Int
      BY <3>2
    <3>7. g \in {0, u - v} /\ g >= 0 /\ g >= u - v
      BY <3>5, <3>6, MaxPair, Zenon
    <3>8. h7.px = h1.px + h7.gap
      BY <3>2, <3>3, <3>4, <3>5, <3>7
    <3> QED
      BY <3>4, <3>8 DEF h7, h1
  <2>9. CASE ~ Stopped(m, bs, e, x)
    <3>1. why = "tp" /\ Reached(m, bs, e, x)
      BY <1>9, <2>2, <2>5, <2>9
    <3>2. PICK u, v : u = target /\ v = 100 * bs[x].o /\ u \in Int /\ v \in Int
      BY <2>7
    <3>3. h1.px = IF v >= u THEN v ELSE u
      BY <2>6, <2>9, <3>1, <3>2, Zenon DEF LevelFill
    <3>4. h7.px = u /\ h7.reason = "tp" /\ h7.x = h1.x
      BY <1>1, <1>2, <2>5, <3>1, <3>2
    <3>5. h7.px <= h1.px
      BY <3>2, <3>3, <3>4
    <3> QED
      BY <3>4, <3>5 DEF h7, h1
  <2> QED
    BY <2>8, <2>9
<1>10. CASE hit = {}
  <2>1. why = "time" /\ x7 = last
    BY <1>10 DEF x7
  <2>2. x1 = last /\ h1.px = 100 * bs[last].c
    <3>1. CASE last = e + m.h
      <4>1. last \in (e + 1)..n /\ last \in 1..n /\ last >= e + m.h /\ last \in (e + 1)..last
        BY <1>3, <3>1
      <4>2. last \in done /\ \A y \in done : last <= y
        <5>1. last \in done
          BY <1>6, <4>1
        <5>2. ASSUME NEW y \in done PROVE last <= y
          <6>1. y \in (e + 1)..n /\ (y \in (e + 1)..last => y >= e + m.h)
            BY <1>6, <1>7, <1>8, <1>10
          <6> QED
            BY <1>3, <3>1, <6>1
        <5> QED
          BY <5>1, <5>2
      <4>3. Min(done) = last
        BY <1>5, <4>2, MinIs
      <4>4. x1 = last /\ done # {}
        BY <4>2, <4>3, Zenon DEF x1
      <4>5. ~ Stopped(m, bs, e, last) /\ ~ Reached(m, bs, e, last)
        BY <1>8, <1>10, <4>1
      <4>6. LevelFill(m, bs, e, last) = 100 * bs[last].c
        BY <4>1, <4>5, Zenon DEF LevelFill
      <4> QED
        BY <1>1, <1>4, <4>1, <4>4, <4>6
    <3>2. CASE last = n /\ n < e + m.h
      <4>1. done = {}
        <5> SUFFICES ASSUME NEW y \in done PROVE FALSE
          OBVIOUS
        <5>1. y \in (e + 1)..n /\ y >= e + m.h
          BY <1>6, <1>7, <1>8, <1>10, <3>2
        <5> QED
          BY <1>3, <3>2, <5>1
      <4> QED
        BY <1>1, <3>2, <4>1 DEF x1
    <3> QED
      BY <1>3, <3>1, <3>2
  <2>3. h7.x = last /\ h7.reason = "time" /\ h7.px = 100 * bs[last].c /\ h7.gap = 0
    BY <1>2, <2>1
  <2>4. last \in 1..n
    BY <1>3
  <2>5. 100 * bs[last].c \in Int
    BY <2>4, LevelFillIn DEF n
  <2>6. PICK c : c = 100 * bs[last].c /\ c \in Int
    BY <2>5
  <2>7. h7.px = h1.px + h7.gap /\ h7.x = h1.x
    BY <1>1, <2>2, <2>3, <2>6
  <2> QED
    BY <2>3, <2>7 DEF h7, h1
<1> QED
  BY <1>9, <1>10

-----------------------------------------------------------------------------
(* The grid, its cycles, and the second loop over it. *)

(* The grid: what is sold is a positive quantity as long as it is open. *)
Grids ==
    {g \in [on : BOOLEAN, entering : BOOLEAN, closing : BOOLEAN, qty : Nat, sold : Int,
            fees : Int, levels : SUBSET (Nat \ {0})] :
        /\ IsFiniteSet(g.levels)
        /\ IF g.on THEN g.qty # 0 /\ ~g.entering
           ELSE g.qty = 0 /\ g.sold = 0 /\ g.fees = 0 /\ g.levels = {}}
Flags == [gate : BOOLEAN, bull : BOOLEAN]

LEMMA IntProducts == \A a, b \in Int : a * b \in Int
OBVIOUS

LEMMA NatProducts == \A a, b \in Nat \ {0} : a * b \in Nat \ {0}
OBVIOUS

LEMMA DownToNone ==
    ASSUME NEW x \in Nat \ {0}, NEW p \in Nat \ {0}
    PROVE  -((-x) \div p) \in Nat \ {0}
<1>1. PICK q : q = (-x) \div p /\ q \in Int /\ p * q <= -x
  OBVIOUS
<1>2. q < 0
  <2> SUFFICES ASSUME q >= 0 PROVE FALSE
    BY <1>1
  <2>1. p * q >= 0
    BY <1>1
  <2> QED
    BY <1>1, <2>1
<1> QED
  BY <1>1, <1>2

LEMMA BoughtIn ==
    ASSUME NEW p \in Nat \ {0}
    PROVE  Bought(p) \in Nat \ {0}
<1>1. Stake * Unit \in Nat \ {0}
  BY LegsNumbers, NatProducts
<1>2. PICK x : x = Stake * Unit /\ x \in Nat \ {0}
  BY <1>1
<1> QED
  BY <1>2, DownToNone DEF Bought

LEMMA FeeIn ==
    ASSUME NEW x \in Int
    PROVE  Fee(x) \in Int
<1>1. FeeBp \in Int
  BY LegsNumbers
<1>2. x * FeeBp \in Int
  BY <1>1, IntProducts
<1> QED
  BY <1>2 DEF Fee

LEMMA WorthIn ==
    ASSUME NEW q \in Int, NEW p \in Int
    PROVE  Worth(q, p) \in Int
<1>1. q * p \in Int
  BY IntProducts
<1>2. PICK x : x = q * p /\ x \in Int
  BY <1>1
<1>3. Unit \in Int /\ Unit > 0
  BY LegsNumbers
<1>4. x \div Unit \in Int
  BY <1>2, <1>3
<1> QED
  BY <1>2, <1>4 DEF Worth

LEMMA FloatingIn ==
    ASSUME NEW g, g.qty \in Int, g.sold \in Int, g.fees \in Int, NEW p \in Int
    PROVE  Floating(g, p) \in Int /\ Realised(g, p) \in Int
<1>1. Worth(g.qty, p) \in Int
  BY WorthIn
<1>2. Fee(Worth(g.qty, p)) \in Int
  BY <1>1, FeeIn
<1> QED
  BY <1>1, <1>2 DEF Floating, Realised

LEMMA FromAverageIn ==
    ASSUME NEW g, g.qty \in Nat \ {0}, g.sold \in Int, NEW p \in Int
    PROVE  FromAverage(g, p) \in Int
<1>1. PICK q, s : q = g.qty /\ s = g.sold * Unit /\ q \in Int /\ q > 0
  OBVIOUS
<1>2. s \in Int
  <2>1. Unit \in Int
    BY LegsNumbers
  <2> QED
    BY <1>1, <2>1, IntProducts
<1>3. s \div q \in Int
  BY <1>1, <1>2
<1>4. (s \div q) * (100 + p) \in Int
  <2>1. 100 + p \in Int
    OBVIOUS
  <2> QED
    BY <1>3, <2>1, IntProducts
<1>5. PICK x : x = (s \div q) * (100 + p) /\ x \in Int
  BY <1>4
<1>6. x \div 100 \in Int
  BY <1>5
<1> QED
  BY <1>1, <1>5, <1>6, Zenon DEF FromAverage

LEMMA AddedIn ==
    ASSUME NEW g \in Grids, NEW high \in Int
    PROVE  Added(g, high) \in Grids
<1> DEFINE hit == {p \in g.levels : high >= p}
           more == SumFunctionOnSet([p \in hit |-> Bought(p)], hit)
<1>1. /\ g.on \in BOOLEAN /\ g.entering \in BOOLEAN /\ g.closing \in BOOLEAN
      /\ g.qty \in Nat /\ g.sold \in Int /\ g.fees \in Int
      /\ g.levels \in SUBSET (Nat \ {0}) /\ IsFiniteSet(g.levels)
      /\ IF g.on THEN g.qty # 0 /\ ~g.entering
         ELSE g.qty = 0 /\ g.sold = 0 /\ g.fees = 0 /\ g.levels = {}
  BY DEF Grids
<1>2. IsFiniteSet(hit) /\ hit \in SUBSET g.levels
  <2>1. hit \in SUBSET g.levels
    OBVIOUS
  <2> QED
    BY <1>1, <2>1, FS_Subset
<1>3. more \in Nat /\ (hit = {} => more = 0)
  <2>1. \A p \in hit : [q \in hit |-> Bought(q)][p] \in Nat
    BY <1>1, <1>2, BoughtIn
  <2> DEFINE F == [q \in hit |-> Bought(q)]
  <2> HIDE DEF F, hit
  <2>2. SumFunctionOnSet(F, hit) \in Nat
    BY <1>2, <2>1, SumType DEF F
  <2> QED
    BY <2>2, SumEmpty DEF F
<1>4. Cardinality(hit) \in Nat /\ (hit = {} => Cardinality(hit) = 0)
  BY <1>2, FS_CardinalityType, FS_EmptySet
<1>5. PICK k : k = Cardinality(hit) /\ k \in Nat /\ (hit = {} => k = 0)
  BY <1>4
<1>6. Stake \in Int /\ Fee(Stake) \in Int
  BY LegsNumbers, FeeIn
<1>7. PICK a, b : a = Stake * k /\ b = Fee(Stake) * k /\ a \in Int /\ b \in Int /\ (k = 0 => a = 0 /\ b = 0)
  <2>1. k \in Int
    BY <1>5
  <2>2. \A x \in Int : x * 0 = 0
    OBVIOUS
  <2> QED
    BY <1>6, <2>1, <2>2, IntProducts
<1>8. Added(g, high) = [on |-> g.on, entering |-> g.entering, closing |-> g.closing,
                        qty |-> g.qty + more, sold |-> g.sold + a, fees |-> g.fees + b,
                        levels |-> g.levels \ hit]
  BY <1>5, <1>7, Zenon DEF Added
<1>9. g.levels \ hit \in SUBSET (Nat \ {0}) /\ IsFiniteSet(g.levels \ hit)
  <2>1. g.levels \ hit \in SUBSET g.levels
    OBVIOUS
  <2> QED
    BY <1>1, <2>1, FS_Subset
<1> HIDE DEF hit, more
<1>10. ~g.on => /\ g.qty + more = 0 /\ g.sold + a = 0 /\ g.fees + b = 0
                /\ g.levels \ hit = {}
  <2> SUFFICES ASSUME ~g.on PROVE g.qty + more = 0 /\ g.sold + a = 0 /\ g.fees + b = 0 /\ g.levels \ hit = {}
    OBVIOUS
  <2>1. hit = {}
    BY <1>1, <1>2
  <2> QED
    BY <1>1, <1>3, <1>5, <1>7, <2>1
<1>11. g.qty + more \in Nat /\ g.sold + a \in Int /\ g.fees + b \in Int /\ (g.on => g.qty + more # 0)
  BY <1>1, <1>3, <1>7
<1> QED
  BY <1>1, <1>8, <1>9, <1>10, <1>11 DEF Grids

LEMMA GridCell ==
    ASSUME NEW cell \in GridCells
    PROVE  /\ cell.g \in Nat /\ cell.l \in Nat /\ cell.bust \in Int
           /\ cell.tp \in Int /\ -cell.tp \in Int
<1>1. cell \in [g : Nat, l : Nat, tp : 0..99, bust : Nat]
  BY LegsAssumption
<1>2. PICK p : p = cell.tp
  OBVIOUS
<1>3. p \in 0..99
  BY <1>1, <1>2
<1>4. p \in Int /\ -p \in Int
  BY <1>3
<1> QED
  BY <1>1, <1>2, <1>4

LEMMA GridEndIn ==
    ASSUME NEW cell \in GridCells, NEW g, NEW added \in Grids, added.on, NEW b, IsHour(b)
    PROVE  LET end == GridEnd(cell, g, added, b)
           IN  end # NoValue => end \in GridEnds /\ Realised(added, end.px) \in Int
<1> DEFINE end == GridEnd(cell, g, added, b)
<1>1. added.qty \in Nat \ {0} /\ added.qty \in Int /\ added.sold \in Int /\ added.fees \in Int
  BY DEF Grids
<1>2. PICK top, low : /\ top = FromAverage(added, cell.bust) /\ low = FromAverage(added, -cell.tp)
                      /\ top \in Int /\ low \in Int
  BY <1>1, GridCell, FromAverageIn
<1>3. b.o \in Int /\ b.c \in Int
  BY HourFields
<1>4. Max({top, b.o}) \in Int
  BY <1>2, <1>3, MaxPair, Zenon
<1>5. \/ end = NoValue
      \/ end = [why |-> "bust", px |-> Max({top, b.o})]
      \/ end = [why |-> "tp", px |-> low]
      \/ end = [why |-> "regime", px |-> b.c]
  BY <1>2, Zenon DEF GridEnd
<1>6. end # NoValue => end \in GridEnds /\ end.px \in Int
  BY <1>2, <1>3, <1>4, <1>5 DEF GridEnds
<1> HIDE DEF end
<1>7. end # NoValue => Realised(added, end.px) \in Int
  BY <1>1, <1>6, FloatingIn, Zenon
<1> QED
  BY <1>6, <1>7 DEF end

LEMMA IdleIn ==
    ASSUME NEW gate \in BOOLEAN
    PROVE  Idle \in Grids /\ [Idle EXCEPT !.entering = gate] \in Grids
<1>1. Idle \in Grids
  BY FS_EmptySet DEF Idle, Grids
<1>2. [Idle EXCEPT !.entering = gate] \in Grids
  BY <1>1 DEF Grids, Idle
<1> QED
  BY <1>1, <1>2

LEMMA OpenedIn ==
    ASSUME NEW cell \in GridCells, NEW p \in Nat \ {0}
    PROVE  Opened(cell, p) \in Grids /\ Opened(cell, p).on
<1> DEFINE Level(k) == (p * (100 + k * cell.g)) \div 100
           levels == {Level(k) : k \in 1..(cell.l - 1)}
<1>1. \A k \in 1..(cell.l - 1) : Level(k) \in Nat \ {0}
  <2> SUFFICES ASSUME NEW k \in 1..(cell.l - 1) PROVE Level(k) \in Nat \ {0}
    OBVIOUS
  <2>1. k \in Nat /\ cell.g \in Nat
    BY GridCell
  <2>2. PICK u : u = k * cell.g /\ u \in Nat
    <3>1. \A a, c \in Nat : a * c \in Nat
      OBVIOUS
    <3> QED
      BY <2>1, <3>1
  <2>3. p * (100 + u) >= 100
    <3>1. PICK v : v = p * u /\ v \in Nat
      <4>1. \A a, c \in Nat : a * c \in Nat
        OBVIOUS
      <4> QED
        BY <2>2, <4>1
    <3>2. p * (100 + u) = 100 * p + v
      BY <2>2, <3>1
    <3> QED
      BY <3>1, <3>2
  <2>4. PICK x : x = p * (100 + u) /\ x \in Int
    BY <2>2, IntProducts
  <2>5. x \div 100 \in Nat \ {0}
    BY <2>3, <2>4
  <2> QED
    BY <2>2, <2>4, <2>5
<1>2. levels \in SUBSET (Nat \ {0})
  BY <1>1
<1>3. IsFiniteSet(levels)
  <2>1. cell.l - 1 \in Int
    BY GridCell
  <2>2. IsFiniteSet(1..(cell.l - 1))
    <3>1. 1 \in Int /\ cell.l - 1 \in Int
      BY <2>1
    <3> QED
      BY <3>1, FS_Interval, Zenon
  <2> DEFINE f == [k \in 1..(cell.l - 1) |-> Level(k)]
  <2>3. f \in Surjection(1..(cell.l - 1), levels)
    BY DEF Surjection
  <2> HIDE DEF f, levels
  <2> QED
    BY <2>2, <2>3, FS_Surjection
<1>4. Bought(p) \in Nat \ {0} /\ Stake \in Int /\ Fee(Stake) \in Int
  BY BoughtIn, LegsNumbers, FeeIn
<1>5. Opened(cell, p) = [on |-> TRUE, entering |-> FALSE, closing |-> FALSE, qty |-> Bought(p),
                         sold |-> Stake, fees |-> Fee(Stake), levels |-> levels]
  BY Zenon DEF Opened
<1> HIDE DEF levels
<1> QED
  BY <1>2, <1>3, <1>4, <1>5 DEF Grids

LEMMA ClosingIn ==
    ASSUME NEW g \in Grids, NEW c \in BOOLEAN
    PROVE  [g EXCEPT !.closing = c] \in Grids
BY DEF Grids

LEMMA GridNextIn ==
    ASSUME NEW cell \in GridCells, NEW g \in Grids, NEW b, IsHour(b), NEW flag \in Flags
    PROVE  GridNext(cell, g, b, flag) \in Grids
<1>1. b.h \in Int /\ b.c \in Nat \ {0}
  BY HourFields
<1>2. flag.bull \in BOOLEAN /\ flag.gate \in BOOLEAN
  BY DEF Flags
<1>3. Added(g, b.h) \in Grids
  BY <1>1, AddedIn
<1>4. PICK c1, c2 : /\ c1 = (flag.bull /\ Floating(Opened(cell, b.c), b.c) < 0)
                    /\ c2 = (flag.bull /\ Floating(Added(g, b.h), b.c) < 0)
                    /\ c1 \in BOOLEAN /\ c2 \in BOOLEAN
  BY <1>2
<1>5. \/ GridNext(cell, g, b, flag) = [Opened(cell, b.c) EXCEPT !.closing = c1]
      \/ GridNext(cell, g, b, flag) = [Idle EXCEPT !.entering = flag.gate]
      \/ GridNext(cell, g, b, flag) = Idle
      \/ GridNext(cell, g, b, flag) = [Added(g, b.h) EXCEPT !.closing = c2]
  BY <1>4, Zenon DEF GridNext
<1>6. Opened(cell, b.c) \in Grids
  BY <1>1, OpenedIn
<1>7. [Opened(cell, b.c) EXCEPT !.closing = c1] \in Grids /\ [Added(g, b.h) EXCEPT !.closing = c2] \in Grids
  BY <1>3, <1>4, <1>6, ClosingIn, Zenon
<1>8. Idle \in Grids /\ [Idle EXCEPT !.entering = flag.gate] \in Grids
  BY <1>2, IdleIn, Zenon
<1> QED
  BY <1>5, <1>7, <1>8, Zenon


-----------------------------------------------------------------------------
(* The two loops over the grid, and the book of its cycles. *)

Cycles == [e : Nat, x : Nat, reason : {"bust", "tp", "regime"}, px : Int, net : Int]
GridStatesOf == [grid : Grids, e : Nat, cycles : Seq(Cycles)]
GridStart == [grid |-> Idle, e |-> 0, cycles |-> <<>>]
GridFollows(cell, bs, f) ==
    f = [i \in 0..Len(bs) |-> IF i = 0 THEN GridStart
                              ELSE GridBar(cell, f[i - 1], i, bs[i], prep(bs)[i])]

MtmStatesOf == [grid : Grids, realised : Int, peak : Int, maxdd : Int]
MtmStart == [grid |-> Idle, realised |-> 0, peak |-> 0, maxdd |-> 0]
MtmFollows(cell, bs, f) ==
    f = [i \in 0..Len(bs) |-> IF i = 0 THEN MtmStart
                              ELSE MtmBar(cell, f[i - 1], bs[i], prep(bs)[i])]

Books == [eq : Int, peak : Int, dd : Int]
BookStart == [eq |-> 0, peak |-> 0, dd |-> 0]
BookFollows(trades, f) ==
    f = [k \in 0..Len(trades) |-> IF k = 0 THEN BookStart ELSE Book(f[k - 1], trades[k].net)]

LEMMA FlagsIn ==
    ASSUME NEW bs, NEW i \in DOMAIN bs
    PROVE  prep(bs)[i] \in Flags
<1> DEFINE x == Closes(bs)
           fast == ema_avg(x, FastSpan)
           slow == ema_avg(x, SlowSpan)
           ready(k) == k > Warm /\ k >= FastSpan /\ k >= SlowSpan
<1>1. prep(bs)[i] = [gate |-> ready(i) /\ fast[i] < slow[i] /\ Beyond(-1, x, LagW, i, 0),
                     bull |-> ready(i) /\ fast[i] > slow[i]]
  BY Zenon DEF prep
<1>2. PICK p, q : /\ p = (ready(i) /\ fast[i] < slow[i] /\ Beyond(-1, x, LagW, i, 0))
                  /\ q = (ready(i) /\ fast[i] > slow[i]) /\ p \in BOOLEAN /\ q \in BOOLEAN
  BY Zenon
<1>3. prep(bs)[i] = [gate |-> p, bull |-> q]
  BY <1>1, <1>2, Zenon
<1> QED
  BY <1>2, <1>3 DEF Flags

LEMMA CycleIn ==
    ASSUME NEW cell \in GridCells, NEW g \in Grids, g.on, NEW b, IsHour(b),
           GridEnd(cell, g, Added(g, b.h), b) # NoValue, NEW s, s.e \in Nat, NEW i \in Nat
    PROVE  Cycle(s, i, Added(g, b.h), GridEnd(cell, g, Added(g, b.h), b)) \in Cycles
<1>1. b.h \in Int
  BY HourFields
<1>2. Added(g, b.h) \in Grids /\ Added(g, b.h).on
  BY <1>1, AddedIn DEF Added
<1>3. PICK end, added : end = GridEnd(cell, g, Added(g, b.h), b) /\ added = Added(g, b.h)
  OBVIOUS
<1>4. end \in GridEnds /\ Realised(added, end.px) \in Int
  BY <1>2, <1>3, GridEndIn
<1> QED
  BY <1>3, <1>4 DEF Cycle, Cycles, GridEnds

LEMMA GridBarIn ==
    ASSUME NEW cell \in GridCells, NEW s \in GridStatesOf, NEW i \in Nat, NEW b, IsHour(b),
           NEW flag \in Flags
    PROVE  GridBar(cell, s, i, b, flag) \in GridStatesOf
<1>1. s.grid \in Grids /\ s.e \in Nat /\ s.cycles \in Seq(Cycles)
  BY DEF GridStatesOf
<1> DEFINE added == Added(s.grid, b.h)
           end == IF s.grid.on THEN GridEnd(cell, s.grid, added, b) ELSE NoValue
           next == GridNext(cell, s.grid, b, flag)
           cycles == IF end = NoValue THEN s.cycles ELSE Append(s.cycles, Cycle(s, i, added, end))
           e == IF s.grid.entering THEN i ELSE s.e
<1>2. end # NoValue => Cycle(s, i, added, end) \in Cycles
  BY <1>1, CycleIn
<1>3. next \in Grids
  BY <1>1, GridNextIn
<1>4. GridBar(cell, s, i, b, flag) = [grid |-> next, e |-> e, cycles |-> cycles]
  BY Zenon DEF GridBar
<1>5. e \in Nat
  BY <1>1
<1> HIDE DEF added, end
<1>6. cycles \in Seq(Cycles)
  BY <1>1, <1>2, AppendProperties
<1> HIDE DEF next, e, cycles
<1> QED
  BY <1>3, <1>4, <1>5, <1>6 DEF GridStatesOf

LEMMA GridRuns ==
    ASSUME NEW bs, Hourly(bs), NEW cell \in GridCells
    PROVE  /\ GridStates(cell, bs)[0] = GridStart
           /\ \A i \in (0 + 1)..Len(bs) : GridStates(cell, bs)[i] = GridBar(cell, GridStates(cell, bs)[i - 1], i, bs[i], prep(bs)[i])
           /\ \A i \in 0..Len(bs) : GridStates(cell, bs)[i] \in GridStatesOf
<1> DEFINE G == [z \in ((0 + 1)..Len(bs)) \X GridStatesOf |-> GridBar(cell, z[2], z[1], bs[z[1]], prep(bs)[z[1]])]
<1>0. 0 \in Int /\ Len(bs) \in Int /\ 0 <= Len(bs) /\ GridStart \in GridStatesOf
  <2>1. 0 \in Nat /\ 0 \in Int
    OBVIOUS
  <2>2. Len(bs) \in Int /\ 0 <= Len(bs)
    BY DEF Hourly
  <2>3. <<>> \in Seq(Cycles)
    BY EmptySeq, Zenon
  <2>4. Idle \in Grids
    BY IdleIn
  <2> QED
    BY <2>1, <2>2, <2>3, <2>4 DEF GridStart, GridStatesOf
<1>1. \A i \in (0 + 1)..Len(bs), u \in GridStatesOf : GridBar(cell, u, i, bs[i], prep(bs)[i]) \in GridStatesOf
  <2> SUFFICES ASSUME NEW i \in (0 + 1)..Len(bs), NEW u \in GridStatesOf
               PROVE  GridBar(cell, u, i, bs[i], prep(bs)[i]) \in GridStatesOf
    OBVIOUS
  <2>1. i \in Nat /\ i \in 1..Len(bs) /\ i \in DOMAIN bs
    BY <1>0 DEF Hourly
  <2>2. IsHour(bs[i]) /\ prep(bs)[i] \in Flags
    BY <2>1, FlagsIn DEF Hourly
  <2> QED
    BY <2>1, <2>2, GridBarIn
<1>2. \A i \in (0 + 1)..Len(bs), u \in GridStatesOf : G[<<i, u>>] = GridBar(cell, u, i, bs[i], prep(bs)[i])
  OBVIOUS
<1> HIDE DEF G
<1>3. PICK f \in [0..Len(bs) -> GridStatesOf] : Repeats(f, GridStart, G, 0, Len(bs))
  <2>1. \A i \in (0 + 1)..Len(bs), u \in GridStatesOf : G[<<i, u>>] \in GridStatesOf
    BY <1>1, <1>2, Zenon
  <2> QED
    BY <1>0, <2>1, SomeRepeats, Zenon
<1>4. \A i \in 0..Len(bs) : f[i] = IF i = 0 THEN GridStart ELSE G[<<i, f[i - 1]>>]
  BY <1>3, Zenon DEF Repeats
<1>5. \A i \in 0..Len(bs) : f[i] = IF i = 0 THEN GridStart ELSE GridBar(cell, f[i - 1], i, bs[i], prep(bs)[i])
  <2> SUFFICES ASSUME NEW i \in 0..Len(bs), i # 0 PROVE f[i] = GridBar(cell, f[i - 1], i, bs[i], prep(bs)[i])
    BY <1>4, Zenon
  <2>1. i \in (0 + 1)..Len(bs) /\ i - 1 \in 0..Len(bs)
    BY <1>0
  <2>2. f[i - 1] \in GridStatesOf
    BY <1>3, <2>1, Zenon
  <2> QED
    BY <1>2, <1>4, <2>1, <2>2, Zenon
<1>6. f = [i \in 0..Len(bs) |-> f[i]]
  BY <1>3, Zenon
<1>7. GridFollows(cell, bs, f)
  BY <1>5, <1>6, Zenon DEF GridFollows
<1>8. GridStates(cell, bs) = CHOOSE g : GridFollows(cell, bs, g)
  BY Zenon DEF GridStates, GridFollows, GridStart
<1>9. PICK g : GridFollows(cell, bs, g) /\ GridStates(cell, bs) = g
  BY <1>7, <1>8, Zenon
<1>10. \A i \in 0..Len(bs) : g[i] = IF i = 0 THEN GridStart ELSE GridBar(cell, g[i - 1], i, bs[i], prep(bs)[i])
  BY <1>9, Zenon DEF GridFollows
<1> DEFINE T == {i \in Int : g[i] \in GridStatesOf}
<1>11. 0 \in T
  <2>1. 0 \in 0..Len(bs)
    BY <1>0
  <2> QED
    BY <1>0, <1>10, <2>1, Zenon
<1>12. ASSUME NEW i \in (0 + 1)..Len(bs)
       PROVE  /\ g[i] = GridBar(cell, g[i - 1], i, bs[i], prep(bs)[i])
              /\ i - 1 \in T => i \in T
  <2>1. i \in 0..Len(bs) /\ i # 0 /\ i \in Int
    BY <1>0
  <2>2. g[i] = GridBar(cell, g[i - 1], i, bs[i], prep(bs)[i])
    BY <1>10, <2>1, Zenon
  <2> QED
    BY <1>1, <2>1, <2>2, Zenon
<1> HIDE DEF T
<1>13. 0..Len(bs) \subseteq T
  <2>1. \A i \in (0 + 1)..Len(bs) : i - 1 \in T => i \in T
    BY <1>12, Zenon
  <2>2. 0 \in Int /\ Len(bs) \in Int
    BY <1>0, Zenon
  <2> QED
    BY <1>11, <2>1, <2>2, IntervalInduction, Zenon
<1>14. \A i \in 0..Len(bs) : g[i] \in GridStatesOf
  BY <1>13, Zenon DEF T
<1>15. g[0] = GridStart
  <2>1. 0 \in 0..Len(bs)
    BY <1>0
  <2> QED
    BY <1>10, <2>1, Zenon
<1> QED
  BY <1>9, <1>12, <1>14, <1>15, Zenon

(* A bar of the loop that marks to the market: the grid after it, and the books. *)
MtmGrid(cell, g, b, flag) ==
    LET added == Added(g, b.h)
    IN  IF g.entering THEN MtmOpened(cell, g, b, flag)
        ELSE IF ~g.on THEN [g EXCEPT !.entering = flag.gate]
        ELSE IF GridEnd(cell, g, added, b) # NoValue THEN [Idle EXCEPT !.closing = g.closing]
        ELSE [added EXCEPT !.closing = g.closing \/ (flag.bull /\ Floating(added, b.c) < 0)]
MtmStep(s, grid, realised, close, high) ==
    LET peak == Max({s.peak, close})
    IN  [grid |-> grid, realised |-> realised, peak |-> peak, maxdd |-> MinOf(s.maxdd, high - peak)]
Gain(cell, g, b) ==
    LET added == Added(g, b.h)
        end == IF g.on THEN GridEnd(cell, g, added, b) ELSE NoValue
    IN  IF end = NoValue THEN 0 ELSE Realised(added, end.px)
Marked(g, p) == IF g.on THEN Floating(g, p) ELSE 0

LEMMA MtmBarIs ==
    ASSUME NEW cell, NEW s, NEW b, NEW flag, s.grid.on => ~s.grid.entering
    PROVE  LET grid == MtmGrid(cell, s.grid, b, flag)
               realised == s.realised + Gain(cell, s.grid, b)
           IN  MtmBar(cell, s, b, flag) =
                   MtmStep(s, grid, realised, realised + Marked(grid, b.c), realised + Marked(grid, b.h))
<1>1. CASE s.grid.entering
  BY <1>1, Zenon DEF MtmBar, MtmStep, MtmGrid, Gain, Marked
<1>2. CASE ~s.grid.entering /\ ~s.grid.on
  BY <1>2, Zenon DEF MtmBar, MtmStep, MtmGrid, Gain, Marked
<1>3. CASE ~s.grid.entering /\ s.grid.on
  BY <1>3, Zenon DEF MtmBar, MtmStep, MtmGrid, Gain, Marked
<1> QED
  BY <1>1, <1>2, <1>3

LEMMA GainIn ==
    ASSUME NEW cell \in GridCells, NEW g \in Grids, NEW b, IsHour(b)
    PROVE  Gain(cell, g, b) \in Int
<1>1. b.h \in Int
  BY HourFields
<1>2. CASE g.on /\ GridEnd(cell, g, Added(g, b.h), b) # NoValue
  <2>1. Added(g, b.h) \in Grids /\ Added(g, b.h).on
    BY <1>1, <1>2, AddedIn DEF Added
  <2>2. PICK end, added : end = GridEnd(cell, g, Added(g, b.h), b) /\ added = Added(g, b.h)
    OBVIOUS
  <2>3. Realised(added, end.px) \in Int
    BY <1>2, <2>1, <2>2, GridEndIn
  <2> QED
    BY <1>2, <2>2, <2>3, Zenon DEF Gain
<1>3. CASE ~(g.on /\ GridEnd(cell, g, Added(g, b.h), b) # NoValue)
  <2>1. Gain(cell, g, b) = 0
    BY <1>3, Zenon DEF Gain
  <2> QED
    BY <2>1
<1> QED
  BY <1>2, <1>3

LEMMA MarkedIn ==
    ASSUME NEW g \in Grids, NEW p \in Int
    PROVE  Marked(g, p) \in Int
<1>1. g.qty \in Int /\ g.sold \in Int /\ g.fees \in Int
  BY DEF Grids
<1>2. Floating(g, p) \in Int
  BY <1>1, FloatingIn
<1> QED
  BY <1>2 DEF Marked

LEMMA MtmGridIn ==
    ASSUME NEW cell \in GridCells, NEW g \in Grids, NEW b, IsHour(b), NEW flag \in Flags
    PROVE  MtmGrid(cell, g, b, flag) \in Grids
<1>1. b.h \in Int /\ b.c \in Nat \ {0}
  BY HourFields
<1>2. flag.bull \in BOOLEAN /\ flag.gate \in BOOLEAN /\ g.closing \in BOOLEAN
  BY DEF Flags, Grids
<1>3. Added(g, b.h) \in Grids /\ Idle \in Grids /\ Opened(cell, b.c) \in Grids
  BY <1>1, AddedIn, IdleIn, OpenedIn
<1>4. PICK c1, c2 : /\ c1 = (flag.bull /\ Floating(Opened(cell, b.c), b.c) < 0)
                    /\ c2 = (g.closing \/ (flag.bull /\ Floating(Added(g, b.h), b.c) < 0))
                    /\ c1 \in BOOLEAN /\ c2 \in BOOLEAN
  BY <1>2
<1>5. \/ MtmGrid(cell, g, b, flag) = [Opened(cell, b.c) EXCEPT !.closing = c1]
      \/ ~g.on /\ MtmGrid(cell, g, b, flag) = [g EXCEPT !.entering = flag.gate]
      \/ MtmGrid(cell, g, b, flag) = [Idle EXCEPT !.closing = g.closing]
      \/ MtmGrid(cell, g, b, flag) = [Added(g, b.h) EXCEPT !.closing = c2]
  BY <1>4, Zenon DEF MtmGrid, MtmOpened
<1>6. ~g.on => [g EXCEPT !.entering = flag.gate] \in Grids
  BY <1>2 DEF Grids
<1>7. /\ [Opened(cell, b.c) EXCEPT !.closing = c1] \in Grids
      /\ [Idle EXCEPT !.closing = g.closing] \in Grids
      /\ [Added(g, b.h) EXCEPT !.closing = c2] \in Grids
  BY <1>2, <1>3, <1>4, ClosingIn, Zenon
<1> QED
  BY <1>5, <1>6, <1>7, Zenon

LEMMA MtmStepIn ==
    ASSUME NEW s \in MtmStatesOf, NEW grid \in Grids, NEW realised \in Int, NEW close \in Int, NEW high \in Int
    PROVE  /\ MtmStep(s, grid, realised, close, high) \in MtmStatesOf
           /\ MtmStep(s, grid, realised, close, high).grid = grid
           /\ MtmStep(s, grid, realised, close, high).realised = realised
           /\ MtmStep(s, grid, realised, close, high).peak >= s.peak
           /\ MtmStep(s, grid, realised, close, high).peak >= close
           /\ MtmStep(s, grid, realised, close, high).maxdd <= s.maxdd
           /\ MtmStep(s, grid, realised, close, high).maxdd <= high - MtmStep(s, grid, realised, close, high).peak
<1>1. s.peak \in Int /\ s.maxdd \in Int
  BY DEF MtmStatesOf
<1>2. PICK peak : /\ peak = Max({s.peak, close}) /\ peak \in Int /\ peak >= s.peak /\ peak >= close
  <2>1. PICK a, c : a = s.peak /\ c = close /\ a \in Int /\ c \in Int
    BY <1>1
  <2>2. PICK x : x = Max({a, c}) /\ x \in {a, c} /\ x >= a /\ x >= c
    BY <2>1, MaxPair
  <2>3. x = Max({s.peak, close})
    BY <2>1, <2>2, Zenon
  <2> QED
    BY <2>1, <2>2, <2>3
<1>3. MtmStep(s, grid, realised, close, high) =
          [grid |-> grid, realised |-> realised, peak |-> peak, maxdd |-> MinOf(s.maxdd, high - peak)]
  BY <1>2, Zenon DEF MtmStep
<1>4. PICK dd : dd = MinOf(s.maxdd, high - peak) /\ dd \in Int /\ dd <= s.maxdd /\ dd <= high - peak
  BY <1>1, <1>2 DEF MinOf
<1> QED
  BY <1>1, <1>2, <1>3, <1>4 DEF MtmStatesOf

LEMMA MtmBarIn ==
    ASSUME NEW cell \in GridCells, NEW s \in MtmStatesOf, NEW b, IsHour(b), NEW flag \in Flags
    PROVE  LET grid == MtmGrid(cell, s.grid, b, flag)
               realised == s.realised + Gain(cell, s.grid, b)
               close == realised + Marked(grid, b.c)
               high == realised + Marked(grid, b.h)
           IN  /\ grid \in Grids /\ realised \in Int /\ close \in Int /\ high \in Int
               /\ MtmBar(cell, s, b, flag) = MtmStep(s, grid, realised, close, high)
               /\ MtmBar(cell, s, b, flag) \in MtmStatesOf
<1> DEFINE grid == MtmGrid(cell, s.grid, b, flag)
           realised == s.realised + Gain(cell, s.grid, b)
           close == realised + Marked(grid, b.c)
           high == realised + Marked(grid, b.h)
<1>1. s.grid \in Grids /\ s.realised \in Int
  BY DEF MtmStatesOf
<1>2. s.grid.on => ~s.grid.entering
  BY <1>1 DEF Grids
<1>3. b.h \in Int /\ b.c \in Int
  BY HourFields
<1>4. grid \in Grids /\ Gain(cell, s.grid, b) \in Int
  BY <1>1, MtmGridIn, GainIn
<1>5. MtmBar(cell, s, b, flag) = MtmStep(s, grid, realised, close, high)
  BY <1>2, MtmBarIs, Zenon
<1> HIDE DEF grid
<1>6. Marked(grid, b.c) \in Int /\ Marked(grid, b.h) \in Int
  BY <1>3, <1>4, MarkedIn
<1>7. realised \in Int
  BY <1>1, <1>4
<1> HIDE DEF realised
<1>8. close \in Int /\ high \in Int
  BY <1>6, <1>7
<1> HIDE DEF close, high
<1>9. MtmStep(s, grid, realised, close, high) \in MtmStatesOf
  BY <1>4, <1>7, <1>8, MtmStepIn
<1> QED
  BY <1>4, <1>5, <1>7, <1>8, <1>9, Zenon DEF grid, realised, close, high

LEMMA MtmRuns ==
    ASSUME NEW bs, Hourly(bs), NEW cell \in GridCells
    PROVE  /\ MtmStates(cell, bs)[0] = MtmStart
           /\ \A i \in (0 + 1)..Len(bs) : MtmStates(cell, bs)[i] = MtmBar(cell, MtmStates(cell, bs)[i - 1], bs[i], prep(bs)[i])
           /\ \A i \in 0..Len(bs) : MtmStates(cell, bs)[i] \in MtmStatesOf
<1> DEFINE G == [z \in ((0 + 1)..Len(bs)) \X MtmStatesOf |-> MtmBar(cell, z[2], bs[z[1]], prep(bs)[z[1]])]
<1>0. 0 \in Int /\ Len(bs) \in Int /\ 0 <= Len(bs) /\ MtmStart \in MtmStatesOf
  <2>1. 0 \in Int
    OBVIOUS
  <2>2. Len(bs) \in Int /\ 0 <= Len(bs)
    BY DEF Hourly
  <2>3. Idle \in Grids
    BY IdleIn
  <2> QED
    BY <2>1, <2>2, <2>3 DEF MtmStart, MtmStatesOf
<1>1. \A i \in (0 + 1)..Len(bs), u \in MtmStatesOf : MtmBar(cell, u, bs[i], prep(bs)[i]) \in MtmStatesOf
  <2> SUFFICES ASSUME NEW i \in (0 + 1)..Len(bs), NEW u \in MtmStatesOf
               PROVE  MtmBar(cell, u, bs[i], prep(bs)[i]) \in MtmStatesOf
    OBVIOUS
  <2>1. i \in 1..Len(bs) /\ i \in DOMAIN bs
    BY <1>0 DEF Hourly
  <2>2. IsHour(bs[i]) /\ prep(bs)[i] \in Flags
    BY <2>1, FlagsIn DEF Hourly
  <2> QED
    BY <2>2, MtmBarIn
<1>2. \A i \in (0 + 1)..Len(bs), u \in MtmStatesOf : G[<<i, u>>] = MtmBar(cell, u, bs[i], prep(bs)[i])
  OBVIOUS
<1> HIDE DEF G
<1>3. PICK f \in [0..Len(bs) -> MtmStatesOf] : Repeats(f, MtmStart, G, 0, Len(bs))
  <2>1. \A i \in (0 + 1)..Len(bs), u \in MtmStatesOf : G[<<i, u>>] \in MtmStatesOf
    BY <1>1, <1>2, Zenon
  <2> QED
    BY <1>0, <2>1, SomeRepeats, Zenon
<1>4. \A i \in 0..Len(bs) : f[i] = IF i = 0 THEN MtmStart ELSE G[<<i, f[i - 1]>>]
  BY <1>3, Zenon DEF Repeats
<1>5. \A i \in 0..Len(bs) : f[i] = IF i = 0 THEN MtmStart ELSE MtmBar(cell, f[i - 1], bs[i], prep(bs)[i])
  <2> SUFFICES ASSUME NEW i \in 0..Len(bs), i # 0 PROVE f[i] = MtmBar(cell, f[i - 1], bs[i], prep(bs)[i])
    BY <1>4, Zenon
  <2>1. i \in (0 + 1)..Len(bs) /\ i - 1 \in 0..Len(bs)
    BY <1>0
  <2>2. f[i - 1] \in MtmStatesOf
    BY <1>3, <2>1, Zenon
  <2> QED
    BY <1>2, <1>4, <2>1, <2>2, Zenon
<1>6. f = [i \in 0..Len(bs) |-> f[i]]
  BY <1>3, Zenon
<1>7. MtmFollows(cell, bs, f)
  BY <1>5, <1>6, Zenon DEF MtmFollows
<1>8. MtmStates(cell, bs) = CHOOSE g : MtmFollows(cell, bs, g)
  BY Zenon DEF MtmStates, MtmFollows, MtmStart
<1>9. PICK g : MtmFollows(cell, bs, g) /\ MtmStates(cell, bs) = g
  BY <1>7, <1>8, Zenon
<1>10. \A i \in 0..Len(bs) : g[i] = IF i = 0 THEN MtmStart ELSE MtmBar(cell, g[i - 1], bs[i], prep(bs)[i])
  BY <1>9, Zenon DEF MtmFollows
<1> DEFINE T == {i \in Int : g[i] \in MtmStatesOf}
<1>11. 0 \in T
  <2>1. 0 \in 0..Len(bs)
    BY <1>0
  <2> QED
    BY <1>0, <1>10, <2>1, Zenon
<1>12. ASSUME NEW i \in (0 + 1)..Len(bs)
       PROVE  /\ g[i] = MtmBar(cell, g[i - 1], bs[i], prep(bs)[i])
              /\ i - 1 \in T => i \in T
  <2>1. i \in 0..Len(bs) /\ i # 0 /\ i \in Int
    BY <1>0
  <2>2. g[i] = MtmBar(cell, g[i - 1], bs[i], prep(bs)[i])
    BY <1>10, <2>1, Zenon
  <2> QED
    BY <1>1, <2>1, <2>2, Zenon
<1> HIDE DEF T
<1>13. 0..Len(bs) \subseteq T
  <2>1. \A i \in (0 + 1)..Len(bs) : i - 1 \in T => i \in T
    BY <1>12, Zenon
  <2>2. 0 \in Int /\ Len(bs) \in Int
    BY <1>0, Zenon
  <2> QED
    BY <1>11, <2>1, <2>2, IntervalInduction, Zenon
<1>14. \A i \in 0..Len(bs) : g[i] \in MtmStatesOf
  BY <1>13, Zenon DEF T
<1>15. g[0] = MtmStart
  <2>1. 0 \in 0..Len(bs)
    BY <1>0
  <2> QED
    BY <1>10, <2>1, Zenon
<1> QED
  BY <1>9, <1>12, <1>14, <1>15, Zenon

LEMMA BookIn ==
    ASSUME NEW a \in Books, NEW net \in Int
    PROVE  /\ Book(a, net) \in Books /\ Book(a, net).eq = a.eq + net
           /\ Book(a, net).peak \in {a.peak, a.eq + net}
           /\ Book(a, net).peak >= a.peak /\ Book(a, net).peak >= a.eq + net
           /\ Book(a, net).dd \in {a.dd, (a.eq + net) - Book(a, net).peak}
<1>1. PICK eq, p, d : /\ eq = a.eq + net /\ p = a.peak /\ d = a.dd
                      /\ eq \in Int /\ p \in Int /\ d \in Int
  BY DEF Books
<1>2. PICK peak : peak = Max({p, eq}) /\ peak \in {p, eq} /\ peak >= p /\ peak >= eq
  BY <1>1, MaxPair, Zenon
<1>3. Book(a, net) = [eq |-> eq, peak |-> peak, dd |-> MinOf(d, eq - peak)]
  BY <1>1, <1>2, Zenon DEF Book
<1>4. MinOf(d, eq - peak) \in {d, eq - peak}
  BY <1>1, <1>2 DEF MinOf
<1> QED
  BY <1>1, <1>2, <1>3, <1>4 DEF Books

LEMMA BookRuns ==
    ASSUME NEW trades \in Seq(Cycles)
    PROVE  /\ BookStates(trades)[0] = BookStart
           /\ \A i \in (0 + 1)..Len(trades) : BookStates(trades)[i] = Book(BookStates(trades)[i - 1], trades[i].net)
           /\ \A i \in 0..Len(trades) : BookStates(trades)[i] \in Books
<1> DEFINE G == [z \in ((0 + 1)..Len(trades)) \X Books |-> Book(z[2], trades[z[1]].net)]
<1>0. 0 \in Int /\ Len(trades) \in Int /\ 0 <= Len(trades) /\ BookStart \in Books
  <2>1. Len(trades) \in Nat
    BY LenProperties
  <2> QED
    BY <2>1 DEF BookStart, Books
<1>1. \A i \in (0 + 1)..Len(trades), u \in Books : Book(u, trades[i].net) \in Books
  <2> SUFFICES ASSUME NEW i \in (0 + 1)..Len(trades), NEW u \in Books
               PROVE  Book(u, trades[i].net) \in Books
    OBVIOUS
  <2>1. trades[i] \in Cycles
    BY <1>0, ElementOfSeq, LenProperties
  <2>2. trades[i].net \in Int
    BY <2>1 DEF Cycles
  <2> QED
    BY <2>2, BookIn
<1>2. \A i \in (0 + 1)..Len(trades), u \in Books : G[<<i, u>>] = Book(u, trades[i].net)
  OBVIOUS
<1> HIDE DEF G
<1>3. PICK f \in [0..Len(trades) -> Books] : Repeats(f, BookStart, G, 0, Len(trades))
  <2>1. \A i \in (0 + 1)..Len(trades), u \in Books : G[<<i, u>>] \in Books
    BY <1>1, <1>2, Zenon
  <2> QED
    BY <1>0, <2>1, SomeRepeats, Zenon
<1>4. \A i \in 0..Len(trades) : f[i] = IF i = 0 THEN BookStart ELSE G[<<i, f[i - 1]>>]
  BY <1>3, Zenon DEF Repeats
<1>5. \A i \in 0..Len(trades) : f[i] = IF i = 0 THEN BookStart ELSE Book(f[i - 1], trades[i].net)
  <2> SUFFICES ASSUME NEW i \in 0..Len(trades), i # 0 PROVE f[i] = Book(f[i - 1], trades[i].net)
    BY <1>4, Zenon
  <2>1. i \in (0 + 1)..Len(trades) /\ i - 1 \in 0..Len(trades)
    BY <1>0
  <2>2. f[i - 1] \in Books
    BY <1>3, <2>1, Zenon
  <2> QED
    BY <1>2, <1>4, <2>1, <2>2, Zenon
<1>6. f = [i \in 0..Len(trades) |-> f[i]]
  BY <1>3, Zenon
<1>7. BookFollows(trades, f)
  BY <1>5, <1>6, Zenon DEF BookFollows
<1>8. BookStates(trades) = CHOOSE g : BookFollows(trades, g)
  BY Zenon DEF BookStates, BookFollows, BookStart
<1>9. PICK g : BookFollows(trades, g) /\ BookStates(trades) = g
  BY <1>7, <1>8, Zenon
<1>10. \A i \in 0..Len(trades) : g[i] = IF i = 0 THEN BookStart ELSE Book(g[i - 1], trades[i].net)
  BY <1>9, Zenon DEF BookFollows
<1> DEFINE T == {i \in Int : g[i] \in Books}
<1>11. 0 \in T
  <2>1. 0 \in 0..Len(trades)
    BY <1>0
  <2> QED
    BY <1>0, <1>10, <2>1, Zenon
<1>12. ASSUME NEW i \in (0 + 1)..Len(trades)
       PROVE  /\ g[i] = Book(g[i - 1], trades[i].net)
              /\ i - 1 \in T => i \in T
  <2>1. i \in 0..Len(trades) /\ i # 0 /\ i \in Int
    BY <1>0
  <2>2. g[i] = Book(g[i - 1], trades[i].net)
    BY <1>10, <2>1, Zenon
  <2> QED
    BY <1>1, <2>1, <2>2, Zenon
<1> HIDE DEF T
<1>13. 0..Len(trades) \subseteq T
  <2>1. \A i \in (0 + 1)..Len(trades) : i - 1 \in T => i \in T
    BY <1>12, Zenon
  <2>2. 0 \in Int /\ Len(trades) \in Int
    BY <1>0, Zenon
  <2> QED
    BY <1>11, <2>1, <2>2, IntervalInduction, Zenon
<1>14. \A i \in 0..Len(trades) : g[i] \in Books
  BY <1>13, Zenon DEF T
<1>15. g[0] = BookStart
  <2>1. 0 \in 0..Len(trades)
    BY <1>0
  <2> QED
    BY <1>10, <2>1, Zenon
<1> QED
  BY <1>9, <1>12, <1>14, <1>15, Zenon

(* The two grids are the same while they are open; closed, they may differ in
   whether a close was decided, which opening one forgets. *)
Twin(g, h) ==
    /\ g.on => h = g
    /\ ~g.on => ~h.on /\ h.entering = g.entering

LEMMA TwinStep ==
    ASSUME NEW cell \in GridCells, NEW g \in Grids, NEW h \in Grids, Twin(g, h),
           NEW b, IsHour(b), NEW flag \in Flags
    PROVE  /\ Twin(GridNext(cell, g, b, flag), MtmGrid(cell, h, b, flag))
           /\ Gain(cell, h, b) = Gain(cell, g, b)
<1>1. g.on \in BOOLEAN /\ (g.on => ~g.entering) /\ g.closing \in BOOLEAN
  BY DEF Grids
<1>2. b.h \in Int
  BY HourFields
<1>3. CASE ~g.on
  <2>1. ~h.on /\ h.entering = g.entering
    BY <1>3 DEF Twin
  <2>2. Gain(cell, h, b) = 0 /\ Gain(cell, g, b) = 0
    BY <1>3, <2>1, Zenon DEF Gain
  <2>3. CASE g.entering
    <3>1. MtmGrid(cell, h, b, flag) = GridNext(cell, g, b, flag)
      BY <2>1, <2>3, Zenon DEF MtmGrid, MtmOpened, GridNext
    <3>2. GridNext(cell, g, b, flag).on
      BY <2>3 DEF GridNext, Opened
    <3> QED
      BY <2>2, <3>1, <3>2 DEF Twin
  <2>4. CASE ~g.entering
    <3>1. MtmGrid(cell, h, b, flag) = [h EXCEPT !.entering = flag.gate]
      BY <2>1, <2>4, Zenon DEF MtmGrid
    <3>2. GridNext(cell, g, b, flag) = [Idle EXCEPT !.entering = flag.gate]
      BY <1>3, <2>4, Zenon DEF GridNext
    <3>3. ~MtmGrid(cell, h, b, flag).on /\ MtmGrid(cell, h, b, flag).entering = flag.gate
      BY <2>1, <3>1 DEF Grids
    <3>4. ~GridNext(cell, g, b, flag).on /\ GridNext(cell, g, b, flag).entering = flag.gate
      BY <3>2 DEF Idle
    <3> QED
      BY <2>2, <3>3, <3>4, Zenon DEF Twin
  <2> QED
    BY <2>3, <2>4
<1>4. CASE g.on
  <2>1. h = g /\ ~g.entering
    BY <1>1, <1>4 DEF Twin
  <2>2. PICK added : added = Added(g, b.h) /\ added \in Grids /\ added.on
    <3>1. Added(g, b.h) \in Grids
      BY <1>2, AddedIn
    <3>2. Added(g, b.h).on
      BY <1>4 DEF Added
    <3> QED
      BY <3>1, <3>2
  <2>3. CASE GridEnd(cell, g, added, b) # NoValue
    <3>1. GridNext(cell, g, b, flag) = Idle
      BY <1>4, <2>1, <2>2, <2>3, Zenon DEF GridNext
    <3>2. MtmGrid(cell, h, b, flag) = [Idle EXCEPT !.closing = g.closing]
      BY <1>4, <2>1, <2>2, <2>3, Zenon DEF MtmGrid
    <3>3. ~Idle.on /\ ~[Idle EXCEPT !.closing = g.closing].on
          /\ [Idle EXCEPT !.closing = g.closing].entering = Idle.entering
      BY DEF Idle
    <3> QED
      BY <2>1, <3>1, <3>2, <3>3, Zenon DEF Twin
  <2>4. CASE GridEnd(cell, g, added, b) = NoValue
    <3>1. ~g.closing
      <4> SUFFICES ASSUME g.closing PROVE FALSE
        OBVIOUS
      <4>1. GridEnd(cell, [g EXCEPT !.closing = TRUE], added, b) = GridEnd(cell, g, added, b)
        <5>1. [g EXCEPT !.closing = TRUE].closing /\ [g EXCEPT !.closing = TRUE].levels = g.levels
          BY DEF Grids
        <5> QED
          BY <5>1, Zenon DEF GridEnd
      <4>2. \/ NoValue = [why |-> "bust", px |-> Max({FromAverage(added, cell.bust), b.o})]
            \/ NoValue = [why |-> "tp", px |-> FromAverage(added, -cell.tp)]
            \/ NoValue = [why |-> "regime", px |-> b.c]
        BY <2>4, Zenon DEF GridEnd
      <4>3. PICK top, low : /\ top = FromAverage(added, cell.bust) /\ low = FromAverage(added, -cell.tp)
                            /\ top \in Int /\ low \in Int
        <5>1. added.qty \in Nat \ {0} /\ added.sold \in Int
          BY <2>2 DEF Grids
        <5> QED
          BY <5>1, GridCell, FromAverageIn
      <4>4. b.o \in Int /\ b.c \in Int
        BY HourFields
      <4>5. Max({top, b.o}) \in Int
        BY <4>3, <4>4, MaxPair, Zenon
      <4>6. \/ NoValue = [why |-> "bust", px |-> Max({top, b.o})]
            \/ NoValue = [why |-> "tp", px |-> low]
            \/ NoValue = [why |-> "regime", px |-> b.c]
        BY <4>2, <4>3, Zenon
      <4>7. NoValue \in GridEnds
        BY <4>3, <4>4, <4>5, <4>6 DEF GridEnds
      <4>8. NoValue \notin GridEnds
        BY LegsAssumption
      <4> QED
        BY <4>7, <4>8
    <3>2. MtmGrid(cell, h, b, flag) = GridNext(cell, g, b, flag)
      <4>1. (g.closing \/ (flag.bull /\ Floating(added, b.c) < 0)) = (flag.bull /\ Floating(added, b.c) < 0)
        BY <3>1
      <4>2. MtmGrid(cell, h, b, flag)
              = [added EXCEPT !.closing = g.closing \/ (flag.bull /\ Floating(added, b.c) < 0)]
        BY <1>4, <2>1, <2>2, <2>4, Zenon DEF MtmGrid
      <4>3. GridNext(cell, g, b, flag) = [added EXCEPT !.closing = flag.bull /\ Floating(added, b.c) < 0]
        BY <1>4, <2>1, <2>2, <2>4, Zenon DEF GridNext
      <4> QED
        BY <4>1, <4>2, <4>3, Zenon
    <3>3. GridNext(cell, g, b, flag).on
      <4>1. GridNext(cell, g, b, flag) = [added EXCEPT !.closing = flag.bull /\ Floating(added, b.c) < 0]
        BY <1>4, <2>1, <2>2, <2>4, Zenon DEF GridNext
      <4> QED
        BY <2>2, <4>1 DEF Grids
    <3> QED
      BY <2>1, <3>2, <3>3 DEF Twin
  <2> QED
    BY <2>3, <2>4
<1> QED
  BY <1>3, <1>4

(* The sum of the profits, and the book, of one cycle more. *)
LEMMA NetAppend ==
    ASSUME NEW c \in Seq(Cycles), NEW t \in Cycles
    PROVE  Net(Append(c, t)) = Net(c) + t.net /\ Net(c) \in Int
<1>1. PICK n : n = Len(c) /\ n \in Nat /\ DOMAIN c = 1..n
  BY LenProperties
<1> DEFINE d == Append(c, t)
           F == [k \in DOMAIN c |-> c[k].net]
           G == [k \in DOMAIN d |-> d[k].net]
<1>2. DOMAIN d = (1..n) \cup {n + 1} /\ d[n + 1] = t /\ \A k \in 1..n : d[k] = c[k] /\ c[k] \in Cycles
  <2>1. d \in Seq(Cycles) /\ Len(d) = n + 1 /\ d[n + 1] = t /\ \A k \in 1..n : d[k] = c[k] /\ c[k] \in Cycles
    BY <1>1, AppendProperties, ElementOfSeq
  <2>2. DOMAIN d = 1..(n + 1)
    BY <2>1, LenProperties
  <2>3. 1..(n + 1) = (1..n) \cup {n + 1}
    BY <1>1
  <2> QED
    BY <2>1, <2>2, <2>3
<1> HIDE DEF d
<1>3. t.net \in Int /\ \A k \in 1..n : c[k].net \in Int
  BY <1>2 DEF Cycles
<1>4. /\ \A k \in 1..n : F[k] = c[k].net /\ G[k] = c[k].net /\ F[k] \in Int
      /\ G[n + 1] = t.net
  BY <1>1, <1>2, <1>3
<1>5. IsFiniteSet(1..n) /\ n + 1 \notin 1..n
  <2>1. 1 \in Int /\ n \in Int /\ n + 1 \notin 1..n
    BY <1>1
  <2> QED
    BY <2>1, FS_Interval, Zenon
<1>6. Net(c) = SumFunctionOnSet(F, 1..n) /\ Net(d) = SumFunctionOnSet(G, (1..n) \cup {n + 1})
  BY <1>1, <1>2, Zenon DEF Net
<1> HIDE DEF F, G
<1>7. SumFunctionOnSet(G, (1..n) \cup {n + 1}) = G[n + 1] + SumFunctionOnSet(G, 1..n)
  <2>1. \A y \in (1..n) \cup {n + 1} : G[y] \in Int
    BY <1>3, <1>4
  <2> QED
    BY <1>5, <2>1, SumAdd, Zenon
<1>8. SumFunctionOnSet(G, 1..n) = SumFunctionOnSet(F, 1..n)
  <2>1. \A k \in 1..n : G[k] = F[k]
    BY <1>4
  <2> QED
    BY <1>5, <2>1, SumCongruence, Zenon
<1>9. SumFunctionOnSet(F, 1..n) \in Int
  <2>1. \A k \in 1..n : F[k] \in Int
    BY <1>4
  <2> QED
    BY <1>5, <2>1, SumType, Zenon
<1>10. PICK a : a = SumFunctionOnSet(F, 1..n) /\ a \in Int
  BY <1>9
<1> QED
  BY <1>3, <1>4, <1>6, <1>7, <1>8, <1>10 DEF d

BookOf(c) == BookStates(c)[Len(c)]

LEMMA BookAppend ==
    ASSUME NEW c \in Seq(Cycles), NEW t \in Cycles
    PROVE  BookOf(Append(c, t)) = Book(BookOf(c), t.net) /\ BookOf(c) \in Books
<1> DEFINE d == Append(c, t)
           f == BookStates(c)
           g == BookStates(d)
           T == {k \in Int : g[k] = f[k]}
<1>1. PICK n : n = Len(c) /\ n \in Nat
  BY LenProperties
<1>2. d \in Seq(Cycles) /\ Len(d) = n + 1 /\ d[n + 1] = t /\ \A k \in 1..n : d[k] = c[k]
  BY <1>1, AppendProperties
<1>3. /\ f[0] = BookStart /\ \A i \in (0 + 1)..n : f[i] = Book(f[i - 1], c[i].net)
      /\ \A i \in 0..n : f[i] \in Books
  BY <1>1, BookRuns, Zenon
<1>4. g[0] = BookStart /\ \A i \in (0 + 1)..(n + 1) : g[i] = Book(g[i - 1], d[i].net)
  BY <1>2, BookRuns, Zenon
<1> HIDE DEF d, f, g
<1>5. 0 \in T
  BY <1>3, <1>4
<1>6. ASSUME NEW i \in (0 + 1)..n, i - 1 \in T
      PROVE  i \in T
  <2>1. i \in 1..n /\ i \in (0 + 1)..(n + 1) /\ i \in Int
    BY <1>1
  <2>2. g[i - 1] = f[i - 1]
    BY <1>6
  <2>3. g[i] = f[i]
    BY <1>2, <1>3, <1>4, <2>1, <2>2, Zenon
  <2> QED
    BY <2>1, <2>3
<1> HIDE DEF T
<1>7. 0..n \subseteq T
  <2>1. \A i \in (0 + 1)..n : i - 1 \in T => i \in T
    BY <1>6
  <2>2. 0 \in Int /\ n \in Int
    BY <1>1
  <2> QED
    BY <1>5, <2>1, <2>2, IntervalInduction, Zenon
<1>8. g[n] = f[n] /\ n \in 0..n
  BY <1>1, <1>7 DEF T
<1>9. g[n + 1] = Book(g[n], t.net)
  <2>1. n + 1 \in (0 + 1)..(n + 1) /\ (n + 1) - 1 = n
    BY <1>1
  <2> QED
    BY <1>2, <1>4, <2>1, Zenon
<1>10. f[n] \in Books
  BY <1>3, <1>8
<1> QED
  BY <1>1, <1>2, <1>8, <1>9, <1>10, Zenon DEF BookOf, f, g, d

(* A bar of the two loops: realised and drawn down, against the book of the cycles. *)
Booked(gs, ms) ==
    /\ Twin(gs.grid, ms.grid)
    /\ ms.realised = Net(gs.cycles) /\ BookOf(gs.cycles).eq = ms.realised
    /\ BookOf(gs.cycles).peak <= ms.peak /\ ms.maxdd <= BookOf(gs.cycles).dd

LEMMA BookedStart == Booked(GridStart, MtmStart)
<1>1. <<>> \in Seq(Cycles) /\ Len(<<>>) = 0 /\ DOMAIN <<>> = {}
  BY EmptySeq
<1>2. BookStates(<<>>)[0] = BookStart
  BY <1>1, BookRuns
<1>3. BookOf(<<>>) = BookStart
  BY <1>1, <1>2 DEF BookOf
<1>4. Net(<<>>) = 0
  BY <1>1, SumEmpty DEF Net
<1>5. Twin(Idle, Idle)
  BY DEF Twin
<1> QED
  BY <1>3, <1>4, <1>5 DEF Booked, GridStart, MtmStart, BookStart

LEMMA BookedStep ==
    ASSUME NEW cell \in GridCells, NEW gs \in GridStatesOf, NEW ms \in MtmStatesOf, Booked(gs, ms),
           NEW i \in Nat, NEW b, IsHour(b), NEW flag \in Flags
    PROVE  Booked(GridBar(cell, gs, i, b, flag), MtmBar(cell, ms, b, flag))
<1> DEFINE added == Added(gs.grid, b.h)
           end == IF gs.grid.on THEN GridEnd(cell, gs.grid, added, b) ELSE NoValue
           gn == GridBar(cell, gs, i, b, flag)
           mn == MtmBar(cell, ms, b, flag)
           grid == MtmGrid(cell, ms.grid, b, flag)
           gain == Gain(cell, ms.grid, b)
           close == ms.realised + gain + Marked(grid, b.c)
           high == ms.realised + gain + Marked(grid, b.h)
<1>1. /\ gs.grid \in Grids /\ gs.e \in Nat /\ gs.cycles \in Seq(Cycles)
      /\ ms.grid \in Grids /\ ms.realised \in Int /\ ms.peak \in Int /\ ms.maxdd \in Int
  BY DEF GridStatesOf, MtmStatesOf
<1>2. gn.grid = GridNext(cell, gs.grid, b, flag)
      /\ gn.cycles = IF end = NoValue THEN gs.cycles ELSE Append(gs.cycles, Cycle(gs, i, added, end))
  BY DEF GridBar
<1>3. Twin(gn.grid, grid) /\ gain = Gain(cell, gs.grid, b)
  BY <1>1, <1>2, TwinStep DEF Booked
<1>4. end # NoValue => Cycle(gs, i, added, end) \in Cycles
  BY <1>1, CycleIn
<1>5. gain = IF end = NoValue THEN 0 ELSE Cycle(gs, i, added, end).net
  <2>1. Cycle(gs, i, added, end).net = Realised(added, end.px)
    BY DEF Cycle
  <2>2. Gain(cell, gs.grid, b) = IF end = NoValue THEN 0 ELSE Realised(added, end.px)
    BY Zenon DEF Gain
  <2> QED
    BY <1>3, <2>1, <2>2, Zenon
<1>6. /\ grid \in Grids /\ ms.realised + gain \in Int /\ close \in Int /\ high \in Int
      /\ mn = MtmStep(ms, grid, ms.realised + gain, close, high)
  BY <1>1, MtmBarIn
<1>7. PICK cycles, k : /\ cycles = gs.cycles /\ k = BookOf(cycles) /\ cycles \in Seq(Cycles)
                       /\ ms.realised = Net(cycles) /\ k.eq = ms.realised
                       /\ k.peak <= ms.peak /\ ms.maxdd <= k.dd
  BY <1>1 DEF Booked
<1> HIDE DEF end, gn, mn, grid, gain, close, high
<1>8. PICK r : r = ms.realised + gain /\ r \in Int
  BY <1>6
<1>9. /\ mn.grid = grid /\ mn.realised = r /\ mn.peak >= ms.peak /\ mn.peak >= close
      /\ mn.maxdd <= ms.maxdd /\ mn.maxdd <= high - mn.peak /\ mn.peak \in Int /\ mn.maxdd \in Int
  <2>1. MtmStep(ms, grid, r, close, high) \in MtmStatesOf
    BY <1>6, <1>8, MtmStepIn
  <2>2. mn = MtmStep(ms, grid, r, close, high)
    BY <1>6, <1>8
  <2>3. mn.peak \in Int /\ mn.maxdd \in Int
    BY <2>1, <2>2 DEF MtmStatesOf
  <2> QED
    BY <1>6, <1>8, <2>2, <2>3, MtmStepIn
<1>10. CASE end = NoValue
  <2>1. gn.cycles = cycles /\ gain = 0 /\ r = ms.realised
    BY <1>1, <1>2, <1>5, <1>7, <1>8, <1>10
  <2>2. k \in Books
    <3>1. Append(cycles, [e |-> 0, x |-> 0, reason |-> "tp", px |-> 0, net |-> 0]) \in Seq(Cycles)
          /\ [e |-> 0, x |-> 0, reason |-> "tp", px |-> 0, net |-> 0] \in Cycles
      BY <1>7, AppendProperties DEF Cycles
    <3> QED
      BY <1>7, <3>1, BookAppend
  <2>3. k.peak \in Int /\ k.dd \in Int
    BY <2>2 DEF Books
  <2>4. k.peak <= mn.peak /\ mn.maxdd <= k.dd
    BY <1>1, <1>7, <1>9, <2>3
  <2> QED
    BY <1>3, <1>7, <1>9, <2>1, <2>4 DEF Booked, gn, mn
<1>11. CASE end # NoValue
  <2>1. PICK t : t = Cycle(gs, i, added, end) /\ t \in Cycles /\ gain = t.net /\ gn.cycles = Append(cycles, t)
    BY <1>2, <1>4, <1>5, <1>7, <1>11
  <2>2. Net(gn.cycles) = Net(cycles) + t.net /\ BookOf(gn.cycles) = Book(k, t.net) /\ k \in Books
    BY <1>7, <2>1, NetAppend, BookAppend
  <2>3. t.net \in Int
    BY <2>1 DEF Cycles
  <2>4. PICK n, p, d : n = BookOf(gn.cycles) /\ p = n.peak /\ d = n.dd
    OBVIOUS
  <2>5. /\ n.eq = k.eq + t.net /\ p \in {k.peak, k.eq + t.net} /\ p >= k.peak /\ p >= k.eq + t.net
        /\ d \in {k.dd, (k.eq + t.net) - p}
    BY <2>2, <2>3, <2>4, BookIn
  <2>6. k.peak \in Int /\ k.dd \in Int /\ k.eq \in Int
    BY <2>2 DEF Books
  <2>7. k.eq + t.net = r
    BY <1>7, <1>8, <2>1
  <2>8. ~grid.on
    <3>1. gs.grid.on /\ ~gs.grid.entering
      BY <1>1, <1>11 DEF end, Grids
    <3>2. gn.grid = Idle
      BY <1>2, <1>11, <3>1, Zenon DEF GridNext, end
    <3> QED
      BY <1>3, <3>2 DEF Twin, Idle
  <2>9. close = r /\ high = r
    <3>1. Marked(grid, b.c) = 0 /\ Marked(grid, b.h) = 0
      BY <2>8 DEF Marked
    <3> QED
      BY <1>8, <3>1 DEF close, high
  <2>10. p <= mn.peak /\ mn.maxdd <= d
    <3>1. PICK mp, mm, kp, kd, sp, sm :
              /\ mp = mn.peak /\ mm = mn.maxdd /\ kp = k.peak /\ kd = k.dd /\ sp = ms.peak /\ sm = ms.maxdd
              /\ {mp, mm, kp, kd, sp, sm} \subseteq Int
      BY <1>1, <1>9, <2>6
    <3>2. /\ kp <= sp /\ sm <= kd /\ mp >= sp /\ mp >= r /\ mm <= sm /\ mm <= r - mp
          /\ p \in {kp, r} /\ d \in {kd, r - p}
      <4>1. kp <= sp /\ sm <= kd
        BY <1>7, <3>1, Zenon
      <4>2. mp >= sp /\ mp >= r /\ mm <= sm /\ mm <= r - mp
        <5>1. mp >= sp /\ mp >= close /\ mm <= sm /\ mm <= high - mp
          BY <1>9, <3>1
        <5> QED
          BY <2>9, <5>1
      <4>3. p \in {kp, r} /\ d \in {kd, r - p}
        <5>1. p = kp \/ p = r
          <6>1. p = k.peak \/ p = k.eq + t.net
            BY <2>5, Zenon
          <6> QED
            BY <2>7, <3>1, <6>1, Zenon
        <5>2. d = kd \/ d = r - p
          <6>1. d = k.dd \/ d = (k.eq + t.net) - p
            BY <2>5, Zenon
          <6> QED
            BY <2>7, <3>1, <6>1, Zenon
        <5> QED
          BY <5>1, <5>2, Zenon
      <4> QED
        BY <4>1, <4>2, <4>3, Zenon
    <3>3. p <= mp
      BY <1>8, <3>1, <3>2
    <3>4. mm <= d
      <4>1. mm <= kd
        BY <3>1, <3>2
      <4>2. r - mp <= r - p
        BY <1>8, <3>1, <3>2, <3>3
      <4> QED
        BY <1>8, <3>1, <3>2, <4>1, <4>2
    <3> QED
      BY <3>1, <3>3, <3>4
  <2>11. mn.realised = Net(gn.cycles) /\ n.eq = mn.realised
    BY <1>7, <1>8, <1>9, <2>1, <2>2, <2>5, <2>7
  <2> QED
    BY <1>3, <1>9, <2>4, <2>10, <2>11 DEF Booked, gn, mn
<1> QED
  BY <1>10, <1>11

FirstOf(s, I, n) == \A i \in 1..Len(s) : i \in I <=> i <= n

(* What is left of the first n of a sequence, and of no other of its places. *)
LEMMA SiftFirst ==
    ASSUME NEW S, NEW s \in Seq(S), NEW n \in Nat, n <= Len(s), NEW I, FirstOf(s, I, n)
    PROVE  /\ Sift(s, I) \in Seq(S) /\ Len(Sift(s, I)) = n
           /\ \A k \in 1..n : Sift(s, I)[k] = s[k]
<1>0. \A i \in 1..Len(s) : i \in I <=> i <= n
  BY Zenon DEF FirstOf
<1>1. Len(s) \in Nat /\ \A i \in 1..Len(s) : s[i] \in S
  BY LenProperties, ElementOfSeq
<1>2. PICK f : Sifted(s, I, Len(s), f) /\ Sift(s, I) = f[Len(s)]
  <2>1. Sift(s, I) = (CHOOSE f : Sifted(s, I, Len(s), f))[Len(s)]
    BY DEF Sift, Sifted
  <2> QED
    BY <1>1, <2>1, SomeSifted
<1>3. \A i \in 0..Len(s) : f[i] = IF i = 0 THEN <<>> ELSE IF i \in I THEN Append(f[i - 1], s[i]) ELSE f[i - 1]
  BY <1>2 DEF Sifted
<1> DEFINE Kept(q, m) == q \in Seq(S) /\ Len(q) = m /\ \A k \in 1..m : q[k] = s[k]
           T == {i \in Int : Kept(f[i], IF i <= n THEN i ELSE n)}
<1>4. 0 \in T
  <2>1. f[0] = <<>>
    BY <1>1, <1>3
  <2>2. <<>> \in Seq(S) /\ Len(<<>>) = 0 /\ 1..0 = {} /\ 0 \in Int /\ (IF 0 <= n THEN 0 ELSE n) = 0
    BY EmptySeq
  <2> QED
    BY <2>1, <2>2
<1>5. ASSUME NEW i \in (0 + 1)..Len(s), i - 1 \in T
      PROVE  i \in T
  <2>1. i \in 1..Len(s) /\ i \in 0..Len(s) /\ i # 0 /\ i - 1 \in Nat /\ i \in Int
    BY <1>1
  <2>2. PICK q : q = f[i - 1]
    OBVIOUS
  <2>3. CASE i <= n
    <3>1. Kept(q, i - 1)
      BY <1>5, <2>1, <2>2, <2>3
    <3>2. f[i] = Append(q, s[i]) /\ s[i] \in S
      BY <1>0, <1>1, <1>3, <2>1, <2>2, <2>3
    <3>3. Append(q, s[i]) \in Seq(S) /\ Len(Append(q, s[i])) = i /\ Append(q, s[i])[i] = s[i]
          /\ \A k \in 1..(i - 1) : Append(q, s[i])[k] = q[k]
      BY <2>1, <3>1, <3>2, AppendProperties
    <3>4. Kept(f[i], i)
      BY <2>1, <3>1, <3>2, <3>3
    <3> QED
      BY <2>1, <2>3, <3>4
  <2>4. CASE ~(i <= n)
    <3>1. Kept(q, n)
      BY <1>5, <2>1, <2>2, <2>4
    <3>2. f[i] = q
      BY <1>0, <1>3, <2>1, <2>2, <2>4
    <3> QED
      BY <2>1, <2>4, <3>1, <3>2
  <2> QED
    BY <2>3, <2>4
<1> HIDE DEF T, Kept
<1>6. 0..Len(s) \subseteq T
  <2>1. \A i \in (0 + 1)..Len(s) : i - 1 \in T => i \in T
    BY <1>5
  <2>2. 0 \in Int /\ Len(s) \in Int
    BY <1>1
  <2> QED
    BY <1>4, <2>1, <2>2, IntervalInduction, Zenon
<1>7. Len(s) \in T
  BY <1>1, <1>6
<1>8. (IF Len(s) <= n THEN Len(s) ELSE n) = n
  BY <1>1
<1> QED
  BY <1>2, <1>7, <1>8 DEF T, Kept

LEMMA EndedIs ==
    ASSUME NEW c \in Seq(Cycles), NEW t, t.reason = "eod"
    PROVE  Ended(c) = c /\ Ended(Append(c, t)) = c
<1>1. PICK n : n = Len(c) /\ n \in Nat /\ DOMAIN c = 1..n
  BY LenProperties
<1>2. \A k \in 1..n : c[k] \in Cycles /\ c[k].reason # "eod"
  <2>1. \A k \in 1..n : c[k] \in Cycles
    BY <1>1, ElementOfSeq
  <2> QED
    BY <2>1 DEF Cycles
<1>3. Ended(c) = c
  <2> DEFINE I == {k \in DOMAIN c : c[k].reason # "eod"}
  <2>1. n <= Len(c) /\ FirstOf(c, I, n)
    BY <1>1, <1>2 DEF FirstOf
  <2> HIDE DEF I
  <2>2. Sift(c, I) \in Seq(Cycles) /\ Len(Sift(c, I)) = n /\ \A k \in 1..n : Sift(c, I)[k] = c[k]
    BY <1>1, <2>1, SiftFirst, Zenon
  <2>3. Sift(c, I) = c
    BY <1>1, <2>2, SeqEqual
  <2> QED
    BY <2>3 DEF Ended, I
<1>4. Ended(Append(c, t)) = c
  <2> DEFINE S == Cycles \cup {t}
             d == Append(c, t)
             I == {k \in DOMAIN d : d[k].reason # "eod"}
  <2>1. c \in Seq(S) /\ t \in S
    <3>1. \A k \in 1..Len(c) : c[k] \in S
      BY <1>1, <1>2
    <3> QED
      BY <3>1
  <2>2. d \in Seq(S) /\ Len(d) = n + 1 /\ d[n + 1] = t /\ \A k \in 1..n : d[k] = c[k]
    BY <1>1, <2>1, AppendProperties
  <2>3. DOMAIN d = 1..(n + 1)
    BY <2>2, LenProperties
  <2> HIDE DEF S, d
  <2>4. n <= Len(d) /\ FirstOf(d, I, n)
    BY <1>1, <1>2, <2>2, <2>3 DEF FirstOf
  <2> HIDE DEF I
  <2>5. Sift(d, I) \in Seq(S) /\ Len(Sift(d, I)) = n /\ \A k \in 1..n : Sift(d, I)[k] = d[k]
    <3>1. d \in Seq(S) /\ n \in Nat
      BY <1>1, <2>2, Zenon
    <3> QED
      BY <2>4, <3>1, SiftFirst, Zenon
  <2>6. Sift(d, I) = c
    BY <1>1, <2>1, <2>2, <2>5, SeqEqual
  <2> QED
    BY <2>6 DEF Ended, I, d
<1> QED
  BY <1>3, <1>4

LEMMA GridAgrees ==
    ASSUME NEW bs, Hourly(bs), NEW m \in GridCells
    PROVE  LET cycles == Ended(run_grid(m, bs))
               s == mtm_curve(m, bs)
           IN  s.realised = Net(cycles) /\ s.maxdd <= Drawdown(cycles)
<1> DEFINE f == GridStates(m, bs)
           g == MtmStates(m, bs)
           T == {i \in Int : Booked(f[i], g[i])}
<1>1. PICK n : n = Len(bs) /\ n \in Nat
  BY DEF Hourly
<1>2. /\ f[0] = GridStart /\ \A i \in (0 + 1)..n : f[i] = GridBar(m, f[i - 1], i, bs[i], prep(bs)[i])
      /\ \A i \in 0..n : f[i] \in GridStatesOf
  BY <1>1, GridRuns, Zenon
<1>3. /\ g[0] = MtmStart /\ \A i \in (0 + 1)..n : g[i] = MtmBar(m, g[i - 1], bs[i], prep(bs)[i])
      /\ \A i \in 0..n : g[i] \in MtmStatesOf
  BY <1>1, MtmRuns, Zenon
<1> HIDE DEF f, g
<1>4. 0 \in T
  BY <1>2, <1>3, BookedStart
<1>5. ASSUME NEW i \in (0 + 1)..n, i - 1 \in T
      PROVE  i \in T
  <2>1. i \in 1..n /\ i \in Nat /\ i \in Int /\ i - 1 \in 0..n /\ i \in DOMAIN bs
    BY <1>1 DEF Hourly
  <2>2. PICK u, v, b, flag : u = f[i - 1] /\ v = g[i - 1] /\ b = bs[i] /\ flag = prep(bs)[i]
    OBVIOUS
  <2>3. u \in GridStatesOf /\ v \in MtmStatesOf /\ Booked(u, v)
    BY <1>2, <1>3, <1>5, <2>1, <2>2
  <2>4. IsHour(b) /\ flag \in Flags
    BY <1>1, <2>1, <2>2, FlagsIn DEF Hourly
  <2>5. Booked(GridBar(m, u, i, b, flag), MtmBar(m, v, b, flag))
    BY <2>1, <2>3, <2>4, BookedStep
  <2>6. f[i] = GridBar(m, u, i, b, flag) /\ g[i] = MtmBar(m, v, b, flag)
    BY <1>2, <1>3, <2>2, Zenon
  <2> QED
    BY <2>1, <2>5, <2>6
<1> HIDE DEF T
<1>6. 0..n \subseteq T
  <2>1. \A i \in (0 + 1)..n : i - 1 \in T => i \in T
    BY <1>5
  <2>2. 0 \in Int /\ n \in Int
    BY <1>1
  <2> QED
    BY <1>4, <2>1, <2>2, IntervalInduction, Zenon
<1>7. n \in 0..n
  BY <1>1
<1>8. PICK u, v : u = f[n] /\ v = g[n] /\ Booked(u, v) /\ u \in GridStatesOf
  BY <1>2, <1>6, <1>7 DEF T
<1>9. u.cycles \in Seq(Cycles)
  BY <1>8 DEF GridStatesOf
<1>10. Ended(run_grid(m, bs)) = u.cycles
  <2> DEFINE t == Cycle(u, n, u.grid, [why |-> "eod", px |-> bs[n].c])
  <2>1. t.reason = "eod"
    BY DEF Cycle
  <2>2. run_grid(m, bs) = IF u.grid.on THEN Append(u.cycles, t) ELSE u.cycles
    BY <1>1, <1>8, Zenon DEF run_grid, f
  <2> HIDE DEF t
  <2> QED
    BY <1>9, <2>1, <2>2, EndedIs
<1>11. mtm_curve(m, bs) = v
  BY <1>1, <1>8 DEF mtm_curve, g
<1>12. Drawdown(u.cycles) = BookOf(u.cycles).dd
  BY DEF Drawdown, BookOf
<1> QED
  BY <1>8, <1>10, <1>11, <1>12 DEF Booked

LEMMA AgreeIs == LegsInv => LoopsAgree
<1> SUFFICES ASSUME LegsInv PROVE LoopsAgree
  OBVIOUS
<1>1. Hourly(bars) /\ DOMAIN bars = 1..Len(bars)
  BY DEF LegsInv, Hourly
<1>2. legs = Reports(bars)
  BY DEF LegsInv
<1>3. \A m \in GridCells : legs.grid[m] = run_grid(m, bars)
  BY <1>2 DEF Reports
<1>4. \A m \in GridCells :
          LET cycles == Ended(legs.grid[m])
              s == mtm_curve(m, bars)
          IN  s.realised = Net(cycles) /\ s.maxdd <= Drawdown(cycles)
  BY <1>1, <1>3, GridAgrees
<1>5. \A m \in CrashCells, e \in DOMAIN bars :
          LET spec == [kind |-> "A", pct |-> 0, s |-> m.s, t |-> m.t, z |-> 0,
                       cond |-> FALSE, cap |-> m.h]
              h7 == ReboundTrade(m, bars, e)
              h1 == MomentumTrade(1, spec, bars, <<>>, e)
          IN  /\ h7.x = h1.x
              /\ IF h7.reason = "tp" THEN h7.px <= h1.px ELSE h7.px = h1.px + h7.gap
  BY <1>1, ReboundAgrees, Zenon DEF MirrorOf
<1> QED
  BY <1>4, <1>5, Zenon DEF LoopsAgree

(* The second loop over a trade tells of it what the first does. *)
THEOREM LoopsTwice == LegsSpec => []LoopsAgree
BY LegsHolds, AgreeIs, PTL

-----------------------------------------------------------------------------
(* One trade at a time, over two series that agree up to a bar. *)

(* Two series that agree on every bar before bar h, and have that bar. *)
Shared(bs, cs, h) ==
    /\ Hourly(bs) /\ Hourly(cs) /\ h \in Nat \ {0} /\ Agree(bs, cs, h - 1)
    /\ h <= Len(bs) /\ h <= Len(cs)

(* What two reports of a trade have in common: it is the same, or both end at h or later. *)
SameTrade(h, a, b) == a.e = b.e /\ (a = b \/ (a.x >= h /\ b.x >= h))
SameTrades(h, before, after) ==
    /\ Len(before) = Len(after)
    /\ \A k \in 1..Len(before) : SameTrade(h, before[k], after[k])
KeepsUpTo(n, before, after) ==
    /\ Len(before) <= Len(after)
    /\ \A k \in DOMAIN before :
          /\ before[k].e = after[k].e
          /\ before[k].x < n => before[k] = after[k]

SeqStates(S) == [next : Nat, trades : Seq(S)]
SeqStart(from) == [next |-> from, trades |-> <<>>]
SeqFollows(from, to, gap, signal, trade, f) ==
    f = [i \in (from - 1)..to |-> IF i = from - 1 THEN SeqStart(from)
                                  ELSE SequentialBar(gap, signal, trade, f[i - 1], i)]
Traded(from, to, trade) == {trade[i] : i \in from..to}

LEMMA SeqBarIn ==
    ASSUME NEW from \in Nat, NEW to \in Int, NEW gap \in Nat, NEW signal, NEW trade,
           NEW i \in from..to, trade[i].x \in Nat, NEW s \in SeqStates(Traded(from, to, trade))
    PROVE  SequentialBar(gap, signal, trade, s, i) \in SeqStates(Traded(from, to, trade))
<1> DEFINE S == Traded(from, to, trade)
<1>1. trade[i] \in S
  BY DEF Traded
<1> HIDE DEF S
<1>2. s \in SeqStates(S)
  BY DEF S
<1>3. s.next \in Nat /\ s.trades \in Seq(S)
  BY <1>2 DEF SeqStates
<1>4. Append(s.trades, trade[i]) \in Seq(S)
  BY <1>1, <1>3, AppendProperties
<1>5. trade[i].x + gap \in Nat
  OBVIOUS
<1>6. [next |-> trade[i].x + gap, trades |-> Append(s.trades, trade[i])] \in SeqStates(S)
  BY <1>4, <1>5 DEF SeqStates
<1>7. SequentialBar(gap, signal, trade, s, i) \in SeqStates(S)
  BY <1>2, <1>6 DEF SequentialBar
<1> QED
  BY <1>7 DEF S

LEMMA SeqRuns ==
    ASSUME NEW from \in Nat, NEW to \in Int, from - 1 <= to, NEW gap \in Nat, NEW signal, NEW trade,
           \A i \in from..to : trade[i].x \in Nat
    PROVE  /\ SequentialStates(from, to, gap, signal, trade)[(from - 1)] = SeqStart(from)
           /\ \A i \in ((from - 1) + 1)..to : SequentialStates(from, to, gap, signal, trade)[i] = SequentialBar(gap, signal, trade, SequentialStates(from, to, gap, signal, trade)[i - 1], i)
           /\ \A i \in (from - 1)..to : SequentialStates(from, to, gap, signal, trade)[i] \in SeqStates(Traded(from, to, trade))
<1> DEFINE G == [z \in (((from - 1) + 1)..to) \X SeqStates(Traded(from, to, trade)) |-> SequentialBar(gap, signal, trade, z[2], z[1])]
<1>0. (from - 1) \in Int /\ to \in Int /\ (from - 1) <= to /\ SeqStart(from) \in SeqStates(Traded(from, to, trade))
  <2>1. from - 1 \in Int
    OBVIOUS
  <2>2. <<>> \in Seq(Traded(from, to, trade))
    BY EmptySeq, Zenon
  <2> QED
    BY <2>1, <2>2 DEF SeqStart, SeqStates
<1>1. \A i \in ((from - 1) + 1)..to, u \in SeqStates(Traded(from, to, trade)) : SequentialBar(gap, signal, trade, u, i) \in SeqStates(Traded(from, to, trade))
  <2> SUFFICES ASSUME NEW i \in ((from - 1) + 1)..to, NEW u \in SeqStates(Traded(from, to, trade))
               PROVE  SequentialBar(gap, signal, trade, u, i) \in SeqStates(Traded(from, to, trade))
    OBVIOUS
  <2>1. i \in from..to
    BY <1>0
  <2> QED
    BY <2>1, SeqBarIn
<1>2. \A i \in ((from - 1) + 1)..to, u \in SeqStates(Traded(from, to, trade)) : G[<<i, u>>] = SequentialBar(gap, signal, trade, u, i)
  OBVIOUS
<1> HIDE DEF G
<1>3. PICK f \in [(from - 1)..to -> SeqStates(Traded(from, to, trade))] : Repeats(f, SeqStart(from), G, (from - 1), to)
  <2>1. \A i \in ((from - 1) + 1)..to, u \in SeqStates(Traded(from, to, trade)) : G[<<i, u>>] \in SeqStates(Traded(from, to, trade))
    BY <1>1, <1>2, Zenon
  <2> QED
    BY <1>0, <2>1, SomeRepeats, Zenon
<1>4. \A i \in (from - 1)..to : f[i] = IF i = from - 1 THEN SeqStart(from) ELSE G[<<i, f[i - 1]>>]
  BY <1>3, Zenon DEF Repeats
<1>5. \A i \in (from - 1)..to : f[i] = IF i = from - 1 THEN SeqStart(from) ELSE SequentialBar(gap, signal, trade, f[i - 1], i)
  <2> SUFFICES ASSUME NEW i \in (from - 1)..to, i # (from - 1) PROVE f[i] = SequentialBar(gap, signal, trade, f[i - 1], i)
    BY <1>4, Zenon
  <2>1. i \in ((from - 1) + 1)..to /\ i - 1 \in (from - 1)..to
    BY <1>0
  <2>2. f[i - 1] \in SeqStates(Traded(from, to, trade))
    BY <1>3, <2>1, Zenon
  <2> QED
    BY <1>2, <1>4, <2>1, <2>2, Zenon
<1>6. f = [i \in (from - 1)..to |-> f[i]]
  BY <1>3, Zenon
<1>7. SeqFollows(from, to, gap, signal, trade, f)
  BY <1>5, <1>6, Zenon DEF SeqFollows
<1>8. SequentialStates(from, to, gap, signal, trade) = CHOOSE g : SeqFollows(from, to, gap, signal, trade, g)
  BY Zenon DEF SequentialStates, SeqFollows, SeqStart
<1>9. PICK g : SeqFollows(from, to, gap, signal, trade, g) /\ SequentialStates(from, to, gap, signal, trade) = g
  BY <1>7, <1>8, Zenon
<1>10. \A i \in (from - 1)..to : g[i] = IF i = from - 1 THEN SeqStart(from) ELSE SequentialBar(gap, signal, trade, g[i - 1], i)
  BY <1>9, Zenon DEF SeqFollows
<1> DEFINE T == {i \in Int : g[i] \in SeqStates(Traded(from, to, trade))}
<1>11. (from - 1) \in T
  <2>1. (from - 1) \in (from - 1)..to
    BY <1>0
  <2> QED
    BY <1>0, <1>10, <2>1, Zenon
<1>12. ASSUME NEW i \in ((from - 1) + 1)..to
       PROVE  /\ g[i] = SequentialBar(gap, signal, trade, g[i - 1], i)
              /\ i - 1 \in T => i \in T
  <2>1. i \in (from - 1)..to /\ i # (from - 1) /\ i \in Int
    BY <1>0
  <2>2. g[i] = SequentialBar(gap, signal, trade, g[i - 1], i)
    BY <1>10, <2>1, Zenon
  <2> QED
    BY <1>1, <2>1, <2>2, Zenon
<1> HIDE DEF T
<1>13. (from - 1)..to \subseteq T
  <2>1. \A i \in ((from - 1) + 1)..to : i - 1 \in T => i \in T
    BY <1>12, Zenon
  <2>2. (from - 1) \in Int /\ to \in Int
    BY <1>0, Zenon
  <2> QED
    BY <1>11, <2>1, <2>2, IntervalInduction, Zenon
<1>14. \A i \in (from - 1)..to : g[i] \in SeqStates(Traded(from, to, trade))
  BY <1>13, Zenon DEF T
<1>15. g[(from - 1)] = SeqStart(from)
  <2>1. (from - 1) \in (from - 1)..to
    BY <1>0
  <2> QED
    BY <1>10, <2>1, Zenon
<1> QED
  BY <1>9, <1>12, <1>14, <1>15, Zenon

(* Two runs over signals and trades that are the same before h. *)
SeqTwin(h, s, t) ==
    /\ SameTrades(h, s.trades, t.trades)
    /\ s.next = t.next \/ (s.next >= h /\ t.next >= h)

LEMMA AppendSame ==
    ASSUME NEW S, NEW T, NEW a \in Seq(S), NEW b \in Seq(T), NEW x \in S, NEW y \in T, NEW h,
           SameTrades(h, a, b), SameTrade(h, x, y)
    PROVE  SameTrades(h, Append(a, x), Append(b, y))
<1>1. PICK n : n = Len(a) /\ n = Len(b) /\ n \in Nat
  BY LenProperties DEF SameTrades
<1>2. /\ Len(Append(a, x)) = n + 1 /\ Append(a, x)[n + 1] = x
      /\ Len(Append(b, y)) = n + 1 /\ Append(b, y)[n + 1] = y
      /\ \A k \in 1..n : Append(a, x)[k] = a[k] /\ Append(b, y)[k] = b[k]
  <2>1. Len(Append(a, x)) = n + 1 /\ Append(a, x)[n + 1] = x /\ \A k \in 1..n : Append(a, x)[k] = a[k]
    <3>1. Len(a) = n
      BY <1>1
    <3> QED
      BY <3>1, AppendProperties
  <2>2. Len(Append(b, y)) = n + 1 /\ Append(b, y)[n + 1] = y /\ \A k \in 1..n : Append(b, y)[k] = b[k]
    <3>1. Len(b) = n
      BY <1>1
    <3> QED
      BY <3>1, AppendProperties
  <2> QED
    BY <2>1, <2>2
<1>3. \A k \in 1..n : SameTrade(h, a[k], b[k])
  BY <1>1 DEF SameTrades
<1>4. \A k \in 1..(n + 1) : SameTrade(h, Append(a, x)[k], Append(b, y)[k])
  <2> SUFFICES ASSUME NEW k \in 1..(n + 1) PROVE SameTrade(h, Append(a, x)[k], Append(b, y)[k])
    OBVIOUS
  <2>1. k \in 1..n \/ k = n + 1
    BY <1>1
  <2> QED
    BY <1>2, <1>3, <2>1
<1> QED
  BY <1>2, <1>4 DEF SameTrades

LEMMA SeqBarTwin ==
    ASSUME NEW S, NEW T, NEW s \in SeqStates(S), NEW t \in SeqStates(T), NEW h \in Nat,
           SeqTwin(h, s, t), NEW gap \in Nat, NEW f, NEW g, NEW trade, NEW other,
           NEW i \in Nat, i < h, f[i] = g[i], trade[i] \in S, other[i] \in T,
           trade[i].x \in Nat, other[i].x \in Nat, SameTrade(h, trade[i], other[i])
    PROVE  SeqTwin(h, SequentialBar(gap, f, trade, s, i), SequentialBar(gap, g, other, t, i))
<1>1. s.next \in Nat /\ t.next \in Nat /\ s.trades \in Seq(S) /\ t.trades \in Seq(T)
  BY DEF SeqStates
<1>2. (i < s.next) = (i < t.next)
  BY <1>1 DEF SeqTwin
<1>3. CASE i < s.next \/ ~f[i]
  <2>1. SequentialBar(gap, f, trade, s, i) = s /\ SequentialBar(gap, g, other, t, i) = t
    BY <1>2, <1>3, Zenon DEF SequentialBar
  <2> QED
    BY <2>1
<1>4. CASE ~(i < s.next \/ ~f[i])
  <2> DEFINE u == [next |-> trade[i].x + gap, trades |-> Append(s.trades, trade[i])]
             v == [next |-> other[i].x + gap, trades |-> Append(t.trades, other[i])]
  <2>1. SequentialBar(gap, f, trade, s, i) = u /\ SequentialBar(gap, g, other, t, i) = v
    BY <1>2, <1>4, Zenon DEF SequentialBar
  <2>2. SameTrades(h, u.trades, v.trades)
    BY <1>1, AppendSame DEF SeqTwin
  <2>3. u.next = v.next \/ (u.next >= h /\ v.next >= h)
    <3>1. CASE trade[i] = other[i]
      BY <3>1
    <3>2. CASE trade[i].x >= h /\ other[i].x >= h
      BY <3>2
    <3> QED
      BY <3>1, <3>2 DEF SameTrade
  <2> QED
    BY <2>1, <2>2, <2>3 DEF SeqTwin
<1> QED
  BY <1>3, <1>4

(* Signals and trades of two runs that are the same before h. *)
SeqAlike(from, h, f, g, trade, other) ==
    /\ from \in Nat /\ h \in Nat
    /\ \A i \in from..(h - 1) : f[i] = g[i] /\ SameTrade(h, trade[i], other[i])
AllDated(from, to, trade) == to \in Int /\ \A i \in from..to : trade[i].x \in Nat

LEMMA SeqTwins ==
    ASSUME NEW from, NEW h, NEW f, NEW g, NEW trade, NEW other, SeqAlike(from, h, f, g, trade, other),
           NEW to, NEW end, AllDated(from, to, trade), AllDated(from, end, other),
           from <= h, h - 1 <= to, h - 1 <= end, NEW gap \in Nat
    PROVE  /\ SeqTwin(h, SequentialStates(from, to, gap, f, trade)[h - 1],
                         SequentialStates(from, end, gap, g, other)[h - 1])
           /\ SequentialStates(from, to, gap, f, trade)[h - 1] \in SeqStates(Traded(from, to, trade))
           /\ SequentialStates(from, end, gap, g, other)[h - 1] \in SeqStates(Traded(from, end, other))
<1> DEFINE u == SequentialStates(from, to, gap, f, trade)
           v == SequentialStates(from, end, gap, g, other)
           A == Traded(from, to, trade)
           B == Traded(from, end, other)
           T == {i \in Int : SeqTwin(h, u[i], v[i])}
<1>1. from \in Nat /\ h \in Nat /\ to \in Int /\ end \in Int /\ from - 1 <= to /\ from - 1 <= end
  BY DEF SeqAlike, AllDated
<1>2. /\ u[from - 1] = SeqStart(from)
      /\ \A i \in ((from - 1) + 1)..to : u[i] = SequentialBar(gap, f, trade, u[i - 1], i)
      /\ \A i \in (from - 1)..to : u[i] \in SeqStates(A)
  <2>1. \A i \in from..to : trade[i].x \in Nat
    BY DEF AllDated
  <2> QED
    BY <1>1, <2>1, SeqRuns, Zenon
<1>3. /\ v[from - 1] = SeqStart(from)
      /\ \A i \in ((from - 1) + 1)..end : v[i] = SequentialBar(gap, g, other, v[i - 1], i)
      /\ \A i \in (from - 1)..end : v[i] \in SeqStates(B)
  <2>1. \A i \in from..end : other[i].x \in Nat
    BY DEF AllDated
  <2> QED
    BY <1>1, <2>1, SeqRuns, Zenon
<1> HIDE DEF u, v
<1>4. from - 1 \in T
  <2>1. Len(<<>>) = 0
    BY EmptySeq
  <2>2. SeqTwin(h, SeqStart(from), SeqStart(from))
    BY <2>1 DEF SeqTwin, SeqStart, SameTrades
  <2> QED
    BY <1>1, <1>2, <1>3, <2>2
<1>5. ASSUME NEW i \in ((from - 1) + 1)..(h - 1), i - 1 \in T
      PROVE  i \in T
  <2>1. /\ i \in Nat /\ i < h /\ i \in from..(h - 1) /\ i \in from..to /\ i \in from..end /\ i \in Int
        /\ i - 1 \in (from - 1)..to /\ i - 1 \in (from - 1)..end
        /\ i \in ((from - 1) + 1)..to /\ i \in ((from - 1) + 1)..end
    BY <1>1
  <2>2. trade[i] \in A /\ other[i] \in B /\ trade[i].x \in Nat /\ other[i].x \in Nat
    BY <2>1 DEF Traded, AllDated
  <2>3. f[i] = g[i] /\ SameTrade(h, trade[i], other[i])
    BY <2>1 DEF SeqAlike
  <2> HIDE DEF A, B
  <2>4. u[i - 1] \in SeqStates(A) /\ v[i - 1] \in SeqStates(B) /\ SeqTwin(h, u[i - 1], v[i - 1])
    BY <1>2, <1>3, <1>5, <2>1
  <2>5. SeqTwin(h, SequentialBar(gap, f, trade, u[i - 1], i), SequentialBar(gap, g, other, v[i - 1], i))
    BY <1>1, <2>1, <2>2, <2>3, <2>4, SeqBarTwin
  <2>6. u[i] = SequentialBar(gap, f, trade, u[i - 1], i) /\ v[i] = SequentialBar(gap, g, other, v[i - 1], i)
    BY <1>2, <1>3, <2>1, Zenon
  <2> QED
    BY <2>1, <2>5, <2>6
<1> HIDE DEF T
<1>6. (from - 1)..(h - 1) \subseteq T
  <2>1. \A i \in ((from - 1) + 1)..(h - 1) : i - 1 \in T => i \in T
    BY <1>5
  <2>2. from - 1 \in Int /\ h - 1 \in Int
    BY <1>1
  <2> QED
    BY <1>4, <2>1, <2>2, IntervalInduction, Zenon
<1>7. h - 1 \in (from - 1)..(h - 1) /\ h - 1 \in (from - 1)..to /\ h - 1 \in (from - 1)..end
  BY <1>1
<1>8. h - 1 \in T
  BY <1>6, <1>7
<1> QED
  BY <1>2, <1>3, <1>7, <1>8, Zenon DEF T, u, v

LEMMA SameKeeps ==
    ASSUME NEW S, NEW T, NEW a \in Seq(S), NEW b \in Seq(T), NEW h, SameTrades(h, a, b), h \in Nat,
           \A s \in S : s.x \in Nat
    PROVE  KeepsUpTo(h, a, b) /\ \A y \in T : KeepsUpTo(h, a, Append(b, y))
<1>1. PICK n : n = Len(a) /\ n = Len(b) /\ n \in Nat /\ DOMAIN a = 1..n
  BY LenProperties DEF SameTrades
<1>2. \A k \in 1..n : SameTrade(h, a[k], b[k]) /\ a[k].x \in Nat
  <2>1. \A k \in 1..n : a[k] \in S
    BY <1>1, ElementOfSeq
  <2> QED
    BY <1>1, <2>1 DEF SameTrades
<1>3. \A k \in 1..n : a[k].e = b[k].e /\ (a[k].x < h => a[k] = b[k])
  BY <1>2 DEF SameTrade
<1>4. KeepsUpTo(h, a, b)
  BY <1>1, <1>3 DEF KeepsUpTo
<1>5. ASSUME NEW y \in T
      PROVE  KeepsUpTo(h, a, Append(b, y))
  <2>1. Len(Append(b, y)) = n + 1 /\ \A k \in 1..n : Append(b, y)[k] = b[k]
    BY <1>1, AppendProperties
  <2> QED
    BY <1>1, <1>3, <2>1 DEF KeepsUpTo
<1> QED
  BY <1>4, <1>5

LEMMA SameEntries ==
    ASSUME NEW S, NEW T, NEW a \in Seq(S), NEW b \in Seq(T), NEW h, SameTrades(h, a, b)
    PROVE  Entries(a) = Entries(b)
<1>1. PICK n : n = Len(a) /\ n = Len(b) /\ n \in Nat /\ DOMAIN a = 1..n /\ DOMAIN b = 1..n
  BY LenProperties DEF SameTrades
<1>2. \A k \in 1..n : a[k].e = b[k].e
  BY <1>1 DEF SameTrades, SameTrade
<1> QED
  BY <1>1, <1>2 DEF Entries

(* One bar more, for the second run: it takes nothing back. *)
LEMMA SeqKeeps ==
    ASSUME NEW from, NEW h, NEW f, NEW g, NEW trade, NEW other, SeqAlike(from, h, f, g, trade, other),
           AllDated(from, h - 1, trade), AllDated(from, h, other), NEW gap \in Nat
    PROVE  KeepsUpTo(h, Sequential(from, h - 1, gap, f, trade), Sequential(from, h, gap, g, other))
<1> DEFINE u == SequentialStates(from, h - 1, gap, f, trade)
           v == SequentialStates(from, h, gap, g, other)
           A == Traded(from, h - 1, trade)
           B == Traded(from, h, other)
<1>1. from \in Nat /\ h \in Nat
  BY DEF SeqAlike
<1>2. CASE h - 1 < from
  <2>1. Sequential(from, h - 1, gap, f, trade) = <<>>
    BY <1>2 DEF Sequential
  <2>2. Len(Sequential(from, h, gap, g, other)) \in Nat
    <3>1. CASE h < from
      <4>1. Sequential(from, h, gap, g, other) = <<>>
        BY <3>1 DEF Sequential
      <4> QED
        BY <4>1, EmptySeq
    <3>2. CASE ~(h < from)
      <4>1. from - 1 <= h /\ h \in Int /\ h \in (from - 1)..h /\ \A i \in from..h : other[i].x \in Nat
        BY <1>1, <3>2 DEF AllDated
      <4>2. v[h] \in SeqStates(B)
        BY <1>1, <4>1, SeqRuns, Zenon
      <4>3. v[h].trades \in Seq(B)
        BY <4>2 DEF SeqStates
      <4>4. Sequential(from, h, gap, g, other) = v[h].trades
        BY <3>2, Zenon DEF Sequential
      <4> HIDE DEF v, B
      <4> QED
        BY <4>3, <4>4, LenProperties
    <3> QED
      BY <3>1, <3>2
  <2>3. Len(<<>>) = 0 /\ DOMAIN <<>> = {}
    BY EmptySeq
  <2> QED
    BY <2>1, <2>2, <2>3 DEF KeepsUpTo
<1>3. CASE ~(h - 1 < from)
  <2>1. from <= h /\ h - 1 <= h - 1 /\ h - 1 <= h /\ from - 1 <= h /\ h \in ((from - 1) + 1)..h /\ ~(h < from)
        /\ h \in from..h
    BY <1>1, <1>3
  <2>2. /\ SeqTwin(h, u[h - 1], v[h - 1]) /\ u[h - 1] \in SeqStates(A) /\ v[h - 1] \in SeqStates(B)
    BY <2>1, SeqTwins, Zenon
  <2>3. v[h] = SequentialBar(gap, g, other, v[h - 1], h)
    <3>1. \A i \in from..h : other[i].x \in Nat
      BY DEF AllDated
    <3>2. h \in Int
      BY <1>1
    <3>4. from - 1 <= h
      BY <2>1
    <3>3. /\ v[from - 1] = SeqStart(from)
          /\ \A i \in ((from - 1) + 1)..h : v[i] = SequentialBar(gap, g, other, v[i - 1], i)
          /\ \A i \in (from - 1)..h : v[i] \in SeqStates(B)
      BY <1>1, <3>1, <3>2, <3>4, SeqRuns, Zenon
    <3> QED
      BY <2>1, <3>3, Zenon
  <2>4. Sequential(from, h - 1, gap, f, trade) = u[h - 1].trades /\ Sequential(from, h, gap, g, other) = v[h].trades
    BY <1>3, <2>1, Zenon DEF Sequential
  <2>5. other[h] \in B
    BY <2>1 DEF Traded
  <2>6. \A s \in A : s.x \in Nat
    BY DEF Traded, AllDated
  <2> HIDE DEF u, v, A, B
  <2>7. /\ u[h - 1].trades \in Seq(A) /\ v[h - 1].trades \in Seq(B)
        /\ SameTrades(h, u[h - 1].trades, v[h - 1].trades)
    BY <2>2 DEF SeqStates, SeqTwin
  <2>8. KeepsUpTo(h, u[h - 1].trades, v[h - 1].trades)
        /\ KeepsUpTo(h, u[h - 1].trades, Append(v[h - 1].trades, other[h]))
    BY <1>1, <2>5, <2>6, <2>7, SameKeeps
  <2>9. v[h].trades = v[h - 1].trades \/ v[h].trades = Append(v[h - 1].trades, other[h])
    BY <2>3 DEF SequentialBar
  <2> QED
    BY <2>4, <2>8, <2>9
<1> QED
  BY <1>2, <1>3

LEMMA SeqEntries ==
    ASSUME NEW from, NEW h, NEW f, NEW g, NEW trade, NEW other, SeqAlike(from, h, f, g, trade, other),
           AllDated(from, h - 1, trade), AllDated(from, h - 1, other), NEW gap \in Nat
    PROVE  Entries(Sequential(from, h - 1, gap, f, trade)) = Entries(Sequential(from, h - 1, gap, g, other))
<1> DEFINE u == SequentialStates(from, h - 1, gap, f, trade)
           v == SequentialStates(from, h - 1, gap, g, other)
           A == Traded(from, h - 1, trade)
           B == Traded(from, h - 1, other)
<1>1. from \in Nat /\ h \in Nat
  BY DEF SeqAlike
<1>2. CASE h - 1 < from
  BY <1>2 DEF Sequential
<1>3. CASE ~(h - 1 < from)
  <2>1. from <= h /\ h - 1 <= h - 1
    BY <1>1, <1>3
  <2>2. SeqTwin(h, u[h - 1], v[h - 1]) /\ u[h - 1] \in SeqStates(A) /\ v[h - 1] \in SeqStates(B)
    BY <2>1, SeqTwins, Zenon
  <2>3. Sequential(from, h - 1, gap, f, trade) = u[h - 1].trades /\ Sequential(from, h - 1, gap, g, other) = v[h - 1].trades
    BY <1>3, Zenon DEF Sequential
  <2> HIDE DEF u, v, A, B
  <2>4. /\ u[h - 1].trades \in Seq(A) /\ v[h - 1].trades \in Seq(B)
        /\ SameTrades(h, u[h - 1].trades, v[h - 1].trades)
    BY <2>2 DEF SeqStates, SeqTwin
  <2> QED
    BY <2>3, <2>4, SameEntries
<1> QED
  BY <1>2, <1>3

-----------------------------------------------------------------------------
(* What the simulators compute of the bars, on two series that share them. *)

LEMMA ClosesIn ==
    ASSUME NEW bs, Hourly(bs)
    PROVE  /\ DOMAIN Closes(bs) = 1..Len(bs) /\ \A i \in 1..Len(bs) : Closes(bs)[i] = bs[i].c
           /\ \A i \in 1..Len(bs) : Closes(bs)[i] \in Int
<1>1. \A i \in 1..Len(bs) : bs[i].c \in Int
  BY HourFields DEF Hourly
<1> QED
  BY <1>1 DEF Closes, Hourly

EmaBar(x, n, e, i) == (2 * x[i] + (n - 1) * e) \div (n + 1)
EmaFirstFollows(x, n, f) == f = [i \in DOMAIN x |-> IF i = 1 THEN x[1] ELSE EmaBar(x, n, f[i - 1], i)]

LEMMA EmaBarIn ==
    ASSUME NEW x, NEW i, x[i] \in Int, NEW n \in Nat \ {0}, NEW e \in Int
    PROVE  EmaBar(x, n, e, i) \in Int
<1>1. (n - 1) * e \in Int
  <2>1. n - 1 \in Int
    OBVIOUS
  <2> QED
    BY <2>1, IntProducts
<1>2. PICK a, b : a = x[i] /\ b = (n - 1) * e /\ a \in Int /\ b \in Int
  BY <1>1
<1>3. (2 * a + b) \div (n + 1) \in Int
  <2>1. 2 * a + b \in Int /\ n + 1 \in Int /\ n + 1 > 0
    BY <1>2
  <2>2. PICK c, d : c = 2 * a + b /\ d = n + 1 /\ c \in Int /\ d \in Int /\ d > 0
    BY <2>1
  <2>3. c \div d \in Int
    BY <2>2
  <2> QED
    BY <2>2, <2>3
<1> QED
  BY <1>2, <1>3, Zenon DEF EmaBar

LEMMA EmaFirstRuns ==
    ASSUME NEW bs, Hourly(bs), NEW n \in Nat \ {0}
    PROVE  /\ ema_first(Closes(bs), n)[1] = Closes(bs)[1]
           /\ \A i \in (1 + 1)..Len(bs) : ema_first(Closes(bs), n)[i] = EmaBar(Closes(bs), n, ema_first(Closes(bs), n)[i - 1], i)
           /\ \A i \in 1..Len(bs) : ema_first(Closes(bs), n)[i] \in Int
<1> DEFINE G == [z \in ((1 + 1)..Len(bs)) \X Int |-> EmaBar(Closes(bs), n, z[2], z[1])]
<1>0. 1 \in Int /\ Len(bs) \in Int /\ 1 <= Len(bs) /\ Closes(bs)[1] \in Int
  <2>1. Len(bs) \in Int /\ 1 <= Len(bs) /\ 1 \in 1..Len(bs)
    BY DEF Hourly
  <2> QED
    BY <2>1, ClosesIn
<1>1. \A i \in (1 + 1)..Len(bs), u \in Int : EmaBar(Closes(bs), n, u, i) \in Int
  <2> SUFFICES ASSUME NEW i \in (1 + 1)..Len(bs), NEW u \in Int PROVE EmaBar(Closes(bs), n, u, i) \in Int
    OBVIOUS
  <2>1. Closes(bs)[i] \in Int
    BY <1>0, ClosesIn
  <2> QED
    BY <2>1, EmaBarIn
<1>2. \A i \in (1 + 1)..Len(bs), u \in Int : G[<<i, u>>] = EmaBar(Closes(bs), n, u, i)
  OBVIOUS
<1> HIDE DEF G
<1>3. PICK f \in [1..Len(bs) -> Int] : Repeats(f, Closes(bs)[1], G, 1, Len(bs))
  <2>1. \A i \in (1 + 1)..Len(bs), u \in Int : G[<<i, u>>] \in Int
    BY <1>1, <1>2, Zenon
  <2> QED
    BY <1>0, <2>1, SomeRepeats, Zenon
<1>4. \A i \in 1..Len(bs) : f[i] = IF i = 1 THEN Closes(bs)[1] ELSE G[<<i, f[i - 1]>>]
  BY <1>3, Zenon DEF Repeats
<1>5. \A i \in 1..Len(bs) : f[i] = IF i = 1 THEN Closes(bs)[1] ELSE EmaBar(Closes(bs), n, f[i - 1], i)
  <2> SUFFICES ASSUME NEW i \in 1..Len(bs), i # 1 PROVE f[i] = EmaBar(Closes(bs), n, f[i - 1], i)
    BY <1>4, Zenon
  <2>1. i \in (1 + 1)..Len(bs) /\ i - 1 \in 1..Len(bs)
    BY <1>0
  <2>2. f[i - 1] \in Int
    BY <1>3, <2>1, Zenon
  <2> QED
    BY <1>2, <1>4, <2>1, <2>2, Zenon
<1>6. f = [i \in 1..Len(bs) |-> f[i]]
  BY <1>3, Zenon
<1>7. EmaFirstFollows(Closes(bs), n, f)
  <2>1. DOMAIN Closes(bs) = 1..Len(bs) 
    BY ClosesIn
  <2> QED
    BY <1>5, <1>6, <2>1, Zenon DEF EmaFirstFollows
<1>8. ema_first(Closes(bs), n) = CHOOSE g : EmaFirstFollows(Closes(bs), n, g)
  BY Zenon DEF ema_first, EmaFirstFollows, EmaBar
<1>9. PICK g : EmaFirstFollows(Closes(bs), n, g) /\ ema_first(Closes(bs), n) = g
  BY <1>7, <1>8, Zenon
<1>10. \A i \in 1..Len(bs) : g[i] = IF i = 1 THEN Closes(bs)[1] ELSE EmaBar(Closes(bs), n, g[i - 1], i)
  <2>1. DOMAIN Closes(bs) = 1..Len(bs)
    BY ClosesIn
  <2> QED
    BY <1>9, <2>1, Zenon DEF EmaFirstFollows
<1> DEFINE T == {i \in Int : g[i] \in Int}
<1>11. 1 \in T
  <2>1. 1 \in 1..Len(bs)
    BY <1>0
  <2> QED
    BY <1>0, <1>10, <2>1, Zenon
<1>12. ASSUME NEW i \in (1 + 1)..Len(bs)
       PROVE  /\ g[i] = EmaBar(Closes(bs), n, g[i - 1], i)
              /\ i - 1 \in T => i \in T
  <2>1. i \in 1..Len(bs) /\ i # 1 /\ i \in Int
    BY <1>0
  <2>2. g[i] = EmaBar(Closes(bs), n, g[i - 1], i)
    BY <1>10, <2>1, Zenon
  <2> QED
    BY <1>1, <2>1, <2>2, Zenon
<1> HIDE DEF T
<1>13. 1..Len(bs) \subseteq T
  <2>1. \A i \in (1 + 1)..Len(bs) : i - 1 \in T => i \in T
    BY <1>12, Zenon
  <2>2. 1 \in Int /\ Len(bs) \in Int
    BY <1>0, Zenon
  <2> QED
    BY <1>11, <2>1, <2>2, IntervalInduction, Zenon
<1>14. \A i \in 1..Len(bs) : g[i] \in Int
  BY <1>13, Zenon DEF T
<1>15. g[1] = Closes(bs)[1]
  <2>1. 1 \in 1..Len(bs)
    BY <1>0
  <2> QED
    BY <1>10, <2>1, Zenon
<1> QED
  BY <1>9, <1>12, <1>14, <1>15, Zenon

LEMMA EmaFirstSame ==
    ASSUME NEW bs, NEW cs, NEW k, Hourly(bs), Hourly(cs), Agree(bs, cs, k), NEW n \in Nat \ {0}
    PROVE  \A i \in 1..k : ema_first(Closes(bs), n)[i] = ema_first(Closes(cs), n)[i]
<1> DEFINE x == Closes(bs)
           y == Closes(cs)
           f == ema_first(x, n)
           g == ema_first(y, n)
           T == {i \in Int : f[i] = g[i]}
<1>1. /\ k \in Nat /\ \A i \in 1..k : i \in 1..Len(bs) /\ i \in 1..Len(cs) /\ bs[i] = cs[i]
      /\ Len(bs) \in Nat \ {0} /\ Len(cs) \in Nat \ {0} /\ k <= Len(bs) /\ k <= Len(cs)
  BY DEF Agree, Hourly
<1>2. \A i \in 1..k : x[i] = y[i]
  BY <1>1, ClosesIn
<1>3. f[1] = x[1] /\ \A i \in (1 + 1)..Len(bs) : f[i] = EmaBar(x, n, f[i - 1], i)
  BY EmaFirstRuns
<1>4. g[1] = y[1] /\ \A i \in (1 + 1)..Len(cs) : g[i] = EmaBar(y, n, g[i - 1], i)
  BY EmaFirstRuns
<1> HIDE DEF x, y, f, g
<1>5. CASE k >= 1
  <2>1. 1 \in T
    BY <1>1, <1>2, <1>3, <1>4, <1>5
  <2>2. ASSUME NEW i \in (1 + 1)..k, i - 1 \in T
        PROVE  i \in T
    <3>1. i \in 1..k /\ i \in (1 + 1)..Len(bs) /\ i \in (1 + 1)..Len(cs) /\ i \in Int
      BY <1>1
    <3>2. f[i - 1] = g[i - 1] /\ x[i] = y[i]
      BY <1>2, <2>2, <3>1
    <3>3. EmaBar(x, n, f[i - 1], i) = EmaBar(y, n, g[i - 1], i)
      BY <3>2, Zenon DEF EmaBar
    <3> QED
      BY <1>3, <1>4, <3>1, <3>3
  <2> HIDE DEF T
  <2>3. 1..k \subseteq T
    <3>1. \A i \in (1 + 1)..k : i - 1 \in T => i \in T
      BY <2>2
    <3>2. 1 \in Int /\ k \in Int
      BY <1>1
    <3> QED
      BY <2>1, <3>1, <3>2, IntervalInduction, Zenon
  <2> QED
    BY <2>3 DEF T, f, g, x, y
<1>6. CASE ~(k >= 1)
  BY <1>1, <1>6
<1> QED
  BY <1>5, <1>6

LEMMA CloseSame ==
    ASSUME NEW bs, NEW cs, NEW k, Hourly(bs), Hourly(cs), Agree(bs, cs, k)
    PROVE  /\ \A i \in 1..k : Closes(bs)[i] = Closes(cs)[i]
           /\ k \in Nat /\ \A i \in 1..k : i \in DOMAIN bs /\ i \in DOMAIN cs /\ bs[i] = cs[i]
                                          /\ i \in 1..Len(bs) /\ i \in 1..Len(cs)
<1>1. /\ k \in Nat /\ \A i \in 1..k : i \in 1..Len(bs) /\ i \in 1..Len(cs) /\ bs[i] = cs[i]
  BY DEF Agree, Hourly
<1>2. DOMAIN bs = 1..Len(bs) /\ DOMAIN cs = 1..Len(cs)
  BY DEF Hourly
<1>3. \A i \in 1..k : Closes(bs)[i] = Closes(cs)[i]
  BY <1>1, ClosesIn
<1> QED
  BY <1>1, <1>2, <1>3

LEMMA MoveSame ==
    ASSUME NEW bs, NEW cs, NEW k, Hourly(bs), Hourly(cs), Agree(bs, cs, k), NEW i \in 1..k,
           NEW lag \in Nat, NEW d, NEW p
    PROVE  Beyond(d, Closes(bs), lag, i, p) = Beyond(d, Closes(cs), lag, i, p)
<1>1. k \in Nat /\ \A j \in 1..k : Closes(bs)[j] = Closes(cs)[j]
  BY CloseSame
<1>2. i \in Nat /\ \A j \in 1..i : j \in 1..k
  BY <1>1
<1>3. PICK x, y : x = Closes(bs) /\ y = Closes(cs)
  OBVIOUS
<1>4. \A j \in 1..i : x[j] = y[j]
  BY <1>1, <1>2, <1>3
<1> QED
  BY <1>2, <1>3, <1>4, BeyondSame

(* The momentum's signal. *)
LEMMA EntrySame ==
    ASSUME NEW bs, NEW cs, NEW k, Hourly(bs), Hourly(cs), Agree(bs, cs, k), NEW d, NEW cell
    PROVE  \A i \in 1..k : make_entry(d, cell, bs)[i] = make_entry(d, cell, cs)[i]
<1> SUFFICES ASSUME NEW i \in 1..k PROVE make_entry(d, cell, bs)[i] = make_entry(d, cell, cs)[i]
  OBVIOUS
<1> DEFINE x == Closes(bs)
           y == Closes(cs)
<1>1. i \in DOMAIN bs /\ i \in DOMAIN cs
  BY CloseSame
<1>2. FastSpan \in Nat \ {0} /\ SlowSpan \in Nat \ {0} /\ LagW \in Nat /\ LagD \in Nat
  BY LegsNumbers
<1>3. ema_first(x, FastSpan)[i] = ema_first(y, FastSpan)[i] /\ ema_first(x, SlowSpan)[i] = ema_first(y, SlowSpan)[i]
  BY <1>2, EmaFirstSame
<1>4. /\ Beyond(d, x, LagW, i, cell.pct) = Beyond(d, y, LagW, i, cell.pct)
      /\ Beyond(d, x, LagD, i, cell.pct) = Beyond(d, y, LagD, i, cell.pct)
  <2>1. \A lag \in Nat : Beyond(d, x, lag, i, cell.pct) = Beyond(d, y, lag, i, cell.pct)
    BY MoveSame
  <2> QED
    BY <1>2, <2>1, Zenon
<1>5. make_entry(d, cell, bs)[i] =
        IF cell.kind = "A" THEN Beyond(d, x, LagW, i, cell.pct)
        ELSE d * ema_first(x, FastSpan)[i] > d * ema_first(x, SlowSpan)[i] /\ Beyond(d, x, LagD, i, cell.pct)
  BY <1>1, Zenon DEF make_entry
<1>6. make_entry(d, cell, cs)[i] =
        IF cell.kind = "A" THEN Beyond(d, y, LagW, i, cell.pct)
        ELSE d * ema_first(y, FastSpan)[i] > d * ema_first(y, SlowSpan)[i] /\ Beyond(d, y, LagD, i, cell.pct)
  BY <1>1, Zenon DEF make_entry
<1> QED
  BY <1>3, <1>4, <1>5, <1>6, Zenon

-----------------------------------------------------------------------------
(* The bar a trade ends on: the first of some, or the last there is. *)

FirstOr(D, L) == IF D = {} THEN L ELSE Min(D)

LEMMA FirstOrIs ==
    ASSUME NEW lo \in Int, NEW L \in Int, NEW D, D \subseteq lo..L
    PROVE  /\ D = {} => FirstOr(D, L) = L
           /\ D # {} => FirstOr(D, L) \in D /\ \A y \in D : FirstOr(D, L) <= y
           /\ FirstOr(D, L) \in Int /\ FirstOr(D, L) <= L
           /\ lo <= L => FirstOr(D, L) >= lo
<1>1. CASE D = {}
  BY <1>1 DEF FirstOr
<1>2. CASE D # {}
  <2>1. D \subseteq Int
    OBVIOUS
  <2>2. IsFiniteSet(D)
    <3>1. IsFiniteSet(lo..L)
      BY FS_Interval, Zenon
    <3> QED
      BY <3>1, FS_Subset, Zenon
  <2>3. PICK a \in D : \A y \in D : a <= y
    BY <1>2, <2>1, <2>2, SomeExtremes
  <2>4. Min(D) = a
    BY <2>1, <2>3, MinIs
  <2>5. FirstOr(D, L) = a
    BY <1>2, <2>4 DEF FirstOr
  <2>6. a \in Int /\ lo <= a /\ a <= L
    BY <2>1, <2>3
  <2> QED
    BY <1>2, <2>3, <2>5, <2>6
<1> QED
  BY <1>1, <1>2

(* They are the same before h: so is the first, or there is none before h. *)
LEMMA FirstTwin ==
    ASSUME NEW lo \in Int, NEW L \in Int, NEW M \in Int, NEW h \in Int, NEW C, NEW D,
           C \subseteq lo..L, D \subseteq lo..M, L = M \/ (L >= h /\ M >= h),
           \A j \in Int : j < h => (j \in C <=> j \in D)
    PROVE  \/ /\ FirstOr(C, L) = FirstOr(D, M) /\ FirstOr(C, L) < h
              /\ C = {} <=> D = {}
              /\ C # {} => FirstOr(C, L) \in C /\ FirstOr(C, L) \in D
           \/ FirstOr(C, L) >= h /\ FirstOr(D, M) >= h
<1> DEFINE a == FirstOr(C, L)
           b == FirstOr(D, M)
<1>1. /\ C = {} => a = L
      /\ C # {} => a \in C /\ \A y \in C : a <= y
      /\ a \in Int /\ a <= L
  BY FirstOrIs
<1>2. /\ D = {} => b = M
      /\ D # {} => b \in D /\ \A y \in D : b <= y
      /\ b \in Int /\ b <= M
  BY FirstOrIs
<1> HIDE DEF a, b
<1>3. CASE C # {} /\ a < h
  <2>1. a \in D
    BY <1>1, <1>3
  <2>2. b <= a
    BY <1>2, <2>1
  <2>3. b \in C
    BY <1>1, <1>2, <1>3, <2>1, <2>2
  <2> QED
    BY <1>1, <1>2, <1>3, <2>1, <2>2, <2>3 DEF a, b
<1>4. CASE D # {} /\ b < h
  <2>1. b \in C
    BY <1>2, <1>4
  <2>2. a <= b
    BY <1>1, <2>1
  <2>3. a \in D
    BY <1>1, <1>2, <1>4, <2>1, <2>2
  <2> QED
    BY <1>1, <1>2, <1>4, <2>1, <2>2, <2>3 DEF a, b
<1>5. CASE ~(C # {} /\ a < h) /\ ~(D # {} /\ b < h)
  BY <1>1, <1>2, <1>5 DEF a, b
<1> QED
  BY <1>3, <1>4, <1>5

LEMMA SharedBars ==
    ASSUME NEW bs, NEW cs, NEW h, Shared(bs, cs, h)
    PROVE  /\ Len(bs) \in Int /\ Len(cs) \in Int /\ h \in Nat \ {0} /\ h <= Len(bs) /\ h <= Len(cs)
           /\ \A i \in 1..(h - 1) : bs[i] = cs[i]
BY DEF Shared, Agree, Hourly

(* What a bar does to a momentum trade. *)
LEMMA MomentumFillSame ==
    ASSUME NEW bs, NEW cs, NEW h, Shared(bs, cs, h), NEW E, NEW F, \A i \in 1..(h - 1) : E[i] = F[i],
           NEW d, NEW cell, NEW e \in Nat \ {0}, NEW j \in (e + 1)..(h - 1)
    PROVE  MomentumFill(d, cell, bs, E, e, j) = MomentumFill(d, cell, cs, F, e, j)
<1> DEFINE p == {d * Best(d, bs[k]) : k \in (e + 1)..(j - 1)}
           q == {d * Best(d, cs[k]) : k \in (e + 1)..(j - 1)}
<1>1. h \in Nat \ {0} /\ \A i \in 1..(h - 1) : bs[i] = cs[i]
  BY SharedBars
<1>2. /\ e \in 1..(h - 1) /\ j \in 1..(h - 1) /\ \A k \in (e + 1)..(j - 1) : k \in 1..(h - 1)
  BY <1>1
<1>3. bs[e] = cs[e] /\ bs[j] = cs[j] /\ \A k \in (e + 1)..(j - 1) : bs[k] = cs[k] /\ E[k] = F[k]
  BY <1>1, <1>2, Zenon
<1>4. p = q
  BY <1>3, Zenon
<1>5. (\E k \in (e + 1)..(j - 1) : ~E[k]) <=> (\E k \in (e + 1)..(j - 1) : ~F[k])
  BY <1>3, Zenon
<1> DEFINE gone(x) == cell.cond /\ \E k \in (e + 1)..(j - 1) : ~x[k]
           g1 == IF gone(E) \/ j >= e + cell.cap THEN 100 * bs[j].c ELSE NoValue
           g2 == IF gone(F) \/ j >= e + cell.cap THEN 100 * cs[j].c ELSE NoValue
<1>6. g1 = g2
  BY <1>3, <1>5, Zenon
<1> HIDE DEF p, q
<1>7. Max({d * bs[e].c} \cup p) = Max({d * cs[e].c} \cup q)
  BY <1>3, <1>4, Zenon
<1>8. MomentumFill(d, cell, bs, E, e, j) =
        FirstFill(IF cell.s > 0 THEN Against(d, bs[j], bs[e].c * (100 - d * cell.s)) ELSE NoValue,
                  IF cell.z > 0 THEN Against(d, bs[j], (d * Max({d * bs[e].c} \cup p)) * (100 - d * cell.z)) ELSE NoValue,
                  IF cell.t > 0 THEN Towards(d, bs[j], bs[e].c * (100 + d * cell.t)) ELSE NoValue, g1)
  BY MomentumFillIs, Zenon DEF p
<1>9. MomentumFill(d, cell, cs, F, e, j) =
        FirstFill(IF cell.s > 0 THEN Against(d, cs[j], cs[e].c * (100 - d * cell.s)) ELSE NoValue,
                  IF cell.z > 0 THEN Against(d, cs[j], (d * Max({d * cs[e].c} \cup q)) * (100 - d * cell.z)) ELSE NoValue,
                  IF cell.t > 0 THEN Towards(d, cs[j], cs[e].c * (100 + d * cell.t)) ELSE NoValue, g2)
  BY MomentumFillIs, Zenon DEF q
<1> HIDE DEF g1, g2
<1> DEFINE v == Max({d * bs[e].c} \cup p)
           w == Max({d * cs[e].c} \cup q)
           trail(b, m) == IF cell.z > 0 THEN Against(d, b, (d * m) * (100 - d * cell.z)) ELSE NoValue
           stop(b, a) == IF cell.s > 0 THEN Against(d, b, a.c * (100 - d * cell.s)) ELSE NoValue
           target(b, a) == IF cell.t > 0 THEN Towards(d, b, a.c * (100 + d * cell.t)) ELSE NoValue
<1>10. MomentumFill(d, cell, bs, E, e, j) = FirstFill(stop(bs[j], bs[e]), trail(bs[j], v), target(bs[j], bs[e]), g1)
  BY <1>8, Zenon
<1>11. MomentumFill(d, cell, cs, F, e, j) = FirstFill(stop(cs[j], cs[e]), trail(cs[j], w), target(cs[j], cs[e]), g2)
  BY <1>9, Zenon
<1>12. v = w
  BY <1>7
<1> HIDE DEF v, w, trail, stop, target
<1> QED
  BY <1>3, <1>6, <1>10, <1>11, <1>12, Zenon

MomentumDone(d, cell, bs, entry, e) ==
    {j \in (e + 1)..Len(bs) : MomentumFill(d, cell, bs, entry, e, j) # NoValue}
MomentumReport(d, bs, e, x, px) ==
    [e |-> e, x |-> x, px |-> px, net |-> Profit(d, 100 * bs[e].c, px) - 2 * Fee(1000)]

LEMMA MomentumTradeIs ==
    ASSUME NEW bs, Hourly(bs), NEW entry, NEW d, NEW cell, NEW e \in 1..Len(bs)
    PROVE  LET done == MomentumDone(d, cell, bs, entry, e)
               x == FirstOr(done, Len(bs))
               trade == MomentumTrade(d, cell, bs, entry, e)
           IN  /\ trade.e = e /\ trade.x = x /\ x \in Nat
               /\ done # {} => trade = MomentumReport(d, bs, e, x, MomentumFill(d, cell, bs, entry, e, x))
<1> DEFINE done == MomentumDone(d, cell, bs, entry, e)
           x == FirstOr(done, Len(bs))
           px == IF done = {} THEN 100 * bs[Len(bs)].c ELSE MomentumFill(d, cell, bs, entry, e, x)
<1>1. MomentumTrade(d, cell, bs, entry, e) = MomentumReport(d, bs, e, x, px)
  BY Zenon DEF MomentumTrade, MomentumDone, MomentumReport, FirstOr
<1>2. x \in Nat
  <2>1. done \subseteq (e + 1)..Len(bs) /\ e + 1 \in Int /\ Len(bs) \in Int /\ e \in Nat
    BY DEF MomentumDone, Hourly
  <2> HIDE DEF done
  <2>2. /\ x \in Int
        /\ done = {} => x = Len(bs)
        /\ done # {} => x \in done
    BY <2>1, FirstOrIs
  <2> QED
    BY <2>1, <2>2 DEF Hourly
<1>4. done # {} => px = MomentumFill(d, cell, bs, entry, e, x)
  OBVIOUS
<1> HIDE DEF x, px, done
<1>3. MomentumReport(d, bs, e, x, px).x = x /\ MomentumReport(d, bs, e, x, px).e = e
  BY DEF MomentumReport
<1>5. done # {} => MomentumTrade(d, cell, bs, entry, e) = MomentumReport(d, bs, e, x, MomentumFill(d, cell, bs, entry, e, x))
  BY <1>1, <1>4, Zenon
<1> QED
  BY <1>1, <1>2, <1>3, <1>5, Zenon DEF x, done

LEMMA MomentumTwin ==
    ASSUME NEW bs, NEW cs, NEW h, Shared(bs, cs, h), NEW E, NEW F, \A i \in 1..(h - 1) : E[i] = F[i],
           NEW d, NEW cell, NEW e \in 1..h
    PROVE  SameTrade(h, MomentumTrade(d, cell, bs, E, e), MomentumTrade(d, cell, cs, F, e))
<1> DEFINE C == MomentumDone(d, cell, bs, E, e)
           D == MomentumDone(d, cell, cs, F, e)
           a == FirstOr(C, Len(bs))
           b == FirstOr(D, Len(cs))
           A == MomentumTrade(d, cell, bs, E, e)
           B == MomentumTrade(d, cell, cs, F, e)
<1>1. /\ Len(bs) \in Int /\ Len(cs) \in Int /\ h \in Nat \ {0} /\ h <= Len(bs) /\ h <= Len(cs)
      /\ \A i \in 1..(h - 1) : bs[i] = cs[i]
  BY SharedBars
<1>2. e \in 1..Len(bs) /\ e \in 1..Len(cs) /\ e \in Nat \ {0} /\ e + 1 \in Int /\ h \in Int
  BY <1>1
<1>3. ASSUME NEW j \in (e + 1)..(h - 1)
      PROVE  MomentumFill(d, cell, bs, E, e, j) = MomentumFill(d, cell, cs, F, e, j)
  BY <1>2, MomentumFillSame
<1>4. \A j \in Int : j < h => (j \in C <=> j \in D)
  <2> SUFFICES ASSUME NEW j \in Int, j < h PROVE j \in C <=> j \in D
    OBVIOUS
  <2>1. j \in (e + 1)..(h - 1) <=> j \in (e + 1)..Len(bs)
    BY <1>1, <1>2
  <2>2. j \in (e + 1)..(h - 1) <=> j \in (e + 1)..Len(cs)
    BY <1>1, <1>2
  <2> QED
    BY <1>3, <2>1, <2>2, Zenon DEF MomentumDone
<1>5. C \subseteq (e + 1)..Len(bs) /\ D \subseteq (e + 1)..Len(cs)
  BY DEF MomentumDone
<1>0. Hourly(bs) /\ Hourly(cs)
  BY DEF Shared
<1>6. /\ A.e = e /\ A.x = a
      /\ C # {} => A = MomentumReport(d, bs, e, a, MomentumFill(d, cell, bs, E, e, a))
  <2>1. e \in 1..Len(bs)
    BY <1>2
  <2> QED
    BY <1>0, <2>1, MomentumTradeIs
<1>7. /\ B.e = e /\ B.x = b
      /\ D # {} => B = MomentumReport(d, cs, e, b, MomentumFill(d, cell, cs, F, e, b))
  <2>1. e \in 1..Len(cs)
    BY <1>2
  <2> QED
    BY <1>0, <2>1, MomentumTradeIs
<1>8. C = {} => a = Len(bs)
  BY DEF FirstOr
<1> HIDE DEF C, D
<1>9. \/ a = b /\ a < h /\ (C = {} <=> D = {}) /\ (C # {} => a \in C)
      \/ a >= h /\ b >= h
  <2>1. Len(bs) = Len(cs) \/ (Len(bs) >= h /\ Len(cs) >= h)
    BY <1>1
  <2> QED
    BY <1>1, <1>2, <1>4, <1>5, <2>1, FirstTwin, Zenon
<1>10. CASE a >= h /\ b >= h
  <2> HIDE DEF a, b
  <2> QED
    BY <1>6, <1>7, <1>10 DEF SameTrade
<1>11. CASE a = b /\ a < h /\ (C = {} <=> D = {}) /\ (C # {} => a \in C)
  <2> HIDE DEF a, b
  <2>1. C # {} /\ D # {} /\ a \in C
    BY <1>1, <1>8, <1>11
  <2>2. a \in (e + 1)..(h - 1) /\ e \in 1..(h - 1)
    BY <1>1, <1>2, <1>5, <1>11, <2>1
  <2>3. MomentumFill(d, cell, bs, E, e, a) = MomentumFill(d, cell, cs, F, e, a) /\ bs[e] = cs[e]
    BY <1>1, <1>3, <2>2, Zenon
  <2> DEFINE m == MomentumFill(d, cell, bs, E, e, a)
  <2>5. A = MomentumReport(d, bs, e, a, m) /\ B = MomentumReport(d, cs, e, a, m)
    BY <1>6, <1>7, <1>11, <2>1, <2>3
  <2> HIDE DEF m, A, B
  <2>6. MomentumReport(d, bs, e, a, m) = MomentumReport(d, cs, e, a, m)
    <3>1. bs[e] = cs[e]
      BY <2>3
    <3> QED
      BY <3>1, SMT DEF MomentumReport
  <2>4. A = B
    BY <2>5, <2>6
  <2> USE DEF A, B
  <2> QED
    BY <1>6, <1>7, <2>4 DEF SameTrade
<1> QED
  BY <1>9, <1>10, <1>11

-----------------------------------------------------------------------------
(* Trades held for a number of bars. *)

(* A trade held for a number of bars, or to the end. *)
LEMMA LastTwin ==
    ASSUME NEW h \in Nat, NEW n \in Int, NEW m \in Int, h <= n, h <= m, NEW e \in 1..h, NEW hold \in Nat
    PROVE  /\ MinOf(e + hold, n) \in Int /\ MinOf(e + hold, m) \in Int
           /\ MinOf(e + hold, n) = MinOf(e + hold, m) \/ (MinOf(e + hold, n) >= h /\ MinOf(e + hold, m) >= h)
           /\ \A j \in Int : j < h => ((j <= MinOf(e + hold, n)) <=> (j <= MinOf(e + hold, m)))
BY DEF MinOf

LEMMA LastIn ==
    ASSUME NEW n \in Int, NEW e \in 1..n, NEW hold \in Nat
    PROVE  MinOf(e + hold, n) \in e..n
BY DEF MinOf

LEMMA CrashCell ==
    ASSUME NEW m \in CrashCells
    PROVE  m.h \in Nat
BY LegsAssumption

CrashHits(m, bs, e) ==
    {j \in (e + 1)..MinOf(e + m.h, Len(bs)) : 100 * bs[j].h >= bs[e].c * (100 + m.s)}
CrashReport(p, e, x, px, reason) ==
    [e |-> e, x |-> x, px |-> px, reason |-> reason,
     net |-> Profit(-1, 100 * p, px) - Fee(1000) - Fee((1000 * px) \div (100 * p))]

LEMMA CrashTradeIs ==
    ASSUME NEW bs, Hourly(bs), NEW m \in CrashCells, NEW e \in 1..Len(bs)
    PROVE  LET hits == CrashHits(m, bs, e)
               x == FirstOr(hits, MinOf(e + m.h, Len(bs)))
               trade == CrashTrade(m, bs, e)
           IN  /\ trade.e = e /\ trade.x = x /\ x \in Nat
               /\ hits = {} => trade = CrashReport(bs[e].c, e, x, 100 * bs[x].c, "time")
               /\ hits # {} => trade = CrashReport(bs[e].c, e, x, bs[e].c * (100 + m.s), "stop")
<1> DEFINE hits == CrashHits(m, bs, e)
           last == MinOf(e + m.h, Len(bs))
           x == FirstOr(hits, last)
           px == IF hits = {} THEN 100 * bs[last].c ELSE bs[e].c * (100 + m.s)
           why == IF hits = {} THEN "time" ELSE "stop"
<1>1. CrashTrade(m, bs, e) = CrashReport(bs[e].c, e, x, px, why)
  BY Zenon DEF CrashTrade, CrashHits, CrashReport, FirstOr
<1>2. x \in Nat
  <2>1. hits \subseteq (e + 1)..last
    BY DEF CrashHits
  <2>2. Len(bs) \in Int /\ m.h \in Nat
    BY CrashCell DEF Hourly
  <2>3. last \in e..Len(bs)
    BY <2>2, LastIn
  <2>4. e + 1 \in Int /\ last \in Int /\ e \in Nat
    BY <2>2, <2>3
  <2> HIDE DEF hits, last
  <2>5. /\ x \in Int
        /\ hits = {} => x = last
        /\ hits # {} => x \in hits
    BY <2>1, <2>4, FirstOrIs
  <2> QED
    BY <2>1, <2>3, <2>4, <2>5
<1>3. hits = {} => px = 100 * bs[x].c /\ why = "time"
  BY DEF FirstOr
<1>4. hits # {} => px = bs[e].c * (100 + m.s) /\ why = "stop"
  OBVIOUS
<1> HIDE DEF x, px, hits, why
<1>5. CrashReport(bs[e].c, e, x, px, why).x = x /\ CrashReport(bs[e].c, e, x, px, why).e = e
  BY DEF CrashReport
<1>6. hits = {} => CrashTrade(m, bs, e) = CrashReport(bs[e].c, e, x, 100 * bs[x].c, "time")
  BY <1>1, <1>3, Zenon
<1>7. hits # {} => CrashTrade(m, bs, e) = CrashReport(bs[e].c, e, x, bs[e].c * (100 + m.s), "stop")
  BY <1>1, <1>4, Zenon
<1> QED
  BY <1>1, <1>2, <1>5, <1>6, <1>7, Zenon DEF x, hits

LEMMA CrashTwin ==
    ASSUME NEW bs, NEW cs, NEW h, Shared(bs, cs, h), NEW m \in CrashCells, NEW e \in 1..h
    PROVE  SameTrade(h, CrashTrade(m, bs, e), CrashTrade(m, cs, e))
<1> DEFINE last1 == MinOf(e + m.h, Len(bs))
           last2 == MinOf(e + m.h, Len(cs))
           C == CrashHits(m, bs, e)
           D == CrashHits(m, cs, e)
           a == FirstOr(C, last1)
           b == FirstOr(D, last2)
           A == CrashTrade(m, bs, e)
           B == CrashTrade(m, cs, e)
<1>1. /\ Len(bs) \in Int /\ Len(cs) \in Int /\ h \in Nat \ {0} /\ h <= Len(bs) /\ h <= Len(cs)
      /\ \A i \in 1..(h - 1) : bs[i] = cs[i]
  BY SharedBars
<1>2. e \in 1..Len(bs) /\ e \in 1..Len(cs) /\ e \in Nat \ {0} /\ e + 1 \in Int /\ h \in Int /\ h \in Nat
  BY <1>1
<1>3. /\ last1 \in Int /\ last2 \in Int
      /\ last1 = last2 \/ (last1 >= h /\ last2 >= h)
      /\ \A j \in Int : j < h => ((j <= last1) <=> (j <= last2))
  BY <1>1, <1>2, CrashCell, LastTwin
<1>0. Hourly(bs) /\ Hourly(cs)
  BY DEF Shared
<1>4. ASSUME NEW j \in Int, j < h
      PROVE  j \in C <=> j \in D
  <2>1. (j \in (e + 1)..last1) <=> (j \in (e + 1)..last2)
    BY <1>2, <1>3, <1>4
  <2>2. j \in (e + 1)..last1 => e \in 1..(h - 1) /\ j \in 1..(h - 1)
    BY <1>1, <1>2, <1>3, <1>4
  <2>3. j \in (e + 1)..last1 => bs[e] = cs[e] /\ bs[j] = cs[j]
    BY <1>1, <2>2, Zenon
  <2> QED
    BY <2>1, <2>3, Zenon DEF CrashHits
<1>5. C \subseteq (e + 1)..last1 /\ D \subseteq (e + 1)..last2
  BY DEF CrashHits
<1>6. /\ A.e = e /\ A.x = a /\ a \in Nat
      /\ C = {} => A = CrashReport(bs[e].c, e, a, 100 * bs[a].c, "time")
      /\ C # {} => A = CrashReport(bs[e].c, e, a, bs[e].c * (100 + m.s), "stop")
  <2>1. e \in 1..Len(bs)
    BY <1>2
  <2> QED
    BY <1>0, <2>1, CrashTradeIs
<1>7. /\ B.e = e /\ B.x = b /\ b \in Nat
      /\ D = {} => B = CrashReport(cs[e].c, e, b, 100 * cs[b].c, "time")
      /\ D # {} => B = CrashReport(cs[e].c, e, b, cs[e].c * (100 + m.s), "stop")
  <2>1. e \in 1..Len(cs)
    BY <1>2
  <2> QED
    BY <1>0, <2>1, CrashTradeIs
<1>8. last1 >= e
  <2>1. e \in 1..Len(bs)
    BY <1>2
  <2>2. last1 \in e..Len(bs)
    BY <1>1, <2>1, CrashCell, LastIn
  <2> QED
    BY <1>1, <1>2, <2>2
<1>9. a >= e
  <2>1. C \subseteq e..last1
    BY <1>2, <1>3, <1>5
  <2>2. e \in Int /\ last1 \in Int
    BY <1>2, <1>3
  <2> QED
    BY <1>8, <2>1, <2>2, FirstOrIs
<1> HIDE DEF C, D, last1, last2
<1>10. \/ a = b /\ a < h /\ (C = {} <=> D = {})
       \/ a >= h /\ b >= h
  BY <1>2, <1>3, <1>4, <1>5, FirstTwin, Zenon
<1>11. CASE a >= h /\ b >= h
  <2> HIDE DEF a, b
  <2> QED
    BY <1>6, <1>7, <1>11 DEF SameTrade
<1>12. CASE a = b /\ a < h /\ (C = {} <=> D = {})
  <2> HIDE DEF a, b
  <2>1. e \in 1..(h - 1) /\ a \in 1..(h - 1)
    BY <1>1, <1>2, <1>6, <1>9, <1>12
  <2>2. bs[e] = cs[e] /\ bs[a] = cs[a]
    BY <1>1, <2>1, Zenon
  <2>3. A = B
    BY <1>6, <1>7, <1>12, <2>2, Zenon
  <2> QED
    BY <1>6, <1>7, <2>3 DEF SameTrade
<1> QED
  BY <1>10, <1>11, <1>12

-----------------------------------------------------------------------------
(* H7's trades, and the events H6 and H7 wait for. *)

ReboundHits(m, bs, e) ==
    {j \in (e + 1)..MinOf(e + m.h, Len(bs)) : Stopped(m, bs, e, j) \/ Reached(m, bs, e, j)}
ReboundReason(m, bs, e, x, hits) ==
    IF hits = {} THEN "time" ELSE IF Stopped(m, bs, e, x) THEN "stop" ELSE "tp"
ReboundReport(m, p, e, x, reason, b) ==
    LET stop == p * (100 - m.s)
        target == p * (100 + m.t)
        px == CASE reason = "stop" -> stop [] reason = "tp" -> target [] reason = "time" -> 100 * b.c
    IN  [e |-> e, x |-> x, px |-> px, reason |-> reason,
         net |-> Profit(1, 100 * p, px) - Fee(1000) - Fee((1000 * px) \div (100 * p)),
         gap |-> IF reason = "stop" THEN Max({0, stop - 100 * b.o}) ELSE 0]

LEMMA ReboundTradeIs ==
    ASSUME NEW bs, Hourly(bs), NEW m \in CrashCells, NEW e \in 1..Len(bs)
    PROVE  LET hits == ReboundHits(m, bs, e)
               x == FirstOr(hits, MinOf(e + m.h, Len(bs)))
               trade == ReboundTrade(m, bs, e)
           IN  /\ trade.e = e /\ trade.x = x /\ x \in Nat
               /\ trade = ReboundReport(m, bs[e].c, e, x, ReboundReason(m, bs, e, x, hits), bs[x])
<1> DEFINE hits == ReboundHits(m, bs, e)
           last == MinOf(e + m.h, Len(bs))
           x == FirstOr(hits, last)
           why == ReboundReason(m, bs, e, x, hits)
<1>1. ReboundTrade(m, bs, e) = ReboundReport(m, bs[e].c, e, x, why, bs[x])
  BY Zenon DEF ReboundTrade, ReboundHits, ReboundReport, ReboundReason, FirstOr, Stopped, Reached
<1>2. x \in Nat
  <2>1. hits \subseteq (e + 1)..last
    BY DEF ReboundHits
  <2>2. Len(bs) \in Int /\ m.h \in Nat
    BY CrashCell DEF Hourly
  <2>3. last \in e..Len(bs)
    BY <2>2, LastIn
  <2>4. e + 1 \in Int /\ last \in Int /\ e \in Nat
    BY <2>2, <2>3
  <2> HIDE DEF hits, last
  <2>5. /\ x \in Int
        /\ hits = {} => x = last
        /\ hits # {} => x \in hits
    BY <2>1, <2>4, FirstOrIs
  <2> QED
    BY <2>1, <2>3, <2>4, <2>5
<1> HIDE DEF x, hits, why
<1>3. \A p, b : ReboundReport(m, p, e, x, why, b).x = x /\ ReboundReport(m, p, e, x, why, b).e = e
  BY DEF ReboundReport
<1>4. ReboundTrade(m, bs, e).x = x /\ ReboundTrade(m, bs, e).e = e
  BY <1>1, <1>3, Zenon
<1> QED
  BY <1>1, <1>2, <1>4, Zenon DEF x, hits, why

LEMMA ReboundTwin ==
    ASSUME NEW bs, NEW cs, NEW h, Shared(bs, cs, h), NEW m \in CrashCells, NEW e \in 1..h
    PROVE  SameTrade(h, ReboundTrade(m, bs, e), ReboundTrade(m, cs, e))
<1> DEFINE last1 == MinOf(e + m.h, Len(bs))
           last2 == MinOf(e + m.h, Len(cs))
           C == ReboundHits(m, bs, e)
           D == ReboundHits(m, cs, e)
           a == FirstOr(C, last1)
           b == FirstOr(D, last2)
           A == ReboundTrade(m, bs, e)
           B == ReboundTrade(m, cs, e)
<1>1. /\ Len(bs) \in Int /\ Len(cs) \in Int /\ h \in Nat \ {0} /\ h <= Len(bs) /\ h <= Len(cs)
      /\ \A i \in 1..(h - 1) : bs[i] = cs[i]
  BY SharedBars
<1>2. e \in 1..Len(bs) /\ e \in 1..Len(cs) /\ e \in Nat \ {0} /\ e + 1 \in Int /\ h \in Int /\ h \in Nat
  BY <1>1
<1>3. /\ last1 \in Int /\ last2 \in Int
      /\ last1 = last2 \/ (last1 >= h /\ last2 >= h)
      /\ \A j \in Int : j < h => ((j <= last1) <=> (j <= last2))
  BY <1>1, <1>2, CrashCell, LastTwin
<1>0. Hourly(bs) /\ Hourly(cs)
  BY DEF Shared
<1>4. ASSUME NEW j \in Int, j < h
      PROVE  j \in C <=> j \in D
  <2>1. (j \in (e + 1)..last1) <=> (j \in (e + 1)..last2)
    BY <1>2, <1>3, <1>4
  <2>2. j \in (e + 1)..last1 => e \in 1..(h - 1) /\ j \in 1..(h - 1)
    BY <1>1, <1>2, <1>3, <1>4
  <2>3. j \in (e + 1)..last1 => bs[e] = cs[e] /\ bs[j] = cs[j]
    BY <1>1, <2>2, Zenon
  <2> QED
    BY <2>1, <2>3, Zenon DEF ReboundHits, Stopped, Reached
<1>5. C \subseteq (e + 1)..last1 /\ D \subseteq (e + 1)..last2
  BY DEF ReboundHits
<1>6. /\ A.e = e /\ A.x = a /\ a \in Nat
      /\ A = ReboundReport(m, bs[e].c, e, a, ReboundReason(m, bs, e, a, C), bs[a])
  <2>1. e \in 1..Len(bs)
    BY <1>2
  <2> QED
    BY <1>0, <2>1, ReboundTradeIs
<1>7. /\ B.e = e /\ B.x = b /\ b \in Nat
      /\ B = ReboundReport(m, cs[e].c, e, b, ReboundReason(m, cs, e, b, D), cs[b])
  <2>1. e \in 1..Len(cs)
    BY <1>2
  <2> QED
    BY <1>0, <2>1, ReboundTradeIs
<1>8. last1 >= e
  <2>1. e \in 1..Len(bs)
    BY <1>2
  <2>2. last1 \in e..Len(bs)
    BY <1>1, <2>1, CrashCell, LastIn
  <2> QED
    BY <1>1, <1>2, <2>2
<1>9. a >= e
  <2>1. C \subseteq e..last1
    BY <1>2, <1>3, <1>5
  <2>2. e \in Int /\ last1 \in Int
    BY <1>2, <1>3
  <2> QED
    BY <1>8, <2>1, <2>2, FirstOrIs
<1> HIDE DEF C, D, last1, last2
<1>10. \/ a = b /\ a < h /\ (C = {} <=> D = {})
       \/ a >= h /\ b >= h
  BY <1>2, <1>3, <1>4, <1>5, FirstTwin, Zenon
<1>11. CASE a >= h /\ b >= h
  <2> HIDE DEF a, b
  <2> QED
    BY <1>6, <1>7, <1>11 DEF SameTrade
<1>12. CASE a = b /\ a < h /\ (C = {} <=> D = {})
  <2> HIDE DEF a, b
  <2>1. e \in 1..(h - 1) /\ a \in 1..(h - 1)
    BY <1>1, <1>2, <1>6, <1>9, <1>12
  <2>2. bs[e] = cs[e] /\ bs[a] = cs[a]
    BY <1>1, <2>1, Zenon
  <2>3. ReboundReason(m, bs, e, a, C) = ReboundReason(m, cs, e, a, D)
    BY <1>12, <2>2, Zenon DEF ReboundReason, Stopped
  <2>4. A = B
    BY <1>6, <1>7, <1>12, <2>2, <2>3, Zenon
  <2> QED
    BY <1>6, <1>7, <2>4 DEF SameTrade
<1> QED
  BY <1>10, <1>11, <1>12

(* Crashes are seen when they are. *)
LEMMA EventsSame ==
    ASSUME NEW bs, NEW cs, NEW h, Shared(bs, cs, h), NEW p, NEW i \in 1..(h - 1)
    PROVE  i \in find_events(Closes(bs), p, 1, Len(bs)) <=> i \in find_events(Closes(cs), p, 1, Len(cs))
<1> DEFINE x == Closes(bs)
           y == Closes(cs)
           f(k) == k >= 1 /\ Beyond(-1, x, LagD, k, p)
           g(k) == k >= 1 /\ Beyond(-1, y, LagD, k, p)
<1>1. /\ Len(bs) \in Int /\ Len(cs) \in Int /\ h \in Nat \ {0} /\ h <= Len(bs) /\ h <= Len(cs)
  BY SharedBars
<1>2. LagD \in Nat
  BY LegsNumbers
<1>3. \A k \in 1..(h - 1) : Beyond(-1, x, LagD, k, p) = Beyond(-1, y, LagD, k, p)
  BY <1>2, MoveSame DEF Shared
<1> HIDE DEF x, y
<1>4. ASSUME NEW k \in (i - LagD + 1)..(i - 1)
      PROVE  f(k) <=> g(k)
  <2>1. k >= 1 => k \in 1..(h - 1)
    BY <1>1, <1>2
  <2> QED
    BY <1>3, <2>1, Zenon
<1>5. f(i) <=> g(i)
  BY <1>3, Zenon
<1>6. i \in 1..Len(bs) /\ i \in 1..Len(cs)
  BY <1>1
<1>7. i \in find_events(x, p, 1, Len(bs)) <=> f(i) /\ ~\E k \in (i - LagD + 1)..(i - 1) : f(k)
  BY <1>6, Zenon DEF find_events
<1>8. i \in find_events(y, p, 1, Len(cs)) <=> g(i) /\ ~\E k \in (i - LagD + 1)..(i - 1) : g(k)
  BY <1>6, Zenon DEF find_events
<1> HIDE DEF f, g
<1>9. i \in find_events(x, p, 1, Len(bs)) <=> i \in find_events(y, p, 1, Len(cs))
  BY <1>4, <1>5, <1>7, <1>8, Zenon
<1> QED
  BY <1>9 DEF x, y

-----------------------------------------------------------------------------
(* Causality: one bar more, and another last bar. *)

(* The series with one bar more, and with another last bar. *)
OneMore(bs, cs) == /\ Hourly(bs) /\ Hourly(cs) /\ Len(cs) = Len(bs) + 1 /\ Agree(bs, cs, Len(bs))
OtherLast(bs, cs) == /\ Hourly(bs) /\ Hourly(cs) /\ Len(cs) = Len(bs) /\ Agree(bs, cs, Len(bs) - 1)
Causal(bs, cs, before, after) ==
    /\ OneMore(bs, cs) => KeepsUpTo(Len(bs), before, after)
    /\ OtherLast(bs, cs) => Entries(before) = Entries(after)

LEMMA BothShare ==
    ASSUME NEW bs, NEW cs, OneMore(bs, cs) \/ OtherLast(bs, cs)
    PROVE  Shared(bs, cs, Len(bs))
<1>1. Hourly(bs) /\ Hourly(cs) /\ Len(bs) \in Nat \ {0} /\ Len(bs) <= Len(cs)
  BY DEF OneMore, OtherLast, Hourly
<1>2. Agree(bs, cs, Len(bs) - 1)
  <2>1. CASE OneMore(bs, cs)
    BY <1>1, <2>1 DEF OneMore, Agree
  <2>2. CASE OtherLast(bs, cs)
    BY <2>2 DEF OtherLast
  <2> QED
    BY <2>1, <2>2
<1> QED
  BY <1>1, <1>2 DEF Shared

(* A simulator whose signals and trades look at no later bar. *)
LEMMA SeqCausal ==
    ASSUME NEW bs, NEW cs, Hourly(bs), Hourly(cs), NEW from \in Nat, NEW gap \in Nat,
           NEW f, NEW g, NEW trade, NEW other,
           \A h : Shared(bs, cs, h) =>
               \A i \in from..(h - 1) : f[i] = g[i] /\ SameTrade(h, trade[i], other[i]),
           AllDated(from, Len(bs) - 1, trade), AllDated(from, Len(cs) - 1, other)
    PROVE  Causal(bs, cs, Sequential(from, Len(bs) - 1, gap, f, trade),
                          Sequential(from, Len(cs) - 1, gap, g, other))
<1>1. Len(bs) \in Nat
  BY DEF Hourly
<1>2. ASSUME OneMore(bs, cs) \/ OtherLast(bs, cs)
      PROVE  SeqAlike(from, Len(bs), f, g, trade, other)
  <2>1. Shared(bs, cs, Len(bs))
    BY <1>2, BothShare
  <2>2. \A i \in from..(Len(bs) - 1) : f[i] = g[i] /\ SameTrade(Len(bs), trade[i], other[i])
    BY <2>1
  <2> QED
    BY <1>1, <2>2 DEF SeqAlike
<1>3. ASSUME OneMore(bs, cs)
      PROVE  KeepsUpTo(Len(bs), Sequential(from, Len(bs) - 1, gap, f, trade),
                                Sequential(from, Len(cs) - 1, gap, g, other))
  <2>1. Len(cs) - 1 = Len(bs)
    BY <1>1, <1>3 DEF OneMore
  <2>2. SeqAlike(from, Len(bs), f, g, trade, other) /\ AllDated(from, Len(bs), other)
    BY <1>2, <1>3, <2>1
  <2>3. KeepsUpTo(Len(bs), Sequential(from, Len(bs) - 1, gap, f, trade),
                           Sequential(from, Len(bs), gap, g, other))
    BY <2>2, SeqKeeps
  <2> QED
    BY <2>1, <2>3
<1>4. ASSUME OtherLast(bs, cs)
      PROVE  Entries(Sequential(from, Len(bs) - 1, gap, f, trade)) = Entries(Sequential(from, Len(cs) - 1, gap, g, other))
  <2>1. Len(cs) = Len(bs)
    BY <1>4 DEF OtherLast
  <2>2. SeqAlike(from, Len(bs), f, g, trade, other) /\ AllDated(from, Len(bs) - 1, other)
    BY <1>2, <1>4, <2>1
  <2>3. Entries(Sequential(from, Len(bs) - 1, gap, f, trade)) = Entries(Sequential(from, Len(bs) - 1, gap, g, other))
    BY <2>2, SeqEntries
  <2> QED
    BY <2>1, <2>3
<1> QED
  BY <1>3, <1>4 DEF Causal

MomentumTrades(d, cell, bs) ==
    [i \in 1..(Len(bs) - 1) |-> MomentumTrade(d, cell, bs, make_entry(d, cell, bs), i + 1)]

LEMMA MomentumDated ==
    ASSUME NEW bs, Hourly(bs), NEW d, NEW cell
    PROVE  AllDated(Warm + 1, Len(bs) - 1, MomentumTrades(d, cell, bs))
<1>1. Warm \in Nat /\ Len(bs) \in Nat
  BY LegsNumbers DEF Hourly
<1>2. ASSUME NEW i \in (Warm + 1)..(Len(bs) - 1)
      PROVE  MomentumTrades(d, cell, bs)[i].x \in Nat
  <2>1. i \in 1..(Len(bs) - 1) /\ i + 1 \in 1..Len(bs)
    BY <1>1
  <2>2. MomentumTrades(d, cell, bs)[i] = MomentumTrade(d, cell, bs, make_entry(d, cell, bs), i + 1)
    BY <2>1, Zenon DEF MomentumTrades
  <2> QED
    BY <2>1, <2>2, MomentumTradeIs
<1> QED
  BY <1>1, <1>2 DEF AllDated

LEMMA MomentumCausal ==
    ASSUME NEW bs, NEW cs, Hourly(bs), Hourly(cs), NEW d, NEW cell
    PROVE  Causal(bs, cs, run_momentum(d, cell, bs), run_momentum(d, cell, cs))
<1> DEFINE E == make_entry(d, cell, bs)
           F == make_entry(d, cell, cs)
           u == MomentumTrades(d, cell, bs)
           v == MomentumTrades(d, cell, cs)
<1>1. /\ run_momentum(d, cell, bs) = Sequential(Warm + 1, Len(bs) - 1, 0, E, u)
      /\ run_momentum(d, cell, cs) = Sequential(Warm + 1, Len(cs) - 1, 0, F, v)
  BY Zenon DEF run_momentum, MomentumTrades
<1>2. AllDated(Warm + 1, Len(bs) - 1, u) /\ AllDated(Warm + 1, Len(cs) - 1, v)
  BY MomentumDated
<1>3. ASSUME NEW h, Shared(bs, cs, h), NEW i \in (Warm + 1)..(h - 1)
      PROVE  E[i] = F[i] /\ SameTrade(h, u[i], v[i])
  <2>1. /\ Len(bs) \in Int /\ Len(cs) \in Int /\ h \in Nat \ {0} /\ h <= Len(bs) /\ h <= Len(cs)
    BY <1>3, SharedBars
  <2>0. Warm \in Nat
    BY LegsNumbers, Zenon
  <2>2. /\ i \in 1..(h - 1) /\ i + 1 \in 1..h
        /\ i \in 1..(Len(bs) - 1) /\ i \in 1..(Len(cs) - 1)
    BY <2>0, <2>1
  <2>3. \A k \in 1..(h - 1) : E[k] = F[k]
    BY <1>3, EntrySame DEF Shared
  <2> HIDE DEF E, F
  <2>4. SameTrade(h, MomentumTrade(d, cell, bs, E, i + 1), MomentumTrade(d, cell, cs, F, i + 1))
    BY <1>3, <2>2, <2>3, MomentumTwin
  <2>5. u[i] = MomentumTrade(d, cell, bs, E, i + 1)
    BY <2>2, Zenon DEF MomentumTrades, E
  <2>6. v[i] = MomentumTrade(d, cell, cs, F, i + 1)
    BY <2>2, Zenon DEF MomentumTrades, F
  <2> QED
    BY <2>2, <2>3, <2>4, <2>5, <2>6
<1>4. Warm + 1 \in Nat /\ 0 \in Nat
  BY LegsNumbers
<1> HIDE DEF E, F, u, v
<1>5. Causal(bs, cs, Sequential(Warm + 1, Len(bs) - 1, 0, E, u), Sequential(Warm + 1, Len(cs) - 1, 0, F, v))
  BY <1>2, <1>3, <1>4, SeqCausal
<1> QED
  BY <1>1, <1>5

CrashTrades(m, bs) == [i \in 1..(Len(bs) - 1) |-> CrashTrade(m, bs, i + 1)]
CrashSignal(m, bs) ==
    [i \in DOMAIN bs |-> /\ i \in find_events(Closes(bs), m.drop, 1, Len(bs))
                         /\ m.filt => ema_first(Closes(bs), FastSpan)[i] < ema_first(Closes(bs), SlowSpan)[i]]
ReboundTrades(m, bs) == [i \in 1..(Len(bs) - 1) |-> ReboundTrade(m, bs, i + 1)]
ReboundSignal(m, bs) ==
    [i \in DOMAIN bs |-> /\ i \in find_events(Closes(bs), m.drop, 1, Len(bs))
                         /\ m.filt => i > LagH /\ Closes(bs)[i] >= Closes(bs)[i - LagH]]

LEMMA SlideDated ==
    ASSUME NEW bs, Hourly(bs), NEW m \in CrashCells
    PROVE  /\ AllDated(1, Len(bs) - 1, CrashTrades(m, bs))
           /\ AllDated(1, Len(bs) - 1, ReboundTrades(m, bs))
<1>1. Len(bs) \in Nat
  BY DEF Hourly
<1>2. ASSUME NEW i \in 1..(Len(bs) - 1)
      PROVE  CrashTrades(m, bs)[i].x \in Nat /\ ReboundTrades(m, bs)[i].x \in Nat
  <2>1. i + 1 \in 1..Len(bs)
    BY <1>1
  <2>2. CrashTrades(m, bs)[i] = CrashTrade(m, bs, i + 1) /\ ReboundTrades(m, bs)[i] = ReboundTrade(m, bs, i + 1)
    BY <1>2, Zenon DEF CrashTrades, ReboundTrades
  <2>3. CrashTrade(m, bs, i + 1).x \in Nat
    BY <2>1, CrashTradeIs
  <2>4. ReboundTrade(m, bs, i + 1).x \in Nat
    BY <2>1, ReboundTradeIs
  <2> QED
    BY <2>2, <2>3, <2>4
<1> QED
  BY <1>1, <1>2 DEF AllDated

LEMMA SlideSignals ==
    ASSUME NEW bs, NEW cs, NEW h, Shared(bs, cs, h), NEW m \in CrashCells, NEW i \in 1..(h - 1)
    PROVE  CrashSignal(m, bs)[i] = CrashSignal(m, cs)[i] /\ ReboundSignal(m, bs)[i] = ReboundSignal(m, cs)[i]
<1> DEFINE x == Closes(bs)
           y == Closes(cs)
           p == i \in find_events(x, m.drop, 1, Len(bs))
           q == i \in find_events(y, m.drop, 1, Len(cs))
<1>0. Hourly(bs) /\ Hourly(cs) /\ Agree(bs, cs, h - 1) /\ h \in Nat
  BY DEF Shared
<1>1. p <=> q
  BY EventsSame
<1>2. i \in DOMAIN bs /\ i \in DOMAIN cs /\ i \in Nat /\ \A j \in 1..(h - 1) : x[j] = y[j]
  BY <1>0, CloseSame
<1>3. FastSpan \in Nat \ {0} /\ SlowSpan \in Nat \ {0} /\ LagH \in Nat
  BY LegsNumbers
<1>4. ema_first(x, FastSpan)[i] = ema_first(y, FastSpan)[i] /\ ema_first(x, SlowSpan)[i] = ema_first(y, SlowSpan)[i]
  BY <1>0, <1>3, EmaFirstSame
<1>5. x[i] = y[i] /\ (i > LagH => x[i - LagH] = y[i - LagH])
  <2>1. i > LagH => i - LagH \in 1..(h - 1)
    BY <1>0, <1>3
  <2> QED
    BY <1>2, <2>1
<1>6. CrashSignal(m, bs)[i] = (p /\ (m.filt => ema_first(x, FastSpan)[i] < ema_first(x, SlowSpan)[i]))
  BY <1>2, Zenon DEF CrashSignal
<1>7. CrashSignal(m, cs)[i] = (q /\ (m.filt => ema_first(y, FastSpan)[i] < ema_first(y, SlowSpan)[i]))
  BY <1>2, Zenon DEF CrashSignal
<1>8. ReboundSignal(m, bs)[i] = (p /\ (m.filt => i > LagH /\ x[i] >= x[i - LagH]))
  BY <1>2, Zenon DEF ReboundSignal
<1>9. ReboundSignal(m, cs)[i] = (q /\ (m.filt => i > LagH /\ y[i] >= y[i - LagH]))
  BY <1>2, Zenon DEF ReboundSignal
<1> HIDE DEF p, q, x, y
<1>10. CrashSignal(m, bs)[i] = CrashSignal(m, cs)[i]
  BY <1>1, <1>4, <1>6, <1>7
<1>11. ReboundSignal(m, bs)[i] = ReboundSignal(m, cs)[i]
  BY <1>1, <1>5, <1>8, <1>9
<1> QED
  BY <1>10, <1>11

LEMMA SlideCausal ==
    ASSUME NEW bs, NEW cs, Hourly(bs), Hourly(cs), NEW m \in CrashCells
    PROVE  /\ Causal(bs, cs, run_crash(m, bs, 1, Len(bs)), run_crash(m, cs, 1, Len(cs)))
           /\ Causal(bs, cs, run_rebound(m, bs, 1, Len(bs)), run_rebound(m, cs, 1, Len(cs)))
<1> DEFINE E == CrashSignal(m, bs)
           F == CrashSignal(m, cs)
           u == CrashTrades(m, bs)
           v == CrashTrades(m, cs)
           I == ReboundSignal(m, bs)
           J == ReboundSignal(m, cs)
           r == ReboundTrades(m, bs)
           s == ReboundTrades(m, cs)
<1>1. /\ run_crash(m, bs, 1, Len(bs)) = Sequential(1, Len(bs) - 1, 0, E, u)
      /\ run_crash(m, cs, 1, Len(cs)) = Sequential(1, Len(cs) - 1, 0, F, v)
  BY Zenon DEF run_crash, CrashTrades, CrashSignal
<1>2. /\ run_rebound(m, bs, 1, Len(bs)) = Sequential(1, Len(bs) - 1, 0, I, r)
      /\ run_rebound(m, cs, 1, Len(cs)) = Sequential(1, Len(cs) - 1, 0, J, s)
  BY Zenon DEF run_rebound, ReboundTrades, ReboundSignal
<1>3. /\ AllDated(1, Len(bs) - 1, u) /\ AllDated(1, Len(cs) - 1, v)
      /\ AllDated(1, Len(bs) - 1, r) /\ AllDated(1, Len(cs) - 1, s)
  BY SlideDated
<1>4. ASSUME NEW h, Shared(bs, cs, h), NEW i \in 1..(h - 1)
      PROVE  E[i] = F[i] /\ SameTrade(h, u[i], v[i]) /\ I[i] = J[i] /\ SameTrade(h, r[i], s[i])
  <2>1. /\ Len(bs) \in Int /\ Len(cs) \in Int /\ h \in Nat \ {0} /\ h <= Len(bs) /\ h <= Len(cs)
    BY <1>4, SharedBars
  <2>2. i + 1 \in 1..h /\ i \in 1..(Len(bs) - 1) /\ i \in 1..(Len(cs) - 1)
    BY <2>1
  <2>3. E[i] = F[i] /\ I[i] = J[i]
    BY <1>4, SlideSignals
  <2>4. SameTrade(h, CrashTrade(m, bs, i + 1), CrashTrade(m, cs, i + 1))
    BY <1>4, <2>2, CrashTwin
  <2>5. SameTrade(h, ReboundTrade(m, bs, i + 1), ReboundTrade(m, cs, i + 1))
    BY <1>4, <2>2, ReboundTwin
  <2>6. u[i] = CrashTrade(m, bs, i + 1) /\ r[i] = ReboundTrade(m, bs, i + 1)
    BY <2>2, Zenon DEF CrashTrades, ReboundTrades
  <2>7. v[i] = CrashTrade(m, cs, i + 1) /\ s[i] = ReboundTrade(m, cs, i + 1)
    BY <2>2, Zenon DEF CrashTrades, ReboundTrades
  <2> QED
    BY <2>3, <2>4, <2>5, <2>6, <2>7
<1>5. 1 \in Nat /\ 0 \in Nat
  OBVIOUS
<1> HIDE DEF E, F, u, v, I, J, r, s
<1>6. Causal(bs, cs, Sequential(1, Len(bs) - 1, 0, E, u), Sequential(1, Len(cs) - 1, 0, F, v))
  BY <1>3, <1>4, <1>5, SeqCausal
<1>7. Causal(bs, cs, Sequential(1, Len(bs) - 1, 0, I, r), Sequential(1, Len(cs) - 1, 0, J, s))
  BY <1>3, <1>4, <1>5, SeqCausal
<1> QED
  BY <1>1, <1>2, <1>6, <1>7

-----------------------------------------------------------------------------
(* The places of the funding events, and how many are known. *)

(* The places of a set up to n, in their order. *)
Places(n, I) == Sift([i \in 1..n |-> i], I)
Noted(q, i) == q \in Seq(Nat) /\ \A k \in 1..Len(q) : q[k] \in 1..i
Begins(i, p, q) ==
    /\ p \in Seq(Nat) /\ q \in Seq(Nat) /\ Len(p) <= Len(q)
    /\ \A k \in 1..Len(p) : q[k] = p[k]
    /\ \A k \in (Len(p) + 1)..Len(q) : q[k] > i

LEMMA PlacesRun ==
    ASSUME NEW n \in Nat, NEW I
    PROVE  \E f : /\ f[0] = <<>> /\ Places(n, I) = f[n]
                  /\ \A i \in 1..n : f[i] = IF i \in I THEN Append(f[i - 1], i) ELSE f[i - 1]
                  /\ \A i \in 0..n : Noted(f[i], i)
<1> DEFINE s == [i \in 1..n |-> i]
<1>1. s \in Seq(Nat) /\ Len(s) = n /\ \A i \in 1..n : s[i] = i
  <2>1. \A i \in 1..n : i \in Nat
    OBVIOUS
  <2>2. s \in [1..n -> Nat]
    BY <2>1
  <2> QED
    BY <2>2
<1>2. PICK f : Sifted(s, I, n, f) /\ Places(n, I) = f[n]
  <2>1. Places(n, I) = (CHOOSE f : Sifted(s, I, Len(s), f))[Len(s)]
    BY DEF Places, Sift, Sifted
  <2> HIDE DEF s
  <2>2. PICK g : Sifted(s, I, n, g)
    BY SomeSifted
  <2> QED
    BY <1>1, <2>1, <2>2
<1> HIDE DEF s
<1>3. \A i \in 0..n : f[i] = IF i = 0 THEN <<>> ELSE IF i \in I THEN Append(f[i - 1], s[i]) ELSE f[i - 1]
  BY <1>2, Zenon DEF Sifted
<1>4. f[0] = <<>>
  BY <1>3
<1>5. \A i \in 1..n : f[i] = IF i \in I THEN Append(f[i - 1], i) ELSE f[i - 1]
  BY <1>1, <1>3
<1> DEFINE T == {i \in Int : Noted(f[i], i)}
<1>6. 0 \in T
  <2>1. <<>> \in Seq(Nat) /\ Len(<<>>) = 0 /\ 1..0 = {} /\ 0 \in Int
    BY EmptySeq
  <2>2. Noted(<<>>, 0)
    BY <2>1 DEF Noted
  <2> QED
    BY <1>4, <2>1, <2>2
<1>7. ASSUME NEW i \in (0 + 1)..n, i - 1 \in T
      PROVE  i \in T
  <2>1. i \in 1..n /\ i \in Nat /\ i \in Int /\ i \in 1..i
    OBVIOUS
  <2>2. PICK q : q = f[i - 1]
    OBVIOUS
  <2>3. q \in Seq(Nat) /\ Len(q) \in Nat /\ \A k \in 1..Len(q) : q[k] \in 1..i
    <3>1. q \in Seq(Nat) /\ \A k \in 1..Len(q) : q[k] \in 1..(i - 1)
      BY <1>7, <2>2 DEF Noted
    <3> QED
      BY <2>1, <3>1, LenProperties
  <2>4. CASE i \in I
    <3>1. f[i] = Append(q, i)
      BY <1>5, <2>1, <2>2, <2>4
    <3>2. /\ Append(q, i) \in Seq(Nat) /\ Len(Append(q, i)) = Len(q) + 1 /\ Append(q, i)[Len(q) + 1] = i
          /\ \A k \in 1..Len(q) : Append(q, i)[k] = q[k]
      BY <2>1, <2>3, AppendProperties
    <3>3. \A k \in 1..(Len(q) + 1) : Append(q, i)[k] \in 1..i
      <4> SUFFICES ASSUME NEW k \in 1..(Len(q) + 1) PROVE Append(q, i)[k] \in 1..i
        OBVIOUS
      <4>1. k \in 1..Len(q) \/ k = Len(q) + 1
        BY <2>3
      <4> QED
        BY <2>1, <2>3, <3>2, <4>1
    <3>4. Noted(Append(q, i), i)
      BY <3>2, <3>3 DEF Noted
    <3> QED
      BY <2>1, <3>1, <3>4
  <2>5. CASE i \notin I
    <3>1. f[i] = q
      BY <1>5, <2>1, <2>2, <2>5
    <3> QED
      BY <2>1, <2>3, <3>1 DEF Noted
  <2> QED
    BY <2>4, <2>5
<1> HIDE DEF T
<1>8. 0..n \subseteq T
  <2>1. \A i \in (0 + 1)..n : i - 1 \in T => i \in T
    BY <1>7
  <2>2. 0 \in Int /\ n \in Int
    OBVIOUS
  <2> QED
    BY <1>6, <2>1, <2>2, IntervalInduction, Zenon
<1>9. \A i \in 0..n : Noted(f[i], i)
  BY <1>8 DEF T
<1> QED
  BY <1>2, <1>4, <1>5, <1>9

LEMMA BeginsNext ==
    ASSUME NEW i \in Nat, NEW p, NEW q, Begins(i, p, q), NEW j \in Nat, j > i
    PROVE  Begins(i, p, Append(q, j))
<1>1. p \in Seq(Nat) /\ q \in Seq(Nat) /\ Len(p) \in Nat /\ Len(q) \in Nat /\ Len(p) <= Len(q)
  <2>1. p \in Seq(Nat) /\ q \in Seq(Nat) /\ Len(p) <= Len(q)
    BY DEF Begins
  <2>2. Len(p) \in Nat
    BY <2>1, LenProperties
  <2>3. Len(q) \in Nat
    BY <2>1, LenProperties
  <2> QED
    BY <2>1, <2>2, <2>3
<1>2. /\ Append(q, j) \in Seq(Nat) /\ Len(Append(q, j)) = Len(q) + 1 /\ Append(q, j)[Len(q) + 1] = j
      /\ \A k \in 1..Len(q) : Append(q, j)[k] = q[k]
  BY <1>1, AppendProperties
<1>3. \A k \in 1..Len(p) : k \in 1..Len(q) /\ q[k] = p[k]
  BY <1>1 DEF Begins
<1>4. ASSUME NEW k \in (Len(p) + 1)..(Len(q) + 1)
      PROVE  Append(q, j)[k] > i
  <2>1. k = Len(q) + 1 \/ (k \in (Len(p) + 1)..Len(q) /\ k \in 1..Len(q))
    BY <1>1
  <2>2. \A m \in (Len(p) + 1)..Len(q) : q[m] > i
    BY DEF Begins
  <2> QED
    BY <1>2, <2>1, <2>2
<1> QED
  BY <1>1, <1>2, <1>3, <1>4 DEF Begins

(* What is known at bar i is the beginning of what is known later. *)
LEMMA KnownIs ==
    ASSUME NEW n \in Nat, NEW I, NEW f, Places(n, I) = f[n],
           \A i \in 1..n : f[i] = IF i \in I THEN Append(f[i - 1], i) ELSE f[i - 1],
           \A i \in 0..n : Noted(f[i], i), NEW i \in 0..n
    PROVE  /\ Begins(i, f[i], Places(n, I))
           /\ Known(Places(n, I), i) = Len(f[i]) /\ Len(f[i]) \in Nat
<1> DEFINE p == f[i]
           T == {j \in Int : Begins(i, p, f[j])}
<1>1. p \in Seq(Nat) /\ Len(p) \in Nat /\ i \in Nat /\ \A k \in 1..Len(p) : p[k] \in 1..i
  <2>1. p \in Seq(Nat) /\ \A k \in 1..Len(p) : p[k] \in 1..i
    BY DEF Noted
  <2> QED
    BY <2>1, LenProperties
<1>2. i \in T
  <2>1. Begins(i, p, p)
    <3> HIDE DEF p
    <3>1. (Len(p) + 1)..Len(p) = {}
      BY <1>1
    <3> QED
      BY <1>1, <3>1 DEF Begins
  <2> QED
    BY <1>1, <2>1
<1>3. ASSUME NEW j \in (i + 1)..n, j - 1 \in T
      PROVE  j \in T
  <2>1. j \in 1..n /\ j \in Nat /\ j > i /\ j \in Int
    BY <1>1
  <2>2. Begins(i, p, f[j - 1])
    BY <1>3
  <2>3. f[j] = Append(f[j - 1], j) \/ f[j] = f[j - 1]
    BY <2>1
  <2> HIDE DEF p
  <2>4. Begins(i, p, Append(f[j - 1], j))
    BY <1>1, <2>1, <2>2, BeginsNext
  <2>5. Begins(i, p, f[j])
    BY <2>2, <2>3, <2>4
  <2> QED
    BY <2>1, <2>5
<1> HIDE DEF T
<1>4. i..n \subseteq T
  <2>1. \A j \in (i + 1)..n : j - 1 \in T => j \in T
    BY <1>3
  <2>2. i \in Int /\ n \in Int
    BY <1>1
  <2> QED
    BY <1>2, <2>1, <2>2, IntervalInduction, Zenon
<1>5. Begins(i, p, Places(n, I))
  <2>1. n \in i..n
    BY <1>1
  <2> QED
    BY <1>4, <2>1 DEF T
<1> DEFINE q == Places(n, I)
<1> HIDE DEF p, q
<1>6. q \in Seq(Nat) /\ Len(q) \in Nat /\ DOMAIN q = 1..Len(q) /\ Begins(i, p, q) /\ Len(p) <= Len(q)
  <2>1. Begins(i, p, q)
    BY <1>5 DEF q
  <2>2. q \in Seq(Nat) /\ Len(p) <= Len(q)
    BY <2>1 DEF Begins
  <2> QED
    BY <2>1, <2>2, LenProperties
<1>7. {k \in DOMAIN q : q[k] <= i} = 1..Len(p)
  <2>1. ASSUME NEW k \in 1..Len(q)
        PROVE  q[k] <= i <=> k \in 1..Len(p)
    <3>1. CASE k \in 1..Len(p)
      <4>1. q[k] = p[k]
        BY <1>6, <3>1 DEF Begins
      <4> QED
        BY <1>1, <3>1, <4>1
    <3>2. CASE k \notin 1..Len(p)
      <4>1. k \in (Len(p) + 1)..Len(q)
        BY <1>1, <1>6, <3>2
      <4>2. q[k] > i
        BY <1>6, <4>1 DEF Begins
      <4>3. q[k] \in Nat
        BY <1>6, ElementOfSeq
      <4> QED
        BY <1>1, <3>2, <4>2, <4>3
    <3> QED
      BY <3>1, <3>2
  <2>2. 1..Len(p) \subseteq 1..Len(q)
    BY <1>1, <1>6
  <2> QED
    BY <1>6, <2>1, <2>2
<1>8. Cardinality(1..Len(p)) = Len(p)
  <2>1. 1 \in Int /\ Len(p) \in Int
    BY <1>1
  <2>2. Cardinality(1..Len(p)) = IF 1 > Len(p) THEN 0 ELSE Len(p) - 1 + 1
    BY <2>1, FS_Interval
  <2> QED
    BY <1>1, <2>2
<1>9. Known(q, i) = Len(p)
  BY <1>7, <1>8, Zenon DEF Known
<1> QED
  BY <1>1, <1>5, <1>9 DEF p, q

SamePlaces(i, p, q, c) ==
    /\ Known(p, i) = c /\ Known(q, i) = c /\ c <= Len(p) /\ c <= Len(q)
    /\ \A k \in 1..c : p[k] = q[k] /\ p[k] \in 1..i

LEMMA PlacesSame ==
    ASSUME NEW n \in Nat, NEW m \in Nat, NEW I, NEW J, NEW i \in Nat, i <= n, i <= m,
           \A j \in 1..i : j \in I <=> j \in J
    PROVE  \E c \in Nat : SamePlaces(i, Places(n, I), Places(m, J), c)
<1>1. PICK f : /\ f[0] = <<>> /\ Places(n, I) = f[n]
               /\ \A j \in 1..n : f[j] = IF j \in I THEN Append(f[j - 1], j) ELSE f[j - 1]
               /\ \A j \in 0..n : Noted(f[j], j)
  BY PlacesRun
<1>2. PICK g : /\ g[0] = <<>> /\ Places(m, J) = g[m]
               /\ \A j \in 1..m : g[j] = IF j \in J THEN Append(g[j - 1], j) ELSE g[j - 1]
               /\ \A j \in 0..m : Noted(g[j], j)
  BY PlacesRun
<1>3. i \in 0..n /\ i \in 0..m
  OBVIOUS
<1> DEFINE T == {j \in Int : f[j] = g[j]}
<1>4. 0 \in T
  BY <1>1, <1>2
<1>5. ASSUME NEW j \in (0 + 1)..i, j - 1 \in T
      PROVE  j \in T
  <2>1. j \in 1..n /\ j \in 1..m /\ j \in 1..i /\ j \in Int
    OBVIOUS
  <2>2. f[j - 1] = g[j - 1] /\ (j \in I <=> j \in J)
    BY <1>5, <2>1
  <2>3. f[j] = g[j]
    BY <1>1, <1>2, <2>1, <2>2, Zenon
  <2> QED
    BY <2>1, <2>3
<1> HIDE DEF T
<1>6. 0..i \subseteq T
  <2>1. \A j \in (0 + 1)..i : j - 1 \in T => j \in T
    BY <1>5
  <2>2. 0 \in Int /\ i \in Int
    OBVIOUS
  <2> QED
    BY <1>4, <2>1, <2>2, IntervalInduction, Zenon
<1>7. f[i] = g[i]
  <2>1. i \in 0..i
    OBVIOUS
  <2> QED
    BY <1>6, <2>1 DEF T
<1>8. /\ Begins(i, f[i], Places(n, I))
      /\ Known(Places(n, I), i) = Len(f[i]) /\ Len(f[i]) \in Nat
  BY <1>1, <1>3, KnownIs
<1>9. /\ Begins(i, g[i], Places(m, J))
      /\ Known(Places(m, J), i) = Len(g[i]) /\ Len(g[i]) \in Nat
  BY <1>2, <1>3, KnownIs
<1>10. \A k \in 1..Len(f[i]) : f[i][k] \in 1..i
  BY <1>1, <1>3 DEF Noted
<1>11. PICK p : p = f[i] /\ p = g[i]
  BY <1>7
<1>12. /\ Len(p) <= Len(Places(n, I)) /\ Len(p) <= Len(Places(m, J))
       /\ \A k \in 1..Len(p) : Places(n, I)[k] = p[k] /\ Places(m, J)[k] = p[k] /\ p[k] \in 1..i
  BY <1>8, <1>9, <1>10, <1>11 DEF Begins
<1>13. Len(p) \in Nat /\ Known(Places(n, I), i) = Len(p) /\ Known(Places(m, J), i) = Len(p)
  BY <1>8, <1>9, <1>11
<1>14. \A k \in 1..Len(p) : Places(n, I)[k] = Places(m, J)[k] /\ Places(n, I)[k] \in 1..i
  BY <1>12
<1>15. SamePlaces(i, Places(n, I), Places(m, J), Len(p))
  BY <1>12, <1>13, <1>14, Zenon DEF SamePlaces
<1> QED
  BY <1>13, <1>15

-----------------------------------------------------------------------------
(* The rank of a funding among the last ones. *)

LEMMA SubSeqSame ==
    ASSUME NEW s, NEW t, NEW m \in Int, NEW n \in Int, \A i \in m..n : s[i] = t[i]
    PROVE  SubSeq(s, m, n) = SubSeq(t, m, n)
<1> DEFINE S == {s[i] : i \in m..n}
           a == SubSeq(s, m, n)
           b == SubSeq(t, m, n)
           w == IF m <= n THEN n - m + 1 ELSE 0
<1>1. \A i \in m..n : s[i] \in S /\ t[i] \in S
  OBVIOUS
<1> HIDE DEF S
<1>2. a \in Seq(S) /\ Len(a) = w /\ \A i \in 1..(n - m + 1) : a[i] = s[m + i - 1]
  BY <1>1, SubSeqProperties
<1>3. b \in Seq(S) /\ Len(b) = w /\ \A i \in 1..(n - m + 1) : b[i] = t[m + i - 1]
  BY <1>1, SubSeqProperties
<1> HIDE DEF a, b
<1>4. ASSUME NEW i \in 1..w
      PROVE  a[i] = b[i]
  <2>1. i \in 1..(n - m + 1) /\ m + i - 1 \in m..n
    OBVIOUS
  <2> QED
    BY <1>2, <1>3, <2>1
<1>5. a = b
  BY <1>2, <1>3, <1>4, SeqEqual
<1> QED
  BY <1>5 DEF a, b

Paid(bs) == {i \in DOMAIN bs : bs[i].f # NoValue}
Events(bs) == Places(Len(bs), Paid(bs))
Rates(bs) == [k \in DOMAIN Events(bs) |-> bs[Events(bs)[k]].f]
RankOf(r, known) ==
    IF known < WindowEvents THEN NoValue
    ELSE pct_rank(SubSeq(r, known + 1 - WindowEvents, known), r[known])

LEMMA RankIs ==
    ASSUME NEW bs, Hourly(bs), NEW i \in 1..Len(bs)
    PROVE  prepare_funding(bs)[i] = RankOf(Rates(bs), Known(Events(bs), i))
<1>1. DOMAIN bs = 1..Len(bs)
  BY DEF Hourly
<1>2. Sift([j \in DOMAIN bs |-> j], {j \in DOMAIN bs : bs[j].f # NoValue}) = Events(bs)
  BY <1>1, Zenon DEF Events, Places, Paid
<1> DEFINE e == Sift([j \in DOMAIN bs |-> j], {j \in DOMAIN bs : bs[j].f # NoValue})
<1>3. prepare_funding(bs)[i] = RankOf([k \in DOMAIN e |-> bs[e[k]].f], Known(e, i))
  BY <1>1, Zenon DEF prepare_funding, RankOf
<1> HIDE DEF e
<1>4. e = Events(bs)
  BY <1>2 DEF e
<1> QED
  BY <1>3, <1>4, Zenon DEF Rates

LEMMA RankSame ==
    ASSUME NEW bs, NEW cs, NEW h, Shared(bs, cs, h), NEW i \in 1..(h - 1)
    PROVE  prepare_funding(bs)[i] = prepare_funding(cs)[i]
<1> DEFINE p == Events(bs)
           q == Events(cs)
           r == Rates(bs)
           s == Rates(cs)
<1>0. Hourly(bs) /\ Hourly(cs)
  BY DEF Shared
<1>1. /\ Len(bs) \in Nat /\ Len(cs) \in Nat /\ h \in Nat \ {0} /\ h <= Len(bs) /\ h <= Len(cs)
      /\ \A j \in 1..(h - 1) : bs[j] = cs[j]
  BY <1>0, SharedBars DEF Hourly
<1>2. i \in 1..Len(bs) /\ i \in 1..Len(cs) /\ i \in Nat /\ i <= Len(bs) /\ i <= Len(cs)
  BY <1>1
<1>3. ASSUME NEW j \in 1..i
      PROVE  bs[j] = cs[j] /\ (j \in Paid(bs) <=> j \in Paid(cs))
  <2>1. j \in 1..(h - 1) /\ j \in DOMAIN bs /\ j \in DOMAIN cs
    BY <1>0, <1>1, <1>2 DEF Hourly
  <2>2. bs[j] = cs[j]
    BY <1>1, <2>1
  <2> QED
    BY <2>1, <2>2, Zenon DEF Paid
<1>4. PICK c \in Nat : /\ Known(p, i) = c /\ Known(q, i) = c /\ c <= Len(p) /\ c <= Len(q)
                       /\ \A k \in 1..c : p[k] = q[k] /\ p[k] \in 1..i
  <2>1. \A j \in 1..i : j \in Paid(bs) <=> j \in Paid(cs)
    BY <1>3
  <2>2. PICK c \in Nat : SamePlaces(i, Places(Len(bs), Paid(bs)), Places(Len(cs), Paid(cs)), c)
    BY <1>1, <1>2, <2>1, PlacesSame
  <2>3. SamePlaces(i, p, q, c)
    BY <2>2, Zenon DEF Events
  <2> HIDE DEF p, q
  <2> QED
    BY <2>3, Zenon DEF SamePlaces
<1>5. prepare_funding(bs)[i] = RankOf(r, c) /\ prepare_funding(cs)[i] = RankOf(s, c)
  BY <1>0, <1>2, <1>4, RankIs
<1>6. ASSUME NEW k \in 1..c
      PROVE  r[k] = s[k]
  <2>1. \E S : p \in Seq(S)
    <3>1. PICK f : Places(Len(bs), Paid(bs)) = f[Len(bs)] /\ \A j \in 0..Len(bs) : Noted(f[j], j)
      BY <1>1, PlacesRun
    <3>2. Len(bs) \in 0..Len(bs)
      BY <1>1
    <3> QED
      BY <3>1, <3>2 DEF Noted, Events
  <2>2. \E S : q \in Seq(S)
    <3>1. PICK f : Places(Len(cs), Paid(cs)) = f[Len(cs)] /\ \A j \in 0..Len(cs) : Noted(f[j], j)
      BY <1>1, PlacesRun
    <3>2. Len(cs) \in 0..Len(cs)
      BY <1>1
    <3> QED
      BY <3>1, <3>2 DEF Noted, Events
  <2> HIDE DEF p, q
  <2>3. DOMAIN p = 1..Len(p) /\ Len(p) \in Nat
    BY <2>1, LenProperties
  <2>4. DOMAIN q = 1..Len(q) /\ Len(q) \in Nat
    BY <2>2, LenProperties
  <2>5. k \in DOMAIN p /\ k \in DOMAIN q
    BY <1>4, <2>3, <2>4
  <2>6. r[k] = bs[p[k]].f /\ s[k] = cs[q[k]].f
    BY <2>5, Zenon DEF Rates, p, q
  <2>7. p[k] = q[k] /\ bs[p[k]] = cs[p[k]]
    BY <1>3, <1>4
  <2> QED
    BY <2>6, <2>7, Zenon
<1> HIDE DEF p, q, r, s
<1>7. RankOf(r, c) = RankOf(s, c)
  <2>1. WindowEvents \in Nat \ {0}
    BY LegsNumbers
  <2>2. CASE c < WindowEvents
    BY <2>2 DEF RankOf
  <2>3. CASE ~(c < WindowEvents)
    <3>1. c + 1 - WindowEvents \in Int /\ c \in Int /\ c \in 1..c
          /\ \A k \in (c + 1 - WindowEvents)..c : k \in 1..c
      BY <2>1, <2>3
    <3>2. SubSeq(r, c + 1 - WindowEvents, c) = SubSeq(s, c + 1 - WindowEvents, c)
      <4>1. \A k \in (c + 1 - WindowEvents)..c : r[k] = s[k]
        BY <1>6, <3>1
      <4> QED
        BY <3>1, <4>1, SubSeqSame
    <3>3. r[c] = s[c]
      BY <1>6, <3>1
    <3> QED
      BY <2>3, <3>2, <3>3, Zenon DEF RankOf
  <2> QED
    BY <2>2, <2>3
<1> QED
  BY <1>5, <1>7

-----------------------------------------------------------------------------
(* H3's trades. *)

FadeStopped(cell, bs, d, e, j) == 100 * d * Worst(d, bs[j]) <= d * (bs[e].c * (100 - d * cell.s))
FadeMiddle(rank, last, j) == rank[j] # NoValue /\ rank[j] \in 40..60 /\ j + 1 <= last
FadeEnds(cell, bs, rank, d, e, last) ==
    {j \in (e + 1)..last : FadeStopped(cell, bs, d, e, j) \/ FadeMiddle(rank, last, j) \/ j = last}
FadeExit(cell, bs, rank, d, e, last, ends, j) ==
    IF ends # {} /\ ~FadeStopped(cell, bs, d, e, j) /\ FadeMiddle(rank, last, j) THEN j + 1 ELSE j
FadePrice(cell, bs, d, e, ends, j, x) ==
    IF ends # {} /\ FadeStopped(cell, bs, d, e, j) THEN bs[e].c * (100 - d * cell.s) ELSE 100 * bs[x].c
FadePaid(bs, e, x) == {k \in (e + 1)..x : bs[k].f # NoValue}
FadeReport(bs, d, e, x, px) ==
    [e |-> e, x |-> x, d |-> d, px |-> px,
     net |-> Profit(d, 100 * bs[e].c, px)
             - d * SumFunctionOnSet([k \in FadePaid(bs, e, x) |-> bs[k].f], FadePaid(bs, e, x)) - 2 * Fee(1000)]

LEMMA FundingCell ==
    ASSUME NEW m \in FundingCells
    PROVE  m.h \in Nat
BY LegsAssumption

LEMMA FundingTradeIs ==
    ASSUME NEW bs, Hourly(bs), NEW rank, NEW d, NEW m \in FundingCells, NEW e \in 1..Len(bs)
    PROVE  LET last == MinOf(e + m.h, Len(bs))
               ends == FadeEnds(m, bs, rank, d, e, last)
               j == FirstOr(ends, last)
               x == FadeExit(m, bs, rank, d, e, last, ends, j)
               trade == FundingTrade(m, bs, rank, d, e)
           IN  /\ trade.e = e /\ trade.x = x /\ x \in Nat /\ j \in Nat /\ j >= e /\ x \in {j, j + 1}
               /\ trade = FadeReport(bs, d, e, x, FadePrice(m, bs, d, e, ends, j, x))
<1> DEFINE last == MinOf(e + m.h, Len(bs))
           ends == FadeEnds(m, bs, rank, d, e, last)
           j == FirstOr(ends, last)
           x == FadeExit(m, bs, rank, d, e, last, ends, j)
           px == FadePrice(m, bs, d, e, ends, j, x)
<1>1. FundingTrade(m, bs, rank, d, e) = FadeReport(bs, d, e, x, px)
  BY Zenon DEF FundingTrade, FadeReport, FadePrice, FadeExit, FadeEnds, FadeStopped, FadeMiddle, FadePaid, FirstOr
<1>2. j \in Nat /\ j >= e
  <2>1. Len(bs) \in Int /\ m.h \in Nat
    BY FundingCell DEF Hourly
  <2>2. last \in e..Len(bs)
    BY <2>1, LastIn
  <2>3. e \in Nat /\ e \in Int /\ last \in Int /\ e <= last
    BY <2>1, <2>2
  <2>4. ends \subseteq (e + 1)..last
    BY DEF FadeEnds
  <2>5. ends \subseteq e..last
    BY <2>3, <2>4
  <2> HIDE DEF ends, last
  <2>6. j \in Int /\ j >= e
    BY <2>3, <2>5, FirstOrIs
  <2> QED
    BY <2>3, <2>6
<1>3. x \in {j, j + 1}
  BY DEF FadeExit
<1> HIDE DEF x, px, j, ends, last
<1>4. x \in Nat
  BY <1>2, <1>3
<1>5. FadeReport(bs, d, e, x, px).x = x /\ FadeReport(bs, d, e, x, px).e = e
  BY DEF FadeReport
<1>6. FundingTrade(m, bs, rank, d, e).x = x /\ FundingTrade(m, bs, rank, d, e).e = e
  BY <1>1, <1>5
<1> QED
  BY <1>1, <1>2, <1>3, <1>4, <1>6, Zenon DEF x, px, j, ends, last

LEMMA FadeReportSame ==
    ASSUME NEW bs, NEW cs, NEW d, NEW e \in Nat, NEW x \in Nat, NEW px, bs[e] = cs[e],
           \A k \in (e + 1)..x : bs[k] = cs[k]
    PROVE  FadeReport(bs, d, e, x, px) = FadeReport(cs, d, e, x, px)
<1>1. FadePaid(bs, e, x) = FadePaid(cs, e, x)
  BY Zenon DEF FadePaid
<1>2. PICK p : p = FadePaid(bs, e, x)
  OBVIOUS
<1>3. \A k \in p : bs[k].f = cs[k].f
  BY <1>2, Zenon DEF FadePaid
<1>4. [k \in p |-> bs[k].f] = [k \in p |-> cs[k].f]
  BY <1>3, Zenon
<1> DEFINE row(b, f) ==
             [e |-> e, x |-> x, d |-> d, px |-> px,
              net |-> Profit(d, 100 * b.c, px) - d * SumFunctionOnSet(f, p) - 2 * Fee(1000)]
<1>5. FadeReport(bs, d, e, x, px) = row(bs[e], [k \in p |-> bs[k].f])
  BY <1>2, Zenon DEF FadeReport
<1>6. p = FadePaid(cs, e, x)
  BY <1>1, <1>2
<1>7. FadeReport(cs, d, e, x, px) = row(cs[e], [k \in p |-> cs[k].f])
  BY <1>6, Zenon DEF FadeReport
<1> HIDE DEF row
<1> QED
  BY <1>4, <1>5, <1>7, Zenon

LEMMA FundingTwin ==
    ASSUME NEW bs, NEW cs, NEW h, Shared(bs, cs, h), NEW m \in FundingCells, NEW e \in 1..h,
           NEW R, NEW Q, \A i \in 1..(h - 1) : R[i] = Q[i], NEW d
    PROVE  SameTrade(h, FundingTrade(m, bs, R, d, e), FundingTrade(m, cs, Q, d, e))
<1> DEFINE last1 == MinOf(e + m.h, Len(bs))
           last2 == MinOf(e + m.h, Len(cs))
           C == FadeEnds(m, bs, R, d, e, last1)
           D == FadeEnds(m, cs, Q, d, e, last2)
           a == FirstOr(C, last1)
           b == FirstOr(D, last2)
           x == FadeExit(m, bs, R, d, e, last1, C, a)
           y == FadeExit(m, cs, Q, d, e, last2, D, b)
           A == FundingTrade(m, bs, R, d, e)
           B == FundingTrade(m, cs, Q, d, e)
<1>1. /\ Len(bs) \in Int /\ Len(cs) \in Int /\ h \in Nat \ {0} /\ h <= Len(bs) /\ h <= Len(cs)
      /\ \A i \in 1..(h - 1) : bs[i] = cs[i]
  BY SharedBars
<1>2. e \in 1..Len(bs) /\ e \in 1..Len(cs) /\ e \in Nat \ {0} /\ e \in Nat /\ e + 1 \in Int /\ h \in Int /\ h \in Nat
  BY <1>1
<1>3. /\ last1 \in Int /\ last2 \in Int
      /\ last1 = last2 \/ (last1 >= h /\ last2 >= h)
      /\ \A j \in Int : j < h => ((j <= last1) <=> (j <= last2))
  BY <1>1, <1>2, FundingCell, LastTwin
<1>0. Hourly(bs) /\ Hourly(cs)
  BY DEF Shared
<1>13. ASSUME NEW j \in Int, j < h, j >= e
       PROVE  /\ bs[j] = cs[j] /\ bs[e] = cs[e] /\ R[j] = Q[j]
              /\ FadeStopped(m, bs, d, e, j) <=> FadeStopped(m, cs, d, e, j)
              /\ FadeMiddle(R, last1, j) <=> FadeMiddle(Q, last2, j)
              /\ (j = last1) <=> (j = last2)
  <2> HIDE DEF last1, last2
  <2>1. e \in 1..(h - 1) /\ j \in 1..(h - 1)
    BY <1>1, <1>2, <1>13
  <2>2. bs[e] = cs[e] /\ bs[j] = cs[j] /\ R[j] = Q[j]
    BY <1>1, <2>1, Zenon
  <2>3. ((j + 1 <= last1) <=> (j + 1 <= last2)) /\ ((j = last1) <=> (j = last2))
    BY <1>2, <1>3, <1>13
  <2>4. FadeMiddle(R, last1, j) <=> FadeMiddle(Q, last2, j)
    BY <2>2, <2>3, Zenon DEF FadeMiddle
  <2>5. FadeStopped(m, bs, d, e, j) <=> FadeStopped(m, cs, d, e, j)
    BY <2>2, Zenon DEF FadeStopped
  <2> QED
    BY <2>2, <2>3, <2>4, <2>5
<1>4. ASSUME NEW j \in Int, j < h
      PROVE  j \in C <=> j \in D
  <2> HIDE DEF last1, last2
  <2>1. (j \in (e + 1)..last1) <=> (j \in (e + 1)..last2)
    BY <1>2, <1>3, <1>4
  <2>2. j \in (e + 1)..last1 => j >= e
    BY <1>2, <1>3, <1>4
  <2> QED
    BY <1>4, <1>13, <2>1, <2>2, Zenon DEF FadeEnds
<1>5. C \subseteq (e + 1)..last1 /\ D \subseteq (e + 1)..last2
  BY DEF FadeEnds
<1>6. /\ A.e = e /\ A.x = x /\ x \in Nat /\ a \in Nat /\ a >= e /\ x \in {a, a + 1}
      /\ A = FadeReport(bs, d, e, x, FadePrice(m, bs, d, e, C, a, x))
  <2>1. e \in 1..Len(bs)
    BY <1>2
  <2> QED
    BY <1>0, <2>1, FundingTradeIs
<1>7. /\ B.e = e /\ B.x = y /\ y \in Nat /\ b \in Nat /\ b >= e /\ y \in {b, b + 1}
      /\ B = FadeReport(cs, d, e, y, FadePrice(m, cs, d, e, D, b, y))
  <2>1. e \in 1..Len(cs)
    BY <1>2
  <2> QED
    BY <1>0, <2>1, FundingTradeIs
<1> HIDE DEF C, D, last1, last2
<1>10. \/ a = b /\ a < h /\ (C = {} <=> D = {})
       \/ a >= h /\ b >= h
  BY <1>2, <1>3, <1>4, <1>5, FirstTwin, Zenon
<1>14. CASE x >= h /\ y >= h
  <2> HIDE DEF a, b, x, y
  <2> QED
    BY <1>6, <1>7, <1>14 DEF SameTrade
<1>11. CASE a >= h /\ b >= h
  <2> HIDE DEF a, b, x, y
  <2>1. x >= h /\ y >= h
    BY <1>2, <1>6, <1>7, <1>11
  <2> QED
    BY <1>14, <2>1
<1>12. CASE a = b /\ a < h /\ (C = {} <=> D = {})
  <2> HIDE DEF a, b
  <2>1. /\ FadeStopped(m, bs, d, e, a) <=> FadeStopped(m, cs, d, e, a)
        /\ FadeMiddle(R, last1, a) <=> FadeMiddle(Q, last2, a)
        /\ bs[e] = cs[e]
    BY <1>6, <1>12, <1>13
  <2>2. x = y
    BY <1>12, <2>1, Zenon DEF FadeExit
  <2>3. CASE x < h
    <3> HIDE DEF x, y
    <3>1. x \in 1..(h - 1) /\ \A k \in (e + 1)..x : k \in 1..(h - 1)
      BY <1>1, <1>2, <1>6, <2>3
    <3>2. bs[x] = cs[x] /\ \A k \in (e + 1)..x : bs[k] = cs[k]
      BY <1>1, <3>1
    <3>3. FadePrice(m, bs, d, e, C, a, x) = FadePrice(m, cs, d, e, D, b, y)
      BY <1>12, <2>1, <2>2, <3>2, Zenon DEF FadePrice
    <3>4. PICK px : px = FadePrice(m, bs, d, e, C, a, x)
      OBVIOUS
    <3>5. A = FadeReport(bs, d, e, x, px) /\ B = FadeReport(cs, d, e, x, px)
      BY <1>6, <1>7, <2>2, <3>3, <3>4
    <3>6. FadeReport(bs, d, e, x, px) = FadeReport(cs, d, e, x, px)
      BY <1>2, <1>6, <2>1, <3>2, FadeReportSame
    <3> QED
      BY <1>6, <1>7, <3>5, <3>6 DEF SameTrade
  <2>4. CASE ~(x < h)
    <3> HIDE DEF x, y
    <3>1. x >= h /\ y >= h
      BY <1>2, <1>6, <2>2, <2>4
    <3> QED
      BY <1>14, <3>1
  <2> QED
    BY <2>3, <2>4
<1> QED
  BY <1>10, <1>11, <1>12

-----------------------------------------------------------------------------
(* H3 looks at no later bar. *)

Sides(m, bs) == [i \in DOMAIN bs |-> FundingSide(m, Closes(bs), prepare_funding(bs), i)]
FundingSignal(m, bs) == [i \in DOMAIN bs |-> Sides(m, bs)[i] # 0]
FundingTrades(m, bs) ==
    [i \in 1..(Len(bs) - 1) |-> FundingTrade(m, bs, prepare_funding(bs), Sides(m, bs)[i], i + 1)]

LEMMA SideSame ==
    ASSUME NEW bs, NEW cs, NEW h, Shared(bs, cs, h), NEW m \in FundingCells, NEW i \in 1..(h - 1)
    PROVE  Sides(m, bs)[i] = Sides(m, cs)[i] /\ FundingSignal(m, bs)[i] = FundingSignal(m, cs)[i]
<1> DEFINE x == Closes(bs)
           y == Closes(cs)
           R == prepare_funding(bs)
           Q == prepare_funding(cs)
           d == IF R[i] > m.p THEN -1 ELSE IF R[i] < 100 - m.p THEN 1 ELSE 0
<1>0. Hourly(bs) /\ Hourly(cs) /\ Agree(bs, cs, h - 1) /\ h \in Nat /\ LagD \in Nat
  BY LegsNumbers DEF Shared
<1>1. i \in DOMAIN bs /\ i \in DOMAIN cs
  BY <1>0, CloseSame
<1>2. R[i] = Q[i]
  BY RankSame
<1>3. \A c : Beyond(c, x, LagD, i, 0) = Beyond(c, y, LagD, i, 0)
  BY <1>0, MoveSame
<1>4. Sides(m, bs)[i] = FundingSide(m, x, R, i) /\ Sides(m, cs)[i] = FundingSide(m, y, Q, i)
  BY <1>1, Zenon DEF Sides
<1> HIDE DEF x, y, R, Q
<1>5. FundingSide(m, x, R, i) = IF R[i] = NoValue THEN 0 ELSE IF m.filt /\ ~Beyond(d, x, LagD, i, 0) THEN 0 ELSE d
  BY Zenon DEF FundingSide
<1>6. FundingSide(m, y, Q, i) = IF R[i] = NoValue THEN 0 ELSE IF m.filt /\ ~Beyond(d, y, LagD, i, 0) THEN 0 ELSE d
  BY <1>2, Zenon DEF FundingSide
<1> HIDE DEF d
<1>10. Beyond(d, x, LagD, i, 0) <=> Beyond(d, y, LagD, i, 0)
  BY <1>3
<1>7. FundingSide(m, x, R, i) = FundingSide(m, y, Q, i)
  <2>1. CASE R[i] = NoValue
    <3>1. FundingSide(m, x, R, i) = 0
      BY <1>5, <2>1, Zenon
    <3>2. FundingSide(m, y, Q, i) = 0
      BY <1>6, <2>1, Zenon
    <3> QED
      BY <3>1, <3>2
  <2>2. CASE R[i] # NoValue /\ m.filt /\ ~Beyond(d, x, LagD, i, 0)
    <3>1. FundingSide(m, x, R, i) = 0
      BY <1>5, <2>2, Zenon
    <3>2. FundingSide(m, y, Q, i) = 0
      BY <1>6, <1>10, <2>2, Zenon
    <3> QED
      BY <3>1, <3>2
  <2>3. CASE R[i] # NoValue /\ ~(m.filt /\ ~Beyond(d, x, LagD, i, 0))
    <3>1. FundingSide(m, x, R, i) = d
      BY <1>5, <2>3, Zenon
    <3>2. FundingSide(m, y, Q, i) = d
      BY <1>6, <1>10, <2>3, Zenon
    <3> QED
      BY <3>1, <3>2
  <2> QED
    BY <2>1, <2>2, <2>3
<1>8. Sides(m, bs)[i] = Sides(m, cs)[i]
  BY <1>4, <1>7
<1>9. FundingSignal(m, bs)[i] = (Sides(m, bs)[i] # 0) /\ FundingSignal(m, cs)[i] = (Sides(m, cs)[i] # 0)
  BY <1>1, Zenon DEF FundingSignal
<1> QED
  BY <1>8, <1>9

LEMMA FundingDated ==
    ASSUME NEW bs, Hourly(bs), NEW m \in FundingCells
    PROVE  AllDated(LagD + 1, Len(bs) - 1, FundingTrades(m, bs))
<1>1. LagD \in Nat /\ Len(bs) \in Nat
  BY LegsNumbers DEF Hourly
<1>2. ASSUME NEW i \in (LagD + 1)..(Len(bs) - 1)
      PROVE  FundingTrades(m, bs)[i].x \in Nat
  <2>1. i \in 1..(Len(bs) - 1) /\ i + 1 \in 1..Len(bs)
    BY <1>1
  <2>2. FundingTrades(m, bs)[i] = FundingTrade(m, bs, prepare_funding(bs), Sides(m, bs)[i], i + 1)
    BY <2>1, Zenon DEF FundingTrades
  <2>3. FundingTrade(m, bs, prepare_funding(bs), Sides(m, bs)[i], i + 1).x \in Nat
    BY <2>1, FundingTradeIs
  <2> QED
    BY <2>2, <2>3
<1> QED
  BY <1>1, <1>2 DEF AllDated

LEMMA FundingCausal ==
    ASSUME NEW bs, NEW cs, Hourly(bs), Hourly(cs), NEW m \in FundingCells
    PROVE  Causal(bs, cs, run_funding(m, bs), run_funding(m, cs))
<1> DEFINE E == FundingSignal(m, bs)
           F == FundingSignal(m, cs)
           u == FundingTrades(m, bs)
           v == FundingTrades(m, cs)
           R == prepare_funding(bs)
           Q == prepare_funding(cs)
<1>1. /\ run_funding(m, bs) = Sequential(LagD + 1, Len(bs) - 1, 1, E, u)
      /\ run_funding(m, cs) = Sequential(LagD + 1, Len(cs) - 1, 1, F, v)
  BY Zenon DEF run_funding, FundingTrades, FundingSignal, Sides
<1>2. AllDated(LagD + 1, Len(bs) - 1, u) /\ AllDated(LagD + 1, Len(cs) - 1, v)
  BY FundingDated
<1>3. ASSUME NEW h, Shared(bs, cs, h), NEW i \in (LagD + 1)..(h - 1)
      PROVE  E[i] = F[i] /\ SameTrade(h, u[i], v[i])
  <2>1. /\ Len(bs) \in Int /\ Len(cs) \in Int /\ h \in Nat \ {0} /\ h <= Len(bs) /\ h <= Len(cs)
    BY <1>3, SharedBars
  <2>2. /\ i \in 1..(h - 1) /\ i + 1 \in 1..h
        /\ i \in 1..(Len(bs) - 1) /\ i \in 1..(Len(cs) - 1)
    <3>1. LagD \in Nat
      BY LegsNumbers
    <3> QED
      BY <2>1, <3>1
  <2>3. E[i] = F[i] /\ Sides(m, bs)[i] = Sides(m, cs)[i]
    BY <1>3, <2>2, SideSame
  <2>4. \A k \in 1..(h - 1) : R[k] = Q[k]
    BY <1>3, RankSame
  <2> HIDE DEF R, Q
  <2>5. PICK d : d = Sides(m, bs)[i] /\ d = Sides(m, cs)[i]
    BY <2>3
  <2>6. SameTrade(h, FundingTrade(m, bs, R, d, i + 1), FundingTrade(m, cs, Q, d, i + 1))
    BY <1>3, <2>2, <2>4, FundingTwin
  <2>7. u[i] = FundingTrade(m, bs, R, d, i + 1)
    BY <2>2, <2>5, Zenon DEF FundingTrades, R
  <2>8. v[i] = FundingTrade(m, cs, Q, d, i + 1)
    BY <2>2, <2>5, Zenon DEF FundingTrades, Q
  <2> QED
    BY <2>3, <2>6, <2>7, <2>8
<1>4. LagD + 1 \in Nat /\ 1 \in Nat
  BY LegsNumbers
<1> HIDE DEF E, F, u, v
<1>5. Causal(bs, cs, Sequential(LagD + 1, Len(bs) - 1, 1, E, u), Sequential(LagD + 1, Len(cs) - 1, 1, F, v))
  BY <1>2, <1>3, <1>4, SeqCausal
<1> QED
  BY <1>1, <1>5

-----------------------------------------------------------------------------
(* Reports that grow by one trade. *)

LEMMA AppendAny ==
    ASSUME NEW S, NEW q \in Seq(S), NEW c
    PROVE  /\ Append(q, c) \in Seq(S \cup {c}) /\ Len(q) \in Nat /\ Len(Append(q, c)) = Len(q) + 1
           /\ Append(q, c)[Len(q) + 1] = c /\ \A k \in 1..Len(q) : Append(q, c)[k] = q[k]
           /\ DOMAIN q = 1..Len(q) /\ DOMAIN Append(q, c) = 1..(Len(q) + 1)
<1> DEFINE T == S \cup {c}
<1>1. Len(q) \in Nat /\ DOMAIN q = 1..Len(q) /\ q \in [1..Len(q) -> S]
  BY LenProperties
<1>2. \A k \in 1..Len(q) : q[k] \in T
  BY <1>1
<1>3. c \in T
  OBVIOUS
<1>4. q \in Seq(T)
  <2> HIDE DEF T
  <2>1. q \in [1..Len(q) -> T]
    BY <1>1, <1>2
  <2> QED
    BY <1>1, <2>1
<1> HIDE DEF T
<1>5. /\ Append(q, c) \in Seq(T) /\ Len(Append(q, c)) = Len(q) + 1
      /\ Append(q, c)[Len(q) + 1] = c /\ \A k \in 1..Len(q) : Append(q, c)[k] = q[k]
  BY <1>3, <1>4, AppendProperties
<1>6. DOMAIN Append(q, c) = 1..(Len(q) + 1)
  BY <1>5, LenProperties
<1> QED
  BY <1>1, <1>5, <1>6 DEF T

LEMMA AppendEntries ==
    ASSUME NEW S, NEW q \in Seq(S), NEW c
    PROVE  Entries(Append(q, c)) = Entries(q) \cup {c.e}
<1>1. PICK n, a : n = Len(q) /\ a = Append(q, c) /\ n \in Nat
  BY AppendAny
<1>2. /\ a[n + 1] = c /\ DOMAIN q = 1..n /\ DOMAIN a = 1..(n + 1) /\ \A k \in 1..n : a[k] = q[k]
  BY <1>1, AppendAny
<1>3. Entries(a) = {a[k].e : k \in 1..(n + 1)} /\ Entries(q) = {q[k].e : k \in 1..n}
  BY <1>2, Zenon DEF Entries
<1>4. 1..(n + 1) = (1..n) \cup {n + 1}
  BY <1>1
<1>5. {a[k].e : k \in 1..(n + 1)} = {q[k].e : k \in 1..n} \cup {c.e}
  BY <1>2, <1>4
<1> QED
  BY <1>1, <1>3, <1>5

LEMMA AppendKeeps ==
    ASSUME NEW S, NEW q \in Seq(S), NEW n
    PROVE  /\ KeepsUpTo(n, q, q) /\ \A c : KeepsUpTo(n, q, Append(q, c))
           /\ \A c, d : c.e = d.e /\ ~(c.x < n) => KeepsUpTo(n, Append(q, c), Append(q, d))
<1>1. Len(q) \in Nat /\ DOMAIN q = 1..Len(q)
  BY LenProperties
<1>2. KeepsUpTo(n, q, q)
  BY <1>1 DEF KeepsUpTo
<1>3. ASSUME NEW c
      PROVE  KeepsUpTo(n, q, Append(q, c))
  <2>1. Len(Append(q, c)) = Len(q) + 1 /\ \A k \in 1..Len(q) : Append(q, c)[k] = q[k]
    BY AppendAny
  <2> QED
    BY <1>1, <2>1 DEF KeepsUpTo
<1>4. ASSUME NEW c, NEW d, c.e = d.e, ~(c.x < n)
      PROVE  KeepsUpTo(n, Append(q, c), Append(q, d))
  <2>1. PICK m, a, b : m = Len(q) /\ a = Append(q, c) /\ b = Append(q, d)
    OBVIOUS
  <2>2. /\ Len(a) = m + 1 /\ a[m + 1] = c /\ DOMAIN a = 1..(m + 1) /\ \A k \in 1..m : a[k] = q[k]
    BY <2>1, AppendAny
  <2>3. /\ Len(b) = m + 1 /\ b[m + 1] = d /\ \A k \in 1..m : b[k] = q[k]
    BY <2>1, AppendAny
  <2>4. ASSUME NEW k \in 1..(m + 1)
        PROVE  a[k].e = b[k].e /\ (a[k].x < n => a[k] = b[k])
    <3>1. k \in 1..m \/ k = m + 1
      BY <1>1, <2>1
    <3> QED
      BY <1>4, <2>2, <2>3, <3>1
  <2>5. KeepsUpTo(n, a, b)
    BY <1>1, <2>1, <2>2, <2>3, <2>4 DEF KeepsUpTo
  <2> QED
    BY <2>1, <2>5
<1> QED
  BY <1>2, <1>3, <1>4

-----------------------------------------------------------------------------
(* The grid's flags look at no later bar. *)

EmaSeed(x, n) == SumFunctionOnSet(x, 1..n) \div n
EmaAvgFollows(x, n, f) == f = [i \in n..Len(x) |-> IF i = n THEN EmaSeed(x, n) ELSE EmaBar(x, n, f[i - 1], i)]

LEMMA ClosesLen ==
    ASSUME NEW bs, Hourly(bs)
    PROVE  Len(Closes(bs)) = Len(bs)
<1>1. DOMAIN Closes(bs) = 1..Len(bs) /\ Len(bs) \in Nat /\ \A i \in 1..Len(bs) : Closes(bs)[i] \in Int
  BY ClosesIn DEF Hourly
<1>2. Closes(bs) = [i \in 1..Len(bs) |-> Closes(bs)[i]]
  BY <1>1 DEF Closes
<1> DEFINE x == Closes(bs)
<1> HIDE DEF x
<1>3. x \in [1..Len(bs) -> Int]
  BY <1>1, <1>2 DEF x
<1>4. x \in Seq(Int) /\ DOMAIN x = 1..Len(bs)
  BY <1>1, <1>3
<1>5. DOMAIN x = 1..Len(x) /\ Len(x) \in Nat
  BY <1>4, LenProperties
<1>6. Len(x) = Len(bs)
  BY <1>1, <1>4, <1>5
<1> QED
  BY <1>6 DEF x

LEMMA EmaSeedIn ==
    ASSUME NEW bs, Hourly(bs), NEW n \in Nat \ {0}, n <= Len(bs)
    PROVE  EmaSeed(Closes(bs), n) \in Int
<1>1. \A i \in 1..n : Closes(bs)[i] \in Int
  BY ClosesIn DEF Hourly
<1>2. IsFiniteSet(1..n)
  <2>1. 1 \in Int /\ n \in Int
    OBVIOUS
  <2> QED
    BY <2>1, FS_Interval, Zenon
<1>3. SumFunctionOnSet(Closes(bs), 1..n) \in Int
  BY <1>1, <1>2, SumType
<1>4. PICK a : a = SumFunctionOnSet(Closes(bs), 1..n) /\ a \in Int
  BY <1>3
<1>5. a \div n \in Int
  BY <1>4
<1> QED
  BY <1>4, <1>5 DEF EmaSeed

LEMMA EmaAvgRuns ==
    ASSUME NEW bs, Hourly(bs), NEW n \in Nat \ {0}, n <= Len(bs)
    PROVE  /\ ema_avg(Closes(bs), n)[n] = EmaSeed(Closes(bs), n)
           /\ \A i \in (n + 1)..Len(bs) : ema_avg(Closes(bs), n)[i] = EmaBar(Closes(bs), n, ema_avg(Closes(bs), n)[i - 1], i)
           /\ \A i \in n..Len(bs) : ema_avg(Closes(bs), n)[i] \in Int
<1> DEFINE G == [z \in ((n + 1)..Len(bs)) \X Int |-> EmaBar(Closes(bs), n, z[2], z[1])]
<1>0. n \in Int /\ Len(bs) \in Int /\ n <= Len(bs) /\ EmaSeed(Closes(bs), n) \in Int
  <2>1. Len(bs) \in Int
    BY DEF Hourly
  <2> QED
    BY <2>1, EmaSeedIn
<1>1. \A i \in (n + 1)..Len(bs), u \in Int : EmaBar(Closes(bs), n, u, i) \in Int
  <2> SUFFICES ASSUME NEW i \in (n + 1)..Len(bs), NEW u \in Int PROVE EmaBar(Closes(bs), n, u, i) \in Int
    OBVIOUS
  <2>1. i \in 1..Len(bs)
    BY <1>0
  <2>2. Closes(bs)[i] \in Int
    BY <2>1, ClosesIn
  <2> QED
    BY <2>2, EmaBarIn
<1>2. \A i \in (n + 1)..Len(bs), u \in Int : G[<<i, u>>] = EmaBar(Closes(bs), n, u, i)
  OBVIOUS
<1> HIDE DEF G
<1>3. PICK f \in [n..Len(bs) -> Int] : Repeats(f, EmaSeed(Closes(bs), n), G, n, Len(bs))
  <2>1. \A i \in (n + 1)..Len(bs), u \in Int : G[<<i, u>>] \in Int
    BY <1>1, <1>2, Zenon
  <2> QED
    BY <1>0, <2>1, SomeRepeats, Zenon
<1>4. \A i \in n..Len(bs) : f[i] = IF i = n THEN EmaSeed(Closes(bs), n) ELSE G[<<i, f[i - 1]>>]
  BY <1>3, Zenon DEF Repeats
<1>5. \A i \in n..Len(bs) : f[i] = IF i = n THEN EmaSeed(Closes(bs), n) ELSE EmaBar(Closes(bs), n, f[i - 1], i)
  <2> SUFFICES ASSUME NEW i \in n..Len(bs), i # n PROVE f[i] = EmaBar(Closes(bs), n, f[i - 1], i)
    BY <1>4, Zenon
  <2>1. i \in (n + 1)..Len(bs) /\ i - 1 \in n..Len(bs)
    BY <1>0
  <2>2. f[i - 1] \in Int
    BY <1>3, <2>1, Zenon
  <2> QED
    BY <1>2, <1>4, <2>1, <2>2, Zenon
<1>6. f = [i \in n..Len(bs) |-> f[i]]
  BY <1>3, Zenon
<1>7. EmaAvgFollows(Closes(bs), n, f)
  <2>1. Len(Closes(bs)) = Len(bs)
    BY ClosesLen
  <2> QED
    BY <1>5, <1>6, <2>1, Zenon DEF EmaAvgFollows
<1>8. ema_avg(Closes(bs), n) = CHOOSE g : EmaAvgFollows(Closes(bs), n, g)
  BY Zenon DEF ema_avg, EmaAvgFollows, EmaBar, EmaSeed
<1>9. PICK g : EmaAvgFollows(Closes(bs), n, g) /\ ema_avg(Closes(bs), n) = g
  BY <1>7, <1>8, Zenon
<1>10. \A i \in n..Len(bs) : g[i] = IF i = n THEN EmaSeed(Closes(bs), n) ELSE EmaBar(Closes(bs), n, g[i - 1], i)
  <2>1. Len(Closes(bs)) = Len(bs)
    BY ClosesLen
  <2> QED
    BY <1>9, <2>1, Zenon DEF EmaAvgFollows
<1> DEFINE T == {i \in Int : g[i] \in Int}
<1>11. n \in T
  <2>1. n \in n..Len(bs)
    BY <1>0
  <2> QED
    BY <1>0, <1>10, <2>1, Zenon
<1>12. ASSUME NEW i \in (n + 1)..Len(bs)
       PROVE  /\ g[i] = EmaBar(Closes(bs), n, g[i - 1], i)
              /\ i - 1 \in T => i \in T
  <2>1. i \in n..Len(bs) /\ i # n /\ i \in Int
    BY <1>0
  <2>2. g[i] = EmaBar(Closes(bs), n, g[i - 1], i)
    BY <1>10, <2>1, Zenon
  <2> QED
    BY <1>1, <2>1, <2>2, Zenon
<1> HIDE DEF T
<1>13. n..Len(bs) \subseteq T
  <2>1. \A i \in (n + 1)..Len(bs) : i - 1 \in T => i \in T
    BY <1>12, Zenon
  <2>2. n \in Int /\ Len(bs) \in Int
    BY <1>0, Zenon
  <2> QED
    BY <1>11, <2>1, <2>2, IntervalInduction, Zenon
<1>14. \A i \in n..Len(bs) : g[i] \in Int
  BY <1>13, Zenon DEF T
<1>15. g[n] = EmaSeed(Closes(bs), n)
  <2>1. n \in n..Len(bs)
    BY <1>0
  <2> QED
    BY <1>10, <2>1, Zenon
<1> QED
  BY <1>9, <1>12, <1>14, <1>15, Zenon

LEMMA EmaAvgSame ==
    ASSUME NEW bs, NEW cs, NEW k, Hourly(bs), Hourly(cs), Agree(bs, cs, k), NEW n \in Nat \ {0}, n <= k
    PROVE  \A i \in n..k : ema_avg(Closes(bs), n)[i] = ema_avg(Closes(cs), n)[i]
<1> DEFINE x == Closes(bs)
           y == Closes(cs)
           f == ema_avg(x, n)
           g == ema_avg(y, n)
           T == {i \in Int : f[i] = g[i]}
<1>1. k \in Nat /\ Len(bs) \in Nat /\ Len(cs) \in Nat /\ k <= Len(bs) /\ k <= Len(cs) /\ n <= Len(bs) /\ n <= Len(cs)
  BY DEF Agree, Hourly
<1>2. \A i \in 1..k : x[i] = y[i]
  BY CloseSame
<1>3. f[n] = EmaSeed(x, n) /\ \A i \in (n + 1)..Len(bs) : f[i] = EmaBar(x, n, f[i - 1], i)
  BY <1>1, EmaAvgRuns
<1>4. g[n] = EmaSeed(y, n) /\ \A i \in (n + 1)..Len(cs) : g[i] = EmaBar(y, n, g[i - 1], i)
  BY <1>1, EmaAvgRuns
<1> HIDE DEF x, y, f, g
<1>5. EmaSeed(x, n) = EmaSeed(y, n)
  <2>1. IsFiniteSet(1..n) /\ \A i \in 1..n : x[i] = y[i]
    <3>1. 1 \in Int /\ n \in Int /\ \A i \in 1..n : x[i] = y[i]
      BY <1>1, <1>2
    <3> QED
      BY <3>1, FS_Interval, Zenon
  <2>2. SumFunctionOnSet(x, 1..n) = SumFunctionOnSet(y, 1..n)
    BY <2>1, SumCongruence
  <2> QED
    BY <2>2, Zenon DEF EmaSeed
<1>6. n \in T
  BY <1>3, <1>4, <1>5
<1>7. ASSUME NEW i \in (n + 1)..k, i - 1 \in T
      PROVE  i \in T
  <2>1. i \in 1..k /\ i \in (n + 1)..Len(bs) /\ i \in (n + 1)..Len(cs) /\ i \in Int
    BY <1>1
  <2>2. f[i - 1] = g[i - 1] /\ x[i] = y[i]
    BY <1>2, <1>7, <2>1
  <2>3. EmaBar(x, n, f[i - 1], i) = EmaBar(y, n, g[i - 1], i)
    BY <2>2, Zenon DEF EmaBar
  <2> QED
    BY <1>3, <1>4, <2>1, <2>3
<1> HIDE DEF T
<1>8. n..k \subseteq T
  <2>1. \A i \in (n + 1)..k : i - 1 \in T => i \in T
    BY <1>7
  <2>2. n \in Int /\ k \in Int
    BY <1>1
  <2> QED
    BY <1>6, <2>1, <2>2, IntervalInduction, Zenon
<1> QED
  BY <1>8 DEF T, f, g, x, y

LEMMA FlagsSame ==
    ASSUME NEW bs, NEW cs, NEW k, Hourly(bs), Hourly(cs), Agree(bs, cs, k), NEW i \in 1..k
    PROVE  prep(bs)[i] = prep(cs)[i]
<1> DEFINE x == Closes(bs)
           y == Closes(cs)
           ready == i > Warm /\ i >= FastSpan /\ i >= SlowSpan
           p == ready /\ ema_avg(x, FastSpan)[i] < ema_avg(x, SlowSpan)[i] /\ Beyond(-1, x, LagW, i, 0)
           q == ready /\ ema_avg(y, FastSpan)[i] < ema_avg(y, SlowSpan)[i] /\ Beyond(-1, y, LagW, i, 0)
           u == ready /\ ema_avg(x, FastSpan)[i] > ema_avg(x, SlowSpan)[i]
           v == ready /\ ema_avg(y, FastSpan)[i] > ema_avg(y, SlowSpan)[i]
<1>1. FastSpan \in Nat \ {0} /\ SlowSpan \in Nat \ {0} /\ LagW \in Nat /\ k \in Nat
  BY LegsNumbers DEF Agree
<1>2. i \in DOMAIN bs /\ i \in DOMAIN cs
  BY CloseSame
<1>3. Beyond(-1, x, LagW, i, 0) = Beyond(-1, y, LagW, i, 0)
  BY <1>1, MoveSame
<1>4. ready => /\ ema_avg(x, FastSpan)[i] = ema_avg(y, FastSpan)[i]
               /\ ema_avg(x, SlowSpan)[i] = ema_avg(y, SlowSpan)[i]
  <2> SUFFICES ASSUME ready
               PROVE  /\ ema_avg(x, FastSpan)[i] = ema_avg(y, FastSpan)[i]
                      /\ ema_avg(x, SlowSpan)[i] = ema_avg(y, SlowSpan)[i]
    OBVIOUS
  <2>1. i \in FastSpan..k /\ FastSpan <= k /\ i \in SlowSpan..k /\ SlowSpan <= k
    BY <1>1
  <2>2. ema_avg(x, FastSpan)[i] = ema_avg(y, FastSpan)[i]
    BY <1>1, <2>1, EmaAvgSame
  <2>3. ema_avg(x, SlowSpan)[i] = ema_avg(y, SlowSpan)[i]
    BY <1>1, <2>1, EmaAvgSame
  <2> QED
    BY <2>2, <2>3
<1>5. prep(bs)[i] = [gate |-> p, bull |-> u]
  BY <1>2, Zenon DEF prep
<1>6. prep(cs)[i] = [gate |-> q, bull |-> v]
  BY <1>2, Zenon DEF prep
<1> HIDE DEF ready, x, y
<1>7. (p <=> q) /\ (u <=> v)
  BY <1>3, <1>4, Zenon
<1>8. p = q /\ u = v
  BY <1>7
<1> HIDE DEF p, q, u, v
<1> QED
  BY <1>5, <1>6, <1>8, Zenon

-----------------------------------------------------------------------------
(* The grid looks at no later bar. *)

LEMMA GridSame ==
    ASSUME NEW bs, NEW cs, NEW k, Hourly(bs), Hourly(cs), Agree(bs, cs, k), NEW cell \in GridCells
    PROVE  \A i \in 0..k : GridStates(cell, bs)[i] = GridStates(cell, cs)[i]
<1> DEFINE f == GridStates(cell, bs)
           g == GridStates(cell, cs)
           T == {i \in Int : f[i] = g[i]}
<1>1. /\ k \in Nat /\ Len(bs) \in Nat /\ Len(cs) \in Nat /\ k <= Len(bs) /\ k <= Len(cs)
      /\ \A i \in 1..k : bs[i] = cs[i]
  BY DEF Agree, Hourly
<1>2. f[0] = GridStart /\ \A i \in (0 + 1)..Len(bs) : f[i] = GridBar(cell, f[i - 1], i, bs[i], prep(bs)[i])
  BY GridRuns
<1>3. g[0] = GridStart /\ \A i \in (0 + 1)..Len(cs) : g[i] = GridBar(cell, g[i - 1], i, cs[i], prep(cs)[i])
  BY GridRuns
<1> HIDE DEF f, g
<1>4. 0 \in T
  BY <1>2, <1>3
<1>5. ASSUME NEW i \in (0 + 1)..k, i - 1 \in T
      PROVE  i \in T
  <2>1. i \in 1..k /\ i \in (0 + 1)..Len(bs) /\ i \in (0 + 1)..Len(cs) /\ i \in Int
    BY <1>1
  <2>2. f[i - 1] = g[i - 1] /\ bs[i] = cs[i] /\ prep(bs)[i] = prep(cs)[i]
    BY <1>1, <1>5, <2>1, FlagsSame
  <2> QED
    BY <1>2, <1>3, <2>1, <2>2
<1> HIDE DEF T
<1>6. 0..k \subseteq T
  <2>1. \A i \in (0 + 1)..k : i - 1 \in T => i \in T
    BY <1>5
  <2>2. 0 \in Int /\ k \in Int
    BY <1>1
  <2> QED
    BY <1>4, <2>1, <2>2, IntervalInduction, Zenon
<1> QED
  BY <1>6 DEF T, f, g

(* What the grid reports if the series ends at bar n, at price p. *)
Closed(s, n, p) ==
    IF s.grid.on THEN Append(s.cycles, Cycle(s, n, s.grid, [why |-> "eod", px |-> p])) ELSE s.cycles

Reported(s, i, after) ==
    /\ s.grid.on => \E c : c.e = s.e /\ after = Append(s.cycles, c)
    /\ s.grid.entering => \E c : c.e = i /\ after = Append(s.cycles, c)
    /\ ~s.grid.on /\ ~s.grid.entering => after = s.cycles

(* One bar on, an open grid has reported its trade or will; and one that opens will. *)
LEMMA ClosedNext ==
    ASSUME NEW cell, NEW s \in GridStatesOf, NEW i, NEW b, NEW flag, NEW p
    PROVE  Reported(s, i, Closed(GridBar(cell, s, i, b, flag), i, p))
<1> DEFINE added == Added(s.grid, b.h)
           end == IF s.grid.on THEN GridEnd(cell, s.grid, added, b) ELSE NoValue
           t == GridBar(cell, s, i, b, flag)
           g == GridNext(cell, s.grid, b, flag)
           after == Closed(t, i, p)
           d == Cycle(t, i, t.grid, [why |-> "eod", px |-> p])
<1>1. /\ t.grid = g /\ t.e = IF s.grid.entering THEN i ELSE s.e
      /\ t.cycles = IF end = NoValue THEN s.cycles ELSE Append(s.cycles, Cycle(s, i, added, end))
  BY DEF GridBar
<1>2. s.grid \in Grids
  BY DEF GridStatesOf
<1>3. s.grid.on => ~s.grid.entering
  BY <1>2 DEF Grids
<1>4. d.e = t.e /\ Cycle(s, i, added, end).e = s.e
  BY DEF Cycle
<1>5. after = IF g.on THEN Append(t.cycles, d) ELSE t.cycles
  BY <1>1, Zenon DEF Closed
<1> HIDE DEF t, d, after
<1>6. CASE s.grid.on
  <2>1. CASE end = NoValue
    <3>1. g = [added EXCEPT !.closing = flag.bull /\ Floating(added, b.c) < 0]
      BY <1>3, <1>6, <2>1, Zenon DEF GridNext
    <3>2. g.on
      BY <1>6, <3>1 DEF Added
    <3>3. after = Append(s.cycles, d) /\ d.e = s.e
      BY <1>1, <1>3, <1>4, <1>5, <1>6, <2>1, <3>2
    <3> QED
      BY <1>3, <1>6, <3>3 DEF after, t, Reported
  <2>2. CASE end # NoValue
    <3>1. g = Idle
      BY <1>3, <1>6, <2>2, Zenon DEF GridNext
    <3>2. ~g.on
      BY <3>1 DEF Idle
    <3> HIDE DEF end, g
    <3>3. after = Append(s.cycles, Cycle(s, i, added, end))
      BY <1>1, <1>5, <2>2, <3>2
    <3> QED
      BY <1>3, <1>4, <1>6, <3>3 DEF after, t, Reported
  <2> QED
    BY <2>1, <2>2
<1>7. CASE s.grid.entering
  <2>1. ~s.grid.on /\ end = NoValue
    BY <1>3, <1>7
  <2>2. g.on
    <3>1. g = [Opened(cell, b.c) EXCEPT !.closing = flag.bull /\ Floating(Opened(cell, b.c), b.c) < 0]
      BY <1>7, Zenon DEF GridNext
    <3> QED
      BY <3>1 DEF Opened
  <2> HIDE DEF end, g
  <2>3. after = Append(s.cycles, d) /\ d.e = i
    BY <1>1, <1>4, <1>5, <1>7, <2>1, <2>2
  <2> QED
    BY <1>7, <2>1, <2>3 DEF after, t, Reported
<1>8. CASE ~s.grid.on /\ ~s.grid.entering
  <2>1. end = NoValue
    BY <1>8
  <2>2. g = [Idle EXCEPT !.entering = flag.gate]
    BY <1>8, Zenon DEF GridNext
  <2>3. ~g.on
    BY <2>2 DEF Idle
  <2> HIDE DEF end, g
  <2>4. after = s.cycles
    BY <1>1, <1>5, <2>1, <2>3
  <2> QED
    BY <1>8, <2>4 DEF after, t, Reported
<1> QED
  BY <1>6, <1>7, <1>8

LEMMA GridCausal ==
    ASSUME NEW bs, NEW cs, Hourly(bs), Hourly(cs), NEW cell \in GridCells
    PROVE  Causal(bs, cs, run_grid(cell, bs), run_grid(cell, cs))
<1> DEFINE f == GridStates(cell, bs)
           g == GridStates(cell, cs)
           n == Len(bs)
           m == Len(cs)
<1>1. n \in Nat \ {0} /\ m \in Nat \ {0} /\ n \in 1..n /\ m \in 1..m /\ n - 1 \in 0..n /\ n \in 0..n
  BY DEF Hourly
<1>2. run_grid(cell, bs) = Closed(f[n], n, bs[n].c) /\ run_grid(cell, cs) = Closed(g[m], m, cs[m].c)
  BY Zenon DEF run_grid, Closed
<1>3. /\ \A i \in (0 + 1)..n : f[i] = GridBar(cell, f[i - 1], i, bs[i], prep(bs)[i])
      /\ \A i \in 0..n : f[i] \in GridStatesOf
  BY GridRuns
<1>4. \A i \in (0 + 1)..m : g[i] = GridBar(cell, g[i - 1], i, cs[i], prep(cs)[i])
  BY GridRuns
<1> HIDE DEF f, g
<1>5. ASSUME OneMore(bs, cs)
      PROVE  KeepsUpTo(n, run_grid(cell, bs), run_grid(cell, cs))
  <2>1. m = n + 1 /\ Agree(bs, cs, n)
    BY <1>5 DEF OneMore
  <2>2. f[n] = g[n]
    BY <1>1, <2>1, GridSame DEF f, g
  <2>3. PICK s \in GridStatesOf : s = f[n] /\ s = g[n]
    BY <1>1, <1>3, <2>2
  <2>4. g[m] = GridBar(cell, s, m, cs[m], prep(cs)[m])
    BY <1>1, <1>4, <2>1, <2>3
  <2> DEFINE after == Closed(GridBar(cell, s, m, cs[m], prep(cs)[m]), m, cs[m].c)
  <2>5. run_grid(cell, cs) = after
    BY <1>2, <2>4
  <2>6. Reported(s, m, after)
    BY ClosedNext
  <2> HIDE DEF after
  <2>7. s.cycles \in Seq(Cycles)
    BY DEF GridStatesOf
  <2>8. CASE s.grid.on
    <3> DEFINE c == Cycle(s, n, s.grid, [why |-> "eod", px |-> bs[n].c])
    <3>1. run_grid(cell, bs) = Append(s.cycles, c)
      BY <1>2, <2>3, <2>8 DEF Closed
    <3>2. c.e = s.e /\ c.x = n
      BY DEF Cycle
    <3>3. ~(c.x < n)
      BY <1>1, <3>2
    <3> HIDE DEF c
    <3>4. PICK d : d.e = s.e /\ after = Append(s.cycles, d)
      BY <2>6, <2>8 DEF Reported
    <3>5. KeepsUpTo(n, Append(s.cycles, c), Append(s.cycles, d))
      BY <2>7, <3>2, <3>3, <3>4, AppendKeeps
    <3> QED
      BY <2>5, <3>1, <3>4, <3>5
  <2>9. CASE ~s.grid.on
    <3>1. run_grid(cell, bs) = s.cycles
      BY <1>2, <2>3, <2>9 DEF Closed
    <3>2. after = s.cycles \/ \E c : after = Append(s.cycles, c)
      BY <2>6, <2>9 DEF Reported
    <3>3. KeepsUpTo(n, s.cycles, after)
      BY <2>7, <3>2, AppendKeeps
    <3> QED
      BY <2>5, <3>1, <3>3
  <2> QED
    BY <2>8, <2>9
<1>6. ASSUME OtherLast(bs, cs)
      PROVE  Entries(run_grid(cell, bs)) = Entries(run_grid(cell, cs))
  <2>1. m = n /\ Agree(bs, cs, n - 1) /\ n - 1 \in 0..(n - 1)
    BY <1>1, <1>6 DEF OtherLast
  <2>2. f[n - 1] = g[n - 1]
    BY <2>1, GridSame DEF f, g
  <2>3. PICK s \in GridStatesOf : s = f[n - 1] /\ s = g[n - 1]
    BY <1>1, <1>3, <2>2
  <2> DEFINE p == Closed(GridBar(cell, s, n, bs[n], prep(bs)[n]), n, bs[n].c)
             q == Closed(GridBar(cell, s, n, cs[n], prep(cs)[n]), n, cs[n].c)
  <2> n \in (0 + 1)..n
    BY <1>1
  <2>4. f[n] = GridBar(cell, s, n, bs[n], prep(bs)[n])
    BY <1>3, <2>3
  <2>5. g[n] = GridBar(cell, s, n, cs[n], prep(cs)[n])
    BY <1>1, <1>4, <2>1, <2>3
  <2>6. run_grid(cell, bs) = p /\ run_grid(cell, cs) = q
    BY <1>2, <2>1, <2>4, <2>5
  <2>7. Reported(s, n, p)
    BY ClosedNext
  <2>8. Reported(s, n, q)
    BY ClosedNext
  <2>9. s.cycles \in Seq(Cycles)
    BY DEF GridStatesOf
  <2> HIDE DEF p, q
  <2>10. \A c : Entries(Append(s.cycles, c)) = Entries(s.cycles) \cup {c.e}
    BY <2>9, AppendEntries
  <2>11. Entries(p) = Entries(q)
    BY <2>7, <2>8, <2>10 DEF Reported
  <2> QED
    BY <2>6, <2>11
<1> QED
  BY <1>5, <1>6 DEF Causal

-----------------------------------------------------------------------------
(* The pair's trades look at no later bar. *)

(* What a bar adds to the trades: at the last bar an open pair ends. *)
PairAdds(s, v, t, last) ==
    /\ s.pos = 0 => v.trades = s.trades
    /\ s.pos # 0 =>
          \/ t # last /\ v = s
          \/ v.pos = 0 /\ \E c : c.e = s.e /\ (t = last => c.x = t) /\ v.trades = Append(s.trades, c)
SameSides(s, u) == s.pos = u.pos /\ s.e = u.e /\ Entries(s.trades) = Entries(u.trades)

LEMMA PairBarAdds ==
    ASSUME NEW bs, NEW cell, NEW x, NEW hi, NEW last, NEW t, t \in Nat,
           NEW s, s \in PairState(bs)
    PROVE  PairAdds(s, PairBar(cell, bs, x, hi, last, s, t), t, last)
<1>1. PICK z : z = roll_stats(x, cell.m, t)
  OBVIOUS
<1>2. CASE s.pos = 0
  <2>1. PairBar(cell, bs, x, hi, last, s, t) = PairEnter(cell, s, z, t, t <= hi)
    BY <1>1, <1>2 DEF PairBar
  <2>2. PairEnter(cell, s, z, t, t <= hi).trades = s.trades
    <3> DEFINE blocked == IF Within(z, cell.zin) THEN 0 ELSE s.blocked
               d == IF z.dev > 0 THEN -1 ELSE 1
               goes == t <= hi /\ Outside(z, cell.zin) /\ d # blocked
    <3>1. PairEnter(cell, s, z, t, t <= hi) =
              IF goes THEN [pos |-> d, e |-> t + 1, blocked |-> 0, trades |-> s.trades]
              ELSE [s EXCEPT !.blocked = blocked]
      BY Zenon DEF PairEnter
    <3> HIDE DEF blocked, d, goes
    <3>2. [s EXCEPT !.blocked = blocked].trades = s.trades
      BY DEF PairState
    <3>3. CASE goes
      BY <3>1, <3>3
    <3>4. CASE ~goes
      BY <3>1, <3>2, <3>4
    <3> QED
      BY <3>3, <3>4
  <2> QED
    BY <1>2, <2>1, <2>2 DEF PairAdds
<1>3. CASE s.pos # 0
  <2> DEFINE reason == IF s.pos * z.dev >= 0 THEN "cross0"
                       ELSE IF Outside(z, cell.zstop) THEN "stop"
                       ELSE IF t - s.e >= PairCap THEN "timecap"
                       ELSE IF t = last THEN "forced" ELSE NoValue
             at == IF reason # "forced" /\ t + 1 <= last THEN t + 1 ELSE t
             c == [d |-> s.pos, e |-> s.e, x |-> at, reason |-> reason,
                   net |-> PairProfit(s.pos, bs, s.e, at) - 4 * Fee(1000)]
             v == PairExit(cell, s, z, t, last, bs)
  <2>1. v = IF reason = NoValue THEN s
            ELSE [pos |-> 0, e |-> 0, blocked |-> IF Blocks(reason) THEN s.pos ELSE 0,
                  trades |-> Append(s.trades, c)]
    BY Zenon DEF PairExit
  <2>2. PairBar(cell, bs, x, hi, last, s, t) = v
    BY <1>1, <1>3 DEF PairBar
  <2>3. t = last => reason # NoValue
    BY LegsNumbers DEF Reasons
  <2>4. t = last => at = t
    OBVIOUS
  <2>5. c.e = s.e /\ c.x = at
    OBVIOUS
  <2> HIDE DEF reason, at, c, v
  <2> QED
    BY <1>3, <2>1, <2>2, <2>3, <2>4, <2>5 DEF PairAdds
<1> QED
  BY <1>2, <1>3

(* One state and one bar, two series: only what the trade made can differ. *)
LEMMA PairBarTwin ==
    ASSUME NEW bs, NEW cs, NEW k, Hourly(bs), Hourly(cs), Agree(bs, cs, k), NEW cell \in PairCells,
           NEW t \in 1..k, NEW hi, NEW last, NEW s \in PairState(bs)
    PROVE  SameSides(PairBar(cell, bs, Ratio(bs), hi, last, s, t), PairBar(cell, cs, Ratio(cs), hi, last, s, t))
<1>1. PICK z : z = roll_stats(Ratio(bs), cell.m, t) /\ z = roll_stats(Ratio(cs), cell.m, t)
  <2>1. cell.m \in Nat \ {0}
    BY LegsAssumption
  <2>2. t \in Nat /\ \A i \in 1..t : Ratio(bs)[i] = Ratio(cs)[i]
    BY RatioSame DEF Agree
  <2> QED
    BY <2>1, <2>2, ScoreSame
<1>2. CASE s.pos = 0
  BY <1>1, <1>2 DEF PairBar, SameSides
<1>3. CASE s.pos # 0
  <2> DEFINE reason == IF s.pos * z.dev >= 0 THEN "cross0"
                       ELSE IF Outside(z, cell.zstop) THEN "stop"
                       ELSE IF t - s.e >= PairCap THEN "timecap"
                       ELSE IF t = last THEN "forced" ELSE NoValue
             at == IF reason # "forced" /\ t + 1 <= last THEN t + 1 ELSE t
             c(b) == [d |-> s.pos, e |-> s.e, x |-> at, reason |-> reason,
                      net |-> PairProfit(s.pos, b, s.e, at) - 4 * Fee(1000)]
             v(b) == PairExit(cell, s, z, t, last, b)
  <2>1. \A b : v(b) = IF reason = NoValue THEN s
                      ELSE [pos |-> 0, e |-> 0, blocked |-> IF Blocks(reason) THEN s.pos ELSE 0,
                            trades |-> Append(s.trades, c(b))]
    BY Zenon DEF PairExit
  <2>2. PairBar(cell, bs, Ratio(bs), hi, last, s, t) = v(bs) /\ PairBar(cell, cs, Ratio(cs), hi, last, s, t) = v(cs)
    BY <1>1, <1>3 DEF PairBar
  <2>3. c(bs).e = s.e /\ c(cs).e = s.e
    OBVIOUS
  <2> HIDE DEF reason, c, v
  <2>4. s.trades \in Seq(PairTrades(bs))
    BY DEF PairState
  <2>5. Entries(Append(s.trades, c(bs))) = Entries(Append(s.trades, c(cs)))
    <3>1. Entries(Append(s.trades, c(bs))) = Entries(s.trades) \cup {c(bs).e}
      BY <2>4, AppendEntries
    <3>2. Entries(Append(s.trades, c(cs))) = Entries(s.trades) \cup {c(cs).e}
      BY <2>4, AppendEntries
    <3> QED
      BY <2>3, <3>1, <3>2
  <2>6. SameSides(v(bs), v(cs))
    BY <2>1, <2>5 DEF SameSides
  <2> QED
    BY <2>2, <2>6
<1> QED
  BY <1>2, <1>3

LEMMA PairOneMore ==
    ASSUME NEW bs, NEW cs, NEW cell \in PairCells, OneMore(bs, cs)
    PROVE  KeepsUpTo(Len(bs), run_pair(cell, bs, Len(bs)), run_pair(cell, cs, Len(cs)))
<1>1. PICK n : /\ n = Len(bs) /\ n \in Nat \ {0} /\ Len(cs) = n + 1
               /\ Hourly(bs) /\ Hourly(cs) /\ Agree(bs, cs, n)
  BY DEF OneMore, Hourly
<1>2. MinOf(n + 1, n) = n /\ MinOf(n + 2, n + 1) = n + 1 /\ (n + 1) + 1 = n + 2
  BY <1>1 DEF MinOf
<1> DEFINE f == PairStates(cell, bs, n, n)
           g == PairStates(cell, cs, n + 1, n + 1)
<1>3. run_pair(cell, bs, Len(bs)) = f[n].trades /\ run_pair(cell, cs, Len(cs)) = g[n + 1].trades
  BY <1>1, <1>2, Zenon DEF run_pair
<1>4. AlikeTo(n - 1, n, n, n, n + 1, n + 1)
  BY <1>1 DEF AlikeTo, EndAlike
<1>5. n - 1 \in 0..(n - 1) /\ n \in (0 + 1)..n /\ n \in (0 + 1)..(n + 1) /\ n + 1 \in (0 + 1)..(n + 1)
      /\ n \in 0..(n + 1) /\ n + 1 - 1 = n /\ n \in Nat /\ n + 1 \in Nat
  BY <1>1
<1>6. PICK s \in PairState(bs) : s = f[n - 1] /\ s = g[n - 1]
  BY <1>1, <1>4, <1>5, PairStatesSame
<1>7. \A i \in (0 + 1)..n : f[i] = PairBar(cell, bs, Ratio(bs), n, n, f[i - 1], i)
  BY <1>5, PairRuns
<1>8. \A i \in (0 + 1)..(n + 1) : g[i] = PairBar(cell, cs, Ratio(cs), n + 1, n + 1, g[i - 1], i)
  BY <1>5, PairRuns
<1>9. \A i \in 0..(n + 1) : g[i] \in PairState(cs)
  BY <1>5, PairRuns
<1> HIDE DEF f, g
<1>10. g[n - 1] \in PairState(cs)
  BY <1>1, <1>9
<1>11. PairAdds(s, f[n], n, n)
  BY <1>5, <1>6, <1>7, PairBarAdds
<1>12. PairAdds(s, g[n], n, n + 1)
  BY <1>5, <1>6, <1>8, <1>10, PairBarAdds
<1>13. PairAdds(g[n], g[n + 1], n + 1, n + 1)
  BY <1>5, <1>8, <1>9, PairBarAdds
<1>14. PICK q, S : q = s.trades /\ q \in Seq(S)
  BY DEF PairState
<1>15. n # n + 1
  BY <1>5
<1>16. CASE s.pos = 0
  <2>1. f[n].trades = q /\ g[n].trades = q
    BY <1>11, <1>12, <1>14, <1>16 DEF PairAdds
  <2>2. g[n + 1].trades = q \/ \E c : g[n + 1].trades = Append(q, c)
    BY <1>13, <2>1 DEF PairAdds
  <2>3. KeepsUpTo(n, q, g[n + 1].trades)
    BY <1>14, <2>2, AppendKeeps
  <2> QED
    BY <1>1, <1>3, <2>1, <2>3
<1>17. CASE s.pos # 0
  <2>1. PICK c : c.e = s.e /\ c.x = n /\ f[n].trades = Append(q, c)
    BY <1>11, <1>14, <1>17 DEF PairAdds
  <2>2. PICK d : d.e = s.e /\ g[n + 1].trades = Append(q, d)
    <3>1. CASE g[n] = s
      BY <1>13, <1>14, <1>17, <3>1 DEF PairAdds
    <3>2. CASE g[n] # s
      BY <1>12, <1>13, <1>14, <1>17, <3>2 DEF PairAdds
    <3> QED
      BY <3>1, <3>2
  <2>3. ~(c.x < n)
    BY <1>5, <2>1
  <2>4. KeepsUpTo(n, Append(q, c), Append(q, d))
    BY <1>14, <2>1, <2>2, <2>3, AppendKeeps
  <2> QED
    BY <1>1, <1>3, <2>1, <2>2, <2>4
<1> QED
  BY <1>16, <1>17

LEMMA PairOtherLast ==
    ASSUME NEW bs, NEW cs, NEW cell \in PairCells, OtherLast(bs, cs)
    PROVE  Entries(run_pair(cell, bs, Len(bs))) = Entries(run_pair(cell, cs, Len(cs)))
<1>1. PICK n : /\ n = Len(bs) /\ n \in Nat \ {0} /\ Len(cs) = n
               /\ Hourly(bs) /\ Hourly(cs) /\ Agree(bs, cs, n - 1)
  BY DEF OtherLast, Hourly
<1>2. MinOf(n + 1, n) = n
  BY <1>1 DEF MinOf
<1> DEFINE f == PairStates(cell, bs, n, n)
           g == PairStates(cell, cs, n, n)
<1>3. run_pair(cell, bs, Len(bs)) = f[n].trades /\ run_pair(cell, cs, Len(cs)) = g[n].trades
  BY <1>1, <1>2, Zenon DEF run_pair
<1>4. n \in Nat /\ n \in (0 + 1)..n /\ n - 1 \in 0..n
  BY <1>1
<1>5. /\ f[0] = PairFlat /\ \A i \in (0 + 1)..n : f[i] = PairBar(cell, bs, Ratio(bs), n, n, f[i - 1], i)
      /\ \A i \in 0..n : f[i] \in PairState(bs)
  BY <1>4, PairRuns
<1>6. /\ g[0] = PairFlat /\ \A i \in (0 + 1)..n : g[i] = PairBar(cell, cs, Ratio(cs), n, n, g[i - 1], i)
      /\ \A i \in 0..n : g[i] \in PairState(cs)
  BY <1>4, PairRuns
<1>7. ASSUME n > 1
      PROVE  f[n - 2] = g[n - 2]
  <2>1. AlikeTo(n - 2, n - 1, n, n, n, n) /\ n - 2 \in 0..(n - 2)
    BY <1>1, <1>7 DEF AlikeTo, EndAlike
  <2> QED
    BY <1>1, <2>1, PairStatesSame
<1> HIDE DEF f, g
<1>8. SameSides(f[n - 1], g[n - 1])
  <2>1. CASE n = 1
    BY <1>5, <1>6, <2>1 DEF SameSides
  <2>2. CASE n > 1
    <3>1. n - 1 \in (0 + 1)..n /\ (n - 1) - 1 = n - 2 /\ n - 2 \in 0..n /\ n - 1 \in 1..(n - 1)
      BY <1>1, <2>2
    <3>2. PICK s \in PairState(bs) : s = f[n - 2] /\ s = g[n - 2]
      BY <1>5, <1>7, <2>2, <3>1
    <3>3. f[n - 1] = PairBar(cell, bs, Ratio(bs), n, n, s, n - 1)
      BY <1>5, <3>1, <3>2
    <3>4. g[n - 1] = PairBar(cell, cs, Ratio(cs), n, n, s, n - 1)
      BY <1>6, <3>1, <3>2
    <3>5. SameSides(PairBar(cell, bs, Ratio(bs), n, n, s, n - 1), PairBar(cell, cs, Ratio(cs), n, n, s, n - 1))
      BY <1>1, <3>1, PairBarTwin
    <3> QED
      BY <3>3, <3>4, <3>5
  <2> QED
    BY <1>1, <2>1, <2>2
<1>9. PICK s, u : /\ s = f[n - 1] /\ u = g[n - 1] /\ SameSides(s, u)
                  /\ s \in PairState(bs) /\ u \in PairState(cs)
  BY <1>4, <1>5, <1>6, <1>8
<1>10. PairAdds(s, f[n], n, n)
  BY <1>4, <1>5, <1>9, PairBarAdds
<1>11. PairAdds(u, g[n], n, n)
  BY <1>4, <1>6, <1>9, PairBarAdds
<1>12. s.trades \in Seq(PairTrades(bs)) /\ u.trades \in Seq(PairTrades(cs))
  BY <1>9 DEF PairState
<1>13. \A c : Entries(Append(s.trades, c)) = Entries(s.trades) \cup {c.e}
  BY <1>12, AppendEntries
<1>14. \A c : Entries(Append(u.trades, c)) = Entries(u.trades) \cup {c.e}
  BY <1>12, AppendEntries
<1>15. Entries(f[n].trades) = IF s.pos = 0 THEN Entries(s.trades) ELSE Entries(s.trades) \cup {s.e}
  BY <1>10, <1>13 DEF PairAdds
<1>16. Entries(g[n].trades) = IF u.pos = 0 THEN Entries(u.trades) ELSE Entries(u.trades) \cup {u.e}
  BY <1>11, <1>14 DEF PairAdds
<1> QED
  BY <1>3, <1>9, <1>15, <1>16 DEF SameSides

LEMMA PairCausal ==
    ASSUME NEW bs, NEW cs, NEW cell \in PairCells
    PROVE  Causal(bs, cs, run_pair(cell, bs, Len(bs)), run_pair(cell, cs, Len(cs)))
BY PairOneMore, PairOtherLast DEF Causal

-----------------------------------------------------------------------------
(* The ratio's trades look at no later bar. *)

(* What a bar adds to the trades; the bar an order fills on is not looked at. *)
RatioAdds(s, v, t, end) ==
    /\ t < s.next \/ s.pos = 0 => v.trades = s.trades
    /\ ~(t < s.next \/ s.pos = 0) =>
          \/ t # end /\ v = s
          \/ v.pos = 0 /\ \E c : c.e = s.e /\ (t = end => c.x = t) /\ v.trades = Append(s.trades, c)
SameOrders(s, u) ==
    s.pos = u.pos /\ s.e = u.e /\ s.next = u.next /\ Entries(s.trades) = Entries(u.trades)

LEMMA RatioBarAdds ==
    ASSUME NEW bs, NEW cell, NEW x, NEW hi, NEW end \in Nat, NEW t, t \in Nat, NEW s
    PROVE  RatioAdds(s, RatioBar(cell, bs, x, hi, end, s, t), t, end)
<1> DEFINE reason == RatioReason(cell, bs, x, end, s, t)
           at == MinOf(t + 1, end)
           net == RatioNet(s.pos, bs, s.e, at)
           c == [d |-> s.pos, e |-> s.e, x |-> at, reason |-> reason, net |-> net]
           v == RatioBar(cell, bs, x, hi, end, s, t)
<1>1. PICK goes, side : v = RatioStep(s, t, goes, side, reason, at, net)
  BY RatioBarIs, Zenon
<1>2. t = end => reason # NoValue
  BY LegsNumbers DEF RatioReason, Reasons
<1>3. t = end => at = t
  BY DEF MinOf
<1>4. c.e = s.e /\ c.x = at
  OBVIOUS
<1> HIDE DEF reason, at, net, v
<1>5. CASE t < s.next
  <2>1. v = s
    BY <1>1, <1>5, Zenon DEF RatioStep
  <2> QED
    BY <1>5, <2>1 DEF RatioAdds, v
<1>6. CASE ~(t < s.next) /\ s.pos = 0
  <2>1. v = s \/ v = [pos |-> side, e |-> t + 1, next |-> t + 2, trades |-> s.trades]
    BY <1>1, <1>6, Zenon DEF RatioStep
  <2>2. v.trades = s.trades
    BY <2>1
  <2> QED
    BY <1>6, <2>2 DEF RatioAdds, v
<1>7. CASE ~(t < s.next) /\ s.pos # 0
  <2>1. CASE reason = NoValue
    <3>1. v = s
      BY <1>1, <1>7, <2>1, Zenon DEF RatioStep
    <3> QED
      BY <1>2, <1>7, <2>1, <3>1 DEF RatioAdds, v
  <2>2. CASE reason # NoValue
    <3>1. v = [pos |-> 0, e |-> 0, next |-> at + 1, trades |-> Append(s.trades, c)]
      BY <1>1, <1>7, <2>2, Zenon DEF RatioStep
    <3> HIDE DEF c
    <3>2. v.pos = 0 /\ v.trades = Append(s.trades, c)
      BY <3>1
    <3> QED
      BY <1>3, <1>4, <1>7, <3>2 DEF RatioAdds, v
  <2> QED
    BY <2>1, <2>2
<1> QED
  BY <1>5, <1>6, <1>7

(* One state and one bar, two series: only what the trade made can differ. *)
LEMMA RatioBarTwin ==
    ASSUME NEW bs, NEW cs, NEW k, Hourly(bs), Hourly(cs), Agree(bs, cs, k),
           NEW cell \in ToSet(RatioGrid), NEW t \in 1..k, NEW hi, NEW end,
           NEW s \in RatioState(bs), s.pos # 0 => s.e \in 1..k
    PROVE  SameOrders(RatioBar(cell, bs, Ratio(bs), hi, end, s, t), RatioBar(cell, cs, Ratio(cs), hi, end, s, t))
<1> DEFINE x == Ratio(bs)
           y == Ratio(cs)
           at == MinOf(t + 1, end)
<1>1. t \in Nat /\ \A i \in 1..t : x[i] = y[i]
  BY RatioSame DEF Agree
<1>2. \A d, p : Beyond(d, x, cell.l, t, p) = Beyond(d, y, cell.l, t, p)
  BY <1>1, RatioCell, BeyondSame
<1>3. \A d : RatioMoved(cell, x, t, d) = RatioMoved(cell, y, t, d) /\ RatioFar(cell, x, t, d) = RatioFar(cell, y, t, d)
  BY <1>2, Zenon DEF RatioMoved, RatioFar
<1>4. RatioGoes(cell, x, hi, end, t) = RatioGoes(cell, y, hi, end, t)
  BY <1>3 DEF RatioGoes
<1>5. RatioSide(cell, x, t) = RatioSide(cell, y, t)
  BY <1>3 DEF RatioSide
<1>6. s.pos # 0 => RatioReason(cell, bs, x, end, s, t) = RatioReason(cell, cs, y, end, s, t)
  <2> SUFFICES ASSUME s.pos # 0
               PROVE  RatioReason(cell, bs, x, end, s, t) = RatioReason(cell, cs, y, end, s, t)
    OBVIOUS
  <2>1. PairProfit(s.pos, bs, s.e, t) = PairProfit(s.pos, cs, s.e, t)
    BY PairProfitSame
  <2> QED
    BY <1>3, <2>1, Zenon DEF RatioReason
<1> HIDE DEF x, y, at
<1> DEFINE goes == RatioGoes(cell, y, hi, end, t)
           side == RatioSide(cell, y, t)
           reason == RatioReason(cell, cs, y, end, s, t)
           c(b) == [d |-> s.pos, e |-> s.e, x |-> at, reason |-> reason, net |-> RatioNet(s.pos, b, s.e, at)]
<1>7. RatioBar(cell, cs, y, hi, end, s, t) = RatioStep(s, t, goes, side, reason, at, RatioNet(s.pos, cs, s.e, at))
  BY RatioBarIs DEF at
<1>8. RatioBar(cell, bs, x, hi, end, s, t)
        = RatioStep(s, t, goes, side, RatioReason(cell, bs, x, end, s, t), at, RatioNet(s.pos, bs, s.e, at))
  BY <1>4, <1>5, RatioBarIs DEF at
<1> HIDE DEF goes, side
<1>9. CASE t < s.next \/ s.pos = 0
  <2>1. RatioBar(cell, bs, x, hi, end, s, t) = RatioBar(cell, cs, y, hi, end, s, t)
    BY <1>7, <1>8, <1>9 DEF RatioStep
  <2> QED
    BY <2>1 DEF SameOrders, x, y
<1>10. CASE ~(t < s.next \/ s.pos = 0)
  <2>1. RatioReason(cell, bs, x, end, s, t) = reason
    BY <1>6, <1>10
  <2> HIDE DEF reason
  <2>2. CASE reason = NoValue
    <3>1. RatioBar(cell, bs, x, hi, end, s, t) = s /\ RatioBar(cell, cs, y, hi, end, s, t) = s
      BY <1>7, <1>8, <1>10, <2>1, <2>2, Zenon DEF RatioStep
    <3> QED
      BY <3>1 DEF SameOrders, x, y
  <2>3. CASE reason # NoValue
    <3>1. /\ RatioBar(cell, bs, x, hi, end, s, t) = [pos |-> 0, e |-> 0, next |-> at + 1, trades |-> Append(s.trades, c(bs))]
          /\ RatioBar(cell, cs, y, hi, end, s, t) = [pos |-> 0, e |-> 0, next |-> at + 1, trades |-> Append(s.trades, c(cs))]
      BY <1>7, <1>8, <1>10, <2>1, <2>3, Zenon DEF RatioStep
    <3>2. c(bs).e = s.e /\ c(cs).e = s.e
      OBVIOUS
    <3> HIDE DEF c
    <3>3. s.trades \in Seq(RatioTrades(bs))
      BY DEF RatioState
    <3>4. Entries(Append(s.trades, c(bs))) = Entries(s.trades) \cup {c(bs).e}
      BY <3>3, AppendEntries
    <3>5. Entries(Append(s.trades, c(cs))) = Entries(s.trades) \cup {c(cs).e}
      BY <3>3, AppendEntries
    <3>6. Entries(Append(s.trades, c(bs))) = Entries(Append(s.trades, c(cs)))
      BY <3>2, <3>4, <3>5
    <3> QED
      BY <3>1, <3>6 DEF SameOrders, x, y
  <2> QED
    BY <2>2, <2>3
<1> QED
  BY <1>9, <1>10

LEMMA RatioOneMore ==
    ASSUME NEW bs, NEW cs, NEW cell \in ToSet(RatioGrid), OneMore(bs, cs)
    PROVE  KeepsUpTo(Len(bs), run_ratio(cell, bs, Len(bs)), run_ratio(cell, cs, Len(cs)))
<1>1. PICK n : /\ n = Len(bs) /\ n \in Nat \ {0} /\ Len(cs) = n + 1
               /\ Hourly(bs) /\ Hourly(cs) /\ Agree(bs, cs, n)
  BY DEF OneMore, Hourly
<1>2. MinOf(n + 1, n) = n /\ MinOf(n + 2, n + 1) = n + 1 /\ (n + 1) + 1 = n + 2
  BY <1>1 DEF MinOf
<1> DEFINE f == RatioStates(cell, bs, n, n)
           g == RatioStates(cell, cs, n + 1, n + 1)
<1>3. run_ratio(cell, bs, Len(bs)) = f[n].trades /\ run_ratio(cell, cs, Len(cs)) = g[n + 1].trades
  BY <1>1, <1>2, Zenon DEF run_ratio
<1>4. AlikeTo(n - 1, n, n, n, n + 1, n + 1)
  BY <1>1 DEF AlikeTo, EndAlike
<1>5. n - 1 \in 0..(n - 1) /\ n \in (0 + 1)..n /\ n \in (0 + 1)..(n + 1) /\ n + 1 \in (0 + 1)..(n + 1)
      /\ n \in 0..(n + 1) /\ n + 1 - 1 = n /\ n \in Nat /\ n + 1 \in Nat
  BY <1>1
<1>6. PICK s \in RatioState(bs) : s = f[n - 1] /\ s = g[n - 1]
  BY <1>1, <1>4, <1>5, RatioStatesSame
<1>7. \A i \in (0 + 1)..n : f[i] = RatioBar(cell, bs, Ratio(bs), n, n, f[i - 1], i)
  BY <1>5, RatioRuns
<1>8. \A i \in (0 + 1)..(n + 1) : g[i] = RatioBar(cell, cs, Ratio(cs), n + 1, n + 1, g[i - 1], i)
  BY <1>5, RatioRuns
<1> HIDE DEF f, g
<1>11. RatioAdds(s, f[n], n, n)
  BY <1>5, <1>6, <1>7, RatioBarAdds
<1>12. RatioAdds(s, g[n], n, n + 1)
  BY <1>5, <1>6, <1>8, RatioBarAdds
<1>13. RatioAdds(g[n], g[n + 1], n + 1, n + 1)
  BY <1>5, <1>8, RatioBarAdds
<1>14. PICK q, S : q = s.trades /\ q \in Seq(S)
  BY DEF RatioState
<1>15. s.next \in Nat
  BY DEF RatioState
<1>16. CASE n < s.next \/ s.pos = 0
  <2>1. f[n].trades = q /\ g[n].trades = q
    BY <1>11, <1>12, <1>14, <1>16 DEF RatioAdds
  <2>2. g[n + 1].trades = q \/ \E c : g[n + 1].trades = Append(q, c)
    BY <1>13, <2>1 DEF RatioAdds
  <2>3. KeepsUpTo(n, q, g[n + 1].trades)
    BY <1>14, <2>2, AppendKeeps
  <2> QED
    BY <1>1, <1>3, <2>1, <2>3
<1>17. CASE ~(n < s.next \/ s.pos = 0)
  <2>1. PICK c : c.e = s.e /\ c.x = n /\ f[n].trades = Append(q, c)
    BY <1>11, <1>14, <1>17 DEF RatioAdds
  <2>2. PICK d : d.e = s.e /\ g[n + 1].trades = Append(q, d)
    <3>1. CASE g[n] = s
      <4>1. ~(n + 1 < s.next \/ s.pos = 0)
        BY <1>5, <1>15, <1>17
      <4> QED
        BY <1>13, <1>14, <3>1, <4>1 DEF RatioAdds
    <3>2. CASE g[n] # s
      BY <1>12, <1>13, <1>14, <1>17, <3>2 DEF RatioAdds
    <3> QED
      BY <3>1, <3>2
  <2>3. ~(c.x < n)
    BY <1>5, <2>1
  <2>4. KeepsUpTo(n, Append(q, c), Append(q, d))
    BY <1>14, <2>1, <2>2, <2>3, AppendKeeps
  <2> QED
    BY <1>1, <1>3, <2>1, <2>2, <2>4
<1> QED
  BY <1>16, <1>17

LEMMA RatioOtherLast ==
    ASSUME NEW bs, NEW cs, NEW cell \in ToSet(RatioGrid), OtherLast(bs, cs)
    PROVE  Entries(run_ratio(cell, bs, Len(bs))) = Entries(run_ratio(cell, cs, Len(cs)))
<1>1. PICK n : /\ n = Len(bs) /\ n \in Nat \ {0} /\ Len(cs) = n
               /\ Hourly(bs) /\ Hourly(cs) /\ Agree(bs, cs, n - 1)
  BY DEF OtherLast, Hourly
<1>2. MinOf(n + 1, n) = n
  BY <1>1 DEF MinOf
<1> DEFINE f == RatioStates(cell, bs, n, n)
           g == RatioStates(cell, cs, n, n)
<1>3. run_ratio(cell, bs, Len(bs)) = f[n].trades /\ run_ratio(cell, cs, Len(cs)) = g[n].trades
  BY <1>1, <1>2, Zenon DEF run_ratio
<1>4. n \in Nat /\ n \in (0 + 1)..n /\ n - 1 \in 0..n
  BY <1>1
<1>5. /\ f[0] = RatioFlat(cell)
      /\ \A i \in (0 + 1)..n : f[i] = RatioBar(cell, bs, Ratio(bs), n, n, f[i - 1], i)
      /\ \A i \in 0..n : f[i] \in RatioState(bs)
  BY <1>4, RatioRuns
<1>6. /\ g[0] = RatioFlat(cell)
      /\ \A i \in (0 + 1)..n : g[i] = RatioBar(cell, cs, Ratio(cs), n, n, g[i - 1], i)
      /\ \A i \in 0..n : g[i] \in RatioState(cs)
  BY <1>4, RatioRuns
<1>7. ASSUME n > 1
      PROVE  f[n - 2] = g[n - 2] /\ (f[n - 2].pos # 0 => f[n - 2].e \in 1..(n - 1))
  <2>1. AlikeTo(n - 2, n - 1, n, n, n, n) /\ n - 2 \in 0..(n - 2) /\ (n - 2) + 1 = n - 1
    BY <1>1, <1>7 DEF AlikeTo, EndAlike
  <2>2. /\ f[n - 2] = g[n - 2]
        /\ f[n - 2].pos # 0 => f[n - 2].e \in 1..((n - 2) + 1)
    BY <1>1, <2>1, RatioStatesSame
  <2> QED
    BY <2>1, <2>2
<1> HIDE DEF f, g
<1>8. SameOrders(f[n - 1], g[n - 1])
  <2>1. CASE n = 1
    BY <1>5, <1>6, <2>1 DEF SameOrders
  <2>2. CASE n > 1
    <3>1. n - 1 \in (0 + 1)..n /\ (n - 1) - 1 = n - 2 /\ n - 2 \in 0..n /\ n - 1 \in 1..(n - 1)
      BY <1>1, <2>2
    <3>2. PICK s \in RatioState(bs) : s = f[n - 2] /\ s = g[n - 2] /\ (s.pos # 0 => s.e \in 1..(n - 1))
      BY <1>5, <1>7, <2>2, <3>1
    <3>3. f[n - 1] = RatioBar(cell, bs, Ratio(bs), n, n, s, n - 1)
      BY <1>5, <3>1, <3>2
    <3>4. g[n - 1] = RatioBar(cell, cs, Ratio(cs), n, n, s, n - 1)
      BY <1>6, <3>1, <3>2
    <3>5. SameOrders(RatioBar(cell, bs, Ratio(bs), n, n, s, n - 1), RatioBar(cell, cs, Ratio(cs), n, n, s, n - 1))
      BY <1>1, <3>1, <3>2, RatioBarTwin
    <3> QED
      BY <3>3, <3>4, <3>5
  <2> QED
    BY <1>1, <2>1, <2>2
<1>9. PICK s, u : /\ s = f[n - 1] /\ u = g[n - 1] /\ SameOrders(s, u)
                  /\ s \in RatioState(bs) /\ u \in RatioState(cs)
  BY <1>4, <1>5, <1>6, <1>8
<1>10. RatioAdds(s, f[n], n, n)
  BY <1>4, <1>5, <1>9, RatioBarAdds
<1>11. RatioAdds(u, g[n], n, n)
  BY <1>4, <1>6, <1>9, RatioBarAdds
<1>12. s.trades \in Seq(RatioTrades(bs)) /\ u.trades \in Seq(RatioTrades(cs))
  BY <1>9 DEF RatioState
<1>13. \A c : Entries(Append(s.trades, c)) = Entries(s.trades) \cup {c.e}
  BY <1>12, AppendEntries
<1>14. \A c : Entries(Append(u.trades, c)) = Entries(u.trades) \cup {c.e}
  BY <1>12, AppendEntries
<1>15. Entries(f[n].trades) = IF n < s.next \/ s.pos = 0 THEN Entries(s.trades) ELSE Entries(s.trades) \cup {s.e}
  BY <1>10, <1>13 DEF RatioAdds
<1>16. Entries(g[n].trades) = IF n < u.next \/ u.pos = 0 THEN Entries(u.trades) ELSE Entries(u.trades) \cup {u.e}
  BY <1>11, <1>14 DEF RatioAdds
<1> QED
  BY <1>3, <1>9, <1>15, <1>16 DEF SameOrders

LEMMA RatioCausal ==
    ASSUME NEW bs, NEW cs, NEW cell \in ToSet(RatioGrid)
    PROVE  Causal(bs, cs, run_ratio(cell, bs, Len(bs)), run_ratio(cell, cs, Len(cs)))
BY RatioOneMore, RatioOtherLast DEF Causal

-----------------------------------------------------------------------------
(* All that is reported on two series that agree up to their last bars. *)

LEMMA ReportsAre ==
    ASSUME NEW bs
    PROVE  /\ DOMAIN Reports(bs) = {"short", "long", "pair", "ratio", "funding", "grid", "crash", "rebound"}
           /\ Reports(bs)["short"] = [m \in MomentumCells |-> run_short(m, bs)]
           /\ Reports(bs)["long"] = [m \in MomentumCells |-> run_long_mirror(m, bs)]
           /\ Reports(bs)["pair"] = [m \in PairCells |-> run_pair(m, bs, Len(bs))]
           /\ Reports(bs)["ratio"] = [m \in ToSet(RatioGrid) |-> run_ratio(m, bs, Len(bs))]
           /\ Reports(bs)["funding"] = [m \in FundingCells |-> run_funding(m, bs)]
           /\ Reports(bs)["grid"] = [m \in GridCells |-> run_grid(m, bs)]
           /\ Reports(bs)["crash"] = [m \in CrashCells |-> run_crash(m, bs, 1, Len(bs))]
           /\ Reports(bs)["rebound"] = [m \in CrashCells |-> run_rebound(m, bs, 1, Len(bs))]
BY DEF Reports

LEMMA ReportsCausal ==
    ASSUME NEW bs, NEW cs, Hourly(bs), Hourly(cs), NEW leg \in DOMAIN Reports(bs),
           NEW cell \in DOMAIN Reports(bs)[leg]
    PROVE  Causal(bs, cs, Reports(bs)[leg][cell], Reports(cs)[leg][cell])
<1>0. PICK p, q : p = Reports(bs)[leg] /\ q = Reports(cs)[leg] /\ cell \in DOMAIN p
  OBVIOUS
<1>1. CASE leg = "short"
  <2>1. p = [m \in MomentumCells |-> run_short(m, bs)]
    BY <1>0, <1>1, ReportsAre
  <2>2. q = [m \in MomentumCells |-> run_short(m, cs)]
    BY <1>0, <1>1, ReportsAre
  <2>3. cell \in MomentumCells
    BY <1>0, <2>1
  <2>4. p[cell] = run_momentum(-1, cell, bs) /\ q[cell] = run_momentum(-1, cell, cs)
    BY <2>1, <2>2, <2>3 DEF run_short
  <2> QED
    BY <1>0, <2>3, <2>4, MomentumCausal
<1>2. CASE leg = "long"
  <2>1. p = [m \in MomentumCells |-> run_long_mirror(m, bs)]
    BY <1>0, <1>2, ReportsAre
  <2>2. q = [m \in MomentumCells |-> run_long_mirror(m, cs)]
    BY <1>0, <1>2, ReportsAre
  <2>3. cell \in MomentumCells
    BY <1>0, <2>1
  <2>4. p[cell] = run_momentum(1, cell, bs) /\ q[cell] = run_momentum(1, cell, cs)
    BY <2>1, <2>2, <2>3 DEF run_long_mirror
  <2> QED
    BY <1>0, <2>3, <2>4, MomentumCausal
<1>3. CASE leg = "pair"
  <2>1. p = [m \in PairCells |-> run_pair(m, bs, Len(bs))]
    BY <1>0, <1>3, ReportsAre
  <2>2. q = [m \in PairCells |-> run_pair(m, cs, Len(cs))]
    BY <1>0, <1>3, ReportsAre
  <2>3. cell \in PairCells
    BY <1>0, <2>1
  <2>4. p[cell] = run_pair(cell, bs, Len(bs)) /\ q[cell] = run_pair(cell, cs, Len(cs))
    BY <2>1, <2>2, <2>3
  <2> QED
    BY <1>0, <2>3, <2>4, PairCausal
<1>4. CASE leg = "ratio"
  <2>1. p = [m \in ToSet(RatioGrid) |-> run_ratio(m, bs, Len(bs))]
    BY <1>0, <1>4, ReportsAre
  <2>2. q = [m \in ToSet(RatioGrid) |-> run_ratio(m, cs, Len(cs))]
    BY <1>0, <1>4, ReportsAre
  <2>3. cell \in ToSet(RatioGrid)
    BY <1>0, <2>1
  <2>4. p[cell] = run_ratio(cell, bs, Len(bs)) /\ q[cell] = run_ratio(cell, cs, Len(cs))
    BY <2>1, <2>2, <2>3
  <2> QED
    BY <1>0, <2>3, <2>4, RatioCausal
<1>5. CASE leg = "funding"
  <2>1. p = [m \in FundingCells |-> run_funding(m, bs)]
    BY <1>0, <1>5, ReportsAre
  <2>2. q = [m \in FundingCells |-> run_funding(m, cs)]
    BY <1>0, <1>5, ReportsAre
  <2>3. cell \in FundingCells
    BY <1>0, <2>1
  <2>4. p[cell] = run_funding(cell, bs) /\ q[cell] = run_funding(cell, cs)
    BY <2>1, <2>2, <2>3
  <2> QED
    BY <1>0, <2>3, <2>4, FundingCausal
<1>6. CASE leg = "grid"
  <2>1. p = [m \in GridCells |-> run_grid(m, bs)]
    BY <1>0, <1>6, ReportsAre
  <2>2. q = [m \in GridCells |-> run_grid(m, cs)]
    BY <1>0, <1>6, ReportsAre
  <2>3. cell \in GridCells
    BY <1>0, <2>1
  <2>4. p[cell] = run_grid(cell, bs) /\ q[cell] = run_grid(cell, cs)
    BY <2>1, <2>2, <2>3
  <2> QED
    BY <1>0, <2>3, <2>4, GridCausal
<1>7. CASE leg = "crash"
  <2>1. p = [m \in CrashCells |-> run_crash(m, bs, 1, Len(bs))]
    BY <1>0, <1>7, ReportsAre
  <2>2. q = [m \in CrashCells |-> run_crash(m, cs, 1, Len(cs))]
    BY <1>0, <1>7, ReportsAre
  <2>3. cell \in CrashCells
    BY <1>0, <2>1
  <2>4. p[cell] = run_crash(cell, bs, 1, Len(bs)) /\ q[cell] = run_crash(cell, cs, 1, Len(cs))
    BY <2>1, <2>2, <2>3
  <2> QED
    BY <1>0, <2>3, <2>4, SlideCausal
<1>8. CASE leg = "rebound"
  <2>1. p = [m \in CrashCells |-> run_rebound(m, bs, 1, Len(bs))]
    BY <1>0, <1>8, ReportsAre
  <2>2. q = [m \in CrashCells |-> run_rebound(m, cs, 1, Len(cs))]
    BY <1>0, <1>8, ReportsAre
  <2>3. cell \in CrashCells
    BY <1>0, <2>1
  <2>4. p[cell] = run_rebound(cell, bs, 1, Len(bs)) /\ q[cell] = run_rebound(cell, cs, 1, Len(cs))
    BY <2>1, <2>2, <2>3
  <2> QED
    BY <1>0, <2>3, <2>4, SlideCausal
<1>9. leg \in {"short", "long", "pair", "ratio", "funding", "grid", "crash", "rebound"}
  BY ReportsAre
<1> QED
  BY <1>1, <1>2, <1>3, <1>4, <1>5, <1>6, <1>7, <1>8, <1>9

LEMMA ReportCells ==
    ASSUME NEW bs
    PROVE  /\ DOMAIN Reports(bs)["short"] = MomentumCells
           /\ DOMAIN Reports(bs)["long"] = MomentumCells
           /\ DOMAIN Reports(bs)["pair"] = PairCells
           /\ DOMAIN Reports(bs)["ratio"] = ToSet(RatioGrid)
           /\ DOMAIN Reports(bs)["funding"] = FundingCells
           /\ DOMAIN Reports(bs)["grid"] = GridCells
           /\ DOMAIN Reports(bs)["crash"] = CrashCells
           /\ DOMAIN Reports(bs)["rebound"] = CrashCells
<1>1. DOMAIN Reports(bs)["short"] = MomentumCells
  <2>1. Reports(bs)["short"] = [m \in MomentumCells |-> run_short(m, bs)]
    BY ReportsAre
  <2> QED
    BY <2>1
<1>2. DOMAIN Reports(bs)["long"] = MomentumCells
  <2>1. Reports(bs)["long"] = [m \in MomentumCells |-> run_long_mirror(m, bs)]
    BY ReportsAre
  <2> QED
    BY <2>1
<1>3. DOMAIN Reports(bs)["pair"] = PairCells
  <2>1. Reports(bs)["pair"] = [m \in PairCells |-> run_pair(m, bs, Len(bs))]
    BY ReportsAre
  <2> QED
    BY <2>1
<1>4. DOMAIN Reports(bs)["ratio"] = ToSet(RatioGrid)
  <2>1. Reports(bs)["ratio"] = [m \in ToSet(RatioGrid) |-> run_ratio(m, bs, Len(bs))]
    BY ReportsAre
  <2> QED
    BY <2>1
<1>5. DOMAIN Reports(bs)["funding"] = FundingCells
  <2>1. Reports(bs)["funding"] = [m \in FundingCells |-> run_funding(m, bs)]
    BY ReportsAre
  <2> QED
    BY <2>1
<1>6. DOMAIN Reports(bs)["grid"] = GridCells
  <2>1. Reports(bs)["grid"] = [m \in GridCells |-> run_grid(m, bs)]
    BY ReportsAre
  <2> QED
    BY <2>1
<1>7. DOMAIN Reports(bs)["crash"] = CrashCells
  <2>1. Reports(bs)["crash"] = [m \in CrashCells |-> run_crash(m, bs, 1, Len(bs))]
    BY ReportsAre
  <2> QED
    BY <2>1
<1>8. DOMAIN Reports(bs)["rebound"] = CrashCells
  <2>1. Reports(bs)["rebound"] = [m \in CrashCells |-> run_rebound(m, bs, 1, Len(bs))]
    BY ReportsAre
  <2> QED
    BY <2>1
<1> QED
  BY <1>1, <1>2, <1>3, <1>4, <1>5, <1>6, <1>7, <1>8

LEMMA ReportedAlike ==
    ASSUME NEW bs, NEW cs, NEW leg \in DOMAIN Reports(bs)
    PROVE  leg \in DOMAIN Reports(cs) /\ DOMAIN Reports(cs)[leg] = DOMAIN Reports(bs)[leg]
<1>1. leg \in {"short", "long", "pair", "ratio", "funding", "grid", "crash", "rebound"}
  BY ReportsAre
<1>2. leg \in DOMAIN Reports(cs)
  BY <1>1, ReportsAre
<1>3. DOMAIN Reports(cs)[leg] = DOMAIN Reports(bs)[leg]
  BY <1>1, ReportCells
<1> QED
  BY <1>2, <1>3

LEMMA KeepsIs == ASSUME NEW before, NEW after, KeepsUpTo(Len(bars), before, after)
                 PROVE  Keeps(before, after)
BY DEF KeepsUpTo, Keeps

(* No simulator of src/research/leg2 looks ahead, whatever the prices, the
   configurations and the length of the series: a new hour takes back no entry and
   no trade that had ended, and the entries do not depend on the last bar. *)
THEOREM LegsLookBack == LegsSpec => []CausalLegs
<1>1. ASSUME LegsInv
      PROVE  CausalLegs
  <2>1. Hourly(bars) /\ legs = Reports(bars)
    BY <1>1 DEF LegsInv
  <2>2. ASSUME NEW ls \in Continuations(bars)
        PROVE  OneMore(bars, ls)
    <3>1. Hourly(ls) /\ Len(ls) = Len(bars) + 1 /\ Agree(bars, ls, Len(bars))
      BY <2>1, ContinuationIs
    <3> QED
      BY <2>1, <3>1 DEF OneMore
  <2>3. ASSUME NEW ks \in Continuations(bars), NEW ls \in Continuations(bars)
        PROVE  OtherLast(ks, ls)
    <3>1. /\ Hourly(ks) /\ Len(ks) = Len(bars) + 1 /\ Agree(bars, ks, Len(bars))
          /\ Hourly(ls) /\ Len(ls) = Len(bars) + 1 /\ Agree(bars, ls, Len(bars))
      BY <2>2 DEF OneMore
    <3>2. Len(bars) \in Nat
      BY <2>1 DEF Hourly
    <3>3. Agree(ks, ls, Len(bars)) /\ Len(ks) - 1 = Len(bars)
      BY <3>1, <3>2 DEF Agree
    <3> QED
      BY <3>1, <3>3 DEF OtherLast
  <2>4. ASSUME NEW leg \in DOMAIN legs, NEW cell \in DOMAIN legs[leg],
               NEW ls \in Continuations(bars)
        PROVE  Keeps(legs[leg][cell], Reports(ls)[leg][cell])
    <3>1. OneMore(bars, ls)
      BY <2>2
    <3>2. Hourly(ls)
      BY <3>1 DEF OneMore
    <3>3. Causal(bars, ls, Reports(bars)[leg][cell], Reports(ls)[leg][cell])
      BY <2>1, <3>2, ReportsCausal
    <3>4. KeepsUpTo(Len(bars), Reports(bars)[leg][cell], Reports(ls)[leg][cell])
      BY <3>1, <3>3 DEF Causal
    <3> QED
      BY <2>1, <3>4, KeepsIs
  <2>5. ASSUME NEW leg \in DOMAIN legs, NEW cell \in DOMAIN legs[leg],
               NEW ks \in Continuations(bars), NEW ls \in Continuations(bars)
        PROVE  Entries(Reports(ks)[leg][cell]) = Entries(Reports(ls)[leg][cell])
    <3>1. OtherLast(ks, ls)
      BY <2>3
    <3>2. Hourly(ks) /\ Hourly(ls)
      BY <3>1 DEF OtherLast
    <3>3. leg \in DOMAIN Reports(ks) /\ cell \in DOMAIN Reports(ks)[leg]
      BY <2>1, ReportedAlike
    <3>4. Causal(ks, ls, Reports(ks)[leg][cell], Reports(ls)[leg][cell])
      BY <3>2, <3>3, ReportsCausal
    <3> QED
      BY <3>1, <3>4 DEF Causal
  <2>6. ASSUME NEW leg \in DOMAIN legs, NEW cell \in DOMAIN legs[leg]
        PROVE  LET next == {Reports(ls)[leg][cell] : ls \in Continuations(bars)}
               IN  /\ \A after \in next : Keeps(legs[leg][cell], after)
                   /\ \A one, other \in next : Entries(one) = Entries(other)
    BY <2>4, <2>5
  <2> QED
    BY <2>6, Zenon DEF CausalLegs
<1> QED
  BY <1>1, LegsHolds, PTL
=============================================================================
