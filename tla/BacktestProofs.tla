---------------------------- MODULE BacktestProofs ----------------------------
(***************************************************************************)
(* Proofs about Backtest, for every series, every period of the averages   *)
(* and every account.                                                      *)
(***************************************************************************)
EXTENDS Backtest, SequenceTheorems, Sums

-----------------------------------------------------------------------------
(* The gates at a bar, with lagged features, are those of the bars up to it. *)

SameUpTo(k, s, t) == k <= Len(s) /\ k <= Len(t) /\ \A i \in 1..k : s[i] = t[i]

LEMMA WholeCandles ==
    ASSUME NEW w \in Nat \ {0}, NEW k \in Nat, NEW h \in 1..(k \div w)
    PROVE  h * w <= k
<1> DEFINE m == k \div w
<1>1. m \in Nat /\ m * w <= k
  OBVIOUS
<1>2. h \in 1..m
  OBVIOUS
<1> HIDE DEF m
<1>3. h * w <= m * w
  BY <1>1, <1>2
<1>4. h * w \in Nat /\ m * w \in Nat
  BY <1>1, <1>2
<1> QED
  BY <1>1, <1>3, <1>4

LEMMA SameCandles ==
    ASSUME NEW s \in Seq(Prices), NEW t \in Seq(Prices), NEW k \in Nat \ {0}, SameUpTo(k, s, t),
           NEW w \in Nat \ {0}
    PROVE  /\ ClosesOf(s, w, Features(k, w, TRUE)) = ClosesOf(t, w, Features(k, w, TRUE))
           /\ Candles(s, w, Features(k, w, TRUE)) = Candles(t, w, Features(k, w, TRUE))
<1> DEFINE m == (k - 1) \div w
<1>1. Features(k, w, TRUE) = m
  BY DEF Features
<1>2. \A h \in 1..m : h * w \in Nat /\ h * w <= k - 1
  <2>1. k - 1 \in Nat
    OBVIOUS
  <2> SUFFICES ASSUME NEW h \in 1..m PROVE h * w \in Nat /\ h * w <= k - 1
    OBVIOUS
  <2>2. h * w <= k - 1
    BY <2>1, WholeCandles
  <2>3. h \in Nat
    BY <2>1
  <2> QED
    BY <2>2, <2>3
<1>0. m \in Int
  OBVIOUS
<1> HIDE DEF m
<1>3. ClosesOf(s, w, m) = ClosesOf(t, w, m)
  BY <1>2 DEF ClosesOf, SameUpTo
<1> DEFINE in(u, h) == {u[i] : i \in {j \in ((h - 1) * w + 1)..(h * w) : j <= Len(u)}}
<1>4. ASSUME NEW h \in 1..m
      PROVE  in(s, h) = in(t, h)
  <2>1. h * w \in Nat /\ h * w <= k - 1 /\ (h - 1) * w \in Nat
    BY <1>2, <1>4
  <2>2. \A j \in ((h - 1) * w + 1)..(h * w) : j \in 1..k /\ j <= Len(s) /\ j <= Len(t) /\ s[j] = t[j]
    BY <2>1 DEF SameUpTo
  <2> QED
    BY <2>2
<1>5. Candles(s, w, m) = Candles(t, w, m)
  BY <1>3, <1>4 DEF Candles
<1> QED
  BY <1>1, <1>3, <1>5

LEMMA SameReturn ==
    ASSUME NEW s \in Seq(Prices), NEW t \in Seq(Prices), NEW k \in Nat \ {0}, SameUpTo(k, s, t)
    PROVE  k > Bars7d => Return(s, k) = Return(t, k)
<1>1. Bars7d \in Nat \ {0}
  BY GatesAssumption DEF GatesAssumption
<1> SUFFICES ASSUME k > Bars7d PROVE Return(s, k) = Return(t, k)
  OBVIOUS
<1>2. s[k] = t[k] /\ s[k - Bars7d] = t[k - Bars7d]
  BY <1>1 DEF SameUpTo
<1> QED
  BY <1>2 DEF Return

(* With feature_lag the engine decides at a bar from the bars up to it: no
   candle in progress, no later bar. *)
LEMMA GatesLookBack ==
    ASSUME NEW s \in Seq(Prices), NEW t \in Seq(Prices), NEW k \in Nat \ {0}, SameUpTo(k, s, t)
    PROVE  Ready(s, k) = Ready(t, k)
<1>1. PerQ \in Nat \ {0} /\ PerH \in Nat \ {0}
  BY GatesAssumption DEF GatesAssumption
<1>2. SubSeq(s, 1, k) = SubSeq(t, 1, k)
  BY DEF SameUpTo
<1>3. ClosesOf(s, PerH, Features(k, PerH, TRUE)) = ClosesOf(t, PerH, Features(k, PerH, TRUE))
  BY <1>1, SameCandles, ZenonT(30)
<1>4. Candles(s, PerH, Features(k, PerH, TRUE)) = Candles(t, PerH, Features(k, PerH, TRUE))
  BY <1>1, SameCandles, ZenonT(30)
<1>5. ClosesOf(s, PerQ, Features(k, PerQ, TRUE)) = ClosesOf(t, PerQ, Features(k, PerQ, TRUE))
  BY <1>1, SameCandles, ZenonT(30)
<1>6. (IF k <= Bars7d THEN {} ELSE allowed_sides(Return(s, k)))
        = (IF k <= Bars7d THEN {} ELSE allowed_sides(Return(t, k)))
  <2>1. Bars7d \in Nat
    BY GatesAssumption DEF GatesAssumption
  <2> QED
    BY <2>1, SameReturn
<1>7. build_coin_base(s, k, TRUE) = build_coin_base(t, k, TRUE)
  BY <1>2, <1>3, <1>4, <1>5, <1>6 DEF build_coin_base
<1> QED
  BY <1>7 DEF Ready

-----------------------------------------------------------------------------
(* Types. *)

Sides == {"P", "C"}
Trade == [id : Nat, side : Sides, entry : Nat, exit : Nat, pnl : Int, strike : Nat \ {0},
          credit : Nat, mult : 1..100]
Held == [id : Nat, side : Sides, exit : Nat, margin : Nat, pnl : Int, usd : Int]
Accounts ==
    [equity : Int, peak : Int, dd : Int, open : SUBSET Held, pending : SUBSET Held,
     recent : Seq(Int), cb : [Sides -> Int],
     taken : Nat, skippedCap : Nat, skippedCb : Nat, skippedSize : Nat, curve : Seq(Nat \X Int)]

LEMMA BacktestNumbers ==
    /\ Prices \subseteq Nat \ {0} /\ Warmups \subseteq Seq(Prices)
    /\ MaxBars \in Nat /\ Cooldown \in Nat /\ Credit \in Nat /\ StartEquity \in Nat /\ KeyCap \in Nat
    /\ Mults \subseteq 1..100 /\ Keep \in Nat \ {0} /\ CbPause \in Nat
    /\ MarginPct \in Nat /\ PortMarginPct \in Nat /\ ImPct \in Nat /\ FeeRate \in Nat /\ FeeCapPct \in Nat
  BY BacktestAssumption, ReplayAssumption, AccountAssumption
  DEF BacktestAssumption, ReplayAssumption, AccountAssumption

NextDd(dd, peak, equity) == IF peak > 0 THEN Greatest(dd, (1000 * (peak - equity)) \div peak) ELSE dd
NextRecent(recent, pnl) == SubSeq(Append(recent, pnl), Greatest(1, Len(recent) + 2 - Keep), Len(recent) + 1)

LEMMA BookedFields ==
    ASSUME NEW a \in Accounts, NEW at \in Nat, NEW pnl \in Int, NEW usd \in Int
    PROVE  LET b == Booked(a, at, pnl, usd) IN
     /\ b.equity = a.equity + usd
     /\ b.peak = Greatest(a.peak, a.equity + usd)
     /\ b.dd = NextDd(a.dd, Greatest(a.peak, a.equity + usd), a.equity + usd)
     /\ b.recent = NextRecent(a.recent, pnl)
     /\ b.curve = Append(a.curve, <<at, a.equity + usd>>)
     /\ b.open = a.open /\ b.pending = a.pending /\ b.cb = a.cb /\ b.taken = a.taken
     /\ b.skippedCap = a.skippedCap /\ b.skippedCb = a.skippedCb /\ b.skippedSize = a.skippedSize
<1> DEFINE equity == a.equity + usd
           peak == Greatest(a.peak, equity)
           recent == NextRecent(a.recent, pnl)
           dd == NextDd(a.dd, peak, equity)
           curve == Append(a.curve, <<at, equity>>)
<1>8. Booked(a, at, pnl, usd) =
        [a EXCEPT !.equity = equity, !.peak = peak, !.recent = recent, !.dd = dd, !.curve = curve]
  BY DEF Booked, Accounts, NextDd, NextRecent
<1> HIDE DEF  recent, dd, peak, curve, equity
<1>9. LET b == Booked(a, at, pnl, usd) IN
     /\ b.equity = equity
     /\ b.peak = peak /\ b.dd = dd
     /\ b.recent = recent
     /\ b.curve = curve
     /\ b.open = a.open /\ b.pending = a.pending /\ b.cb = a.cb /\ b.taken = a.taken
     /\ b.skippedCap = a.skippedCap /\ b.skippedCb = a.skippedCb /\ b.skippedSize = a.skippedSize
  BY <1>8 DEF Accounts
<1> QED BY <1>9 DEF recent, dd, peak, curve, equity

(* Numbers and sequences of the right types put into an account leave an account. *)
LEMMA BooksType ==
    ASSUME NEW a \in Accounts, NEW e \in Int, NEW p \in Int, NEW d \in Int,
           NEW r \in Seq(Int), NEW c \in Seq(Nat \X Int)
    PROVE  [a EXCEPT !.equity = e, !.peak = p, !.recent = r, !.dd = d, !.curve = c] \in Accounts
<1> DEFINE I == Int
           R == Seq(Int)
           C == Seq(Nat \X Int)
<1>1. e \in I /\ p \in I /\ d \in I /\ r \in R /\ c \in C
  OBVIOUS
<1>2. Accounts = [equity : I, peak : I, dd : I, open : SUBSET Held, pending : SUBSET Held,
                  recent : R, cb : [Sides -> I],
                  taken : Nat, skippedCap : Nat, skippedCb : Nat, skippedSize : Nat, curve : C]
  BY DEF Accounts
<1> HIDE DEF I, R, C
<1> QED
  BY <1>1, <1>2

LEMMA BookedType ==
    ASSUME NEW a \in Accounts, NEW at \in Nat, NEW pnl \in Int, NEW usd \in Int
    PROVE  /\ Booked(a, at, pnl, usd) \in Accounts
           /\ Len(NextRecent(a.recent, pnl)) = Least(Keep, Len(a.recent) + 1)
<1> DEFINE equity == a.equity + usd
           peak == Greatest(a.peak, equity)
           longer == Append(a.recent, pnl)
           from == Greatest(1, Len(a.recent) + 2 - Keep)
           recent == NextRecent(a.recent, pnl)
           dd == NextDd(a.dd, peak, equity)
           curve == Append(a.curve, <<at, equity>>)
<1>1. equity \in Int /\ peak \in Int
  BY DEF Accounts, Greatest
<1>2. Len(a.recent) \in Nat /\ longer \in Seq(Int) /\ Len(longer) = Len(a.recent) + 1
  BY AppendProperties, LenProperties DEF Accounts
<1>3. from \in Nat \ {0} /\ from <= Len(a.recent) + 1
  BY <1>2, BacktestNumbers DEF Greatest
<1>4. \A i \in from..(Len(a.recent) + 1) : longer[i] \in Int
  BY <1>2, <1>3, ElementOfSeq, SMTT(30)
<1>5. recent \in Seq(Int) /\ Len(recent) = Len(a.recent) + 1 - from + 1
  BY <1>2, <1>3, <1>4, SubSeqProperties DEF NextRecent
<1>6. dd \in Int
  BY <1>1, SMTT(30) DEF Accounts, Greatest, NextDd
<1>7. curve \in Seq(Nat \X Int)
  BY <1>1, AppendProperties DEF Accounts
<1>9. Len(recent) = Least(Keep, Len(a.recent) + 1)
  <2>1. PICK m \in Nat : m = Len(a.recent)
    BY <1>2
  <2>2. from = Greatest(1, m + 2 - Keep) /\ Len(recent) = m + 1 - from + 1 /\ from \in Nat
    BY <1>3, <1>5, <2>1
  <2>3. Keep \in Nat \ {0}
    BY BacktestNumbers
  <2> HIDE DEF recent, from
  <2>4. Len(recent) = Least(Keep, m + 1)
    BY <2>2, <2>3 DEF Greatest, Least
  <2> QED
    BY <2>1, <2>4
<1> HIDE DEF equity, peak, longer, from, recent, dd, curve
<1>8. Booked(a, at, pnl, usd) =
        [a EXCEPT !.equity = equity, !.peak = peak, !.recent = recent, !.dd = dd, !.curve = curve]
  BY DEF Booked, NextRecent, NextDd, equity, peak, recent, dd, curve
<1>10. [a EXCEPT !.equity = equity, !.peak = peak, !.recent = recent, !.dd = dd, !.curve = curve]
          \in Accounts
  BY <1>1, <1>5, <1>6, <1>7, BooksType
<1>11. Booked(a, at, pnl, usd) \in Accounts
  BY <1>8, <1>10, Zenon
<1> QED
  BY <1>9, <1>11 DEF recent

LEMMA ArmType ==
    ASSUME NEW a \in Accounts, NEW side \in Sides, NEW pnl \in Int, NEW exit \in Nat
    PROVE  LET b == Arm(a, side, pnl, exit) IN
           /\ b \in Accounts
           /\ b.cb = IF pnl <= 0 THEN [a.cb EXCEPT ![side] = exit + CbPause] ELSE a.cb
           /\ b.equity = a.equity /\ b.peak = a.peak /\ b.dd = a.dd /\ b.open = a.open
           /\ b.pending = a.pending /\ b.recent = a.recent /\ b.taken = a.taken
           /\ b.skippedCap = a.skippedCap /\ b.curve = a.curve
<1>1. exit + CbPause \in Int
  BY BacktestNumbers
<1>2. [a.cb EXCEPT ![side] = exit + CbPause] \in [Sides -> Int]
  BY <1>1 DEF Accounts
<1> QED
  BY <1>2 DEF Arm, Accounts

(* What is sized is affordable, and with it the margin in use is at most its
   share of the equity. *)
LEMMA SizeFits ==
    ASSUME NEW equity \in Int, NEW used \in Nat, NEW recent, NEW perLot \in Int, NEW mult \in 1..100
    PROVE  LET size == core_size_position(equity, used, recent, perLot, mult) IN
           /\ size \in [lots : Nat, margin : Nat]
           /\ size.lots # 0 => 100 * (used + size.margin) <= PortMarginPct * equity
<1> DEFINE free == FreeMargin(equity, used)
           cut == Least(((equity * MarginPct) \div 100) \div dyn_divisor(recent), free)
           budget == (cut * mult) \div 100
           share == (equity * PortMarginPct) \div 100
           size == Lots(budget, perLot)
<1>1. PortMarginPct \in Nat /\ MarginPct \in Nat
  BY BacktestNumbers
<1>2. equity * PortMarginPct \in Int /\ share \in Int /\ 100 * share <= PortMarginPct * equity
  BY <1>1
<1>3. dyn_divisor(recent) \in {1, 2}
  BY DEF dyn_divisor
<1>4. ((equity * MarginPct) \div 100) \div dyn_divisor(recent) \in Int
  <2>1. (equity * MarginPct) \div 100 \in Int
    BY <1>1
  <2> QED
    BY <1>3, <2>1
<1>5. free = Greatest(0, share - used) /\ free \in Nat
  BY <1>2 DEF FreeMargin, Greatest
<1> HIDE DEF free, share
<1>6. cut \in Int /\ cut <= free
  BY <1>4, <1>5 DEF Least
<1> HIDE DEF cut
<1>7. budget \in Int /\ (budget > 0 => budget <= free)
  BY <1>5, <1>6
<1>8. size = core_size_position(equity, used, recent, perLot, mult)
  BY DEF core_size_position, cut, free
<1> HIDE DEF budget
<1>9. CASE perLot <= 0 \/ budget < perLot
  BY <1>8, <1>9 DEF Lots, NoSize
<1>10. CASE ~ (perLot <= 0 \/ budget < perLot)
  <2>1. perLot > 0 /\ budget >= perLot
    BY <1>7, <1>10
  <2> DEFINE lots == budget \div perLot
  <2>2. lots \in Nat /\ lots * perLot \in Nat /\ lots * perLot <= budget
    BY <1>7, <2>1
  <2>3. size = [lots |-> lots, margin |-> lots * perLot]
    BY <1>10 DEF Lots
  <2> HIDE DEF lots
  <2>4. size \in [lots : Nat, margin : Nat] /\ size.margin <= budget
    BY <2>2, <2>3
  <2>5. used + size.margin <= share
    BY <1>2, <1>5, <1>7, <2>1, <2>4 DEF Greatest
  <2>6. 100 * (used + size.margin) <= PortMarginPct * equity
    BY <1>1, <1>2, <2>4, <2>5
  <2> QED
    BY <1>8, <2>4, <2>6
<1> QED
  BY <1>9, <1>10

LEMMA ProfitType ==
    ASSUME NEW t \in Trade, NEW lots \in Nat
    PROVE  ProfitOf(t, lots) \in Int
<1> DEFINE back == (t.credit * (100 - t.pnl)) \div 100
           notional == t.strike * lots
<1>1. back \in Int /\ notional \in Int /\ t.credit \in Int
  BY DEF Trade
<1> HIDE DEF back, notional
<1>2. \A x \in Int : fee_usd(notional, x) \in Int
  <2> SUFFICES ASSUME NEW x \in Int PROVE fee_usd(notional, x) \in Int
    OBVIOUS
  <2>1. Magnitude(x) \in Int
    BY DEF Magnitude, Greatest
  <2>2. FeeRate \in Nat /\ FeeCapPct \in Nat
    BY BacktestNumbers
  <2>3. (notional * FeeRate) \div 10000 \in Int /\ (Magnitude(x) * FeeCapPct) \div 100 \in Int
    BY <1>1, <2>1, <2>2
  <2> QED
    BY <2>3 DEF fee_usd, Least
<1>3. t.credit * lots \in Int /\ back * lots \in Int /\ (t.credit - back) * lots \in Int
  BY <1>1
<1>4. fee_usd(notional, t.credit * lots) \in Int /\ fee_usd(notional, back * lots) \in Int
  BY <1>2, <1>3
<1> QED
  BY <1>3, <1>4 DEF ProfitOf, back, notional

LEMMA PositionType ==
    ASSUME NEW t \in Trade, NEW size \in [lots : Nat, margin : Nat]
    PROVE  Position(t, size) \in Held
<1>1. ProfitOf(t, size.lots) \in Int
  BY ProfitType
<1> QED
  BY <1>1 DEF Position, Trade, Held

LEMMA UsedType ==
    ASSUME NEW a \in Accounts, IsFiniteSet(a.open), NEW at \in Nat
    PROVE  UsedMargin(a, at) \in Nat /\ IsFiniteSet(StillOpen(a, at)) /\ StillOpen(a, at) \subseteq a.open
<1>1. StillOpen(a, at) \subseteq a.open /\ IsFiniteSet(StillOpen(a, at))
  BY FS_Subset DEF StillOpen
<1>2. \A p \in StillOpen(a, at) : [q \in StillOpen(a, at) |-> q.margin][p] \in Nat
  BY <1>1 DEF Accounts, Held
<1>3. SumFunctionOnSet([q \in StillOpen(a, at) |-> q.margin], StillOpen(a, at)) \in Nat
  BY <1>1, <1>2, SumType
<1> QED
  BY <1>1, <1>3 DEF UsedMargin

LEMMA PerLotType ==
    ASSUME NEW t \in Trade
    PROVE  margin_per_lot(t.strike, t.credit, 1) \in Int
<1>1. ImPct \in Nat /\ t.strike \in Nat /\ t.credit \in Nat
  BY BacktestNumbers DEF Trade
<1> QED
  BY <1>1 DEF margin_per_lot

-----------------------------------------------------------------------------
(* Version 2 in the order of version 1. *)

(* What the self check compares, and what the next trade depends on. *)
SameMoney(a, b) ==
    /\ a.equity = b.equity /\ a.peak = b.peak /\ a.dd = b.dd /\ a.recent = b.recent
    /\ a.curve = b.curve /\ a.skippedCap = b.skippedCap
SameBook(a, b) == SameMoney(a, b) /\ a.open = b.open /\ a.taken = b.taken
Same(a, b) == SameBook(a, b) /\ a.cb = b.cb

LEMMA BookedSame ==
    ASSUME NEW a \in Accounts, NEW b \in Accounts, SameMoney(a, b), NEW pnl \in Int,
           NEW exit \in Nat, NEW usd \in Int
    PROVE  /\ SameMoney(Booked(a, exit, pnl, usd), Booked(b, exit, pnl, usd))
           /\ Booked(a, exit, pnl, usd).cb = a.cb
           /\ Booked(a, exit, pnl, usd).open = a.open
           /\ Booked(a, exit, pnl, usd).taken = a.taken
<1> DEFINE x == Booked(a, exit, pnl, usd)
           y == Booked(b, exit, pnl, usd)
<1>1. a.equity + usd = b.equity + usd
  BY DEF SameMoney
<1>2. x.equity = y.equity /\ x.peak = y.peak /\ x.recent = y.recent
  BY BookedFields, <1>1 DEF SameMoney
<1>3. x.dd = y.dd
  <2>1. x.dd = NextDd(a.dd, Greatest(a.peak, a.equity + usd), a.equity + usd)
    BY BookedFields
  <2>2. y.dd = NextDd(b.dd, Greatest(b.peak, b.equity + usd), b.equity + usd)
    BY BookedFields
  <2> QED
    BY <2>1, <2>2 DEF SameMoney
<1>4. x.curve = y.curve
  <2>1. x.curve = Append(a.curve, <<exit, a.equity + usd>>)
    BY BookedFields
  <2>2. y.curve = Append(b.curve, <<exit, b.equity + usd>>)
    BY BookedFields
  <2>3. a.curve = b.curve
    BY DEF SameMoney
  <2> QED
    BY <1>1, <2>1, <2>2, <2>3
<1>5. x.skippedCap = y.skippedCap
  BY BookedFields DEF SameMoney
<1>6. x.cb = a.cb /\ x.open = a.open /\ x.taken = a.taken
  BY BookedFields
<1>7. SameMoney(x, y)
  <2> HIDE DEF x, y
  <2> QED
    BY <1>2, <1>3, <1>4, <1>5 DEF SameMoney
<1> QED
  BY <1>6, <1>7

(* Booking and arming do not see each other. *)
LEMMA BookArmCommute ==
    ASSUME NEW a \in Accounts, NEW b \in Accounts, Same(a, b), NEW side \in Sides, NEW pnl \in Int,
           NEW exit \in Nat, NEW usd \in Int
    PROVE  Same(Arm(Booked(a, exit, pnl, usd), side, pnl, exit),
                Booked(Arm(b, side, pnl, exit), exit, pnl, usd))
<1> DEFINE x == Booked(a, exit, pnl, usd)
           c == Arm(x, side, pnl, exit)
           d == Arm(b, side, pnl, exit)
           z == Booked(d, exit, pnl, usd)
           Armed(cb) == IF pnl <= 0 THEN [cb EXCEPT ![side] = exit + CbPause] ELSE cb
<1>1. x \in Accounts /\ d \in Accounts
  BY BookedType, ArmType
<1>2. SameBook(a, d)
  <2>1. /\ d.equity = b.equity /\ d.peak = b.peak /\ d.dd = b.dd /\ d.open = b.open
        /\ d.recent = b.recent /\ d.taken = b.taken /\ d.skippedCap = b.skippedCap /\ d.curve = b.curve
    BY ArmType, ZenonT(30)
  <2> HIDE DEF d
  <2> QED
    BY <2>1 DEF SameMoney, SameBook, Same
<1>3. SameBook(x, z) /\ x.cb = a.cb /\ z.cb = d.cb
  BY <1>1, <1>2, BookedSame DEF SameBook, SameMoney
<1>4. d.cb = Armed(b.cb)
  BY ArmType
<1> HIDE DEF x, d, z
<1>5. SameBook(x, c) /\ c.cb = Armed(x.cb)
  BY <1>1, ArmType DEF SameBook, SameMoney
<1> HIDE DEF c
<1> SUFFICES Same(c, z)
  BY DEF x, c, d, z
<1>6. c.cb = z.cb
  BY <1>3, <1>4, <1>5 DEF Same
<1> QED
  BY <1>3, <1>5, <1>6 DEF Same, SameBook, SameMoney

(* What else an account counts. *)
LEMMA SkippedCap ==
    ASSUME NEW a \in Accounts
    PROVE  /\ [a EXCEPT !.skippedCap = @ + 1] \in Accounts
           /\ [a EXCEPT !.skippedCap = @ + 1].open = a.open
           /\ \A b \in Accounts : Same(a, b)
                => Same([a EXCEPT !.skippedCap = @ + 1], [b EXCEPT !.skippedCap = @ + 1])
<1>1. a.skippedCap + 1 \in Nat
  BY DEF Accounts
<1>2. [a EXCEPT !.skippedCap = @ + 1] \in Accounts
  BY <1>1 DEF Accounts
<1>3. \A b \in Accounts : Same(a, b)
                => Same([a EXCEPT !.skippedCap = @ + 1], [b EXCEPT !.skippedCap = @ + 1])
  BY DEF Accounts, Same, SameBook, SameMoney
<1>4. [a EXCEPT !.skippedCap = @ + 1].open = a.open
  BY DEF Accounts
<1> QED
  BY <1>2, <1>3, <1>4

LEMMA SkippedOther ==
    ASSUME NEW a \in Accounts, NEW b, b \in {[a EXCEPT !.skippedCb = @ + 1], [a EXCEPT !.skippedSize = @ + 1]}
    PROVE  b \in Accounts /\ Same(a, b) /\ b.pending = a.pending
<1>1. a.skippedCb + 1 \in Nat /\ a.skippedSize + 1 \in Nat
  BY DEF Accounts
<1>2. b \in Accounts
  BY <1>1 DEF Accounts
<1>3. Same(a, b) /\ b.pending = a.pending
  BY DEF Accounts, Same, SameBook, SameMoney
<1> QED
  BY <1>2, <1>3

LEMMA Enters ==
    ASSUME NEW a \in Accounts, NEW p \in Held
    PROVE  LET b == [a EXCEPT !.taken = @ + 1, !.open = @ \cup {p}] IN
           /\ b \in Accounts /\ b.open = a.open \cup {p} /\ b.taken = a.taken + 1
           /\ b.pending = a.pending /\ b.cb = a.cb /\ b.recent = a.recent /\ b.equity = a.equity
           /\ \A c \in Accounts : Same(a, c) => Same(b, [c EXCEPT !.taken = @ + 1, !.open = @ \cup {p}])
<1> DEFINE b == [a EXCEPT !.taken = @ + 1, !.open = @ \cup {p}]
<1>1. a.taken + 1 \in Nat /\ a.open \cup {p} \in SUBSET Held
  BY DEF Accounts
<1>2. b \in Accounts
  BY <1>1 DEF Accounts
<1>3. /\ b.open = a.open \cup {p} /\ b.taken = a.taken + 1
      /\ b.pending = a.pending /\ b.cb = a.cb /\ b.recent = a.recent /\ b.equity = a.equity
  BY DEF Accounts
<1>4. \A c \in Accounts : Same(a, c) => Same(b, [c EXCEPT !.taken = @ + 1, !.open = @ \cup {p}])
  BY DEF Accounts, Same, SameBook, SameMoney
<1> QED
  BY <1>2, <1>3, <1>4

LEMMA ArmSame ==
    ASSUME NEW a \in Accounts, NEW b \in Accounts, Same(a, b), NEW side \in Sides, NEW pnl \in Int,
           NEW exit \in Nat
    PROVE  Same(Arm(a, side, pnl, exit), Arm(b, side, pnl, exit))
  BY DEF Arm, Same, SameBook, SameMoney, Accounts

(* Nor do booking and entering. *)
LEMMA BookEnterCommute ==
    ASSUME NEW a \in Accounts, NEW p \in Held, NEW at \in Nat, NEW pnl \in Int, NEW usd \in Int
    PROVE  Same([Booked(a, at, pnl, usd) EXCEPT !.taken = @ + 1, !.open = @ \cup {p}],
                Booked([a EXCEPT !.taken = @ + 1, !.open = @ \cup {p}], at, pnl, usd))
<1> DEFINE b == [a EXCEPT !.taken = @ + 1, !.open = @ \cup {p}]
           x == Booked(a, at, pnl, usd)
           y == Booked(b, at, pnl, usd)
           z == [x EXCEPT !.taken = @ + 1, !.open = @ \cup {p}]
<1>1. b \in Accounts /\ b.open = a.open \cup {p} /\ b.taken = a.taken + 1 /\ b.cb = a.cb
  BY Enters
<1>2. SameMoney(a, b)
  BY DEF Accounts, SameMoney
<1> HIDE DEF b
<1>3. SameMoney(x, y) /\ x.open = a.open /\ x.taken = a.taken /\ x.cb = a.cb
  BY <1>1, <1>2, BookedSame
<1>7. x \in Accounts
  BY BookedType
<1>4. y.open = b.open /\ y.taken = b.taken /\ y.cb = b.cb
  BY <1>1, BookedFields
<1> HIDE DEF x, y
<1>5. SameMoney(x, z) /\ z.open = x.open \cup {p} /\ z.taken = x.taken + 1 /\ z.cb = x.cb
  BY <1>7 DEF Accounts, SameMoney
<1> HIDE DEF z
<1>6. Same(z, y)
  BY <1>1, <1>3, <1>4, <1>5 DEF Same, SameBook, SameMoney
<1> QED
  BY <1>6 DEF z, y, x, b

LEMMA SelfStep ==
    ASSUME NEW a \in Accounts, NEW b \in Accounts, Same(a, b), IsFiniteSet(a.open), NEW t \in Trade
    PROVE  LET x == replay_account(a, t)
               y == replay_v2(b, t, "entry", "entry", 0)
           IN  /\ x \in Accounts /\ y \in Accounts /\ Same(x, y)
               /\ IsFiniteSet(x.open)
<1> DEFINE at == t.entry
           c == [a EXCEPT !.open = StillOpen(a, at)]
           d == [b EXCEPT !.open = StillOpen(b, at)]
           sizeC == core_size_position(c.equity, UsedMargin(c, at), c.recent,
                                       margin_per_lot(t.strike, t.credit, 1), t.mult)
           sizeD == core_size_position(d.equity, UsedMargin(d, at), d.recent,
                                       margin_per_lot(t.strike, t.credit, 1), t.mult)
           p == Position(t, sizeC)
           q == Position(t, sizeD)
<1>1. at \in Nat /\ t.side \in Sides /\ t.pnl \in Int /\ t.exit \in Nat /\ t.mult \in 1..100
  BY DEF Trade
<1>2. StillOpen(a, at) = StillOpen(b, at) /\ StillOpen(a, at) \subseteq a.open
  BY DEF StillOpen, Same, SameBook, SameMoney
<1>3. c \in Accounts /\ d \in Accounts /\ Same(c, d)
  BY <1>2 DEF Same, SameBook, SameMoney, Accounts
<1>4. IsFiniteSet(c.open)
  BY <1>1, UsedType DEF Accounts
<1>5. UsedMargin(c, at) = UsedMargin(d, at)
  BY <1>3 DEF UsedMargin, StillOpen, Same, SameBook, SameMoney
<1>6. sizeC = sizeD /\ sizeC \in [lots : Nat, margin : Nat]
  <2>1. c.equity = d.equity /\ c.recent = d.recent /\ c.equity \in Int
    BY <1>3 DEF Same, SameBook, SameMoney, Accounts
  <2>2. sizeC = sizeD
    BY <1>5, <2>1
  <2>3. UsedMargin(c, at) \in Nat /\ margin_per_lot(t.strike, t.credit, 1) \in Int
    BY <1>1, <1>3, <1>4, UsedType, PerLotType
  <2>4. sizeC \in [lots : Nat, margin : Nat]
    BY <1>1, <2>1, <2>3, SizeFits
  <2> QED
    BY <2>2, <2>4
<1>7. p = q /\ p \in Held /\ p.usd \in Int
  BY <1>6, PositionType DEF Held
<1> HIDE DEF c, d, sizeC, sizeD, p, q, at
<1>8. CASE cb_active(c.cb[t.side], at)
  <2>1. cb_active(d.cb[t.side], at)
    BY <1>3, <1>8 DEF Same, SameBook, SameMoney
  <2>2. replay_account(a, t) = c
    BY <1>8 DEF replay_account, c, at
  <2>3. replay_v2(b, t, "entry", "entry", 0) = [d EXCEPT !.skippedCb = @ + 1]
    BY <2>1 DEF replay_v2, d, at
  <2>4. [d EXCEPT !.skippedCb = @ + 1] \in Accounts /\ Same(d, [d EXCEPT !.skippedCb = @ + 1])
    BY <1>3, SkippedOther
  <2>5. Same(c, [d EXCEPT !.skippedCb = @ + 1])
    BY <1>3, <2>4 DEF Same, SameBook, SameMoney
  <2> QED
    BY <1>3, <1>4, <2>2, <2>3, <2>4, <2>5
<1>9. CASE ~ cb_active(c.cb[t.side], at) /\ CapReached(c.open)
  <2>1. ~ cb_active(d.cb[t.side], at) /\ CapReached(d.open)
    BY <1>3, <1>9 DEF Same, SameBook, SameMoney
  <2>2. replay_account(a, t) = [c EXCEPT !.skippedCap = @ + 1]
    BY <1>9 DEF replay_account, c, at
  <2>3. replay_v2(b, t, "entry", "entry", 0) = [d EXCEPT !.skippedCap = @ + 1]
    BY <2>1 DEF replay_v2, d, at
  <2>4. /\ [c EXCEPT !.skippedCap = @ + 1] \in Accounts /\ [d EXCEPT !.skippedCap = @ + 1] \in Accounts
        /\ Same([c EXCEPT !.skippedCap = @ + 1], [d EXCEPT !.skippedCap = @ + 1])
        /\ [c EXCEPT !.skippedCap = @ + 1].open = c.open
    BY <1>3, SkippedCap
  <2> QED
    BY <1>3, <1>4, <2>2, <2>3, <2>4
<1>10. CASE ~ cb_active(c.cb[t.side], at) /\ ~ CapReached(c.open) /\ sizeC.lots = 0
  <2>1. ~ cb_active(d.cb[t.side], at) /\ ~ CapReached(d.open) /\ sizeD.lots = 0
    BY <1>3, <1>6, <1>10 DEF Same, SameBook, SameMoney
  <2>2. replay_account(a, t) = c
    BY <1>10 DEF replay_account, c, at, sizeC
  <2>3. replay_v2(b, t, "entry", "entry", 0) = [d EXCEPT !.skippedSize = @ + 1]
    BY <2>1 DEF replay_v2, d, at, sizeD
  <2>4. [d EXCEPT !.skippedSize = @ + 1] \in Accounts /\ Same(d, [d EXCEPT !.skippedSize = @ + 1])
    BY <1>3, SkippedOther
  <2>5. Same(c, [d EXCEPT !.skippedSize = @ + 1])
    BY <1>3, <2>4 DEF Same, SameBook, SameMoney
  <2> QED
    BY <1>3, <1>4, <2>2, <2>3, <2>4, <2>5
<1>11. CASE ~ cb_active(c.cb[t.side], at) /\ ~ CapReached(c.open) /\ sizeC.lots # 0
  <2>1. ~ cb_active(d.cb[t.side], at) /\ ~ CapReached(d.open) /\ sizeD.lots # 0
    BY <1>3, <1>6, <1>11 DEF Same, SameBook, SameMoney
  <2> DEFINE e == Booked(c, t.exit, t.pnl, p.usd)
             f == [e EXCEPT !.taken = @ + 1, !.open = @ \cup {p}]
             g == [d EXCEPT !.taken = @ + 1, !.open = @ \cup {p}]
             h == Arm(g, t.side, t.pnl, t.exit)
             i == [c EXCEPT !.taken = @ + 1, !.open = @ \cup {p}]
             x == Arm(f, t.side, t.pnl, t.exit)
             y == Booked(h, t.exit, t.pnl, p.usd)
  <2>2. replay_account(a, t) = x
    BY <1>11 DEF replay_account, c, at, sizeC, p
  <2>3. replay_v2(b, t, "entry", "entry", 0) = Booked(Arm([d EXCEPT !.taken = @ + 1, !.open = @ \cup {q}], t.side, t.pnl, t.exit), t.exit, t.pnl, q.usd)
    BY <2>1 DEF replay_v2, d, at, sizeD, q, BookAtEntry, ArmAtEntry
  <2>4. replay_v2(b, t, "entry", "entry", 0) = y
    BY <1>7, <2>3
  <2>5. i \in Accounts /\ g \in Accounts /\ Same(i, g) /\ i.open = c.open \cup {p}
    BY <1>3, <1>7, Enters
  <2>6. Same(f, Booked(i, t.exit, t.pnl, p.usd))
    BY <1>1, <1>3, <1>7, BookEnterCommute
  <2>7. f \in Accounts /\ Booked(i, t.exit, t.pnl, p.usd) \in Accounts
    <3>1. e \in Accounts
      BY <1>1, <1>3, <1>7, BookedType
    <3>2. f \in Accounts
      BY <1>7, <3>1, Enters
    <3> HIDE DEF e, f, g, i
    <3>3. Booked(i, t.exit, t.pnl, p.usd) \in Accounts
      BY <1>1, <1>7, <2>5, BookedType
    <3> QED
      BY <3>2, <3>3
  <2> HIDE DEF e, f, g, i
  <2>8. h \in Accounts /\ x \in Accounts
    BY <1>1, <2>5, <2>7, ArmType
  <2>9. Same(x, y)
    <3>1. Same(x, Arm(Booked(i, t.exit, t.pnl, p.usd), t.side, t.pnl, t.exit))
      BY <1>1, <2>6, <2>7, ArmSame
    <3>2. Same(Arm(Booked(i, t.exit, t.pnl, p.usd), t.side, t.pnl, t.exit), y)
      BY <1>1, <1>7, <2>5, BookArmCommute
    <3> HIDE DEF x, y
    <3> QED
      BY <3>1, <3>2 DEF Same, SameBook, SameMoney
  <2> HIDE DEF h
  <2>10. y \in Accounts
    BY <1>1, <1>7, <2>8, BookedType
  <2>11. IsFiniteSet(x.open)
    <3>1. x.open = f.open
      BY <1>1, <2>7, ArmType
    <3>2. f.open = Booked(i, t.exit, t.pnl, p.usd).open
      BY <2>6 DEF Same, SameBook
    <3>3. Booked(i, t.exit, t.pnl, p.usd).open = i.open
      BY <1>1, <1>7, <2>5, BookedFields
    <3> HIDE DEF x
    <3> QED
      BY <1>4, <2>5, <3>1, <3>2, <3>3, FS_AddElement, SMTT(30)
  <2> QED
    BY <2>2, <2>4, <2>8, <2>9, <2>10, <2>11
<1> QED
  BY <1>8, <1>9, <1>10, <1>11

-----------------------------------------------------------------------------
(* Settling what is ripe, one position after the other. *)

Distinct(U) == \A p, q \in U : p.id = q.id => p = q

LEMMA LastIsLast ==
    ASSUME NEW U \in SUBSET Held, Distinct(U), NEW s, s \subseteq U, IsFiniteSet(s), s # {}
    PROVE  /\ LastOf(s) \in s
           /\ \A q \in s \ {LastOf(s)} : Precedes(q, LastOf(s))
<1> DEFINE Final(r, p) == p \in r /\ \A q \in r \ {p} : Precedes(q, p)
           T == {k \in Nat : \A r \in SUBSET U :
                    IsFiniteSet(r) /\ r # {} /\ Cardinality(r) <= k => \E p \in r : Final(r, p)}
<1>1. 0 \in T
  BY FS_EmptySet, FS_CardinalityType
<1>2. ASSUME NEW k \in Nat, k \in T
      PROVE  k + 1 \in T
  <2> SUFFICES ASSUME NEW r \in SUBSET U, IsFiniteSet(r), r # {}, Cardinality(r) <= k + 1
               PROVE  \E p \in r : Final(r, p)
    OBVIOUS
  <2>1. PICK x \in r : TRUE
    OBVIOUS
  <2> DEFINE rest == r \ {x}
  <2>2. IsFiniteSet(rest) /\ Cardinality(rest) = Cardinality(r) - 1 /\ Cardinality(r) \in Nat
    BY FS_RemoveElement, FS_CardinalityType
  <2>3. CASE rest = {}
    BY <2>1, <2>3
  <2>4. CASE rest # {}
    <3>1. Cardinality(rest) <= k
      BY <2>2
    <3>2. PICK p \in rest : Final(rest, p)
      BY <1>2, <2>2, <2>4, <3>1
    <3>3. x.id \in Nat /\ x.exit \in Nat /\ p.id \in Nat /\ p.exit \in Nat /\ x.id # p.id
      BY <3>2 DEF Held, Distinct
    <3>4. CASE Precedes(x, p)
      BY <3>2, <3>4
    <3>5. CASE ~ Precedes(x, p)
      <4>1. Precedes(p, x)
        BY <3>3, <3>5 DEF Precedes
      <4>2. ASSUME NEW q \in r \ {x}
            PROVE  Precedes(q, x)
        <5>1. q = p \/ Precedes(q, p)
          BY <3>2
        <5>2. q.id \in Nat /\ q.exit \in Nat
          BY DEF Held
        <5> QED
          BY <3>3, <4>1, <5>1, <5>2 DEF Precedes
      <4> QED
        BY <2>1, <4>2
    <3> QED
      BY <3>4, <3>5
  <2> QED
    BY <2>3, <2>4
<1> HIDE DEF T
<1>3. Nat \subseteq T
  BY <1>1, <1>2, SetInduction
<1>4. Cardinality(s) \in Nat
  BY FS_CardinalityType
<1>5. \E p \in s : Final(s, p)
  BY <1>3, <1>4 DEF T
<1> QED
  BY <1>5 DEF LastOf

Pops(a, cbAt, D, f) ==
    f = [s \in D |-> IF s = {} THEN a ELSE SettleOne(f[s \ {LastOf(s)}], LastOf(s), cbAt)]

LEMMA SmallButLast ==
    ASSUME NEW U \in SUBSET Held, Distinct(U), NEW k \in Nat, NEW s \in Small(U, k + 1), s # {}
    PROVE  /\ s \ {LastOf(s)} \in Small(U, k) /\ LastOf(s) \in s
           /\ \A q \in s \ {LastOf(s)} : Precedes(q, LastOf(s))
<1>1. IsFiniteSet(s) /\ s \subseteq U /\ Cardinality(s) <= k + 1 /\ Cardinality(s) \in Nat
  BY FS_CardinalityType DEF Small
<1>2. LastOf(s) \in s /\ \A q \in s \ {LastOf(s)} : Precedes(q, LastOf(s))
  BY <1>1, LastIsLast
<1>3. IsFiniteSet(s \ {LastOf(s)}) /\ Cardinality(s \ {LastOf(s)}) = Cardinality(s) - 1
  BY <1>1, <1>2, FS_RemoveElement
<1> QED
  BY <1>1, <1>2, <1>3 DEF Small

LEMMA SomePops ==
    ASSUME NEW a, NEW cbAt, NEW U \in SUBSET Held, IsFiniteSet(U), Distinct(U)
    PROVE  \E f : Pops(a, cbAt, SUBSET U, f)
<1> DEFINE T == {k \in Nat : \E f : Pops(a, cbAt, Small(U, k), f)}
<1>1. 0 \in T
  <2> DEFINE f == [s \in Small(U, 0) |-> a]
  <2>1. Pops(a, cbAt, Small(U, 0), f)
    BY SmallNone DEF Pops
  <2> QED
    BY <2>1
<1>2. ASSUME NEW k \in Nat, k \in T
      PROVE  k + 1 \in T
  <2>1. PICK f : Pops(a, cbAt, Small(U, k), f)
    BY <1>2
  <2> DEFINE g == [s \in Small(U, k + 1) |->
                     IF s = {} THEN a ELSE SettleOne(f[s \ {LastOf(s)}], LastOf(s), cbAt)]
  <2>2. \A s \in Small(U, k) : s \in Small(U, k + 1) /\ g[s] = f[s]
    <3>1. \A s \in Small(U, k) : s \in Small(U, k + 1)
      <4> SUFFICES ASSUME NEW s \in Small(U, k) PROVE s \in Small(U, k + 1)
        OBVIOUS
      <4>1. s \subseteq U /\ IsFiniteSet(s) /\ Cardinality(s) <= k /\ Cardinality(s) \in Nat
        BY FS_CardinalityType DEF Small
      <4> QED
        BY <4>1 DEF Small
    <3> QED
      BY <2>1, <3>1 DEF Pops
  <2>3. \A s \in Small(U, k + 1) : s # {} => g[s \ {LastOf(s)}] = f[s \ {LastOf(s)}]
    BY <2>2, SmallButLast
  <2>4. Pops(a, cbAt, Small(U, k + 1), g)
    BY <2>3 DEF Pops
  <2> QED
    BY <2>4
<1> HIDE DEF T
<1>3. Nat \subseteq T
  BY <1>1, <1>2, SetInduction
<1>4. PICK k \in Nat : Small(U, k) = SUBSET U
  BY SmallAll
<1> QED
  BY <1>3, <1>4 DEF T

Ripe(a, until) == {p \in a.pending : p.exit <= until}
Without(a, ripe) == [a EXCEPT !.pending = @ \ ripe]

LEMMA SettleFold ==
    ASSUME NEW a, NEW until, NEW cbAt, NEW ripe, ripe = Ripe(a, until),
           ripe \in SUBSET Held, IsFiniteSet(ripe), Distinct(ripe)
    PROVE  \E f : /\ Pops(a, cbAt, SUBSET ripe, f)
                  /\ settle(a, until, cbAt) = Without(f[ripe], ripe)
<1> DEFINE f == CHOOSE g : Pops(a, cbAt, SUBSET ripe, g)
<1>1. settle(a, until, cbAt) = Without(f[ripe], ripe)
  BY DEF settle, Pops, Without, Ripe
<1>2. Pops(a, cbAt, SUBSET ripe, f)
  BY SomePops
<1> QED
  BY <1>1, <1>2

(* What the account says when exactly the positions of S are over. *)
Usd == [p \in Held |-> p.usd]
Costs(p, side) == p.side = side /\ p.pnl <= 0
Settled(a, S) ==
    /\ a.equity = StartEquity + SumFunctionOnSet(Usd, S)
    /\ Len(a.recent) = Least(Keep, Cardinality(S))
    /\ \A x \in Sides : \A w \in Nat :
         w < a.cb[x] <=> \E p \in S : Costs(p, x) /\ w < p.exit + CbPause

LEMMA SettleOneHolds ==
    ASSUME NEW a \in Accounts, NEW S \in SUBSET Held, IsFiniteSet(S), Settled(a, S),
           NEW p \in Held, p \notin S, \A q \in S : q.exit <= p.exit
    PROVE  LET b == SettleOne(a, p, "exit") IN
           /\ b \in Accounts /\ Settled(b, S \cup {p})
           /\ b.open = a.open /\ b.pending = a.pending /\ b.taken = a.taken
<1> DEFINE c == Booked(a, p.exit, p.pnl, p.usd)
           b == Arm(c, p.side, p.pnl, p.exit)
<1>1. p.exit \in Nat /\ p.pnl \in Int /\ p.usd \in Int /\ p.side \in Sides
  BY DEF Held
<1>2. SettleOne(a, p, "exit") = b
  BY DEF SettleOne, SettleCb
<1>3. c \in Accounts
  BY <1>1, BookedType
<1>4. c.equity = a.equity + p.usd /\ c.recent = NextRecent(a.recent, p.pnl) /\ c.cb = a.cb
      /\ c.open = a.open /\ c.pending = a.pending /\ c.taken = a.taken
  BY <1>1, BookedFields
<1>5. Len(c.recent) = Least(Keep, Len(a.recent) + 1)
  BY <1>1, <1>4, BookedType
<1> HIDE DEF c
<1>6. b \in Accounts /\ b.equity = c.equity /\ b.recent = c.recent
      /\ b.open = c.open /\ b.pending = c.pending /\ b.taken = c.taken
      /\ b.cb = IF p.pnl <= 0 THEN [c.cb EXCEPT ![p.side] = p.exit + CbPause] ELSE c.cb
  BY <1>1, <1>3, ArmType
<1> HIDE DEF b
<1>7. b.equity = StartEquity + SumFunctionOnSet(Usd, S \cup {p})
  <2>1. \A q \in S \cup {p} : Usd[q] \in Int
    BY DEF Usd, Held
  <2>2. SumFunctionOnSet(Usd, S \cup {p}) = Usd[p] + SumFunctionOnSet(Usd, S)
    BY <2>1, SumAdd
  <2>3. SumFunctionOnSet(Usd, S) \in Int
    BY <2>1, SumType
  <2>4. Usd[p] = p.usd /\ StartEquity \in Nat
    BY BacktestNumbers DEF Usd
  <2> QED
    BY <1>1, <1>4, <1>6, <2>2, <2>3, <2>4 DEF Settled
<1>8. Len(b.recent) = Least(Keep, Cardinality(S \cup {p}))
  <2>1. Cardinality(S \cup {p}) = Cardinality(S) + 1 /\ Cardinality(S) \in Nat
    BY FS_AddElement, FS_CardinalityType
  <2>2. Keep \in Nat \ {0}
    BY BacktestNumbers
  <2> QED
    BY <1>5, <1>6, <2>1, <2>2 DEF Settled, Least
<1>9. ASSUME NEW x \in Sides, NEW w \in Nat
      PROVE  w < b.cb[x] <=> \E q \in S \cup {p} : Costs(q, x) /\ w < q.exit + CbPause
  <2>1. CbPause \in Nat /\ a.cb \in [Sides -> Int] /\ \A q \in S : q.exit \in Nat
    BY BacktestNumbers DEF Accounts, Held
  <2>2. w < a.cb[x] <=> \E q \in S : Costs(q, x) /\ w < q.exit + CbPause
    BY DEF Settled
  <2>3. CASE Costs(p, x)
    <3>1. b.cb[x] = p.exit + CbPause
      BY <1>4, <1>6, <2>1, <2>3 DEF Costs
    <3>2. \A q \in S : w < q.exit + CbPause => w < p.exit + CbPause
      BY <1>1, <2>1
    <3> QED
      BY <2>3, <3>1, <3>2
  <2>4. CASE ~ Costs(p, x)
    <3>1. b.cb[x] = a.cb[x]
      BY <1>1, <1>4, <1>6, <2>1, <2>4 DEF Costs
    <3> QED
      BY <2>2, <2>4, <3>1
  <2> QED
    BY <2>3, <2>4
<1>10. Settled(b, S \cup {p})
  BY <1>7, <1>8, <1>9 DEF Settled
<1> QED
  BY <1>2, <1>4, <1>6, <1>10

LEMMA SettleHolds ==
    ASSUME NEW a \in Accounts, NEW S \in SUBSET Held, IsFiniteSet(S), Settled(a, S),
           IsFiniteSet(a.pending), Distinct(a.pending), a.pending \cap S = {},
           NEW until \in Nat, NEW ripe, ripe = Ripe(a, until),
           \A q \in S : \A p \in ripe : q.exit <= p.exit
    PROVE  LET b == settle(a, until, "exit") IN
           /\ b \in Accounts /\ Settled(b, S \cup ripe)
           /\ b.open = a.open /\ b.pending = a.pending \ ripe /\ b.taken = a.taken
<1>1. ripe \in SUBSET Held /\ ripe \subseteq a.pending /\ IsFiniteSet(ripe) /\ Distinct(ripe)
      /\ ripe \cap S = {}
  <2>1. ripe \subseteq a.pending /\ a.pending \in SUBSET Held
    BY DEF Accounts, Ripe
  <2> QED
    BY <2>1, FS_Subset DEF Distinct
<1>2. PICK f : Pops(a, "exit", SUBSET ripe, f)
               /\ settle(a, until, "exit") = Without(f[ripe], ripe)
  BY <1>1, SettleFold, ZenonT(30)
<1> DEFINE Good(s) == /\ f[s] \in Accounts /\ Settled(f[s], S \cup s)
                      /\ f[s].open = a.open /\ f[s].pending = a.pending /\ f[s].taken = a.taken
           T == {k \in Nat : \A s \in Small(ripe, k) : Good(s)}
<1>3. Good({})
  <2>1. f[{}] = a
    BY <1>2 DEF Pops
  <2>2. S \cup {} = S
    OBVIOUS
  <2> QED
    BY <2>1, <2>2
<1>4. 0 \in T
  BY <1>3, SmallNone
<1>5. ASSUME NEW k \in Nat, k \in T
      PROVE  k + 1 \in T
  <2> HIDE DEF Good
  <2> SUFFICES ASSUME NEW s \in Small(ripe, k + 1) PROVE Good(s)
    OBVIOUS
  <2>1. CASE s = {}
    BY <1>3, <2>1
  <2>2. CASE s # {}
    <3> DEFINE p == LastOf(s)
               r == s \ {p}
    <3>1. r \in Small(ripe, k) /\ p \in s /\ \A q \in r : Precedes(q, p)
      BY <1>1, <2>2, SmallButLast
    <3>2. s \in SUBSET ripe /\ IsFiniteSet(r) /\ r \subseteq ripe
      BY <3>1 DEF Small
    <3>3. f[s] = SettleOne(f[r], p, "exit")
      BY <1>2, <2>2, <3>2 DEF Pops
    <3>4. Good(r)
      BY <1>5, <3>1
    <3> HIDE DEF p, r
    <3>5. p \in Held /\ p \in ripe /\ p \notin S \cup r /\ s = r \cup {p}
      BY <1>1, <3>1, <3>2 DEF p, r
    <3>6. IsFiniteSet(S \cup r) /\ S \cup r \in SUBSET Held
      BY <1>1, <3>2, FS_Union
    <3>7. \A q \in S \cup r : q.exit <= p.exit
      <4> SUFFICES ASSUME NEW q \in S \cup r PROVE q.exit <= p.exit
        OBVIOUS
      <4>1. CASE q \in S
        BY <3>5, <4>1
      <4>2. CASE q \in r
        <5>1. Precedes(q, p) /\ q.exit \in Nat /\ p.exit \in Nat
          BY <3>1, <3>5, <3>6, <4>2 DEF Held
        <5> QED
          BY <5>1 DEF Precedes
      <4> QED
        BY <4>1, <4>2
    <3>8. /\ f[s] \in Accounts /\ Settled(f[s], (S \cup r) \cup {p})
          /\ f[s].open = f[r].open /\ f[s].pending = f[r].pending /\ f[s].taken = f[r].taken
      <4>1. PICK e : e = f[r]
        OBVIOUS
      <4>2. e \in Accounts /\ Settled(e, S \cup r)
        BY <3>4, <4>1 DEF Good
      <4>3. PICK R : R = S \cup r
        OBVIOUS
      <4>4. LET c == SettleOne(e, p, "exit") IN
            /\ c \in Accounts /\ Settled(c, R \cup {p})
            /\ c.open = e.open /\ c.pending = e.pending /\ c.taken = e.taken
        BY <3>5, <3>6, <3>7, <4>2, <4>3, SettleOneHolds
      <4> QED
        BY <3>3, <4>1, <4>3, <4>4 DEF Good
    <3>9. (S \cup r) \cup {p} = S \cup s
      BY <3>5
    <3> QED
      BY <3>4, <3>8, <3>9 DEF Good
  <2> QED
    BY <2>1, <2>2
<1> HIDE DEF T
<1>6. Nat \subseteq T
  BY <1>4, <1>5, SetInduction
<1>7. PICK k \in Nat : Small(ripe, k) = SUBSET ripe
  BY <1>1, SmallAll
<1>8. Good(ripe)
  BY <1>6, <1>7 DEF T
<1> DEFINE b == Without(f[ripe], ripe)
<1>9. b \in Accounts /\ b.open = a.open /\ b.pending = a.pending \ ripe /\ b.taken = a.taken
      /\ b.equity = f[ripe].equity /\ b.recent = f[ripe].recent /\ b.cb = f[ripe].cb
  BY <1>8 DEF Accounts, Without
<1>10. Settled(b, S \cup ripe)
  BY <1>8, <1>9 DEF Settled
<1> QED
  BY <1>2, <1>9, <1>10

-----------------------------------------------------------------------------
(* The book of version 2: every position it took is pending until its exit has
   come, and is then in the equity, the sizing and the breakers. *)

Over(E, at) == {p \in E : p.exit <= at}
Book(a, E, at) ==
    /\ a \in Accounts /\ IsFiniteSet(E) /\ E \in SUBSET Held /\ Distinct(E)
    /\ a.open \subseteq E
    /\ a.pending = E \ Over(E, at)
    /\ Settled(a, Over(E, at))

LEMMA SettleBook ==
    ASSUME NEW a, NEW E, NEW past \in Nat, NEW at \in Nat, Book(a, E, past), past <= at
    PROVE  LET b == settle(a, at, "exit") IN
           Book(b, E, at) /\ b.open = a.open /\ b.taken = a.taken
<1> DEFINE S == Over(E, past)
           ripe == Ripe(a, at)
           b == settle(a, at, "exit")
<1>1. \A p \in E : p.exit \in Nat
  BY DEF Book, Held
<1>2. a \in Accounts /\ S \in SUBSET Held /\ IsFiniteSet(S) /\ Settled(a, S)
  BY FS_Subset DEF Book, Over
<1>3. IsFiniteSet(a.pending) /\ Distinct(a.pending) /\ a.pending \cap S = {}
  <2>1. a.pending \subseteq E /\ IsFiniteSet(E) /\ Distinct(E)
    BY DEF Book
  <2> QED
    BY <2>1, FS_Subset DEF Book, Distinct
<1>4. ripe = {p \in E : past < p.exit /\ p.exit <= at}
  BY <1>1 DEF Ripe, Book, Over
<1>5. \A q \in S : \A p \in ripe : q.exit <= p.exit
  BY <1>1, <1>4 DEF Over
<1>6. S \cup ripe = Over(E, at) /\ a.pending \ ripe = E \ Over(E, at)
  BY <1>1, <1>4 DEF Over, Book
<1> HIDE DEF S, ripe
<1>7. b \in Accounts /\ Settled(b, S \cup ripe)
      /\ b.open = a.open /\ b.pending = a.pending \ ripe /\ b.taken = a.taken
  BY <1>2, <1>3, <1>5, SettleHolds DEF ripe
<1> HIDE DEF b
<1>8. Book(b, E, at)
  BY <1>6, <1>7 DEF Book
<1> QED
  BY <1>7, <1>8 DEF b

(* An account that differs in what it counted only. *)
LEMMA SkipBook ==
    ASSUME NEW a, NEW E, NEW at \in Nat, Book(a, E, at),
           NEW b, b \in {[a EXCEPT !.skippedCb = @ + 1], [a EXCEPT !.skippedCap = @ + 1],
                         [a EXCEPT !.skippedSize = @ + 1]}
    PROVE  Book(b, E, at) /\ b.taken = a.taken /\ b.pending = a.pending
<1>1. a \in Accounts
  BY DEF Book
<1>2. b \in Accounts
  BY <1>1, SkippedCap, SkippedOther
<1>3. /\ b.open = a.open /\ b.pending = a.pending /\ b.taken = a.taken
      /\ b.equity = a.equity /\ b.recent = a.recent /\ b.cb = a.cb
  BY <1>1 DEF Accounts
<1>4. Settled(b, Over(E, at))
  BY <1>3 DEF Book, Settled
<1> QED
  BY <1>2, <1>3, <1>4 DEF Book

LEMMA UsedWithOneMore ==
    ASSUME NEW a \in Accounts, NEW b \in Accounts, IsFiniteSet(a.open), NEW at \in Nat,
           NEW p \in Held, p \notin a.open, p.exit > at, \A q \in a.open : q.exit > at,
           b.open = a.open \cup {p}
    PROVE  UsedMargin(b, at) = UsedMargin(a, at) + p.margin
<1> DEFINE F == [q \in b.open |-> q.margin]
           G == [q \in a.open |-> q.margin]
<1>1. StillOpen(a, at) = a.open /\ StillOpen(b, at) = a.open \cup {p}
  BY DEF StillOpen
<1>2. \A q \in a.open \cup {p} : F[q] = q.margin /\ q.margin \in Nat
  BY DEF Accounts, Held
<1>3. \A q \in a.open : F[q] = G[q] /\ G[q] = q.margin
  BY <1>2
<1>4. UsedMargin(a, at) = SumFunctionOnSet(G, a.open)
  BY <1>1 DEF UsedMargin
<1>5. UsedMargin(b, at) = SumFunctionOnSet(F, a.open \cup {p})
  BY <1>1 DEF UsedMargin
<1> HIDE DEF F, G
<1>6. SumFunctionOnSet(F, a.open) = SumFunctionOnSet(G, a.open)
  BY <1>3, SumCongruence
<1>7. SumFunctionOnSet(F, a.open \cup {p}) = F[p] + SumFunctionOnSet(F, a.open)
  BY <1>2, SumAdd
<1>8. SumFunctionOnSet(F, a.open) \in Nat
  BY <1>2, SumType
<1> QED
  BY <1>2, <1>4, <1>5, <1>6, <1>7, <1>8

LEMMA ReplayBook ==
    ASSUME NEW a, NEW E, NEW past \in Nat, NEW t \in Trade, Book(a, E, past),
           past <= t.entry, t.entry < t.exit, \A p \in E : p.id < t.id
    PROVE  LET b == replay_v2(a, t, "exit", "exit", KeyCap)
               F == E \cup {p \in b.pending : p.id = t.id}
           IN  /\ Book(b, F, t.entry)
               /\ b.taken > a.taken => 100 * UsedMargin(b, t.entry) <= PortMarginPct * b.equity
               /\ \A p \in F : p.id <= t.id
<1> DEFINE at == t.entry
           s == settle(a, at, "exit")
           c == [s EXCEPT !.open = StillOpen(s, at)]
           size == core_size_position(c.equity, UsedMargin(c, at), c.recent,
                                      margin_per_lot(t.strike, t.credit, 1), t.mult)
           p == Position(t, size)
           ofKey == {q \in c.open : q.side = t.side}
           b == replay_v2(a, t, "exit", "exit", KeyCap)
           F == E \cup {q \in b.pending : q.id = t.id}
<1>1. at \in Nat /\ t.side \in Sides /\ t.pnl \in Int /\ t.exit \in Nat /\ t.mult \in 1..100 /\ t.id \in Nat
  BY DEF Trade
<1>2. Book(s, E, at) /\ s.taken = a.taken
  BY <1>1, SettleBook
<1> HIDE DEF s
<1>3. c \in Accounts /\ c.open = StillOpen(s, at) /\ c.open \subseteq E /\ c.pending = s.pending
      /\ c.taken = s.taken /\ c.equity = s.equity /\ c.recent = s.recent /\ c.cb = s.cb
  <2>1. s \in Accounts /\ s.open \subseteq E /\ StillOpen(s, at) \subseteq s.open
    BY <1>2 DEF Book, StillOpen
  <2> HIDE DEF at
  <2> QED
    BY <2>1 DEF Accounts
<1>4. Book(c, E, at) /\ c.taken = a.taken
  <2>1. Settled(c, Over(E, at))
    BY <1>2, <1>3 DEF Book, Settled
  <2> QED
    BY <1>2, <1>3, <2>1 DEF Book
<1>5. IsFiniteSet(c.open) /\ (\A q \in c.open : q.exit > at) /\ c.equity \in Int /\ c.taken \in Nat
  <2>1. \A q \in c.open : q.exit > at
    BY <1>3 DEF StillOpen
  <2>2. IsFiniteSet(c.open)
    BY <1>3, <1>4, FS_Subset DEF Book
  <2>3. c.equity \in Int /\ c.taken \in Nat
    BY <1>3 DEF Accounts
  <2> QED
    BY <2>1, <2>2, <2>3
<1>6. \A q \in E : q.id \in Nat /\ q.id < t.id
  BY DEF Book, Held
<1>7. size \in [lots : Nat, margin : Nat]
      /\ (size.lots # 0 => 100 * (UsedMargin(c, at) + size.margin) <= PortMarginPct * c.equity)
  <2>1. UsedMargin(c, at) \in Nat /\ margin_per_lot(t.strike, t.credit, 1) \in Int
    BY <1>1, <1>3, <1>5, UsedType, PerLotType
  <2> QED
    BY <1>1, <1>5, <2>1, SizeFits
<1>8. p \in Held /\ p.id = t.id /\ p.exit = t.exit /\ p.margin = size.margin
  <2>1. p \in Held
    BY <1>7, PositionType
  <2> QED
    BY <2>1 DEF Position
<1> HIDE DEF c, size, p
<1>9. CASE b \in {[c EXCEPT !.skippedCb = @ + 1], [c EXCEPT !.skippedCap = @ + 1],
                  [c EXCEPT !.skippedSize = @ + 1]}
  <2> HIDE DEF b
  <2>1. Book(b, E, at) /\ b.taken = c.taken /\ b.pending = c.pending
    BY <1>1, <1>4, <1>9, SkipBook
  <2>2. b.pending \subseteq E
    BY <2>1 DEF Book
  <2>3. F = E
    BY <1>1, <1>6, <2>2
  <2> HIDE DEF F
  <2>4. Book(b, F, at) /\ ~ (b.taken > a.taken)
    BY <1>4, <1>5, <2>1, <2>3
  <2>5. \A q \in F : q.id <= t.id
    BY <1>1, <1>6, <2>3
  <2> QED
    BY <2>4, <2>5 DEF b, F
<1>10. CASE /\ b = [[c EXCEPT !.taken = @ + 1, !.open = @ \cup {p}] EXCEPT !.pending = @ \cup {p}]
            /\ size.lots # 0
  <2> DEFINE d == [c EXCEPT !.taken = @ + 1, !.open = @ \cup {p}]
  <2> HIDE DEF b
  <2>1. d \in Accounts /\ d.open = c.open \cup {p} /\ d.taken = c.taken + 1
        /\ d.pending = c.pending /\ d.cb = c.cb /\ d.recent = c.recent /\ d.equity = c.equity
    BY <1>3, <1>8, Enters
  <2>2. b = [d EXCEPT !.pending = @ \cup {p}]
    BY <1>10
  <2> HIDE DEF d
  <2>3. b \in Accounts
    <3>1. d.pending \cup {p} \in SUBSET Held
      BY <1>8, <2>1 DEF Accounts
    <3> QED
      BY <2>1, <2>2, <3>1 DEF Accounts
  <2>4. b.open = c.open \cup {p} /\ b.taken = c.taken + 1
        /\ b.pending = c.pending \cup {p} /\ b.cb = c.cb /\ b.recent = c.recent /\ b.equity = c.equity
    BY <2>1, <2>2 DEF Accounts
  <2>5. p \notin E /\ \A q \in E : q.id # p.id
    BY <1>6, <1>8
  <2>6. F = E \cup {p}
    <3>1. c.pending \subseteq E
      BY <1>4 DEF Book
    <3> QED
      BY <1>6, <1>8, <2>4, <3>1
  <2>7. IsFiniteSet(F) /\ F \in SUBSET Held /\ Distinct(F)
    <3>1. IsFiniteSet(E) /\ E \in SUBSET Held /\ Distinct(E)
      BY <1>4 DEF Book
    <3>2. IsFiniteSet(E \cup {p})
      BY <3>1, FS_AddElement
    <3>3. Distinct(E \cup {p})
      BY <2>5, <3>1 DEF Distinct
    <3> QED
      BY <1>8, <2>6, <3>1, <3>2, <3>3
  <2>8. Over(F, at) = Over(E, at) /\ F \ Over(F, at) = (E \ Over(E, at)) \cup {p}
    <3>1. ~ (p.exit <= at)
      BY <1>1, <1>8
    <3> HIDE DEF F, at
    <3> QED
      BY <2>5, <2>6, <3>1 DEF Over
  <2>9. Settled(b, Over(F, at))
    BY <1>4, <2>4, <2>8 DEF Book, Settled
  <2>10. Book(b, F, at)
    <3> HIDE DEF F, at
    <3>1. b.open \subseteq F /\ b.pending = F \ Over(F, at)
      BY <1>3, <1>4, <2>4, <2>6, <2>8 DEF Book
    <3> QED
      BY <2>3, <2>7, <2>9, <3>1 DEF Book
  <2>11. UsedMargin(b, at) = UsedMargin(c, at) + p.margin
    <3>1. p \notin c.open /\ p.exit > at
      BY <1>1, <1>3, <1>8, <2>5
    <3> QED
      BY <1>1, <1>3, <1>5, <1>8, <2>3, <2>4, <3>1, UsedWithOneMore
  <2>12. 100 * UsedMargin(b, at) <= PortMarginPct * b.equity
    BY <1>7, <1>8, <1>10, <2>4, <2>11
  <2>13. \A q \in F : q.id <= t.id
    BY <1>1, <1>6, <1>8, <2>6
  <2> QED
    BY <2>10, <2>12, <2>13 DEF b
<1>11. b \in {[c EXCEPT !.skippedCb = @ + 1], [c EXCEPT !.skippedCap = @ + 1],
              [c EXCEPT !.skippedSize = @ + 1]}
       \/ /\ b = [[c EXCEPT !.taken = @ + 1, !.open = @ \cup {p}] EXCEPT !.pending = @ \cup {p}]
          /\ size.lots # 0
  BY DEF replay_v2, BookAtEntry, ArmAtEntry, s, c, size, p
<1> QED
  BY <1>9, <1>10, <1>11

-----------------------------------------------------------------------------
(* The run of a backtest. *)

(* Candidates are looked at when their bar has come; after the last one time
   jumps to when all is settled. *)
SeriesInv ==
    /\ closes \in Seq(Prices) /\ todo \in SUBSET Sides /\ cool \in [Sides -> Int]
    /\ n \in Nat /\ now \in Nat
    /\ todo # {} => Len(closes) \in 1..MaxBars /\ now <= Len(closes)
    /\ now <= Len(closes) \/ (todo = {} /\ Len(closes) >= MaxBars /\ now <= 2 * MaxBars)

SelfInv == v1 \in Accounts /\ v2entry \in Accounts /\ Same(v1, v2entry) /\ IsFiniteSet(v1.open)

BookInv == Book(v2, entered, now) /\ \A p \in entered : p.id <= n

BacktestInv == SeriesInv /\ SelfInv /\ BookInv

LEMMA StartType ==
    /\ NewAccount(StartEquity) \in Accounts
    /\ Book(NewAccount(StartEquity), {}, 0)
<1> DEFINE a == NewAccount(StartEquity)
<1>1. StartEquity \in Nat /\ Keep \in Nat
  BY BacktestNumbers
<1>2. <<>> \in Seq(Int) /\ <<>> \in Seq(Nat \X Int) /\ Len(<<>>) = 0
  BY EmptySeq
<1>3. a \in Accounts
  BY <1>1, <1>2 DEF NewAccount, Accounts, Sides
<1>4. Over({}, 0) = {}
  BY DEF Over
<1>5. a.equity = StartEquity /\ a.recent = <<>> /\ a.open = {} /\ a.pending = {}
      /\ \A x \in Sides : a.cb[x] = -1
  BY DEF NewAccount, Sides
<1> HIDE DEF a
<1>6. a.equity = StartEquity + SumFunctionOnSet(Usd, {})
  BY <1>1, <1>5, SumEmpty
<1>7. Len(a.recent) = Least(Keep, Cardinality({}))
  BY <1>1, <1>2, <1>5, FS_EmptySet DEF Least
<1>8. Settled(a, {})
  BY <1>5, <1>6, <1>7 DEF Settled
<1>9. Book(a, {}, 0)
  BY <1>3, <1>4, <1>5, <1>8, FS_EmptySet DEF Book, Distinct
<1> QED
  BY <1>3, <1>9 DEF a

LEMMA InitBacktest == Init => BacktestInv
<1> SUFFICES ASSUME Init PROVE BacktestInv
  OBVIOUS
<1>1. SeriesInv
  BY BacktestNumbers, LenProperties DEF Init, SeriesInv, Sides
<1>2. SelfInv
  <2>1. v1.open = {}
    BY DEF Init, NewAccount
  <2> QED
    BY <2>1, StartType, FS_EmptySet DEF Init, SelfInv, Same, SameBook, SameMoney
<1>3. BookInv
  BY StartType DEF Init, BookInv
<1> QED
  BY <1>1, <1>2, <1>3 DEF BacktestInv

LEMMA OutcomeType ==
    ASSUME NEW side \in Sides, NEW i \in Nat, Forward(side, i) > 0, NEW out \in Outcomes(side, i)
    PROVE  out.exit \in Nat /\ i < out.exit /\ out.pnl \in Int
<1> DEFINE m == Forward(side, i)
<1>1. m \in Nat \ {0}
  BY BacktestAssumption DEF BacktestAssumption, Forward, Least, Sides
<1> HIDE DEF m
<1>2. PICK touched \in [1..m -> Touches], other \in OtherPnls :
        out = simulate_option_exit(side, i, touched, other)
  BY DEF Outcomes, TupleOf, m
<1> DEFINE hit == {k \in DOMAIN touched : touched[k] # {}}
           k == IF hit = {} THEN Len(touched) ELSE Min(hit)
<1>3. DOMAIN touched = 1..m /\ Len(touched) = m
  BY <1>1
<1>4. k \in 1..m
  <2>1. CASE hit = {}
    BY <1>1, <1>3, <2>1
  <2>2. CASE hit # {}
    <3>1. hit \subseteq Nat /\ hit \subseteq 1..m
      BY <1>1, <1>3
    <3>2. PICK x \in hit : \A y \in hit : ~ (<<y, x>> \in OpToRel(<, Nat))
      BY <2>2, <3>1, NatLessThanWellFounded, WFMin
    <3>3. \A y \in hit : x <= y
      <4> SUFFICES ASSUME NEW y \in hit, ~ (x <= y) PROVE FALSE
        OBVIOUS
      <4>1. x \in Nat /\ y \in Nat /\ y < x
        BY <3>1
      <4>2. <<y, x>> \in OpToRel(<, Nat)
        BY <4>1 DEF OpToRel
      <4> QED
        BY <3>2, <4>2
    <3>4. Min(hit) \in hit
      BY <3>3 DEF Min
    <3> QED
      BY <2>2, <3>1, <3>4
  <2> QED
    BY <2>1, <2>2
<1>5. out.exit = i + k
  BY <1>2 DEF simulate_option_exit
<1>6. out.pnl \in Int
  <2>1. other \in Int /\ SlPct[side] \in Nat /\ Tp2Pct[side] \in Nat
    <3> HIDE DEF hit, k
    <3>1. OtherPnls \subseteq Int /\ SlPct \in [Sides -> Nat \ {0}] /\ Tp2Pct \in [Sides -> 1..100]
      BY BacktestAssumption DEF BacktestAssumption, Sides
    <3>2. SlPct[side] \in Nat
      BY <3>1
    <3>3. Tp2Pct[side] \in Nat
      <4>1. Tp2Pct[side] \in 1..100
        BY <3>1
      <4>2. \A x \in 1..100 : x \in Nat
        OBVIOUS
      <4> QED
        BY <4>1, <4>2
    <3>4. other \in Int
      BY <1>2, <3>1
    <3> QED
      BY <3>2, <3>3, <3>4
  <2>2. out.pnl \in {other, -SlPct[side], Tp2Pct[side]}
    BY <1>2 DEF simulate_option_exit
  <2> QED
    BY <2>1, <2>2
<1> HIDE DEF k
<1> QED
  BY <1>1, <1>4, <1>5, <1>6

LEMMA ReadyType ==
    ASSUME NEW series, NEW i \in Nat
    PROVE  Ready(series, i) \subseteq Sides
<1>1. \A base : evaluate_gates(base) \subseteq base.allowed
  BY DEF evaluate_gates
<1>2. build_coin_base(series, i, TRUE).allowed \subseteq Sides
  BY GatesAssumption
  DEF GatesAssumption, build_coin_base, allowed_sides, SidesFor, Sides
<1> QED
  BY <1>1, <1>2 DEF Ready

(* What one candidate does to the accounts. *)
LEMMA ReplayedHolds ==
    ASSUME BacktestInv, NEW t \in Trade, now <= t.entry, t.entry < t.exit, n < t.id, Replayed(t)
    PROVE  /\ SelfInv'
           /\ Book(v2', entered', t.entry) /\ \A p \in entered' : p.id <= t.id
           /\ v2'.taken > v2.taken => 100 * UsedMargin(v2', t.entry) <= PortMarginPct * v2'.equity
<1>1. SelfInv'
  <2>1. v1' = replay_account(v1, t) /\ v2entry' = replay_v2(v2entry, t, "entry", "entry", 0)
    BY DEF Replayed
  <2>2. v1 \in Accounts /\ v2entry \in Accounts /\ Same(v1, v2entry) /\ IsFiniteSet(v1.open)
    BY DEF BacktestInv, SelfInv
  <2>3. LET x == replay_account(v1, t)
            y == replay_v2(v2entry, t, "entry", "entry", 0)
        IN  x \in Accounts /\ y \in Accounts /\ Same(x, y) /\ IsFiniteSet(x.open)
    BY <2>2, SelfStep
  <2> QED
    BY <2>1, <2>3 DEF SelfInv
<1>2. v2' = replay_v2(v2, t, "exit", "exit", KeyCap)
      /\ entered' = entered \cup {p \in v2'.pending : p.id = t.id}
  BY DEF Replayed
<1>3. Book(v2, entered, now) /\ now \in Nat /\ n \in Nat /\ \A p \in entered : p.id <= n
  BY DEF BacktestInv, BookInv, SeriesInv
<1>4. \A p \in entered : p.id < t.id
  BY <1>3 DEF Book, Held, Trade
<1>5. LET b == replay_v2(v2, t, "exit", "exit", KeyCap)
          F == entered \cup {p \in b.pending : p.id = t.id}
      IN  /\ Book(b, F, t.entry)
          /\ b.taken > v2.taken => 100 * UsedMargin(b, t.entry) <= PortMarginPct * b.equity
          /\ \A p \in F : p.id <= t.id
  BY <1>3, <1>4, ReplayBook
<1> QED
  BY <1>1, <1>2, <1>5

LEMMA NextBarHolds ==
    ASSUME BacktestInv, NEW c \in Prices, NextBar(c)
    PROVE  BacktestInv'
<1>1. closes \in Seq(Prices) /\ Len(closes) \in Nat /\ MaxBars \in Nat
  BY BacktestNumbers, LenProperties DEF BacktestInv, SeriesInv
<1>2. closes' \in Seq(Prices) /\ Len(closes') = Len(closes) + 1
  BY <1>1, AppendProperties DEF NextBar
<1>3. Ready(closes', Len(closes')) \subseteq Sides
  <2>1. Len(closes') \in Nat
    BY <1>1, <1>2
  <2> QED
    BY <2>1, ReadyType
<1>4. SeriesInv'
  BY <1>1, <1>2, <1>3 DEF NextBar, BacktestInv, SeriesInv
<1>5. UNCHANGED <<n, now, accounts>>
  BY DEF NextBar
<1>6. SelfInv' /\ BookInv'
  BY <1>5 DEF BacktestInv, SelfInv, BookInv, accounts
<1> QED
  BY <1>4, <1>6 DEF BacktestInv

LEMMA CandidateHolds ==
    ASSUME BacktestInv, Candidate
    PROVE  /\ BacktestInv'
           /\ v2'.taken > v2.taken => 100 * UsedMargin(v2', now') <= PortMarginPct * v2'.equity
<1> DEFINE side == FirstOf(todo)
           i == Len(closes)
<1>1. /\ i \in Nat \ {0} /\ i <= MaxBars /\ now <= i /\ MaxBars \in Nat /\ now \in Nat /\ n \in Nat
      /\ closes \in Seq(Prices) /\ todo # {}
  BY BacktestNumbers, LenProperties DEF BacktestInv, SeriesInv, Candidate
<1>2. side \in Sides
  BY <1>1 DEF BacktestInv, SeriesInv, FirstOf, Sides
<1>3. todo' \in SUBSET Sides /\ closes' = closes
  BY DEF BacktestInv, SeriesInv, Candidate
<1>4. cool' \in [Sides -> Int]
  <2>1. cool' = cool \/ cool' = [cool EXCEPT ![side] = i + Cooldown]
    BY DEF Candidate
  <2>2. i + Cooldown \in Int
    BY <1>1, BacktestNumbers
  <2> HIDE DEF side
  <2> QED
    BY <2>1, <2>2 DEF BacktestInv, SeriesInv
<1>5. \/ UNCHANGED <<n, now, accounts>>
      \/ \E out \in Outcomes(side, i), mult \in Mults :
            /\ Forward(side, i) > 0
            /\ n' = n + 1 /\ now' = i
            /\ Replayed([id |-> n', side |-> side, entry |-> i, exit |-> out.exit,
                         pnl |-> out.pnl, strike |-> Last(closes),
                         credit |-> Credit, mult |-> mult])
  BY DEF Candidate
<1>6. CASE UNCHANGED <<n, now, accounts>>
  <2>1. SeriesInv'
    BY <1>1, <1>3, <1>4, <1>6 DEF SeriesInv
  <2>2. SelfInv' /\ BookInv' /\ v2' = v2
    BY <1>6 DEF BacktestInv, SelfInv, BookInv, accounts
  <2>3. ~ (v2'.taken > v2.taken)
    <3>1. v2.taken \in Nat
      BY DEF BacktestInv, BookInv, Book, Accounts
    <3> QED
      BY <2>2, <3>1
  <2> QED
    BY <2>1, <2>2, <2>3 DEF BacktestInv
<1>7. ASSUME NEW out \in Outcomes(side, i), NEW mult \in Mults, Forward(side, i) > 0,
             n' = n + 1, now' = i,
             Replayed([id |-> n', side |-> side, entry |-> i, exit |-> out.exit,
                       pnl |-> out.pnl, strike |-> Last(closes),
                       credit |-> Credit, mult |-> mult])
      PROVE  /\ BacktestInv'
             /\ v2'.taken > v2.taken => 100 * UsedMargin(v2', now') <= PortMarginPct * v2'.equity
  <2> DEFINE t == [id |-> n', side |-> side, entry |-> i, exit |-> out.exit,
                   pnl |-> out.pnl, strike |-> Last(closes), credit |-> Credit, mult |-> mult]
  <2>1. out.exit \in Nat /\ i < out.exit /\ out.pnl \in Int
    BY <1>1, <1>2, <1>7, OutcomeType
  <2>2. Last(closes) \in Nat \ {0}
    <3>1. closes[i] \in Prices
      BY <1>1, ElementOfSeq
    <3> QED
      BY <3>1, BacktestNumbers DEF Last
  <2>3. mult \in 1..100 /\ Credit \in Nat
    BY BacktestNumbers
  <2>4. t \in Trade
    <3> HIDE DEF side, i
    <3> QED
      BY <1>1, <1>2, <1>7, <2>1, <2>2, <2>3 DEF Trade
  <2>5. t.entry = i /\ t.exit = out.exit /\ t.id = n + 1
    BY <1>7
  <2>6. Replayed(t)
    BY <1>7
  <2> HIDE DEF t, i, side
  <2>7. /\ SelfInv'
        /\ Book(v2', entered', t.entry) /\ \A p \in entered' : p.id <= t.id
        /\ v2'.taken > v2.taken => 100 * UsedMargin(v2', t.entry) <= PortMarginPct * v2'.equity
    BY <1>1, <2>1, <2>4, <2>5, <2>6, ReplayedHolds
  <2>8. BookInv'
    BY <1>7, <2>5, <2>7 DEF BookInv
  <2>9. SeriesInv'
    BY <1>1, <1>3, <1>4, <1>7 DEF SeriesInv, i
  <2> QED
    BY <1>7, <2>5, <2>7, <2>8, <2>9 DEF BacktestInv
<1> QED
  BY <1>5, <1>6, <1>7

LEMMA FinishHolds ==
    ASSUME BacktestInv, Finish
    PROVE  BacktestInv' /\ ~ (v2'.taken > v2.taken)
<1>1. now \in Nat /\ MaxBars \in Nat /\ now <= 2 * MaxBars /\ now' = 2 * MaxBars
  BY BacktestNumbers, LenProperties DEF BacktestInv, SeriesInv, Finish
<1>2. Book(v2, entered, now) /\ v2' = settle(v2, now', "exit") /\ entered' = entered /\ n' = n
      /\ v1' = v1 /\ v2entry' = v2entry
  BY DEF BacktestInv, BookInv, Finish
<1>3. Book(v2', entered, now') /\ v2'.taken = v2.taken
  BY <1>1, <1>2, SettleBook
<1>4. BookInv'
  BY <1>2, <1>3 DEF BacktestInv, BookInv
<1>5. SelfInv'
  BY <1>2 DEF BacktestInv, SelfInv
<1>6. SeriesInv'
  BY <1>1 DEF BacktestInv, SeriesInv, Finish
<1>7. v2.taken \in Nat
  BY <1>2 DEF Book, Accounts
<1> QED
  BY <1>3, <1>4, <1>5, <1>6, <1>7 DEF BacktestInv

LEMMA StepBacktest == BacktestInv /\ [Next]_vars => BacktestInv'
<1> SUFFICES ASSUME BacktestInv, [Next]_vars PROVE BacktestInv'
  OBVIOUS
<1>1. CASE UNCHANGED vars
  BY <1>1 DEF BacktestInv, SeriesInv, SelfInv, BookInv, vars, accounts
<1> QED
  BY <1>1, NextBarHolds, CandidateHolds, FinishHolds DEF Next

LEMMA BacktestHolds == Spec => []BacktestInv
  BY InitBacktest, StepBacktest, PTL DEF Spec

(* No later bar changes what the gates said of an earlier one, when they are
   computed with lagged features: the backtest decides on what was known at the
   close it trades on, for every series and every period of its averages. *)
THEOREM GatesAreCausal == Spec => []CausalGates
<1>1. BacktestInv => CausalGates
  <2> SUFFICES ASSUME BacktestInv PROVE CausalGates
    OBVIOUS
  <2> DEFINE i == Len(closes)
             before == Front(closes)
  <2>1. closes \in Seq(Prices) /\ i \in Nat
    BY LenProperties DEF BacktestInv, SeriesInv
  <2>2. PerH \in Nat
    BY GatesAssumption DEF GatesAssumption
  <2>3. ASSUME NEW k \in Max({1, i - PerH + 1})..(i - 1)
        PROVE  Ready(closes, k) = Ready(before, k)
    <3>1. Max({1, i - PerH + 1}) \in Int /\ Max({1, i - PerH + 1}) >= 1
      <4>1. PICK S : S = {1, i - PerH + 1}
        OBVIOUS
      <4>2. 1 \in S /\ \A x \in S : x \in Int
        BY <2>1, <2>2, <4>1
      <4>3. \E x \in S : \A y \in S : x >= y
        <5> HIDE DEF i
        <5>1. CASE i - PerH + 1 >= 1
          BY <2>1, <2>2, <4>1, <5>1
        <5>2. CASE i - PerH + 1 < 1
          BY <2>1, <2>2, <4>1, <5>2
        <5> QED
          BY <2>1, <2>2, <5>1, <5>2
      <4>4. Max(S) \in S /\ \A y \in S : Max(S) >= y
        BY <4>3 DEF Max
      <4> QED
        BY <4>1, <4>2, <4>4
    <3>2. k \in Nat \ {0} /\ k <= i - 1
      BY <2>1, <3>1
    <3>3. before = SubSeq(closes, 1, i - 1)
      BY DEF Front
    <3>4. before \in Seq(Prices) /\ Len(before) = i - 1 /\ \A j \in 1..(i - 1) : before[j] = closes[j]
      BY <2>1, <3>2, <3>3
    <3>5. SameUpTo(k, closes, before)
      BY <2>1, <3>2, <3>4 DEF SameUpTo
    <3> QED
      BY <2>1, <3>2, <3>4, <3>5, GatesLookBack
  <2> QED
    BY <2>3 DEF CausalGates
<1> QED
  BY <1>1, BacktestHolds, PTL

(* The second account, told to book and arm at the entry, is the first one after
   every candidate (_selfcheck compares the ends of the two). *)
THEOREM SelfCheckHolds == Spec => []SelfCheck
<1>1. BacktestInv => SelfCheck
  BY DEF BacktestInv, SelfInv, SelfCheck, Same, SameBook, SameMoney
<1> QED
  BY <1>1, BacktestHolds, PTL

(* The second account as it is meant decides on what is known: the equity, the
   number of profits it sizes by and the breakers are those of the trades that
   are over. *)
THEOREM BookIsCausal == Spec => []CausalBook
<1>1. BacktestInv => CausalBook
  <2> SUFFICES ASSUME BacktestInv PROVE CausalBook
    OBVIOUS
  <2> DEFINE over == {p \in entered : p.exit <= now}
  <2>1. Settled(v2, over) /\ over \in SUBSET Held /\ IsFiniteSet(over) /\ now \in Nat
    BY FS_Subset DEF BacktestInv, BookInv, Book, Over, SeriesInv
  <2> HIDE DEF over
  <2>2. SumFunctionOnSet([p \in over |-> p.usd], over) = SumFunctionOnSet(Usd, over)
    <3>1. \A p \in over : [q \in over |-> q.usd][p] = Usd[p]
      BY <2>1 DEF Usd
    <3> QED
      BY <2>1, <3>1, SumCongruence
  <2>3. ASSUME NEW s \in Sides
        PROVE  cb_active(v2.cb[s], now)
                 <=> \E p \in over : p.side = s /\ p.pnl <= 0 /\ now < p.exit + CbPause
    BY <2>1 DEF Settled, cb_active, Costs
  <2> QED
    BY <2>1, <2>2, <2>3 DEF CausalBook, Settled, over, Sides
<1> QED
  BY <1>1, BacktestHolds, PTL

(* No trade is entered that would take the margin in use above its share of the
   equity known at the entry. *)
THEOREM MarginHolds == Spec => MarginWithinCap
<1>1. BacktestInv /\ [Next]_vars
        => [ v2'.taken > v2.taken
               => 100 * UsedMargin(v2', now') <= PortMarginPct * v2'.equity ]_vars
  <2> SUFFICES ASSUME BacktestInv, Next, v2'.taken > v2.taken
               PROVE  100 * UsedMargin(v2', now') <= PortMarginPct * v2'.equity
    OBVIOUS
  <2>1. CASE Candidate
    BY <2>1, CandidateHolds
  <2>2. CASE Finish
    BY <2>2, FinishHolds
  <2>3. ASSUME NEW c \in Prices, NextBar(c)
        PROVE  FALSE
    <3>1. v2' = v2
      BY <2>3 DEF NextBar, accounts
    <3>2. v2.taken \in Nat
      BY DEF BacktestInv, BookInv, Book, Accounts
    <3> QED
      BY <3>1, <3>2
  <2> QED
    BY <2>1, <2>2, <2>3 DEF Next
<1> QED
  BY <1>1, BacktestHolds, PTL DEF Spec, MarginWithinCap

-----------------------------------------------------------------------------
(* The sums and averages of the indicators. *)

LEMMA UpIs ==
    ASSUME NEW x \in Nat, NEW d \in Nat \ {0}
    PROVE  Up(x, d) \in Nat /\ (Up(x, d) = 0 <=> x = 0)
<1>1. (-x) \div d \in Int /\ d * ((-x) \div d) <= -x /\ -x < d * ((-x) \div d) + d
  OBVIOUS
<1> DEFINE q == (-x) \div d
<1> HIDE DEF q
<1>2. q \in Int /\ d * q <= -x /\ -x < d * q + d
  BY <1>1 DEF q
<1>3. q <= 0
  <2> SUFFICES ASSUME q >= 1 PROVE FALSE
    BY <1>2
  <2>1. d * q >= d
    BY <1>2
  <2> QED
    BY <1>2, <2>1
<1>4. q = 0 => x = 0
  BY <1>2
<1>5. x = 0 => q = 0
  <2> SUFFICES ASSUME x = 0, q <= -1 PROVE FALSE
    BY <1>2, <1>3
  <2>1. d * q <= -d
    BY <1>2
  <2> QED
    BY <1>2, <2>1
<1> QED
  BY <1>2, <1>3, <1>4, <1>5 DEF Up, q

LEMMA DivExact ==
    ASSUME NEW a \in Nat, NEW d \in Nat \ {0}
    PROVE  (d * a) \div d = a
<1> DEFINE q == (d * a) \div d
<1>1. q \in Int /\ d * q <= d * a /\ d * a < d * q + d
  OBVIOUS
<1> HIDE DEF q
<1>2. ~ (q > a)
  <2> SUFFICES ASSUME q >= a + 1 PROVE FALSE
    BY <1>1
  <2>1. d * q >= d * (a + 1) /\ d * (a + 1) = d * a + d
    BY <1>1
  <2> QED
    BY <1>1, <2>1
<1>3. ~ (q < a)
  <2> SUFFICES ASSUME q + 1 <= a PROVE FALSE
    BY <1>1
  <2>1. d * (q + 1) <= d * a /\ d * (q + 1) = d * q + d
    BY <1>1
  <2> QED
    BY <1>1, <2>1
<1> QED
  BY <1>1, <1>2, <1>3 DEF q

Adds(s, t) == t = [k \in 0..Len(s) |-> IF k = 0 THEN 0 ELSE t[k - 1] + s[k]]

LEMMA TotalRuns ==
    ASSUME NEW s \in Seq(Nat)
    PROVE  \E t : /\ Total(s) = t[Len(s)] /\ t[0] = 0
                  /\ \A k \in 1..Len(s) : t[k] = t[k - 1] + s[k]
                  /\ \A k \in 0..Len(s) : t[k] \in Nat
<1> DEFINE m == Len(s)
           G == [z \in (1..m) \X Nat |-> z[2] + s[z[1]]]
<1>1. m \in Nat /\ \A k \in 1..m : s[k] \in Nat
  BY LenProperties, ElementOfSeq
<1>2. \A i \in (0 + 1)..m, u \in Nat : G[<<i, u>>] = u + s[i] /\ G[<<i, u>>] \in Nat
  BY <1>1
<1> HIDE DEF m, G
<1>3. PICK f \in [0..m -> Nat] : Repeats(f, 0, G, 0, m)
  <2>1. 0 \in Nat /\ 0 \in Int /\ m \in Int
    BY <1>1
  <2>2. \A i \in (0 + 1)..m, u \in Nat : G[<<i, u>>] \in Nat
    BY <1>2
  <2> QED
    BY <2>1, <2>2, SomeRepeats, Zenon
<1>4. \A k \in 0..m : f[k] = IF k = 0 THEN 0 ELSE G[<<k, f[k - 1]>>]
  BY <1>3 DEF Repeats
<1>5. \A k \in 0..m : f[k] = IF k = 0 THEN 0 ELSE f[k - 1] + s[k]
  <2> SUFFICES ASSUME NEW k \in 0..m, k # 0 PROVE f[k] = f[k - 1] + s[k]
    BY <1>4
  <2>1. k \in (0 + 1)..m /\ k - 1 \in 0..m
    BY <1>1
  <2>2. f[k - 1] \in Nat
    BY <1>3, <2>1
  <2> QED
    BY <1>2, <1>4, <2>1, <2>2
<1>6. f = [k \in 0..m |-> f[k]]
  BY <1>3
<1>7. Adds(s, f)
  BY <1>5, <1>6, Zenon DEF Adds, m
<1>8. Total(s) = (CHOOSE t : Adds(s, t))[Len(s)]
  BY DEF Total, Adds
<1>9. PICK t : Adds(s, t) /\ Total(s) = t[m]
  BY <1>7, <1>8 DEF m
<1>10. \A k \in 0..m : t[k] = IF k = 0 THEN 0 ELSE t[k - 1] + s[k]
  BY <1>9 DEF Adds, m
<1>11. t[0] = 0 /\ \A k \in 1..m : t[k] = t[k - 1] + s[k]
  BY <1>1, <1>10
<1> DEFINE T == {k \in Int : t[k] \in Nat}
<1>12. 0 \in T
  BY <1>11
<1>13. ASSUME NEW k \in (0 + 1)..m, k - 1 \in T
       PROVE  k \in T
  <2>1. k \in 1..m /\ t[k - 1] \in Nat /\ s[k] \in Nat
    BY <1>1, <1>13
  <2> QED
    BY <1>11, <2>1
<1> HIDE DEF T
<1>14. 0..m \subseteq T
  <2>1. 0 \in Int /\ m \in Int
    BY <1>1
  <2>2. \A k \in (0 + 1)..m : k - 1 \in T => k \in T
    BY <1>13
  <2> QED
    BY <1>12, <2>1, <2>2, IntervalInduction, Zenon
<1>15. \A k \in 0..m : t[k] \in Nat
  BY <1>14 DEF T
<1> QED
  BY <1>9, <1>11, <1>15 DEF m

LEMMA TotalNone ==
    ASSUME NEW s \in Seq(Nat)
    PROVE  Total(s) \in Nat /\ (Total(s) = 0 => \A i \in 1..Len(s) : s[i] = 0)
<1>0. Len(s) \in Nat /\ \A k \in 1..Len(s) : s[k] \in Nat
  BY LenProperties, ElementOfSeq
<1>1. PICK t : /\ Total(s) = t[Len(s)] /\ t[0] = 0
               /\ \A k \in 1..Len(s) : t[k] = t[k - 1] + s[k]
               /\ \A k \in 0..Len(s) : t[k] \in Nat
  BY TotalRuns
<1>2. Total(s) \in Nat
  BY <1>0, <1>1
<1> DEFINE T == {k \in Int : t[k] = 0 => \A i \in 1..k : s[i] = 0}
<1>3. 0 \in T
  OBVIOUS
<1>4. ASSUME NEW k \in (0 + 1)..Len(s), k - 1 \in T
      PROVE  k \in T
  <2>1. k \in 1..Len(s) /\ k - 1 \in 0..Len(s)
    BY <1>0
  <2>2. t[k] = t[k - 1] + s[k] /\ t[k - 1] \in Nat /\ s[k] \in Nat
    BY <1>0, <1>1, <2>1
  <2>3. t[k] = 0 => t[k - 1] = 0 /\ s[k] = 0
    BY <2>2
  <2>4. \A i \in 1..k : i = k \/ i \in 1..(k - 1)
    BY <2>1
  <2> QED
    BY <1>4, <2>1, <2>3, <2>4
<1> HIDE DEF T
<1>5. Len(s) \in T
  <2>1. 0 \in Int /\ Len(s) \in Int /\ Len(s) \in 0..Len(s)
    BY <1>0
  <2>2. \A k \in (0 + 1)..Len(s) : k - 1 \in T => k \in T
    BY <1>4
  <2>3. 0..Len(s) \subseteq T
    BY <1>3, <2>1, <2>2, IntervalInduction, Zenon
  <2> QED
    BY <2>1, <2>3
<1> QED
  BY <1>1, <1>2, <1>5 DEF T

LEMMA TotalOfSame ==
    ASSUME NEW s \in Seq(Nat), NEW c \in Nat, \A i \in 1..Len(s) : s[i] = c
    PROVE  Total(s) = Len(s) * c
<1>0. Len(s) \in Nat
  BY LenProperties
<1>1. PICK t : /\ Total(s) = t[Len(s)] /\ t[0] = 0
               /\ \A k \in 1..Len(s) : t[k] = t[k - 1] + s[k]
               /\ \A k \in 0..Len(s) : t[k] \in Nat
  BY TotalRuns
<1> DEFINE T == {k \in Int : t[k] = k * c}
<1>3. 0 \in T
  BY <1>1
<1>4. ASSUME NEW k \in (0 + 1)..Len(s), k - 1 \in T
      PROVE  k \in T
  <2>1. k \in 1..Len(s) /\ t[k - 1] = (k - 1) * c
    BY <1>0, <1>4
  <2>2. t[k] = (k - 1) * c + c
    BY <1>1, <2>1
  <2>3. (k - 1) * c + c = k * c
    BY <2>1
  <2> QED
    BY <2>1, <2>2, <2>3
<1> HIDE DEF T
<1>5. Len(s) \in T
  <2>1. 0 \in Int /\ Len(s) \in Int /\ Len(s) \in 0..Len(s)
    BY <1>0
  <2>2. \A k \in (0 + 1)..Len(s) : k - 1 \in T => k \in T
    BY <1>4
  <2>3. 0..Len(s) \subseteq T
    BY <1>3, <2>1, <2>2, IntervalInduction, Zenon
  <2> QED
    BY <2>1, <2>3
<1> QED
  BY <1>1, <1>5 DEF T

LEMMA HeadSums ==
    ASSUME NEW xs \in Seq(Nat), NEW p \in Nat, p <= Len(xs)
    PROVE  /\ SubSeq(xs, 1, p) \in Seq(Nat) /\ Len(SubSeq(xs, 1, p)) = p
           /\ \A i \in 1..p : SubSeq(xs, 1, p)[i] = xs[i]
           /\ Total(SubSeq(xs, 1, p)) \in Nat
           /\ Total(SubSeq(xs, 1, p)) = 0 => \A i \in 1..p : xs[i] = 0
<1>1. Len(xs) \in Nat
  BY LenProperties
<1> DEFINE h == SubSeq(xs, 1, p)
<1>2. h \in Seq(Nat) /\ Len(h) = p /\ \A i \in 1..p : h[i] = xs[i]
  BY <1>1, SubSeqProperties
<1> HIDE DEF h
<1>3. Total(h) \in Nat /\ (Total(h) = 0 => \A i \in 1..Len(h) : h[i] = 0)
  BY <1>2, TotalNone
<1> QED
  BY <1>2, <1>3 DEF h

(* What a sum, divided or not, and its updates start from: a function over
   p..m that keeps a value of which nothing is lost. *)
Smooths(xs, p, a) ==
    a = [i \in p..Len(xs) |->
            IF i = p THEN Up(Total(SubSeq(xs, 1, p)), p) ELSE Up((p - 1) * a[i - 1] + xs[i], p)]
Forgets(xs, p, f) ==
    f = [i \in p..Len(xs) |->
            IF i = p THEN Scale * Total(SubSeq(xs, 1, p))
            ELSE Up((p - 1) * f[i - 1], p) + Scale * xs[i]]

LEMMA WilderNone ==
    ASSUME NEW xs \in Seq(Nat), NEW p \in Nat, 2 <= p, p <= Len(xs)
    PROVE  Wilder(xs, p) \in Nat /\ (Wilder(xs, p) = 0 => \A i \in 1..Len(xs) : xs[i] = 0)
<1> DEFINE m == Len(xs)
           v == Up(Total(SubSeq(xs, 1, p)), p)
           G == [z \in ((p + 1)..m) \X Nat |-> Up((p - 1) * z[2] + xs[z[1]], p)]
<1>1. m \in Nat /\ m \in Int /\ p \in Int /\ p <= m /\ \A k \in 1..m : xs[k] \in Nat
  BY LenProperties, ElementOfSeq
<1>2. v \in Nat /\ (v = 0 => \A i \in 1..p : xs[i] = 0)
  <2>1. p \in Nat \ {0}
    OBVIOUS
  <2> QED
    BY <2>1, HeadSums, UpIs
<1>3. \A i \in (p + 1)..m, u \in Nat :
         /\ Up((p - 1) * u + xs[i], p) \in Nat
         /\ Up((p - 1) * u + xs[i], p) = 0 => u = 0 /\ xs[i] = 0
  <2> SUFFICES ASSUME NEW i \in (p + 1)..m, NEW u \in Nat
               PROVE  /\ Up((p - 1) * u + xs[i], p) \in Nat
                      /\ Up((p - 1) * u + xs[i], p) = 0 => u = 0 /\ xs[i] = 0
    OBVIOUS
  <2>1. xs[i] \in Nat /\ p \in Nat \ {0}
    BY <1>1
  <2>2. (p - 1) * u \in Nat /\ (p - 1) * u >= u
    OBVIOUS
  <2>3. (p - 1) * u + xs[i] \in Nat /\ ((p - 1) * u + xs[i] = 0 => u = 0 /\ xs[i] = 0)
    BY <2>1, <2>2
  <2> QED
    BY <2>1, <2>3, UpIs
<1>4. \A i \in (p + 1)..m, u \in Nat : G[<<i, u>>] = Up((p - 1) * u + xs[i], p)
  OBVIOUS
<1>5. \A i \in (p + 1)..m, u \in Nat : G[<<i, u>>] \in Nat
  BY <1>3, <1>4
<1> HIDE DEF G, m, v
<1>6. PICK g \in [p..m -> Nat] : Repeats(g, v, G, p, m)
  BY <1>1, <1>2, <1>5, SomeRepeats, Zenon
<1>7. \A k \in p..m : g[k] = IF k = p THEN v ELSE G[<<k, g[k - 1]>>]
  BY <1>6 DEF Repeats
<1>8. \A k \in p..m : g[k] = IF k = p THEN v ELSE Up((p - 1) * g[k - 1] + xs[k], p)
  <2> SUFFICES ASSUME NEW k \in p..m, k # p PROVE g[k] = Up((p - 1) * g[k - 1] + xs[k], p)
    BY <1>7
  <2>1. k \in (p + 1)..m /\ k - 1 \in p..m
    BY <1>1
  <2>2. g[k - 1] \in Nat
    BY <1>6, <2>1
  <2> QED
    BY <1>4, <1>7, <2>1, <2>2
<1>9. g = [k \in p..m |-> g[k]]
  BY <1>6
<1>10. Smooths(xs, p, g)
  BY <1>8, <1>9, Zenon DEF Smooths, m, v
<1>11. Wilder(xs, p) = (CHOOSE a : Smooths(xs, p, a))[Len(xs)]
  BY DEF Wilder, Smooths
<1>12. PICK a : Smooths(xs, p, a) /\ Wilder(xs, p) = a[m]
  BY <1>10, <1>11 DEF m
<1>13. \A k \in p..m : a[k] = IF k = p THEN v ELSE Up((p - 1) * a[k - 1] + xs[k], p)
  BY <1>12 DEF Smooths, m, v
<1> DEFINE T == {k \in Int : a[k] \in Nat /\ (a[k] = 0 => \A i \in 1..k : xs[i] = 0)}
<1>14. p \in T
  <2>1. a[p] = v
    BY <1>1, <1>13
  <2> QED
    BY <1>1, <1>2, <2>1
<1>15. \A k \in (p + 1)..m : k - 1 \in T => k \in T
  <2> SUFFICES ASSUME NEW k \in (p + 1)..m, k - 1 \in T PROVE k \in T
    OBVIOUS
  <2>1. k \in p..m /\ k # p /\ k \in Int
    BY <1>1
  <2>2. a[k] = Up((p - 1) * a[k - 1] + xs[k], p)
    BY <1>13, <2>1
  <2>3. a[k] \in Nat /\ (a[k] = 0 => a[k - 1] = 0 /\ xs[k] = 0)
    BY <1>3, <2>2
  <2>4. \A i \in 1..k : i = k \/ i \in 1..(k - 1)
    BY <2>1
  <2> QED
    BY <2>1, <2>3, <2>4
<1> HIDE DEF T
<1>16. m \in T
  <2>1. p..m \subseteq T
    BY <1>1, <1>14, <1>15, IntervalInduction, Zenon
  <2> QED
    BY <1>1, <2>1
<1> QED
  BY <1>12, <1>16 DEF T, m

LEMMA ForgettingNone ==
    ASSUME NEW xs \in Seq(Nat), NEW p \in Nat, 2 <= p, p <= Len(xs), Scale \in Nat \ {0}
    PROVE  Forgetting(xs, p)[Len(xs)] = 0 => \A i \in p..Len(xs) : Forgetting(xs, p)[i] = 0
<1> DEFINE m == Len(xs)
           v == Scale * Total(SubSeq(xs, 1, p))
           G == [z \in ((p + 1)..m) \X Nat |-> Up((p - 1) * z[2], p) + Scale * xs[z[1]]]
<1>1. m \in Nat /\ m \in Int /\ p \in Int /\ p <= m /\ \A k \in 1..m : xs[k] \in Nat
  BY LenProperties, ElementOfSeq
<1>2. v \in Nat
  BY HeadSums
<1>3. \A i \in (p + 1)..m, u \in Nat :
         /\ Up((p - 1) * u, p) + Scale * xs[i] \in Nat
         /\ Up((p - 1) * u, p) + Scale * xs[i] = 0 => u = 0
  <2> SUFFICES ASSUME NEW i \in (p + 1)..m, NEW u \in Nat
               PROVE  /\ Up((p - 1) * u, p) + Scale * xs[i] \in Nat
                      /\ Up((p - 1) * u, p) + Scale * xs[i] = 0 => u = 0
    OBVIOUS
  <2>1. xs[i] \in Nat /\ p \in Nat \ {0} /\ Scale * xs[i] \in Nat
    BY <1>1
  <2>2. (p - 1) * u \in Nat /\ (p - 1) * u >= u
    OBVIOUS
  <2>3. Up((p - 1) * u, p) \in Nat /\ (Up((p - 1) * u, p) = 0 => (p - 1) * u = 0)
    BY <2>1, <2>2, UpIs
  <2>4. (p - 1) * u = 0 => u = 0
    BY <2>2
  <2>5. PICK w : w = Up((p - 1) * u, p)
    OBVIOUS
  <2>6. PICK x : x = Scale * xs[i]
    OBVIOUS
  <2>7. w \in Nat /\ x \in Nat /\ (w = 0 => u = 0)
    BY <2>1, <2>3, <2>4, <2>5, <2>6
  <2>8. w + x \in Nat /\ (w + x = 0 => u = 0)
    BY <2>7
  <2> QED
    BY <2>5, <2>6, <2>8, Zenon
<1>4. \A i \in (p + 1)..m, u \in Nat : G[<<i, u>>] = Up((p - 1) * u, p) + Scale * xs[i]
  OBVIOUS
<1>5. \A i \in (p + 1)..m, u \in Nat : G[<<i, u>>] \in Nat
  BY <1>3, <1>4
<1> HIDE DEF G, m, v
<1>6. PICK g \in [p..m -> Nat] : Repeats(g, v, G, p, m)
  BY <1>1, <1>2, <1>5, SomeRepeats, Zenon
<1>7. \A k \in p..m : g[k] = IF k = p THEN v ELSE G[<<k, g[k - 1]>>]
  BY <1>6 DEF Repeats
<1>8. \A k \in p..m : g[k] = IF k = p THEN v ELSE Up((p - 1) * g[k - 1], p) + Scale * xs[k]
  <2> SUFFICES ASSUME NEW k \in p..m, k # p PROVE g[k] = Up((p - 1) * g[k - 1], p) + Scale * xs[k]
    BY <1>7
  <2>1. k \in (p + 1)..m /\ k - 1 \in p..m
    BY <1>1
  <2>2. g[k - 1] \in Nat
    BY <1>6, <2>1
  <2> QED
    BY <1>4, <1>7, <2>1, <2>2
<1>9. g = [k \in p..m |-> g[k]]
  BY <1>6
<1>10. Forgets(xs, p, g)
  BY <1>8, <1>9, Zenon DEF Forgets, m, v
<1>11. Forgetting(xs, p) = (CHOOSE f : Forgets(xs, p, f))
  BY DEF Forgetting, Forgets
<1>12. PICK f : Forgets(xs, p, f) /\ Forgetting(xs, p) = f
  BY <1>10, <1>11
<1>13. \A k \in p..m : f[k] = IF k = p THEN v ELSE Up((p - 1) * f[k - 1], p) + Scale * xs[k]
  BY <1>12 DEF Forgets, m, v
<1> DEFINE T == {k \in Int : f[k] \in Nat /\ (f[k] = 0 => \A i \in p..k : f[i] = 0)}
<1>14. p \in T
  <2>1. f[p] = v
    BY <1>1, <1>13
  <2> QED
    BY <1>1, <1>2, <2>1
<1>15. \A k \in (p + 1)..m : k - 1 \in T => k \in T
  <2> SUFFICES ASSUME NEW k \in (p + 1)..m, k - 1 \in T PROVE k \in T
    OBVIOUS
  <2>1. k \in p..m /\ k # p /\ k \in Int
    BY <1>1
  <2>2. f[k] = Up((p - 1) * f[k - 1], p) + Scale * xs[k]
    BY <1>13, <2>1
  <2>3. f[k] \in Nat /\ (f[k] = 0 => f[k - 1] = 0)
    BY <1>3, <2>2
  <2>4. \A i \in p..k : i = k \/ i \in p..(k - 1)
    BY <2>1
  <2> QED
    BY <2>1, <2>3, <2>4
<1> HIDE DEF T
<1>16. m \in T
  <2>1. p..m \subseteq T
    BY <1>1, <1>14, <1>15, IntervalInduction, Zenon
  <2> QED
    BY <1>1, <2>1
<1> QED
  BY <1>12, <1>16 DEF T, m

Averages(values, k, e) ==
    e = [i \in k..Len(values) |->
            IF i = k THEN (Scale * Total(SubSeq(values, 1, k))) \div k
            ELSE (2 * Scale * values[i] + (k - 1) * e[i - 1]) \div (k + 1)]

(* The average of a price that has not moved is that price. *)
LEMMA EmaOfSame ==
    ASSUME NEW s \in Seq(Nat), NEW c \in Nat, \A i \in 1..Len(s) : s[i] = c,
           NEW k \in Nat \ {0}, Scale \in Nat \ {0}
    PROVE  ema(s, k) = IF Len(s) < k THEN None ELSE Scale * c
<1>0. Len(s) \in Nat
  BY LenProperties
<1> SUFFICES ASSUME ~ (Len(s) < k) PROVE ema(s, k) = Scale * c
  BY DEF ema
<1> DEFINE m == Len(s)
           a == Scale * c
<1>1. m \in Nat /\ m \in Int /\ k \in Int /\ k <= m /\ a \in Nat
  BY <1>0
<1>2. (Scale * Total(SubSeq(s, 1, k))) \div k = a
  <2>1. SubSeq(s, 1, k) \in Seq(Nat) /\ Len(SubSeq(s, 1, k)) = k
        /\ \A i \in 1..k : SubSeq(s, 1, k)[i] = s[i]
    BY <1>1, HeadSums
  <2>2. \A i \in 1..k : SubSeq(s, 1, k)[i] = c
    BY <1>1, <2>1
  <2>3. Total(SubSeq(s, 1, k)) = k * c
    BY <2>1, <2>2, TotalOfSame
  <2>4. Scale * (k * c) = k * a
    OBVIOUS
  <2> HIDE DEF a
  <2> QED
    BY <1>1, <2>3, <2>4, DivExact
<1>3. \A i \in (k + 1)..m : (2 * Scale * s[i] + (k - 1) * a) \div (k + 1) = a
  <2> SUFFICES ASSUME NEW i \in (k + 1)..m
               PROVE  (2 * Scale * s[i] + (k - 1) * a) \div (k + 1) = a
    OBVIOUS
  <2>1. s[i] = c
    BY <1>1
  <2>2. 2 * Scale * c = 2 * a /\ 2 * a + (k - 1) * a = (k + 1) * a
    OBVIOUS
  <2>3. k + 1 \in Nat \ {0}
    OBVIOUS
  <2> HIDE DEF a
  <2> QED
    BY <1>1, <2>1, <2>2, <2>3, DivExact
<1> HIDE DEF m, a
<1> DEFINE g == [i \in k..m |-> a]
<1>4. \A i \in k..m : g[i] = IF i = k THEN (Scale * Total(SubSeq(s, 1, k))) \div k
                             ELSE (2 * Scale * s[i] + (k - 1) * g[i - 1]) \div (k + 1)
  <2> SUFFICES ASSUME NEW i \in k..m, i # k
               PROVE  g[i] = (2 * Scale * s[i] + (k - 1) * g[i - 1]) \div (k + 1)
    BY <1>2
  <2>1. i \in (k + 1)..m /\ i - 1 \in k..m
    BY <1>1
  <2>2. g[i] = a /\ g[i - 1] = a
    BY <2>1
  <2> QED
    BY <1>3, <2>1, <2>2
<1>5. g = [i \in k..m |-> g[i]]
  OBVIOUS
<1> HIDE DEF g
<1>6. Averages(s, k, g)
  BY <1>4, <1>5, Zenon DEF Averages, m
<1>7. ema(s, k) = (CHOOSE e : Averages(s, k, e))[Len(s)]
  BY DEF ema, Averages
<1>8. PICK e : Averages(s, k, e) /\ ema(s, k) = e[m]
  BY <1>6, <1>7 DEF m
<1>9. \A i \in k..m : e[i] = IF i = k THEN (Scale * Total(SubSeq(s, 1, k))) \div k
                             ELSE (2 * Scale * s[i] + (k - 1) * e[i - 1]) \div (k + 1)
  BY <1>8 DEF Averages, m
<1> DEFINE T == {i \in Int : e[i] = a}
<1>10. k \in T
  BY <1>1, <1>2, <1>9
<1>11. \A i \in (k + 1)..m : i - 1 \in T => i \in T
  <2> SUFFICES ASSUME NEW i \in (k + 1)..m, i - 1 \in T PROVE i \in T
    OBVIOUS
  <2>1. i \in k..m /\ i # k /\ i \in Int
    BY <1>1
  <2>2. e[i - 1] = a
    OBVIOUS
  <2> QED
    BY <1>3, <1>9, <2>1, <2>2
<1> HIDE DEF T
<1>12. m \in T
  <2>1. k..m \subseteq T
    BY <1>1, <1>10, <1>11, IntervalInduction, Zenon
  <2> QED
    BY <1>1, <2>1
<1> QED
  BY <1>8, <1>12 DEF T, a

LEMMA Max2Is ==
    ASSUME NEW a \in Int, NEW b \in Int
    PROVE  Max2(a, b) \in {a, b} /\ Max2(a, b) >= a /\ Max2(a, b) >= b
<1>1. \E x \in {a, b} : \A y \in {a, b} : x >= y
  OBVIOUS
<1>2. Max({a, b}) \in {a, b} /\ \A y \in {a, b} : Max({a, b}) >= y
  BY <1>1, Zenon DEF Max
<1> QED
  BY <1>2 DEF Max2

LEMMA Max2Nat ==
    ASSUME NEW a \in Int, NEW b \in Nat
    PROVE  Max2(a, b) \in Nat
<1>1. PICK x : x = Max2(a, b)
  OBVIOUS
<1>2. x \in {a, b} /\ x >= b
  BY <1>1, Max2Is
<1>3. x \in Nat
  BY <1>2
<1> QED
  BY <1>1, <1>3

LEMMA MovesType ==
    ASSUME NEW s \in Seq(Nat), s # <<>>, NEW sign \in {1, -1}, Scale \in Nat \ {0}
    PROVE  /\ Moves(s, sign) \in Seq(Nat) /\ Len(Moves(s, sign)) = Len(s) - 1
           /\ \A i \in 1..(Len(s) - 1) : Moves(s, sign)[i] = 0 => sign * (s[i + 1] - s[i]) <= 0
<1>1. Len(s) \in Nat \ {0} /\ \A i \in 1..Len(s) : s[i] \in Nat
  BY LenProperties, ElementOfSeq, EmptySeq
<1> DEFINE m == Len(s) - 1
           d(i) == sign * (s[i + 1] - s[i])
<1>2. m \in Nat
  BY <1>1
<1>3. ASSUME NEW i \in 1..m
      PROVE  /\ Scale * Max2(0, d(i)) \in Nat
             /\ Scale * Max2(0, d(i)) = 0 => d(i) <= 0
  <2>1. i \in 1..Len(s) /\ i + 1 \in 1..Len(s)
    BY <1>1
  <2>2. d(i) \in Int
    BY <1>1, <2>1
  <2> HIDE DEF d
  <2>3. Max2(0, d(i)) \in Nat /\ Max2(0, d(i)) >= d(i)
    BY <2>2, Max2Is
  <2> QED
    BY <2>2, <2>3
<1>4. Moves(s, sign) = [i \in 1..m |-> Scale * Max2(0, d(i))]
  BY DEF Moves
<1> HIDE DEF m, d
<1>5. \A i \in 1..m : Moves(s, sign)[i] = Scale * Max2(0, d(i))
  BY <1>4
<1>6. Moves(s, sign) \in [1..m -> Nat]
  BY <1>3, <1>4
<1>7. Moves(s, sign) \in Seq(Nat) /\ Len(Moves(s, sign)) = m
  BY <1>2, <1>6, IsASeq, LenProperties
<1> QED
  BY <1>3, <1>5, <1>7 DEF m, d

(* A price that moved neither up nor down is the first one. *)
LEMMA NoMoves ==
    ASSUME NEW s \in Seq(Nat), s # <<>>, \A i \in 1..(Len(s) - 1) : s[i + 1] = s[i]
    PROVE  \A i \in 1..Len(s) : s[i] = s[1]
<1>1. Len(s) \in Nat \ {0}
  BY LenProperties, EmptySeq
<1> DEFINE T == {i \in Int : s[i] = s[1]}
<1>2. \A i \in (1 + 1)..Len(s) : i - 1 \in T => i \in T
  <2> SUFFICES ASSUME NEW i \in (1 + 1)..Len(s), i - 1 \in T PROVE i \in T
    OBVIOUS
  <2>1. i - 1 \in 1..(Len(s) - 1) /\ (i - 1) + 1 = i /\ i \in Int
    BY <1>1
  <2>2. s[(i - 1) + 1] = s[i - 1]
    BY <2>1
  <2> QED
    BY <2>1, <2>2
<1>3. 1 \in T /\ 1 \in Int /\ Len(s) \in Int
  BY <1>1
<1> HIDE DEF T
<1>4. 1..Len(s) \subseteq T
  BY <1>2, <1>3, IntervalInduction, Zenon
<1> QED
  BY <1>4 DEF T

(* The two readings of the strength differ only without any movement, and
   then there is no direction to see. *)
LEMMA DirectionSame ==
    ASSUME NEW s \in Seq(Nat), s # <<>>
    PROVE  analyze_tf(s) = direction_series(s)
<1>1. Len(s) \in Nat \ {0}
  BY LenProperties, EmptySeq
<1>2. Scale \in Nat \ {0} /\ RsiPeriod \in Nat /\ 2 <= RsiPeriod /\ None \notin Int
      /\ Fast \in Nat \ {0} /\ Slow \in Nat \ {0}
  <2>1. None \notin Int
    BY GatesAssumption, Zenon
  <2>2. {Scale, Fast, Slow, RsiPeriod} \subseteq Nat \ {0} /\ RsiPeriod > 1
    BY GatesAssumption, Zenon
  <2> QED
    BY <2>1, <2>2
<1> DEFINE gain == Wilder(Moves(s, 1), RsiPeriod)
           loss == Wilder(Moves(s, -1), RsiPeriod)
<1>3. CASE Len(s) <= RsiPeriod
  <2>1. rsi(s) = continuous_rsi(s)
    BY <1>3 DEF rsi, continuous_rsi, RsiOr
  <2> QED
    BY <2>1 DEF analyze_tf, direction_series
<1>4. CASE gain + loss # 0
  <2>1. rsi(s) = continuous_rsi(s)
    BY <1>4 DEF rsi, continuous_rsi, RsiOr
  <2> QED
    BY <2>1 DEF analyze_tf, direction_series
<1>5. CASE Len(s) > RsiPeriod /\ gain + loss = 0
  <2>1. /\ Moves(s, 1) \in Seq(Nat) /\ Len(Moves(s, 1)) = Len(s) - 1
        /\ \A i \in 1..(Len(s) - 1) : Moves(s, 1)[i] = 0 => 1 * (s[i + 1] - s[i]) <= 0
    BY <1>2, MovesType
  <2>2. /\ Moves(s, -1) \in Seq(Nat) /\ Len(Moves(s, -1)) = Len(s) - 1
        /\ \A i \in 1..(Len(s) - 1) : Moves(s, -1)[i] = 0 => (-1) * (s[i + 1] - s[i]) <= 0
    BY <1>2, MovesType
  <2>3. 2 <= RsiPeriod /\ RsiPeriod <= Len(s) - 1
    BY <1>1, <1>2, <1>5
  <2>4. gain \in Nat /\ (gain = 0 => \A i \in 1..(Len(s) - 1) : Moves(s, 1)[i] = 0)
    BY <1>2, <2>1, <2>3, WilderNone
  <2>5. loss \in Nat /\ (loss = 0 => \A i \in 1..(Len(s) - 1) : Moves(s, -1)[i] = 0)
    BY <1>2, <2>2, <2>3, WilderNone
  <2> HIDE DEF gain, loss
  <2>6. gain = 0 /\ loss = 0
    BY <1>5, <2>4, <2>5
  <2>7. \A i \in 1..(Len(s) - 1) : s[i + 1] = s[i]
    <3> SUFFICES ASSUME NEW i \in 1..(Len(s) - 1) PROVE s[i + 1] = s[i]
      OBVIOUS
    <3>1. 1 * (s[i + 1] - s[i]) <= 0 /\ (-1) * (s[i + 1] - s[i]) <= 0
      BY <2>1, <2>2, <2>4, <2>5, <2>6
    <3>2. i \in 1..Len(s) /\ i + 1 \in 1..Len(s)
      BY <1>1
    <3>3. s[i] \in Nat /\ s[i + 1] \in Nat
      BY <3>2, ElementOfSeq
    <3> QED
      BY <3>1, <3>3
  <2>8. \A i \in 1..Len(s) : s[i] = s[1]
    BY <2>7, NoMoves
  <2>9. s[1] \in Nat
    BY <1>1, ElementOfSeq
  <2>10. ema(s, Fast) = IF Len(s) < Fast THEN None ELSE Scale * s[1]
    BY <1>2, <2>8, <2>9, EmaOfSame
  <2>11. ema(s, Slow) = IF Len(s) < Slow THEN None ELSE Scale * s[1]
    BY <1>2, <2>8, <2>9, EmaOfSame
  <2>12. rsi(s) = 50 * Scale /\ continuous_rsi(s) = 100 * Scale
    BY <1>1, <1>2, <1>5 DEF rsi, continuous_rsi, RsiOr, gain, loss
  <2>13. rsi(s) # None /\ continuous_rsi(s) # None
    BY <1>2, <2>12
  <2>14. CASE None \in {ema(s, Fast), ema(s, Slow)}
    <3>1. ASSUME NEW a, NEW b, NEW r, None \in {a, b} PROVE DirectionOf(a, b, r) = "unknown"
      BY <3>1 DEF DirectionOf
    <3> QED
      BY <2>14, <3>1 DEF analyze_tf, direction_series
  <2>15. CASE None \notin {ema(s, Fast), ema(s, Slow)}
    <3>1. ema(s, Fast) = ema(s, Slow) /\ ema(s, Fast) \in Int
      BY <1>2, <2>9, <2>10, <2>11, <2>15
    <3> DEFINE x == ema(s, Fast)
    <3>2. x \in Int /\ ~ (x > x) /\ ~ (x < x) /\ x # None
      BY <1>2, <3>1
    <3>3. ASSUME NEW r, r # None PROVE DirectionOf(x, x, r) = "neutral"
      BY <3>2, <3>3 DEF DirectionOf
    <3> HIDE DEF x
    <3>4. DirectionOf(x, x, rsi(s)) = DirectionOf(x, x, continuous_rsi(s))
      BY <2>13, <3>3
    <3> QED
      BY <3>1, <3>4 DEF analyze_tf, direction_series, x
  <2> QED
    BY <2>14, <2>15
<1> QED
  BY <1>1, <1>2, <1>3, <1>4, <1>5

LEMMA AbsType ==
    ASSUME NEW x \in Int
    PROVE  Abs(x) \in Nat
BY DEF Abs

LEMMA RangesType ==
    ASSUME NEW cs \in Seq([high : Int, low : Int, close : Int]), cs # <<>>
    PROVE  TrueRanges(cs) \in Seq(Nat) /\ Len(TrueRanges(cs)) = Len(cs) - 1
<1>1. Len(cs) \in Nat \ {0}
      /\ \A i \in 1..Len(cs) : cs[i].high \in Int /\ cs[i].low \in Int /\ cs[i].close \in Int
  <2>1. Len(cs) \in Nat \ {0}
    BY LenProperties, EmptySeq
  <2>2. \A i \in 1..Len(cs) : cs[i] \in [high : Int, low : Int, close : Int]
    BY ElementOfSeq
  <2> QED
    BY <2>1, <2>2
<1> DEFINE m == Len(cs) - 1
           tr(i) == Max2(cs[i + 1].high - cs[i + 1].low,
                         Max2(Abs(cs[i + 1].high - cs[i].close), Abs(cs[i + 1].low - cs[i].close)))
<1>2. ASSUME NEW i \in 1..m
      PROVE  tr(i) \in Nat
  <2>1. i \in 1..Len(cs) /\ i + 1 \in 1..Len(cs)
    BY <1>1
  <2> DEFINE a == Abs(cs[i + 1].high - cs[i].close)
             b == Abs(cs[i + 1].low - cs[i].close)
             c == cs[i + 1].high - cs[i + 1].low
  <2>2. a \in Nat /\ a \in Int /\ b \in Nat /\ c \in Int
    <3>0. /\ cs[i].close \in Int
          /\ cs[i + 1].high \in Int /\ cs[i + 1].low \in Int
      BY <1>1, <2>1
    <3>1. /\ cs[i + 1].high - cs[i].close \in Int
          /\ cs[i + 1].low - cs[i].close \in Int
          /\ cs[i + 1].high - cs[i + 1].low \in Int
      <4>1. \A x, y \in Int : x - y \in Int
        OBVIOUS
      <4> QED
        BY <3>0, <4>1, Zenon
    <3>2. a \in Nat /\ b \in Nat
      BY <3>1, AbsType
    <3> QED
      BY <3>1, <3>2
  <2> HIDE DEF a, b, c
  <2>3. Max2(a, b) \in Nat
    BY <2>2, Max2Nat
  <2>4. Max2(c, Max2(a, b)) \in Nat
    BY <2>2, <2>3, Max2Nat
  <2> QED
    BY <2>4 DEF a, b, c
<1>3. TrueRanges(cs) = [i \in 1..m |-> tr(i)]
  BY DEF TrueRanges
<1> HIDE DEF tr
<1>4. TrueRanges(cs) \in [1..m -> Nat] /\ m \in Nat
  BY <1>1, <1>2, <1>3
<1> HIDE DEF m
<1>5. TrueRanges(cs) \in Seq(Nat) /\ Len(TrueRanges(cs)) = m
  BY <1>4, IsASeq, LenProperties
<1> QED
  BY <1>5 DEF m

(* Where the backtest has no value, live counts no candle. *)
LEMMA AdxSame ==
    ASSUME NEW cs \in Seq([high : Int, low : Int, close : Int]), cs # <<>>
    PROVE  continuous_adx(cs) = adx(cs)
<1>0. Len(cs) \in Nat \ {0}
  BY LenProperties, EmptySeq
<1>1. Scale \in Nat \ {0} /\ AdxPeriod \in Nat /\ 2 <= AdxPeriod
  <2>1. {Scale, AdxPeriod} \subseteq Nat \ {0} /\ AdxPeriod > 1
    BY GatesAssumption, Zenon
  <2> QED
    BY <2>1
<1>2. CASE Len(cs) < 2 * AdxPeriod + 2
  BY <1>2 DEF continuous_adx, adx
<1>3. CASE Forgetting(TrueRanges(cs), AdxPeriod)[Len(cs) - 1] # 0
  BY <1>3 DEF continuous_adx, adx
<1>4. CASE ~ (Len(cs) < 2 * AdxPeriod + 2) /\ Forgetting(TrueRanges(cs), AdxPeriod)[Len(cs) - 1] = 0
  <2> DEFINE range == Forgetting(TrueRanges(cs), AdxPeriod)
             left == Len(cs) - 1 - AdxPeriod
             counted == [k \in 1..left |-> k + AdxPeriod]
             places == {k \in DOMAIN counted : range[counted[k]] # 0}
  <2>1. TrueRanges(cs) \in Seq(Nat) /\ Len(TrueRanges(cs)) = Len(cs) - 1
    BY RangesType
  <2>2. AdxPeriod <= Len(cs) - 1 /\ left \in Nat
    BY <1>0, <1>1, <1>4
  <2>3. \A i \in AdxPeriod..(Len(cs) - 1) : range[i] = 0
    BY <1>1, <1>4, <2>1, <2>2, ForgettingNone
  <2> HIDE DEF range
  <2>4. places = {}
    <3>1. ASSUME NEW k \in 1..left PROVE range[counted[k]] = 0
      <4>1. k + AdxPeriod \in AdxPeriod..(Len(cs) - 1)
        BY <1>0, <1>1
      <4> QED
        BY <2>3, <4>1
    <3>2. DOMAIN counted = 1..left
      OBVIOUS
    <3> HIDE DEF counted, left
    <3> QED
      BY <3>1, <3>2
  <2>5. counted \in Seq(Int)
    <3>1. counted \in [1..left -> Int]
      BY <1>1
    <3> HIDE DEF counted, left
    <3> QED
      BY <2>2, <3>1, IsASeq
  <2>6. Sift(counted, places) = <<>>
    <3> HIDE DEF counted, places
    <3> QED
      BY <2>4, <2>5, SiftNothing
  <2>7. Len(Sift(counted, places)) < AdxPeriod
    <3> HIDE DEF counted, places
    <3>1. Len(Sift(counted, places)) = 0
      BY <2>6, EmptySeq
    <3> QED
      BY <1>1, <3>1
  <2>8. adx(cs) = None
    BY <2>7, Zenon DEF adx, range, places, counted, left
  <2>9. continuous_adx(cs) = None
    BY <1>4 DEF continuous_adx
  <2> QED
    BY <2>8, <2>9
<1> QED
  BY <1>2, <1>3, <1>4

-----------------------------------------------------------------------------
(* The candles of a series. *)

Bars == [high : Int, low : Int, close : Int]

LEMMA GatesNumbers ==
    /\ {PerQ, PerH, Fast, Slow, Hist, Bars7d} \subseteq Nat \ {0}
    /\ {Min15, Min1h} \subseteq Nat
    /\ None \notin Int /\ None # "P" /\ None # "C"
    /\ Permitted \subseteq {"P", "C"}
    /\ VolPct \in [{"P", "C"} -> 0..99] /\ CoreVolPct \in [{"P", "C"} -> 0..99]
    /\ Prices \subseteq Nat \ {0}
<1>1. {PerQ, PerH, Fast, Slow, Hist, Bars7d} \subseteq Nat \ {0} /\ {Min15, Min1h} \subseteq Nat
  BY GatesAssumption
<1>2. None \notin Int /\ None # "P" /\ None # "C"
  BY GatesAssumption, Zenon
<1>3. /\ Permitted \subseteq {"P", "C"}
      /\ VolPct \in [{"P", "C"} -> 0..99] /\ CoreVolPct \in [{"P", "C"} -> 0..99]
  BY GatesAssumption, Zenon
<1>4. Prices \subseteq Nat \ {0}
  BY BacktestAssumption
<1> QED
  BY <1>1, <1>2, <1>3, <1>4, Zenon

(* The last candle that has begun, and what those up to it are made of. *)
LEMMA CandlesBegun ==
    ASSUME NEW s \in Seq(Nat), s # <<>>, NEW w \in Nat \ {0}
    PROVE  /\ CandleOf(Len(s), w) \in 1..Len(s)
           /\ \A h \in 1..CandleOf(Len(s), w) : (h - 1) * w \in Nat /\ (h - 1) * w < Len(s)
<1>1. Len(s) \in Nat \ {0}
  BY LenProperties, EmptySeq
<1> DEFINE r == Len(s) - 1
           m == r \div w
<1>2. r \in Nat /\ m \in Nat /\ m * w <= r
  BY <1>1
<1> HIDE DEF m
<1>3. m <= m * w
  BY <1>2
<1>4. m + 1 \in 1..Len(s)
  BY <1>1, <1>2, <1>3
<1>5. ASSUME NEW h \in 1..(m + 1)
      PROVE  (h - 1) * w \in Nat /\ (h - 1) * w < Len(s)
  <2>1. h - 1 \in Nat /\ h - 1 <= m
    BY <1>2
  <2>2. (h - 1) * w <= m * w /\ (h - 1) * w \in Nat
    BY <1>2, <2>1
  <2> QED
    BY <1>1, <1>2, <2>2
<1> QED
  BY <1>4, <1>5 DEF CandleOf, m

LEMMA ClosesType ==
    ASSUME NEW s \in Seq(Nat), s # <<>>, NEW w \in Nat \ {0}, NEW k \in Nat
    PROVE  ClosesOf(s, w, k) \in Seq(Nat) /\ Len(ClosesOf(s, w, k)) = k
<1>1. Len(s) \in Nat \ {0}
  BY LenProperties, EmptySeq
<1>2. ASSUME NEW h \in 1..k
      PROVE  s[IF h * w <= Len(s) THEN h * w ELSE Len(s)] \in Nat
  <2>1. h * w \in Nat \ {0}
    OBVIOUS
  <2>2. (IF h * w <= Len(s) THEN h * w ELSE Len(s)) \in 1..Len(s)
    BY <1>1, <2>1
  <2> QED
    BY <2>2, ElementOfSeq
<1>3. ClosesOf(s, w, k) \in [1..k -> Nat]
  BY <1>2 DEF ClosesOf
<1> QED
  BY <1>3, IsASeq, LenProperties

LEMMA CandlesType ==
    ASSUME NEW s \in Seq(Nat), s # <<>>, NEW w \in Nat \ {0}
    PROVE  /\ Candles(s, w, CandleOf(Len(s), w)) \in Seq(Bars)
           /\ Len(Candles(s, w, CandleOf(Len(s), w))) = CandleOf(Len(s), w)
<1> DEFINE k == CandleOf(Len(s), w)
           in(h) == {s[i] : i \in {j \in ((h - 1) * w + 1)..(h * w) : j <= Len(s)}}
<1>1. Len(s) \in Nat /\ k \in Nat /\ k \in 1..Len(s)
      /\ \A h \in 1..k : (h - 1) * w \in Nat /\ (h - 1) * w < Len(s)
  <2>1. k \in 1..Len(s) /\ \A h \in 1..k : (h - 1) * w \in Nat /\ (h - 1) * w < Len(s)
    BY CandlesBegun, Zenon
  <2>2. Len(s) \in Nat
    BY LenProperties
  <2> HIDE DEF k
  <2>3. k \in Nat
    BY <2>1, <2>2
  <2> QED
    BY <2>1, <2>2, <2>3, Zenon
<1> HIDE DEF k
<1>2. ASSUME NEW h \in 1..k
      PROVE  Max(in(h)) \in Int /\ Min(in(h)) \in Int
  <2> DEFINE at == {j \in ((h - 1) * w + 1)..(h * w) : j <= Len(s)}
             S == {s[i] : i \in at}
  <2>1. (h - 1) * w \in Nat /\ (h - 1) * w < Len(s) /\ h * w = (h - 1) * w + w /\ h * w \in Nat
    BY <1>1
  <2>2. IsFiniteSet(at)
    <3>1. IsFiniteSet(((h - 1) * w + 1)..(h * w))
      BY <2>1, FS_Interval
    <3> QED
      BY <3>1, FS_Subset
  <2>3. at \subseteq 1..Len(s) /\ (h - 1) * w + 1 \in at
    BY <1>1, <2>1
  <2> HIDE DEF at
  <2>4. S \subseteq Int /\ S # {}
    BY <2>3, ElementOfSeq
  <2>5. IsFiniteSet(S)
    <3> DEFINE f == [i \in at |-> s[i]]
    <3>1. f \in Surjection(at, S)
      BY DEF Surjection
    <3> QED
      BY <2>2, <3>1, FS_Surjection
  <2>6. Max(S) \in Int /\ Min(S) \in Int
    <3> HIDE DEF S
    <3>1. /\ \E x \in S : \A y \in S : x >= y
          /\ \E x \in S : \A y \in S : x <= y
      BY <2>4, <2>5, SomeExtremes
    <3>2. Max(S) \in S
      BY <3>1, Zenon DEF Max
    <3>3. Min(S) \in S
      BY <3>1, Zenon DEF Min
    <3> QED
      BY <2>4, <3>2, <3>3
  <2> QED
    BY <2>6 DEF S, at
<1>3. ClosesOf(s, w, k) \in Seq(Nat) /\ Len(ClosesOf(s, w, k)) = k
  BY <1>1, ClosesType
<1>4. \A h \in 1..k : ClosesOf(s, w, k)[h] \in Int
  <2>1. \A h \in 1..k : ClosesOf(s, w, k)[h] \in Nat
    BY <1>3, ElementOfSeq
  <2> QED
    BY <2>1
<1>5. Candles(s, w, k) = [h \in 1..k |-> [high |-> Max(in(h)), low |-> Min(in(h)),
                                           close |-> ClosesOf(s, w, k)[h]]]
  BY DEF Candles
<1> HIDE DEF in
<1>6. Candles(s, w, k) \in [1..k -> Bars]
  BY <1>2, <1>4, <1>5 DEF Bars
<1>7. Candles(s, w, k) \in Seq(Bars) /\ Len(Candles(s, w, k)) = k
  BY <1>1, <1>6, IsASeq, LenProperties
<1> QED
  BY <1>7 DEF k

LEMMA LastAll ==
    ASSUME NEW S, NEW s \in Seq(S), NEW k \in Int, Len(s) <= k
    PROVE  Last_n(s, k) = s
<1>1. ~ (Len(s) > k)
  BY LenProperties
<1>2. Last_n(s, k) = SubSeq(s, 1, Len(s))
  BY <1>1 DEF Last_n
<1> QED
  BY <1>2, SubSeqFull

(* A threshold that is lower asks for less. *)
LEMMA LowerThreshold ==
    ASSUME NEW s \in Seq(Nat), NEW a \in 0..99, NEW b \in 0..99, a <= b,
           VolHigh(rolling_vols(s), 0, b)
    PROVE  VolHigh(rolling_vols(s), 0, a)
<1> DEFINE v == rolling_vols(s)
           low == {k \in DOMAIN v : v[k] <= Last(v)}
<1>1. PICK m : m = Max2(0, Len(s) - VolLookback)
  OBVIOUS
<1>2. m \in Nat
  <2>1. VolLookback \in Nat
    BY GatesAssumption
  <2>2. Len(s) - VolLookback \in Int
    BY <2>1, LenProperties
  <2>3. m \in {0, Len(s) - VolLookback} /\ m >= 0
    BY <1>1, <2>2, Max2Is
  <2> QED
    BY <2>2, <2>3
<1>3. DOMAIN v = 1..m /\ Len(v) = m
  <2>1. v = [k \in 1..m |-> realized_vol(SubSeq(s, 1, VolLookback + k))]
    BY <1>1 DEF rolling_vols
  <2> QED
    BY <1>2, <2>1
<1> HIDE DEF v
<1>4. Cardinality(low) \in Nat
  <2>1. IsFiniteSet(1..m)
    BY <1>2, FS_Interval
  <2>2. IsFiniteSet(low)
    BY <1>3, <2>1, FS_Subset
  <2> QED
    BY <2>2, FS_CardinalityType
<1>5. (m * a) \div 100 <= (m * b) \div 100 /\ (m * a) \div 100 \in Int /\ (m * b) \div 100 \in Int
  <2>1. m * a <= m * b /\ m * a \in Nat /\ m * b \in Nat
    BY <1>2
  <2>2. \A x, y \in Nat : x <= y => x \div 100 <= y \div 100 /\ x \div 100 \in Int /\ y \div 100 \in Int
    OBVIOUS
  <2> QED
    BY <2>1, <2>2
<1>6. Len(v) >= MinVols /\ Cardinality(low) > ((Len(v) + 0) * b) \div 100
  BY Zenon DEF VolHigh, v, low
<1>7. Cardinality(low) > ((Len(v) + 0) * a) \div 100
  <2> HIDE DEF low
  <2>1. Len(v) + 0 = m
    BY <1>2, <1>3
  <2>2. Cardinality(low) > (m * b) \div 100
    BY <1>6, <2>1
  <2>3. Cardinality(low) > (m * a) \div 100
    BY <1>4, <1>5, <2>2
  <2> QED
    BY <2>1, <2>3
<1> QED
  BY <1>6, <1>7, Zenon DEF VolHigh, v, low

(* Candles that end with the series are as many as it has whole ones. *)
LEMMA EndTogether ==
    ASSUME NEW i \in Nat \ {0}, NEW w \in Nat \ {0}, i % w = 0
    PROVE  CandleOf(i, w) * w = i
<1> DEFINE q == i \div w
           m == (i - 1) \div w
<1>1. q \in Int /\ i = w * q
  OBVIOUS
<1>2. m \in Int /\ w * m <= i - 1 /\ i - 1 < w * m + w
  OBVIOUS
<1> HIDE DEF q, m
<1>3. ~ (q < m + 1)
  <2> SUFFICES ASSUME q <= m PROVE FALSE
    BY <1>1, <1>2
  <2>1. w * q <= w * m
    BY <1>1, <1>2
  <2> QED
    BY <1>1, <1>2, <2>1
<1>4. ~ (q > m + 1)
  <2> SUFFICES ASSUME m + 2 <= q PROVE FALSE
    BY <1>1, <1>2
  <2>1. w * (m + 2) <= w * q /\ w * (m + 2) = w * m + w + w
    BY <1>1, <1>2
  <2> QED
    BY <1>1, <1>2, <2>1
<1>5. q = m + 1
  BY <1>1, <1>2, <1>3, <1>4
<1>6. (m + 1) * w = w * q
  BY <1>2, <1>5
<1> QED
  BY <1>1, <1>6 DEF CandleOf, m

LEMMA EnoughCandles ==
    ASSUME NEW i \in Nat \ {0}, NEW w \in Nat \ {0}, i % w = 0, NEW least \in Nat, i >= least * w
    PROVE  ~ (CandleOf(i, w) < least)
<1> DEFINE k == CandleOf(i, w)
<1>1. k \in Int /\ k * w = i
  <2>1. CandleOf(i, w) \in Int
    BY DEF CandleOf
  <2> QED
    BY <2>1, EndTogether
<1> HIDE DEF k
<1> SUFFICES ASSUME k + 1 <= least PROVE FALSE
  BY <1>1 DEF k
<1>2. (k + 1) * w <= least * w /\ (k + 1) * w = k * w + w
  BY <1>1
<1> QED
  BY <1>1, <1>2

LEMMA BaseIs ==
    ASSUME NEW s, NEW i, NEW c1h, c1h = ClosesOf(s, PerH, Features(i, PerH, FALSE)),
           NEW base, base = build_coin_base(s, i, FALSE)
    PROVE  /\ base.mtf = consensus(direction_series(SubSeq(s, 1, i)),
                                   direction_series(ClosesOf(s, PerQ, Features(i, PerQ, FALSE))),
                                   direction_series(c1h))
           /\ base.regime = RegimeOf(continuous_adx(Candles(s, PerH, Features(i, PerH, FALSE))))
           /\ base.rv1h = rolling_vols(c1h) /\ base.ratio = bar_ema_ratio(c1h)
           /\ base.allowed = IF i <= Bars7d THEN {} ELSE allowed_sides(Return(s, i))
BY DEF build_coin_base

(* What live looks at, in the words of the backtest, when the candles end together. *)
LEMMA DecisionIs ==
    ASSUME closes \in Seq(Prices), Len(closes) % PerH = 0, Len(closes) % PerQ = 0,
           Len(closes) > Bars7d, Len(closes) >= Min15 * PerQ, Len(closes) >= Min1h * PerH,
           Len(closes) <= Hist,
           NEW base, base = build_coin_base(closes, Len(closes), FALSE),
           NEW closes1h, closes1h = ClosesOf(closes, PerH, CandleOf(Len(closes), PerH))
    PROVE  /\ closes1h \in Seq(Nat) /\ base.rv1h = rolling_vols(closes1h)
           /\ base.ratio = bar_ema_ratio(closes1h)
           /\ base.allowed = allowed_sides(Return(closes, Len(closes)))
           /\ evaluate_conditions(closes) =
                FirstOf({s \in allowed_sides(Return(closes, Len(closes))) :
                           evaluate_side(s, base.mtf, base.regime, base.rv1h, closes1h)})
           /\ core_evaluate_conditions(closes) =
                FirstOf({s \in SidesFor(Return(closes, Len(closes))) :
                           core_evaluate_side(s, base.mtf, base.regime, base.rv1h, closes1h)})
<1> DEFINE i == Len(closes)
           n15 == CandleOf(i, PerQ)
           n1h == CandleOf(i, PerH)
           c15 == ClosesOf(closes, PerQ, n15)
           cs == Candles(closes, PerH, n1h)
<1>1. /\ PerQ \in Nat \ {0} /\ PerH \in Nat \ {0} /\ Hist \in Nat /\ Bars7d \in Nat
      /\ Min15 \in Nat /\ Min1h \in Nat
  BY GatesNumbers
<1>2. closes \in Seq(Nat) /\ i \in Nat /\ i # 0 /\ closes # <<>>
  <2>1. \A x \in Prices : x \in Nat
    BY GatesNumbers
  <2>2. i \in Nat /\ i # 0
    BY <1>1, LenProperties
  <2>3. closes # <<>>
    BY <2>2, EmptySeq
  <2>4. \A k \in 1..i : closes[k] \in Nat
    BY <2>1, ElementOfSeq
  <2>5. closes \in [1..i -> Nat]
    BY <2>4, LenProperties
  <2> QED
    BY <2>2, <2>3, <2>5, IsASeq
<1>3. n15 \in Nat /\ n15 \in 1..i /\ n1h \in Nat /\ n1h \in 1..i
  <2>1. n15 \in 1..i
    BY <1>1, <1>2, CandlesBegun
  <2>2. n1h \in 1..i
    BY <1>1, <1>2, CandlesBegun
  <2> HIDE DEF n15, n1h, i
  <2> QED
    BY <1>2, <2>1, <2>2
<1>4. i \in Nat \ {0}
  BY <1>2
<1>5. ~ (n15 < Min15) /\ ~ (n1h < Min1h) /\ ~ (i < Bars7d) /\ ~ (i <= Bars7d)
  <2>1. ~ (n15 < Min15)
    BY <1>1, <1>4, EnoughCandles
  <2>2. ~ (n1h < Min1h)
    BY <1>1, <1>4, EnoughCandles
  <2>3. ~ (i < Bars7d) /\ ~ (i <= Bars7d)
    BY <1>1, <1>4
  <2> QED
    BY <2>1, <2>2, <2>3
<1>6. closes1h \in Seq(Nat) /\ Len(closes1h) = n1h /\ c15 \in Seq(Nat) /\ Len(c15) = n15
  BY <1>1, <1>2, <1>3, ClosesType
<1>7. cs \in Seq(Bars) /\ Len(cs) = n1h
  BY <1>1, <1>2, CandlesType
<1> HIDE DEF n15, n1h
<1>8. closes1h # <<>> /\ c15 # <<>> /\ cs # <<>>
  BY <1>3, <1>6, <1>7, EmptySeq
<1>9. Features(i, PerQ, FALSE) = n15 /\ Features(i, PerH, FALSE) = n1h
  BY DEF Features, n15, n1h
<1>10. closes1h = ClosesOf(closes, PerH, n1h)
  BY DEF n1h
<1>11. /\ SubSeq(closes, 1, i) = closes /\ Last_n(closes, Hist) = closes
       /\ Last_n(closes1h, Hist) = closes1h /\ Last_n(c15, Hist) = c15 /\ Last_n(cs, Hist) = cs
  <2>1. Hist \in Int /\ n1h <= Hist /\ n15 <= Hist /\ i <= Hist
    BY <1>1, <1>2, <1>3
  <2>2. SubSeq(closes, 1, i) = closes
    BY <1>2, SubSeqFull
  <2>3. Last_n(closes, Hist) = closes
    BY <1>2, <2>1, LastAll
  <2>4. Last_n(closes1h, Hist) = closes1h
    BY <1>6, <2>1, LastAll
  <2>5. Last_n(c15, Hist) = c15
    BY <1>6, <2>1, LastAll
  <2>6. Last_n(cs, Hist) = cs
    BY <1>7, <2>1, LastAll
  <2> QED
    BY <2>2, <2>3, <2>4, <2>5, <2>6
<1>12. /\ analyze_tf(closes) = direction_series(closes)
       /\ analyze_tf(closes1h) = direction_series(closes1h)
       /\ analyze_tf(c15) = direction_series(c15)
  BY <1>2, <1>6, <1>8, DirectionSame
<1>13. detect_regime(cs) = RegimeOf(continuous_adx(cs))
  BY <1>7, <1>8, AdxSame DEF detect_regime, Bars
<1>14. /\ base.mtf = consensus(direction_series(SubSeq(closes, 1, i)), direction_series(c15),
                               direction_series(closes1h))
       /\ base.regime = RegimeOf(continuous_adx(cs)) /\ base.rv1h = rolling_vols(closes1h)
       /\ base.ratio = bar_ema_ratio(closes1h)
       /\ base.allowed = IF i <= Bars7d THEN {} ELSE allowed_sides(Return(closes, i))
  <2>1. base = build_coin_base(closes, i, FALSE)
    OBVIOUS
  <2>2. closes1h = ClosesOf(closes, PerH, Features(i, PerH, FALSE))
    BY <1>9, <1>10, Zenon
  <2>3. c15 = ClosesOf(closes, PerQ, Features(i, PerQ, FALSE))
        /\ cs = Candles(closes, PerH, Features(i, PerH, FALSE))
    BY <1>9, Zenon DEF c15, cs
  <2> HIDE DEF c15, cs, i
  <2>4. /\ base.mtf = consensus(direction_series(SubSeq(closes, 1, i)),
                                direction_series(ClosesOf(closes, PerQ, Features(i, PerQ, FALSE))),
                                direction_series(closes1h))
        /\ base.regime = RegimeOf(continuous_adx(Candles(closes, PerH, Features(i, PerH, FALSE))))
        /\ base.rv1h = rolling_vols(closes1h) /\ base.ratio = bar_ema_ratio(closes1h)
        /\ base.allowed = IF i <= Bars7d THEN {} ELSE allowed_sides(Return(closes, i))
    BY <2>1, <2>2, BaseIs, ZenonT(30)
  <2> QED
    BY <2>3, <2>4, Zenon
<1> HIDE DEF c15, cs, i
<1>15. /\ base.mtf = consensus(direction_series(closes), direction_series(c15),
                               direction_series(closes1h))
       /\ base.regime = RegimeOf(continuous_adx(cs)) /\ base.rv1h = rolling_vols(closes1h)
       /\ base.ratio = bar_ema_ratio(closes1h)
       /\ base.allowed = allowed_sides(Return(closes, i))
  BY <1>5, <1>11, <1>14, Zenon
<1> DEFINE mtf == consensus(analyze_tf(Last_n(closes, Hist)), analyze_tf(Last_n(c15, Hist)),
                            analyze_tf(Last_n(closes1h, Hist)))
           regime == detect_regime(Last_n(cs, Hist))
<1>16. evaluate_conditions(closes) =
         IF i < Bars7d \/ n15 < Min15 \/ n1h < Min1h THEN None
         ELSE FirstOf({s \in allowed_sides(Return(closes, i)) :
                evaluate_side(s, mtf, regime, rolling_vols(Last_n(closes1h, Hist)),
                              Last_n(closes1h, Hist))})
  BY <1>10, Zenon DEF evaluate_conditions, Decide, i, n15, n1h, c15, cs
<1>17. core_evaluate_conditions(closes) =
         IF i < Bars7d \/ n15 < Min15 \/ n1h < Min1h THEN None
         ELSE FirstOf({s \in SidesFor(Return(closes, i)) :
                core_evaluate_side(s, mtf, regime, rolling_vols(Last_n(closes1h, Hist)),
                                   Last_n(closes1h, Hist))})
  BY <1>10, Zenon DEF core_evaluate_conditions, Decide, i, n15, n1h, c15, cs
<1>18. mtf = base.mtf /\ regime = base.regime
       /\ rolling_vols(Last_n(closes1h, Hist)) = base.rv1h
  BY <1>11, <1>12, <1>13, <1>15
<1> HIDE DEF mtf, regime
<1> QED
  BY <1>5, <1>6, <1>11, <1>15, <1>16, <1>17, <1>18 DEF i

LEMMA ParityAtBar ==
    ASSUME closes \in Seq(Prices), GuardHours = 0
    PROVE  GateParity
<1> DEFINE i == Len(closes)
           base == build_coin_base(closes, i, FALSE)
           closes1h == ClosesOf(closes, PerH, CandleOf(i, PerH))
           ret == Return(closes, i)
           alike == \A s \in Permitted : rolling_high(base, s) = VolHigh(base.rv1h, 0, VolPct[s])
           stricter == \A s \in Permitted \ Switched :
                          CoreVolPct[s] >= VolPct[s] /\ CoreRegimes[s] \subseteq Regimes[s]
           live(s) == evaluate_side(s, base.mtf, base.regime, base.rv1h, closes1h)
           core(s) == core_evaluate_side(s, base.mtf, base.regime, base.rv1h, closes1h)
<1> SUFFICES ASSUME i % PerH = 0, i % PerQ = 0, i > Bars7d, i >= Min15 * PerQ,
                    i >= Min1h * PerH, i <= Hist
             PROVE  /\ alike => evaluate_conditions(closes) = FirstOf(evaluate_gates(base))
                    /\ Switched = {} /\ stricter /\ core_evaluate_conditions(closes) # None
                          => evaluate_conditions(closes) # None
  BY Zenon DEF GateParity
<1>1. /\ closes1h \in Seq(Nat) /\ base.rv1h = rolling_vols(closes1h)
      /\ base.ratio = bar_ema_ratio(closes1h)
      /\ base.allowed = allowed_sides(ret)
      /\ evaluate_conditions(closes) = FirstOf({s \in allowed_sides(ret) : live(s)})
      /\ core_evaluate_conditions(closes) = FirstOf({s \in SidesFor(ret) : core(s)})
  BY DecisionIs, Zenon
<1> HIDE DEF base, closes1h, ret, i
<1>2. allowed_sides(ret) \subseteq Permitted \ Switched /\ Permitted \subseteq {"P", "C"}
  BY GatesNumbers DEF allowed_sides, SidesFor
<1>3. ASSUME alike
      PROVE  evaluate_conditions(closes) = FirstOf(evaluate_gates(base))
  <2>1. ASSUME NEW s \in allowed_sides(ret)
        PROVE  live(s) <=> /\ rolling_high(base, s)
                           /\ base.regime \in Regimes[s]
                           /\ direction_filter_ok(base.mtf, s)
                           /\ BullOk(s, base.ratio)
                           /\ GuardOk(base.rv1h)
    <3>1. rolling_high(base, s) = VolHigh(base.rv1h, 0, VolPct[s])
      BY <1>2, <1>3
    <3>2. GuardOk(base.rv1h)
      BY DEF GuardOk
    <3> QED
      BY <1>1, <3>1, <3>2, Zenon DEF evaluate_side
  <2>2. {s \in allowed_sides(ret) : live(s)} = evaluate_gates(base)
    BY <1>1, <2>1, Zenon DEF evaluate_gates
  <2> QED
    BY <1>1, <2>2, Zenon
<1>4. ASSUME Switched = {}, stricter, core_evaluate_conditions(closes) # None
      PROVE  evaluate_conditions(closes) # None
  <2>1. allowed_sides(ret) = SidesFor(ret)
    BY <1>4 DEF allowed_sides
  <2>2. ASSUME NEW s \in SidesFor(ret), core(s)
        PROVE  live(s)
    <3>1. s \in {"P", "C"} /\ s \in Permitted \ Switched
      BY <1>2, <2>1
    <3>2. VolPct[s] \in 0..99 /\ CoreVolPct[s] \in 0..99
      BY <3>1, GatesNumbers
    <3>3. VolPct[s] <= CoreVolPct[s] /\ CoreRegimes[s] \subseteq Regimes[s]
      BY <1>4, <3>1, <3>2
    <3>4. /\ VolHigh(base.rv1h, 0, CoreVolPct[s]) /\ base.regime \in CoreRegimes[s]
          /\ direction_filter_ok(base.mtf, s) /\ BullOk(s, bar_ema_ratio(closes1h))
      BY <2>2, Zenon DEF core_evaluate_side
    <3>5. VolHigh(base.rv1h, 0, VolPct[s])
      BY <1>1, <3>2, <3>3, <3>4, LowerThreshold
    <3> QED
      BY <3>3, <3>4, <3>5, Zenon DEF evaluate_side
  <2> HIDE DEF live, core
  <2>3. PICK s \in SidesFor(ret) : s \in {"P", "C"} /\ core(s)
    <3> DEFINE S == {s \in SidesFor(ret) : core(s)}
    <3>1. FirstOf(S) # None
      BY <1>1, <1>4
    <3>2. "P" \in S \/ "C" \in S
      <4> HIDE DEF S
      <4> QED
        BY <3>1 DEF FirstOf
    <3> QED
      BY <3>2
  <2>4. s \in {s1 \in allowed_sides(ret) : live(s1)}
    BY <2>1, <2>2, <2>3
  <2>5. ASSUME NEW S, s \in S PROVE FirstOf(S) # None
    BY <2>3, <2>5, GatesNumbers DEF FirstOf
  <2> QED
    BY <1>1, <2>4, <2>5
<1> QED
  BY <1>3, <1>4, Zenon

(* Without the backtest's volatility guard, which live has not, the loop enters
   what the engine finds wherever the candles of all time frames end together,
   every series is long enough and both rank the volatility alike: for every
   price, period of the indicators and threshold, the different readings of the
   strength and of the trend of a market that stands still change no decision
   ("produces the same gate decisions", jony_engine.py:2).  And the port finds
   no entry that the loop does not. *)
THEOREM ParityHolds ==
    ASSUME GuardHours = 0
    PROVE  Spec => []GateParity
<1>1. BacktestInv => GateParity
  BY ParityAtBar DEF BacktestInv, SeriesInv
<1> QED
  BY <1>1, BacktestHolds, PTL
=============================================================================
