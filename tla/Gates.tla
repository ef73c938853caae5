--------------------------------- MODULE Gates ---------------------------------
(***************************************************************************)
(* The entry gates of one coin as functions of its closing prices: the     *)
(* indicators (core/indicators, momentum_mtf, regime), the live decision   *)
(* at the close of a five minute bar (core/strategy) and the vectorised    *)
(* one of the backtest (research/jony_engine).  A bar is its close; the    *)
(* candles of a quarter and of an hour are made of PerQ and PerH bars, the *)
(* last one possibly still in progress.  Divisions round down on numbers   *)
(* Scale times too large, those of a smoothed movement up: like the float  *)
(* it stands for it gets smaller and never becomes nothing.  A volatility  *)
(* is kept as the square it is the root of, for only its rank matters.     *)
(***************************************************************************)
EXTENDS Integers, SequencesExt, Lists

CONSTANTS
    None,
    Scale,
    PerQ, PerH,           \* bars in 15 minutes, in an hour
    Fast, Slow, BullSlow, \* periods of the averages: 20, 50 and 200
    RsiPeriod, AdxPeriod,
    TrendAdx, RangeAdx,   \* the cutoffs of detect_regime
    VolLookback, MinVols, \* 24 returns in a reading, 30 readings to rank
    Hist,                 \* candles given to the indicators live; readings ranked
    Bars7d, Min15, Min1h, \* the least of each series live wants to see
    RetPct,               \* RET_7D_THRESHOLD
    Permitted,            \* COIN_SIDES of the coin
    Switched,             \* its DISABLED_KEYS and ADVISOR_ONLY_KEYS
    VolPct, Regimes,      \* per side: vol_threshold (percent), regime_filter
    CoreVolPct, CoreRegimes, \* the same in jony_core, where every put has ETH's
    BullMaxPct,           \* bull_market_ratio_max of the calls, percent
    GuardHours, GuardPct  \* vol_guard of the backtest; GuardHours = 0: none

ASSUME GatesAssumption ==
    /\ {Scale, PerQ, PerH, Fast, Slow, BullSlow, RsiPeriod, AdxPeriod, VolLookback, MinVols,
        Hist, Bars7d} \subseteq Nat \ {0}
    /\ {TrendAdx, RangeAdx, Min15, Min1h, RetPct, BullMaxPct, GuardHours, GuardPct} \subseteq Nat
    /\ None \notin Int \cup {"P", "C"} /\ RsiPeriod > 1 /\ AdxPeriod > 1
    /\ RangeAdx <= TrendAdx /\ Fast <= Slow /\ Slow <= BullSlow
    /\ Permitted \subseteq {"P", "C"} /\ Switched \subseteq {"P", "C"}
    /\ {VolPct, CoreVolPct} \subseteq [{"P", "C"} -> 0..99]
    /\ {Regimes, CoreRegimes} \subseteq [{"P", "C"} -> SUBSET {"range", "transition", "trend"}]

-----------------------------------------------------------------------------
(* Indicators. *)

Total(s) == LET t[k \in 0..Len(s)] == IF k = 0 THEN 0 ELSE t[k - 1] + s[k] IN t[Len(s)]
Last_n(s, n) == SubSeq(s, IF Len(s) > n THEN Len(s) - n + 1 ELSE 1, Len(s))
Abs(x) == IF x < 0 THEN -x ELSE x
Max2(a, b) == Max({a, b})
Up(x, n) == -((-x) \div n)   \* the quotient, rounded up

ema(values, n) ==
    LET e[i \in n..Len(values)] ==
            IF i = n THEN (Scale * Total(SubSeq(values, 1, n))) \div n
            ELSE (2 * Scale * values[i] + (n - 1) * e[i - 1]) \div (n + 1)
    IN  IF Len(values) < n THEN None ELSE e[Len(values)]

(* The mean of the first p, then Wilder's smoothing. *)
Wilder(xs, p) ==
    LET a[i \in p..Len(xs)] ==
            IF i = p THEN Up(Total(SubSeq(xs, 1, p)), p)
            ELSE Up((p - 1) * a[i - 1] + xs[i], p)
    IN  a[Len(xs)]

(* Between 0 and 100 * Scale; without any movement 50 live, 100 in the backtest. *)
Moves(closes, sign) ==
    [i \in 1..(Len(closes) - 1) |-> Scale * Max2(0, sign * (closes[i + 1] - closes[i]))]
RsiOr(flat, closes) ==
    LET gain == Wilder(Moves(closes, 1), RsiPeriod)
        loss == Wilder(Moves(closes, -1), RsiPeriod)
    IN  IF Len(closes) <= RsiPeriod THEN None
        ELSE IF gain + loss = 0 THEN flat
        ELSE (100 * Scale * gain) \div (gain + loss)
rsi(closes) == RsiOr(50 * Scale, closes)
continuous_rsi(closes) == RsiOr(100 * Scale, closes)

(* Sums of movements that forget one p-th at every step. *)
Forgetting(xs, p) ==
    LET f[i \in p..Len(xs)] ==
            IF i = p THEN Scale * Total(SubSeq(xs, 1, p))
            ELSE Up((p - 1) * f[i - 1], p) + Scale * xs[i]
    IN  f

TrueRanges(cs) ==
    [i \in 1..(Len(cs) - 1) |->
        Max2(cs[i + 1].high - cs[i + 1].low,
             Max2(Abs(cs[i + 1].high - cs[i].close), Abs(cs[i + 1].low - cs[i].close)))]
adx(cs) ==
    LET p == AdxPeriod
        steps == 1..(Len(cs) - 1)
        up(i) == cs[i + 1].high - cs[i].high
        down(i) == cs[i].low - cs[i + 1].low
        plusDm == [i \in steps |-> IF up(i) > down(i) THEN Max2(up(i), 0) ELSE 0]
        minusDm == [i \in steps |-> IF down(i) > up(i) THEN Max2(down(i), 0) ELSE 0]
        plus == Forgetting(plusDm, p)
        minus == Forgetting(minusDm, p)
        range == Forgetting(TrueRanges(cs), p)
        counted == [k \in 1..(Len(cs) - 1 - p) |-> k + p]
        moving == Sift(counted, {k \in DOMAIN counted : range[counted[k]] # 0})
        dx(i) == IF plus[i] + minus[i] = 0 THEN 0
                 ELSE (100 * Scale * Abs(plus[i] - minus[i])) \div (plus[i] + minus[i])
    IN  IF Len(cs) < 2 * p + 2 \/ Len(moving) < p THEN None
        ELSE Wilder([k \in 1..Len(moving) |-> dx(moving[k])], p)

(* The backtest has no value for a candle without any range so far. *)
continuous_adx(cs) ==
    IF Len(cs) < 2 * AdxPeriod + 2 THEN None
    ELSE IF Forgetting(TrueRanges(cs), AdxPeriod)[Len(cs) - 1] = 0 THEN None
    ELSE adx(cs)

realized_vol(closes) ==
    LET n == VolLookback
        m == Len(closes)
        rets == [k \in 1..n |-> (Scale * (closes[m - n + k] - closes[m - n + k - 1]))
                                    \div closes[m - n + k - 1]]
    IN  n * Total([k \in 1..n |-> rets[k] * rets[k]]) - Total(rets) * Total(rets)

(* The readings of all prefixes that have one. *)
rolling_vols(closes) ==
    [k \in 1..Max2(0, Len(closes) - VolLookback) |->
        realized_vol(SubSeq(closes, 1, VolLookback + k))]

(* At least the value at the threshold's place among the sorted readings.  The
   backtest sorts its missing readings to the end and counts them. *)
VolHigh(vols, missing, pct) ==
    /\ Len(vols) >= MinVols
    /\ Cardinality({k \in DOMAIN vols : vols[k] <= Last(vols)})
          > ((Len(vols) + missing) * pct) \div 100

RegimeOf(a) ==
    CASE a = None -> "unknown"
      [] a > TrendAdx * Scale -> "trend"
      [] a < RangeAdx * Scale -> "range"
      [] OTHER -> "transition"
detect_regime(candles) == RegimeOf(adx(candles))

(* The direction of one time frame. *)
DirectionOf(fast, slow, r) ==
    IF None \in {fast, slow, r} THEN "unknown"
    ELSE IF fast > slow /\ r > 50 * Scale THEN "up"
    ELSE IF fast < slow /\ r < 50 * Scale THEN "down"
    ELSE "neutral"
analyze_tf(closes) == DirectionOf(ema(closes, Fast), ema(closes, Slow), rsi(closes))
direction_series(closes) ==
    DirectionOf(ema(closes, Fast), ema(closes, Slow), continuous_rsi(closes))

consensus(d5, d15, d1h) ==
    LET votes(d) == Cardinality({k \in 1..3 : <<d5, d15, d1h>>[k] = d})
        ups == votes("up")
        downs == votes("down")
    IN  [direction |-> IF ups >= 2 /\ ups > downs THEN "up"
                       ELSE IF downs >= 2 /\ downs > ups THEN "down" ELSE "neutral",
         aligned |-> Max2(ups, downs), tf_1h |-> d1h]

(* Puts go by the consensus, calls by the hour alone. *)
direction_filter_ok(mtf, side) ==
    IF side = "P" THEN mtf.direction = "up" /\ mtf.aligned >= 2 ELSE mtf.tf_1h = "down"

(* The ratio of the averages is unknown, or not above the maximum. *)
bar_ema_ratio(closes1h) == [num |-> ema(closes1h, Slow), den |-> ema(closes1h, BullSlow)]
BullOk(side, ratio) ==
    side = "C" => \/ None \in {ratio.num, ratio.den} \/ ratio.den = 0
                  \/ 100 * ratio.num <= BullMaxPct * ratio.den

-----------------------------------------------------------------------------
(* Series. *)

CandleOf(i, n) == (i - 1) \div n + 1

(* The closes of the first k candles, and the candles with their extremes. *)
ClosesOf(closes, n, k) ==
    [h \in 1..k |-> closes[IF h * n <= Len(closes) THEN h * n ELSE Len(closes)]]
Candles(closes, n, k) ==
    LET in(h) == {closes[i] : i \in {j \in ((h - 1) * n + 1)..(h * n) : j <= Len(closes)}}
    IN  [h \in 1..k |-> [high |-> Max(in(h)), low |-> Min(in(h)), close |-> ClosesOf(closes, n, k)[h]]]

(* k5 has the return over Bars7d bars; 0 without that many bars before it. *)
Return(closes, i) ==
    IF i <= Bars7d THEN [up |-> FALSE, down |-> FALSE]
    ELSE LET before == closes[i - Bars7d]
             gain == 100 * (closes[i] - before)
         IN [up |-> gain > RetPct * before, down |-> gain < -(RetPct * before)]

SidesFor(ret) ==
    ((IF ret.up THEN {} ELSE {"C"}) \cup (IF ret.down THEN {} ELSE {"P"})) \cap Permitted

allowed_sides(ret) == SidesFor(ret) \ Switched

(* "P" comes before "C". *)
FirstOf(sides) == IF "P" \in sides THEN "P" ELSE IF "C" \in sides THEN "C" ELSE None

-----------------------------------------------------------------------------
(* Live: strategy.evaluate_conditions at the close of the last bar, with the
   candles of the exchange as they stand. *)

evaluate_side(side, mtf, regime, vols, closes1h) ==
    /\ VolHigh(vols, 0, VolPct[side])
    /\ regime \in Regimes[side]
    /\ direction_filter_ok(mtf, side)
    /\ BullOk(side, bar_ema_ratio(closes1h))

(* What both make of the candles: the first of the sides that is ready. *)
Decide(closes, sides, Ready(_, _, _, _, _)) ==
    LET i == Len(closes)
        n15 == CandleOf(i, PerQ)
        n1h == CandleOf(i, PerH)
        closes1h == Last_n(ClosesOf(closes, PerH, n1h), Hist)
        mtf == consensus(analyze_tf(Last_n(closes, Hist)),
                         analyze_tf(Last_n(ClosesOf(closes, PerQ, n15), Hist)),
                         analyze_tf(closes1h))
        regime == detect_regime(Last_n(Candles(closes, PerH, n1h), Hist))
        vols == rolling_vols(closes1h)
    IN  IF i < Bars7d \/ n15 < Min15 \/ n1h < Min1h THEN None
        ELSE FirstOf({s \in sides : Ready(s, mtf, regime, vols, closes1h)})

evaluate_conditions(closes) ==
    Decide(closes, allowed_sides(Return(closes, Len(closes))), evaluate_side)

(* jony_core, the port that the older scripts use: no side is switched off,
   and the thresholds of the puts are those of ETH for every coin. *)
core_evaluate_side(side, mtf, regime, vols, closes1h) ==
    /\ VolHigh(vols, 0, CoreVolPct[side])
    /\ regime \in CoreRegimes[side]
    /\ direction_filter_ok(mtf, side)
    /\ BullOk(side, bar_ema_ratio(closes1h))

core_evaluate_conditions(closes) ==
    Decide(closes, SidesFor(Return(closes, Len(closes))), core_evaluate_side)

-----------------------------------------------------------------------------
(* Backtest: jony_engine on the whole series, at bar i.  The features of a
   candle are merged onto the bars from its start or, with feature_lag, from
   its end. *)

(* Mutants, here and below: a definition named Bug... is a form of the one
   after it that a plausible mistake would give; no specification uses it. *)
BugFeatures(i, n, lag) == CandleOf(i, n)
Features(i, n, lag) == IF lag THEN (i - 1) \div n ELSE CandleOf(i, n)

build_coin_base(closes, i, lag) ==
    LET closes1h == ClosesOf(closes, PerH, Features(i, PerH, lag))
    IN  [mtf |-> consensus(direction_series(SubSeq(closes, 1, i)),
                           direction_series(ClosesOf(closes, PerQ, Features(i, PerQ, lag))),
                           direction_series(closes1h)),
         regime |-> RegimeOf(continuous_adx(Candles(closes, PerH, Features(i, PerH, lag)))),
         rv1h |-> rolling_vols(closes1h), hours |-> Len(closes1h),
         ratio |-> bar_ema_ratio(closes1h),
         allowed |-> IF i <= Bars7d THEN {} ELSE allowed_sides(Return(closes, i))]

(* vol_guard: the volatility has not risen too much in the last hours. *)
GuardOk(rv1h) ==
    GuardHours = 0 \/ Len(rv1h) <= GuardHours
    \/ 100 * 100 * Last(rv1h) <= GuardPct * GuardPct * rv1h[Len(rv1h) - GuardHours]

rolling_high(base, side) ==
    LET counted == IF base.hours < Hist THEN base.hours ELSE Hist
    IN  VolHigh(Last_n(base.rv1h, Hist), Max2(0, counted - Len(base.rv1h)), VolPct[side])

BugEvaluateGates(base) ==
    {s \in base.allowed :
        /\ rolling_high(base, s) /\ base.regime \in Regimes[s]
        /\ direction_filter_ok(base.mtf, "P")}
evaluate_gates(base) ==
    {s \in base.allowed :
        /\ rolling_high(base, s)
        /\ base.regime \in Regimes[s]
        /\ direction_filter_ok(base.mtf, s)
        /\ BullOk(s, base.ratio)
        /\ GuardOk(base.rv1h)}
=============================================================================
