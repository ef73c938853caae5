--------------------------------- MODULE Legs ---------------------------------
(***************************************************************************)
(* The simulators of src/research/leg2: seven ideas for a second strategy, *)
(* each a loop over hourly bars that opens one trade at a time.  H1 and    *)
(* its mirror follow momentum, H2 and H4 trade ETH against BTC, H3 fades   *)
(* funding, H5 is a short grid, H6 and H7 trade after a crash.  Bars       *)
(* arrive one by one and every simulator runs over all there are, as it    *)
(* would on the day: what it says of the past must not change tomorrow.    *)
(* Indices start at 1; "hi" is the last bar an entry may be signalled at.  *)
(* Levels and fills are in hundredths of the unit of the prices.           *)
(***************************************************************************)
EXTENDS Integers, SequencesExt, FiniteSetsExt, Functions, Lists

CONSTANTS
    NoValue,
    FirstBars, Shapes, \* first bars; what the next bar can be, relative to the last close
    MaxHours, Split,   \* bound: length of the series; last bar to train on
    FastSpan, SlowSpan, \* spans of the two EMAs (50, 200)
    LagH, LagD, LagW,  \* bars in 6 hours, a day, a week
    Warm,              \* bars before the first signal of H1, H5
    WindowEvents,      \* H3: funding events a rank is taken among
    PairCap,           \* H2: TIME_CAP
    MomentumCells, PairCells, FundingCells, RatioGrid, GridCells, CrashCells,
                       \* configurations: sets of records, the grid of H4 a sequence
    MinTrades,         \* H4: trades a chosen configuration has
    Stake, Unit,       \* H5: size of a fill; fraction a quantity is counted in
    FeeBp              \* fee of a fill, basis points

(* What a trade of the pair ends by, and how a grid is closed. *)
Reasons == {"cross0", "flip", "stop", "timecap", "forced", "eos"}
GridEnds == [why : {"bust", "tp", "regime"}, px : Int]

(* A bar of an hour: prices are positive, and a bar opens and closes inside its range. *)
Hour ==
    LET Price == Nat \ {0}
    IN  [o : Price, h : Price, l : Price, c : Price, b : Price, f : Int \cup {NoValue}]
IsHour(b) == b \in Hour /\ {b.o, b.c} \subseteq b.l..b.h

ASSUME LegsAssumption ==
    /\ {MaxHours, Split, LagH, LagD, LagW, Warm, MinTrades, FeeBp} \subseteq Nat
    /\ {FastSpan, SlowSpan, WindowEvents, PairCap, Stake, Unit} \subseteq Nat \ {0}
    /\ Split < MaxHours /\ NoValue \notin Int \cup Reasons \cup GridEnds
    /\ FirstBars \in Seq(Hour) \ {<<>>} /\ \A i \in DOMAIN FirstBars : IsHour(FirstBars[i])
    /\ Shapes \subseteq [o : Int, h : Int, l : Int, c : Int, b : Int, f : Int \cup {NoValue}]
    /\ MomentumCells \subseteq [kind : {"A", "B"}, pct : Nat, s : Nat, t : Nat, z : Nat,
                                cond : BOOLEAN, cap : Nat]
    /\ PairCells \subseteq [m : Nat \ {0}, zin : Nat, zstop : Nat]
    /\ FundingCells \subseteq [p : Nat, filt : BOOLEAN, h : Nat, s : Nat]
    /\ RatioGrid \in Seq([l : Nat, t : Nat, s : Nat, cap : Nat, short : BOOLEAN])
    /\ GridCells \subseteq [g : Nat, l : Nat, tp : 0..99, bust : Nat]
    /\ CrashCells \subseteq [drop : Nat, h : Nat \ {0}, s : 1..99, t : Nat, filt : BOOLEAN]

VARIABLES
    bars,   \* the hourly bars so far: ETH's prices, BTC's close, funding published
    legs    \* what each simulator reports on them

legsVars == <<bars, legs>>

MinOf(a, b) == IF a <= b THEN a ELSE b
Closes(bs) == [i \in DOMAIN bs |-> bs[i].c]
Fee(value) == (value * FeeBp) \div 10000

(* The move of x over k bars goes beyond p percent in direction d. *)
Beyond(d, x, k, i, p) == i > k /\ 100 * d * (x[i] - x[i - k]) > p * x[i - k]

(* The extremes of a bar against and for a trade in direction d. *)
Worst(d, b) == IF d = 1 THEN b.l ELSE b.h
Best(d, b) == IF d = 1 THEN b.h ELSE b.l

Profit(d, from, to) == (1000 * d * (to - from)) \div from

(* One trade at a time: the next signal is looked for "gap" bars after an exit. *)
SequentialBar(gap, signal, trade, s, i) ==
    IF i < s.next \/ ~signal[i] THEN s
    ELSE [next |-> trade[i].x + gap, trades |-> Append(s.trades, trade[i])]
SequentialStates(from, to, gap, signal, trade) ==
    LET s[i \in (from - 1)..to] ==
            IF i = from - 1 THEN [next |-> from, trades |-> <<>>]
            ELSE SequentialBar(gap, signal, trade, s[i - 1], i)
    IN  s
Sequential(from, to, gap, signal, trade) ==
    IF to < from THEN <<>> ELSE SequentialStates(from, to, gap, signal, trade)[to].trades

-----------------------------------------------------------------------------
(* H1: momentum. *)

ema_first(x, n) ==
    LET e[i \in DOMAIN x] ==
            IF i = 1 THEN x[1] ELSE (2 * x[i] + (n - 1) * e[i - 1]) \div (n + 1)
    IN  e

(* Entry on the week's return, or on the trend with the day's return. *)
make_entry(d, cell, bs) ==
    LET x == Closes(bs)
        fast == ema_first(x, FastSpan)
        slow == ema_first(x, SlowSpan)
    IN  [i \in DOMAIN bs |->
            IF cell.kind = "A" THEN Beyond(d, x, LagW, i, cell.pct)
            ELSE d * fast[i] > d * slow[i] /\ Beyond(d, x, LagD, i, cell.pct)]

(* Fills of a level by a bar: at the open if it is beyond it, else at the level. *)
Against(d, b, level) ==
    IF 100 * d * b.o <= d * level THEN 100 * b.o
    ELSE IF 100 * d * Worst(d, b) <= d * level THEN level ELSE NoValue
Towards(d, b, level) ==
    IF 100 * d * b.o >= d * level THEN 100 * b.o
    ELSE IF 100 * d * Best(d, b) >= d * level THEN level ELSE NoValue

(* The price at which bar j ends a trade entered at the close of bar e: stop,
   trail (from the bars before j), target; at the close, one bar after the
   condition is gone or when the time is up. *)
MomentumFill(d, cell, bs, entry, e, j) ==
    LET ep == bs[e].c
        best == d * Max({d * ep} \cup {d * Best(d, bs[k]) : k \in (e + 1)..(j - 1)})
        fills == <<IF cell.s > 0 THEN Against(d, bs[j], ep * (100 - d * cell.s)) ELSE NoValue,
                   IF cell.z > 0 THEN Against(d, bs[j], best * (100 - d * cell.z)) ELSE NoValue,
                   IF cell.t > 0 THEN Towards(d, bs[j], ep * (100 + d * cell.t)) ELSE NoValue,
                   IF \/ cell.cond /\ \E k \in (e + 1)..(j - 1) : ~entry[k]
                      \/ j >= e + cell.cap
                   THEN 100 * bs[j].c ELSE NoValue>>
        hit == {k \in DOMAIN fills : fills[k] # NoValue}
    IN  IF hit = {} THEN NoValue ELSE fills[Min(hit)]

MomentumTrade(d, cell, bs, entry, e) ==
    LET n == Len(bs)
        done == {j \in (e + 1)..n : MomentumFill(d, cell, bs, entry, e, j) # NoValue}
        x == IF done = {} THEN n ELSE Min(done)
        px == IF done = {} THEN 100 * bs[n].c ELSE MomentumFill(d, cell, bs, entry, e, x)
    IN  [e |-> e, x |-> x, px |-> px, net |-> Profit(d, 100 * bs[e].c, px) - 2 * Fee(1000)]

run_momentum(d, cell, bs) ==
    LET entry == make_entry(d, cell, bs)
        trade == [i \in 1..(Len(bs) - 1) |-> MomentumTrade(d, cell, bs, entry, i + 1)]
    IN  Sequential(Warm + 1, Len(bs) - 1, 0, entry, trade)

run_short(cell, bs) == run_momentum(-1, cell, bs)
run_long_mirror(cell, bs) == run_momentum(1, cell, bs)

-----------------------------------------------------------------------------
(* H2 and H4: ETH against BTC.  The ratio stands for its logarithm. *)

Ratio(bs) == [i \in DOMAIN bs |-> (1000 * bs[i].c) \div bs[i].b]

(* What a dollar-neutral pair makes from bar i to bar j, before fees. *)
PairProfit(d, bs, i, j) ==
    d * ((1000 * (bs[j].c - bs[i].c)) \div bs[i].c - (1000 * (bs[j].b - bs[i].b)) \div bs[i].b)

(* The z-score at t over the last m bars: its sign, and its square as the
   quotient of dev^2 and var; there is none before bar m. *)
roll_stats(x, m, t) ==
    LET window == (t - m + 1)..t
        sum == SumFunctionOnSet(x, window)
        squares == SumFunctionOnSet([i \in window |-> x[i] * x[i]], window)
    IN  IF t < m THEN [known |-> FALSE, dev |-> 0, var |-> 1]
        ELSE [known |-> TRUE, dev |-> m * x[t] - sum, var |-> Max({1, m * squares - sum * sum})]
Outside(z, square) == z.known /\ 100 * z.dev * z.dev > square * z.var
Within(z, square) == z.known /\ 100 * z.dev * z.dev < square * z.var

PairFlat == [pos |-> 0, e |-> 0, blocked |-> 0, trades |-> <<>>]

(* A flat bar: after a stop or the time cap no entry in its direction until
   the score has been calm. *)
PairEnter(cell, s, z, t, mayEnter) ==
    LET blocked == IF Within(z, cell.zin) THEN 0 ELSE s.blocked
        d == IF z.dev > 0 THEN -1 ELSE 1
    IN  IF mayEnter /\ Outside(z, cell.zin) /\ d # blocked
        THEN [pos |-> d, e |-> t + 1, blocked |-> 0, trades |-> s.trades]
        ELSE [s EXCEPT !.blocked = blocked]

(* Mutants, here and below: a definition named Bug... is a form of the one
   after it that a plausible mistake would give; no specification uses it. *)
BugBlocks(reason) == reason = "stop"
Blocks(reason) == reason \in {"stop", "timecap"}

PairExit(cell, s, z, t, last, bs) ==
    LET reason == IF s.pos * z.dev >= 0 THEN "cross0"
                  ELSE IF Outside(z, cell.zstop) THEN "stop"
                  ELSE IF t - s.e >= PairCap THEN "timecap"
                  ELSE IF t = last THEN "forced" ELSE NoValue
        x == IF reason # "forced" /\ t + 1 <= last THEN t + 1 ELSE t
    IN  IF reason = NoValue THEN s
        ELSE [pos |-> 0, e |-> 0, blocked |-> IF Blocks(reason) THEN s.pos ELSE 0,
              trades |-> Append(s.trades, [d |-> s.pos, e |-> s.e, x |-> x, reason |-> reason,
                                           net |-> PairProfit(s.pos, bs, s.e, x) - 4 * Fee(1000)])]

PairBar(cell, bs, x, hi, last, s, t) ==
    LET z == roll_stats(x, cell.m, t)
    IN  IF s.pos = 0 THEN PairEnter(cell, s, z, t, t <= hi)
        ELSE PairExit(cell, s, z, t, last, bs)

PairStates(cell, bs, hi, last) ==
    LET s[t \in 0..last] == IF t = 0 THEN PairFlat
                            ELSE PairBar(cell, bs, Ratio(bs), hi, last, s[t - 1], t)
    IN  s
run_pair(cell, bs, hi) ==
    LET last == MinOf(hi + 1, Len(bs)) IN PairStates(cell, bs, hi, last)[last].trades

(* The bar a decision at the close of bar i is filled at. *)
BugFillBar(i, end, n) == MinOf(i + 1, n)
FillBar(i, end, n) == MinOf(i + 1, end)

(* Profit of the pair after the fees of both legs at both ends. *)
RatioNet(d, bs, e, j) ==
    PairProfit(d, bs, e, j) - 2 * Fee(1000)
        - Fee((1000 * bs[j].c) \div bs[e].c) - Fee((1000 * bs[j].b) \div bs[e].b)

(* One bar of H4; "next" is the bar it goes on at.  The bar an order fills on is
   not looked at. *)
RatioBar(cell, bs, x, hi, end, s, i) ==
    LET moved(d) == Beyond(d, x, cell.l, i, 0)
        far(d) == Beyond(d, x, cell.l, i, cell.t) /\ ~(cell.short /\ d = 1)
        pnl == PairProfit(s.pos, bs, s.e, i)
        reason == IF pnl <= -10 * cell.s THEN "stop"
                  ELSE IF moved(-s.pos) THEN "flip"
                  ELSE IF i - s.e >= cell.cap THEN "timecap"
                  ELSE IF i = end THEN "eos" ELSE NoValue
        j == FillBar(i, end, Len(bs))
    IN  IF i < s.next THEN s
        ELSE IF s.pos = 0 THEN
            IF i <= hi /\ i + 1 <= end /\ \E d \in {-1, 1} : far(d)
            THEN [pos |-> CHOOSE d \in {-1, 1} : far(d), e |-> i + 1, next |-> i + 2,
                  trades |-> s.trades]
            ELSE s
        ELSE IF reason = NoValue THEN s
        ELSE [pos |-> 0, e |-> 0, next |-> j + 1,
              trades |-> Append(s.trades, [d |-> s.pos, e |-> s.e, x |-> j, reason |-> reason,
                                           net |-> RatioNet(s.pos, bs, s.e, j)])]

RatioFlat(cell) == [pos |-> 0, e |-> 0, next |-> cell.l + 1, trades |-> <<>>]
RatioStates(cell, bs, hi, end) ==
    LET s[i \in 0..end] == IF i = 0 THEN RatioFlat(cell)
                           ELSE RatioBar(cell, bs, Ratio(bs), hi, end, s[i - 1], i)
    IN  s
run_ratio(cell, bs, hi) ==
    LET end == MinOf(hi + 1, Len(bs)) IN RatioStates(cell, bs, hi, end)[end].trades

Net(trades) == SumFunctionOnSet([k \in DOMAIN trades |-> trades[k].net], DOMAIN trades)

(* A configuration one step away in one parameter, or with the other cap. *)
neighbors(g) ==
    LET grid == ToSet(RatioGrid)
        steps(h, f) == /\ h[f] # g[f]
                       /\ \A k \in DOMAIN g \ {f} : h[k] = g[k]
                       /\ ~\E u \in grid : (g[f] < u[f] /\ u[f] < h[f])
                                          \/ (h[f] < u[f] /\ u[f] < g[f])
    IN  {h \in grid : \E f \in {"l", "t", "s", "cap"} : steps(h, f)}

(* The best by the trades it makes, if all its neighbours earn; else the best. *)
chosen(run) ==
    LET enough == {k \in DOMAIN RatioGrid : Len(run[RatioGrid[k]]) >= MinTrades}
        plateau == {k \in enough : \A h \in neighbors(RatioGrid[k]) : Net(run[h]) >= 0}
        best(S) == CHOOSE k \in S : \A m \in S :
                       LET a == Net(run[RatioGrid[k]])
                           b == Net(run[RatioGrid[m]])
                       IN  a > b \/ (a = b /\ k <= m)
    IN  IF plateau # {} THEN RatioGrid[best(plateau)]
        ELSE IF enough # {} THEN RatioGrid[best(enough)] ELSE NoValue
choose_ratio(bs) == chosen([g \in ToSet(RatioGrid) |-> run_ratio(g, bs, Split)])

-----------------------------------------------------------------------------
(* H3: funding. *)

pct_rank(window, v) ==
    LET count(Test(_)) == Cardinality({k \in DOMAIN window : Test(window[k])})
        less(w) == w < v
        same(w) == w = v
    IN  (50 * (2 * count(less) + count(same))) \div Len(window)

(* How many of the funding events are known at the close of bar i. *)
BugKnown(events, i) == Cardinality({k \in DOMAIN events : events[k] <= i + 1})
Known(events, i) == Cardinality({k \in DOMAIN events : events[k] <= i})

(* Per bar, the rank of the last funding known at its close. *)
prepare_funding(bs) ==
    LET events == Sift([i \in DOMAIN bs |-> i], {i \in DOMAIN bs : bs[i].f # NoValue})
        rate == [k \in DOMAIN events |-> bs[events[k]].f]
        known(i) == Known(events, i)
    IN  [i \in DOMAIN bs |->
            IF known(i) < WindowEvents THEN NoValue
            ELSE pct_rank(SubSeq(rate, known(i) + 1 - WindowEvents, known(i)), rate[known(i)])]

(* The side that extreme funding asks for, if the day's move agrees. *)
FundingSide(cell, x, rank, i) ==
    LET d == IF rank[i] > cell.p THEN -1 ELSE IF rank[i] < 100 - cell.p THEN 1 ELSE 0
    IN  IF rank[i] = NoValue THEN 0
        ELSE IF cell.filt /\ ~Beyond(d, x, LagD, i, 0) THEN 0 ELSE d

FundingTrade(cell, bs, rank, d, e) ==
    LET last == MinOf(e + cell.h, Len(bs))
        level == bs[e].c * (100 - d * cell.s)
        stopped(j) == 100 * d * Worst(d, bs[j]) <= d * level
        middle(j) == rank[j] # NoValue /\ rank[j] \in 40..60 /\ j + 1 <= last
        ends == {j \in (e + 1)..last : stopped(j) \/ middle(j) \/ j = last}
        j == IF ends = {} THEN last ELSE Min(ends)
        x == IF ends # {} /\ ~stopped(j) /\ middle(j) THEN j + 1 ELSE j
        px == IF ends # {} /\ stopped(j) THEN level ELSE 100 * bs[x].c
        paid == {k \in (e + 1)..x : bs[k].f # NoValue}
    IN  [e |-> e, x |-> x, d |-> d, px |-> px,
         net |-> Profit(d, 100 * bs[e].c, px) - d * SumFunctionOnSet([k \in paid |-> bs[k].f], paid)
                 - 2 * Fee(1000)]

run_funding(cell, bs) ==
    LET rank == prepare_funding(bs)
        x == Closes(bs)
        side == [i \in DOMAIN bs |-> FundingSide(cell, x, rank, i)]
        signal == [i \in DOMAIN bs |-> side[i] # 0]
        trade == [i \in 1..(Len(bs) - 1) |-> FundingTrade(cell, bs, rank, side[i], i + 1)]
    IN  Sequential(LagD + 1, Len(bs) - 1, 1, signal, trade)

-----------------------------------------------------------------------------
(* H5: a short grid.  Its EMA starts from an average. *)

ema_avg(x, n) ==
    LET e[i \in n..Len(x)] ==
            IF i = n THEN SumFunctionOnSet(x, 1..n) \div n
            ELSE (2 * x[i] + (n - 1) * e[i - 1]) \div (n + 1)
    IN  e

(* Per bar: the down-trend is confirmed, and the trend is up. *)
prep(bs) ==
    LET x == Closes(bs)
        fast == ema_avg(x, FastSpan)
        slow == ema_avg(x, SlowSpan)
        ready(i) == i > Warm /\ i >= FastSpan /\ i >= SlowSpan
    IN  [i \in DOMAIN bs |->
            [gate |-> ready(i) /\ fast[i] < slow[i] /\ Beyond(-1, x, LagW, i, 0),
             bull |-> ready(i) /\ fast[i] > slow[i]]]

Idle == [on |-> FALSE, entering |-> FALSE, closing |-> FALSE, qty |-> 0, sold |-> 0,
         fees |-> 0, levels |-> {}]

Bought(p) == -((-(Stake * Unit)) \div p)   \* rounded up: never nothing
Worth(qty, p) == (qty * p) \div Unit

(* What closing the grid at p makes, with the fees; without that of the close. *)
Realised(g, p) == g.sold - Worth(g.qty, p) - g.fees - Fee(Worth(g.qty, p))
Floating(g, p) == g.sold - Worth(g.qty, p) - g.fees

(* The price at which the average fill has moved by a percentage. *)
FromAverage(g, percent) == (((g.sold * Unit) \div g.qty) * (100 + percent)) \div 100

Opened(cell, p) ==
    [on |-> TRUE, entering |-> FALSE, closing |-> FALSE, qty |-> Bought(p), sold |-> Stake,
     fees |-> Fee(Stake), levels |-> {(p * (100 + k * cell.g)) \div 100 : k \in 1..(cell.l - 1)}]

(* The adds that a bar's high reaches. *)
Added(g, high) ==
    LET hit == {p \in g.levels : high >= p}
    IN  [on |-> g.on, entering |-> g.entering, closing |-> g.closing,
         qty |-> g.qty + SumFunctionOnSet([p \in hit |-> Bought(p)], hit),
         sold |-> g.sold + Stake * Cardinality(hit),
         fees |-> g.fees + Fee(Stake) * Cardinality(hit), levels |-> g.levels \ hit]

(* What a bar does to an open grid after its adds: bust, target if nothing was
   added, or the close decided a bar ago; NoValue if it stays. *)
GridEnd(cell, g, added, b) ==
    IF b.h >= FromAverage(added, cell.bust)
    THEN [why |-> "bust", px |-> Max({FromAverage(added, cell.bust), b.o})]
    ELSE IF added.levels = g.levels /\ b.l <= FromAverage(added, -cell.tp)
    THEN [why |-> "tp", px |-> FromAverage(added, -cell.tp)]
    ELSE IF g.closing THEN [why |-> "regime", px |-> b.c]
    ELSE NoValue

(* The grid one bar on: opened, ended or aged. *)
GridNext(cell, g, b, flag) ==
    LET added == Added(g, b.h)
        turns(h) == flag.bull /\ Floating(h, b.c) < 0
    IN  IF g.entering THEN [Opened(cell, b.c) EXCEPT !.closing = turns(Opened(cell, b.c))]
        ELSE IF ~g.on THEN [Idle EXCEPT !.entering = flag.gate]
        ELSE IF GridEnd(cell, g, added, b) # NoValue THEN Idle
        ELSE [added EXCEPT !.closing = turns(added)]

Cycle(s, i, grid, end) ==
    [e |-> s.e, x |-> i, reason |-> end.why, px |-> end.px, net |-> Realised(grid, end.px)]
GridBar(cell, s, i, b, flag) ==
    LET added == Added(s.grid, b.h)
        end == IF s.grid.on THEN GridEnd(cell, s.grid, added, b) ELSE NoValue
    IN  [grid |-> GridNext(cell, s.grid, b, flag),
         e |-> IF s.grid.entering THEN i ELSE s.e,
         cycles |-> IF end = NoValue THEN s.cycles ELSE Append(s.cycles, Cycle(s, i, added, end))]
GridStates(cell, bs) ==
    LET flags == prep(bs)
        s[i \in 0..Len(bs)] == IF i = 0 THEN [grid |-> Idle, e |-> 0, cycles |-> <<>>]
                               ELSE GridBar(cell, s[i - 1], i, bs[i], flags[i])
    IN  s

run_grid(cell, bs) ==
    LET n == Len(bs)
        s == GridStates(cell, bs)[n]
    IN  IF s.grid.on
        THEN Append(s.cycles, Cycle(s, n, s.grid, [why |-> "eod", px |-> bs[n].c])) ELSE s.cycles

Book(a, net) ==
    LET eq == a.eq + net
        peak == Max({a.peak, eq})
    IN  [eq |-> eq, peak |-> peak, dd |-> MinOf(a.dd, eq - peak)]
BookStates(trades) ==
    LET s[k \in 0..Len(trades)] == IF k = 0 THEN [eq |-> 0, peak |-> 0, dd |-> 0]
                                   ELSE Book(s[k - 1], trades[k].net)
    IN  s
Drawdown(trades) == BookStates(trades)[Len(trades)].dd

(* The second loop over the same grid, which marks it to the market.  Here a
   close that was decided outlives the grid until the next one opens. *)
BugMtmOpened(cell, g, b, flag) ==
    LET grid == Opened(cell, b.c)
    IN  [grid EXCEPT !.closing = g.closing \/ (flag.bull /\ Floating(grid, b.c) < 0)]
MtmOpened(cell, g, b, flag) ==
    LET grid == Opened(cell, b.c)
    IN  [grid EXCEPT !.closing = flag.bull /\ Floating(grid, b.c) < 0]

MtmBar(cell, s, b, flag) ==
    LET g == s.grid
        added == Added(g, b.h)
        end == IF g.on THEN GridEnd(cell, g, added, b) ELSE NoValue
        grid == IF g.entering THEN MtmOpened(cell, g, b, flag)
                ELSE IF ~g.on THEN [g EXCEPT !.entering = flag.gate]
                ELSE IF end # NoValue THEN [Idle EXCEPT !.closing = g.closing]
                ELSE [added EXCEPT !.closing = g.closing
                                       \/ (flag.bull /\ Floating(added, b.c) < 0)]
        realised == s.realised + (IF end = NoValue THEN 0 ELSE Realised(added, end.px))
        at(p) == realised + (IF grid.on THEN Floating(grid, p) ELSE 0)
        peak == Max({s.peak, at(b.c)})
    IN  [grid |-> grid, realised |-> realised, peak |-> peak,
         maxdd |-> MinOf(s.maxdd, at(b.h) - peak)]

MtmStates(cell, bs) ==
    LET flags == prep(bs)
        s[i \in 0..Len(bs)] ==
            IF i = 0 THEN [grid |-> Idle, realised |-> 0, peak |-> 0, maxdd |-> 0]
            ELSE MtmBar(cell, s[i - 1], bs[i], flags[i])
    IN  s
mtm_curve(cell, bs) == MtmStates(cell, bs)[Len(bs)]

-----------------------------------------------------------------------------
(* H6 and H7: after a crash. *)

(* The first bar of a slide; every bar of it prolongs the wait for the next. *)
find_events(x, percent, lo, hi) ==
    LET fell(i) == i >= lo /\ Beyond(-1, x, LagD, i, percent)
    IN  {i \in lo..hi : fell(i) /\ ~\E k \in (i - LagD + 1)..(i - 1) : fell(k)}

(* H6 goes short; a stop fills at its price. *)
CrashTrade(cell, bs, e) ==
    LET last == MinOf(e + cell.h, Len(bs))
        level == bs[e].c * (100 + cell.s)
        hit == {j \in (e + 1)..last : 100 * bs[j].h >= level}
        x == IF hit = {} THEN last ELSE Min(hit)
        px == IF hit = {} THEN 100 * bs[last].c ELSE level
    IN  [e |-> e, x |-> x, px |-> px, reason |-> IF hit = {} THEN "time" ELSE "stop",
         net |-> Profit(-1, 100 * bs[e].c, px) - Fee(1000) - Fee((1000 * px) \div (100 * bs[e].c))]

run_crash(cell, bs, lo, hi) ==
    LET x == Closes(bs)
        fast == ema_first(x, FastSpan)
        slow == ema_first(x, SlowSpan)
        events == find_events(x, cell.drop, lo, hi)
        signal == [i \in DOMAIN bs |-> i \in events /\ (cell.filt => fast[i] < slow[i])]
        trade == [i \in 1..(hi - 1) |-> CrashTrade(cell, bs, i + 1)]
    IN  Sequential(lo, hi - 1, 0, signal, trade)

(* H7 goes long; what a stop's gap would have cost more is noted. *)
ReboundTrade(cell, bs, e) ==
    LET last == MinOf(e + cell.h, Len(bs))
        stop == bs[e].c * (100 - cell.s)
        target == bs[e].c * (100 + cell.t)
        stopped(j) == 100 * bs[j].l <= stop
        reached(j) == cell.t > 0 /\ 100 * bs[j].h >= target
        hit == {j \in (e + 1)..last : stopped(j) \/ reached(j)}
        x == IF hit = {} THEN last ELSE Min(hit)
        reason == IF hit = {} THEN "time" ELSE IF stopped(x) THEN "stop" ELSE "tp"
        px == CASE reason = "stop" -> stop [] reason = "tp" -> target
                [] reason = "time" -> 100 * bs[x].c
    IN  [e |-> e, x |-> x, px |-> px, reason |-> reason,
         net |-> Profit(1, 100 * bs[e].c, px) - Fee(1000) - Fee((1000 * px) \div (100 * bs[e].c)),
         gap |-> IF reason = "stop" THEN Max({0, stop - 100 * bs[x].o}) ELSE 0]

run_rebound(cell, bs, lo, hi) ==
    LET x == Closes(bs)
        events == find_events(x, cell.drop, lo, hi)
        signal == [i \in DOMAIN bs |-> i \in events /\ (cell.filt => i > LagH /\ x[i] >= x[i - LagH])]
        trade == [i \in 1..(hi - 1) |-> ReboundTrade(cell, bs, i + 1)]
    IN  Sequential(lo, hi - 1, 0, signal, trade)

-----------------------------------------------------------------------------
(* The series grows. *)

Reports(bs) ==
    LET n == Len(bs)
    IN  [short |-> [m \in MomentumCells |-> run_short(m, bs)],
         long |-> [m \in MomentumCells |-> run_long_mirror(m, bs)],
         pair |-> [m \in PairCells |-> run_pair(m, bs, n)],
         ratio |-> [m \in ToSet(RatioGrid) |-> run_ratio(m, bs, n)],
         funding |-> [m \in FundingCells |-> run_funding(m, bs)],
         grid |-> [m \in GridCells |-> run_grid(m, bs)],
         crash |-> [m \in CrashCells |-> run_crash(m, bs, 1, n)],
         rebound |-> [m \in CrashCells |-> run_rebound(m, bs, 1, n)]]

LegsInit == bars = FirstBars /\ legs = Reports(FirstBars)

(* The series with one bar more. *)
Longer(bs, s) ==
    LET c == Last(bs).c
    IN  Append(bs, [o |-> c + s.o, h |-> c + s.h, l |-> c + s.l, c |-> c + s.c,
                    b |-> Last(bs).b + s.b, f |-> s.f])
Continuations(bs) == {ls \in {Longer(bs, s) : s \in Shapes} : IsHour(Last(ls))}

NextHour(ls) ==
    /\ Len(bars) < MaxHours
    /\ bars' = ls
    /\ legs' = Reports(ls)

LegsNext == \E ls \in Continuations(bars) : NextHour(ls)

LegsSpec == LegsInit /\ [][LegsNext]_legsVars

-----------------------------------------------------------------------------
(* Properties. *)

(***************************************************************************)
(* "data <= i only" (h1:59): a new bar takes back no entry, and no trade   *)
(* that ended before the last bar, of any simulator; and whether an order  *)
(* is filled at its close was decided before it: another bar in its place  *)
(* has the same entries.                                                   *)
(***************************************************************************)
Entries(trades) == {trades[k].e : k \in DOMAIN trades}
Keeps(before, after) ==
    /\ Len(before) <= Len(after)
    /\ \A k \in DOMAIN before :
          /\ before[k].e = after[k].e
          /\ before[k].x < Len(bars) => before[k] = after[k]
CausalLegs ==
    Len(bars) < MaxHours =>
        \A leg \in DOMAIN legs : \A cell \in DOMAIN legs[leg] :
            LET next == {Reports(ls)[leg][cell] : ls \in Continuations(bars)}
            IN  /\ \A after \in next : Keeps(legs[leg][cell], after)
                /\ \A one, other \in next : Entries(one) = Entries(other)

(***************************************************************************)
(* The pair strategies choose on the first part of the series: beyond one  *)
(* bar to fill on, the rest of it changes neither the trades they train on *)
(* nor the configuration H4 chooses.                                       *)
(***************************************************************************)
TrainUnmoved ==
    [][ Len(bars) > Split =>
          /\ \A m \in PairCells : run_pair(m, bars', Split) = run_pair(m, bars, Split)
          /\ choose_ratio(bars') = choose_ratio(bars) ]_bars

(***************************************************************************)
(* Two loops over the same trade agree.  The grid that is marked to the    *)
(* market makes what the cycles made and has drawn down no less; a rebound *)
(* trade ends on the bar of H1's mirror, at its price but for the gaps.    *)
(***************************************************************************)
Ended(trades) == Sift(trades, {k \in DOMAIN trades : trades[k].reason # "eod"})
LoopsAgree ==
    Len(bars) = MaxHours =>
        /\ \A m \in GridCells :
              LET cycles == Ended(legs.grid[m])
                  s == mtm_curve(m, bars)
              IN  s.realised = Net(cycles) /\ s.maxdd <= Drawdown(cycles)
        /\ \A m \in CrashCells, e \in DOMAIN bars :
              LET spec == [kind |-> "A", pct |-> 0, s |-> m.s, t |-> m.t, z |-> 0,
                           cond |-> FALSE, cap |-> m.h]
                  h7 == ReboundTrade(m, bars, e)
                  h1 == MomentumTrade(1, spec, bars, <<>>, e)
              IN  /\ h7.x = h1.x
                  /\ IF h7.reason = "tp" THEN h7.px <= h1.px ELSE h7.px = h1.px + h7.gap

(***************************************************************************)
(* "no re-entry same dir until |z| < z_in" (h2:105): between a stop or the *)
(* time cap and the next trade in the same direction the score was calm.   *)
(***************************************************************************)
CalmBeforeReentry ==
    \A m \in PairCells :
        LET trades == legs.pair[m]
        IN  \A k \in 2..Len(trades) :
                trades[k - 1].reason \in {"stop", "timecap"} /\ trades[k].d = trades[k - 1].d
                  => \E t \in trades[k - 1].x..(trades[k].e - 2) :
                        Within(roll_stats(Ratio(bars), m.m, t), m.zin)
=============================================================================
