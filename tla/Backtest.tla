------------------------------- MODULE Backtest -------------------------------
(***************************************************************************)
(* The backtest of one coin from prices to accounts: bars arrive, the      *)
(* gates of the engine open on some (build_coin_base, evaluate_gates), a   *)
(* cooldown thins them to candidate trades with an outcome (coin_trades,   *)
(* simulate_option_exit), and three accounts replay the candidates: the    *)
(* old one, version 2 as its self check runs it, and version 2 as it is    *)
(* meant.  The scripts do it one pass after the other; no pass looks ahead *)
(* of the bar it is at, which CausalGates says of the first, so here they  *)
(* go bar by bar.  Time is counted in bars.                                *)
(***************************************************************************)
EXTENDS Gates, Replay

CONSTANTS
    Prices,        \* closes a bar can have
    Warmups,       \* series to begin with
    MaxBars,       \* bound: length of the series
    Cooldown,      \* COOLDOWN_BARS
    HoldBars,      \* per side: hold_h, in bars
    Tp2Pct, SlPct, \* per side: tp2_pct and sl_pct, percent
    Touches,       \* what a bar's extreme prices may reach: sets of "sl", "vol_stop", "tp2"
    OtherPnls,     \* profits, percent, of an exit at a bar's close
    Credit,        \* premium sold, in the unit of the strike
    Mults,         \* size_mult_fn, percent
    StartEquity,
    KeyCap         \* per_key_cap of the account that is meant; 0 = none

ASSUME BacktestAssumption ==
    /\ Prices \subseteq Nat \ {0} /\ Warmups \subseteq Seq(Prices)
    /\ {MaxBars, Cooldown, Credit, StartEquity, KeyCap} \subseteq Nat
    /\ HoldBars \in [{"P", "C"} -> Nat \ {0}]
    /\ Tp2Pct \in [{"P", "C"} -> 1..100] /\ SlPct \in [{"P", "C"} -> Nat \ {0}]
    /\ Touches \subseteq SUBSET {"sl", "vol_stop", "tp2"} /\ OtherPnls \subseteq Int
    /\ Mults \subseteq 1..100

VARIABLES
    closes,     \* the series so far
    todo,       \* sides whose gates are open at its last bar, not looked at
    cool,       \* cooldown_until of coin_trades
    n,          \* candidates so far
    now,        \* entry time of the last one
    v1, v2entry, v2, \* the accounts
    entered     \* history: positions that v2 took

accounts == <<v1, v2entry, v2, entered>>
vars == <<closes, todo, cool, n, now, accounts>>

Init ==
    /\ closes \in Warmups
    /\ todo = {} /\ cool = [s \in {"P", "C"} |-> -1]
    /\ n = 0 /\ now = 0
    /\ v1 = NewAccount(StartEquity) /\ v2entry = v1 /\ v2 = v1 /\ entered = {}

(* Bars left in the series to hold a position for. *)
Forward(side, i) == Least(HoldBars[side], MaxBars - i)

(* The first bar that reaches a stop or the target, a stop before a target on
   the same bar; otherwise the last one. *)
simulate_option_exit(side, i, touched, other) ==
    LET hit == {k \in DOMAIN touched : touched[k] # {}}
        k == IF hit = {} THEN Len(touched) ELSE Min(hit)
        pnl == IF hit = {} THEN other
               ELSE IF "sl" \in touched[k] THEN -SlPct[side]
               ELSE IF "vol_stop" \in touched[k] THEN other
               ELSE Tp2Pct[side]
    IN  [exit |-> i + k, pnl |-> pnl]

Outcomes(side, i) ==
    {simulate_option_exit(side, i, touched, other) :
        touched \in TupleOf(Touches, Forward(side, i)), other \in OtherPnls}

Ready(series, i) == evaluate_gates(build_coin_base(series, i, TRUE))

NextBar(c) ==
    /\ todo = {} /\ Len(closes) < MaxBars
    /\ closes' = Append(closes, c)
    /\ todo' = Ready(closes', Len(closes'))
    /\ UNCHANGED <<cool, n, now, accounts>>

Replayed(t) ==
    /\ v1' = replay_account(v1, t)
    /\ v2entry' = replay_v2(v2entry, t, "entry", "entry", 0)
    /\ v2' = replay_v2(v2, t, "exit", "exit", KeyCap)
    /\ entered' = entered \cup {p \in v2'.pending : p.id = t.id}

(* The next open gate: in its cooldown; without an outcome, for want of a
   premium or of bars, but with its cooldown; or a trade. *)
Candidate ==
    LET side == FirstOf(todo)
        i == Len(closes)
    IN  /\ todo # {} /\ todo' = todo \ {side}
        /\ IF i < cool[side] THEN UNCHANGED <<cool, n, now, accounts>>
           ELSE /\ cool' = [cool EXCEPT ![side] = i + Cooldown]
                /\ \/ UNCHANGED <<n, now, accounts>>
                   \/ \E out \in Outcomes(side, i), mult \in Mults :
                        /\ Forward(side, i) > 0
                        /\ n' = n + 1 /\ now' = i
                        /\ Replayed([id |-> n', side |-> side, entry |-> i, exit |-> out.exit,
                                     pnl |-> out.pnl, strike |-> Last(closes),
                                     credit |-> Credit, mult |-> mult])
        /\ UNCHANGED closes

(* After the last trade version 2 settles what is pending. *)
Finish ==
    /\ todo = {} /\ Len(closes) = MaxBars /\ v2.pending # {}
    /\ now' = 2 * MaxBars
    /\ v2' = settle(v2, now', "exit")
    /\ UNCHANGED <<closes, todo, cool, n, v1, v2entry, entered>>

Next == Candidate \/ Finish \/ \E c \in Prices : NextBar(c)

Spec == Init /\ [][Next]_vars

-----------------------------------------------------------------------------
(* Properties. *)

(***************************************************************************)
(* With feature_lag, a new bar changes nothing of what the gates said of   *)
(* those before it: no candle gives away its close before its end          *)
(* ("features become available at bar END", jony_engine.py:185).           *)
(***************************************************************************)
CausalGates ==
    LET i == Len(closes)
        before == Front(closes)
    IN  now < i =>  \* nothing was entered at this bar yet
          \A k \in Max({1, i - PerH + 1})..(i - 1) : Ready(closes, k) = Ready(before, k)

(***************************************************************************)
(* When the candles of all time frames end together, every series is long  *)
(* enough and none longer than what live asks for, and both rank the       *)
(* volatility alike, the loop enters the first of the sides the engine     *)
(* finds ("produces the same gate decisions", jony_engine.py:2).  The port *)
(* of jony_core, given thresholds that are nowhere lower, never finds an   *)
(* entry where the loop has none.                                          *)
(***************************************************************************)
GateParity ==
    LET i == Len(closes)
        base == build_coin_base(closes, i, FALSE)
        together == i % PerH = 0 /\ i % PerQ = 0
        warm == i > Bars7d /\ i >= Min15 * PerQ /\ i >= Min1h * PerH /\ i <= Hist
        alike == \A s \in Permitted : rolling_high(base, s) = VolHigh(base.rv1h, 0, VolPct[s])
        stricter == \A s \in Permitted \ Switched :
                        CoreVolPct[s] >= VolPct[s] /\ CoreRegimes[s] \subseteq Regimes[s]
    IN  now < i /\ together /\ warm =>  \* nothing was entered at this bar yet
        /\ alike => evaluate_conditions(closes) = FirstOf(evaluate_gates(base))
        /\ Switched = {} /\ stricter /\ core_evaluate_conditions(closes) # None
              => evaluate_conditions(closes) # None

(***************************************************************************)
(* Version 2 run in the order of version 1 is version 1 (_selfcheck).      *)
(***************************************************************************)
SelfCheck ==
    /\ v1.equity = v2entry.equity /\ v1.dd = v2entry.dd /\ v1.curve = v2entry.curve
    /\ v1.taken = v2entry.taken /\ v1.skippedCap = v2entry.skippedCap

(***************************************************************************)
(* Version 2 decides on what is known at the entry: its equity and the     *)
(* profits it sizes by are those of the trades whose exit has come, and    *)
(* its breaker is on for the pause after the exit of a losing one.         *)
(***************************************************************************)
CausalBook ==
    LET over == {p \in entered : p.exit <= now}
    IN  /\ v2.equity = StartEquity + SumFunctionOnSet([p \in over |-> p.usd], over)
        /\ Len(v2.recent) = Least(Keep, Cardinality(over))
        /\ \A s \in {"P", "C"} :
             cb_active(v2.cb[s], now)
                <=> \E p \in over : p.side = s /\ p.pnl <= 0 /\ now < p.exit + CbPause

(***************************************************************************)
(* A trade is only entered with margin that is free: with it, all that is  *)
(* open takes no more than its share of the equity known then.             *)
(***************************************************************************)
MarginWithinCap ==
    [][ v2'.taken > v2.taken
          => 100 * UsedMargin(v2', now') <= PortMarginPct * v2'.equity ]_vars
=============================================================================
