------------------------------- MODULE Account -------------------------------
(***************************************************************************)
(* The rules of the account as functions: sizing, caps, fees, the account  *)
(* breaker, the posture in force, the trail and the close policy           *)
(* (services/portfolio.py, core/close_policy.py).  Money and prices are    *)
(* integers, fractions are integers over One or, for the budget and the    *)
(* fees, percent and per ten thousand, so that every comparison is exact.  *)
(***************************************************************************)
EXTENDS Integers, FiniteSets, FiniteSetsExt, Functions, Sequences

CONSTANTS
    One,                  \* the fraction 1.0
    TrailArm, TrailGiveback, EndgameMinProfit, EmergencyLoss,
    EndgameFracPct,       \* ENDGAME_FRAC, in percent
    LockdownStale, AdvisorStale, \* hours (in the module's unit of time); 0 = off
    DailyPct, WeeklyPct,  \* ACCT_CB_*_PCT, in percent of equity
    Day, Week,            \* 24 h and 7 d
    StreakN, StreakBlock, \* ACCT_CB_STREAK_*
    MaxOpen, PerCoinCap, PerKeyCap,
    MarginPct, PortMarginPct, ImPct, \* MARGIN_PCT_PER_TRADE, PORT_MARGIN_CAP, IM_RATE
    DynWindow, DynFloorPct, \* the last 10 trades, DYN_SIZE_WR_FLOOR
    FeeRate, FeeCapPct,   \* FEE_RATE per 10000, FEE_CAP_OF_PREMIUM in percent
    SlCapPct,             \* SL_EQUITY_CAP_PCT; 0 = off
    NearHighPct, NearHighMultPct \* NEAR_HIGH_PCT; 0 = off

ASSUME AccountAssumption ==
    /\ One \in Nat \ {0}
    /\ TrailArm \in Nat /\ TrailGiveback \in Nat /\ EndgameMinProfit \in Nat
    /\ EmergencyLoss \in Int /\ EndgameFracPct \in 1..100
    /\ LockdownStale \in Nat /\ AdvisorStale \in Nat
    /\ DailyPct \in Nat /\ WeeklyPct \in Nat /\ Day \in Nat /\ Week \in Nat
    /\ StreakN \in Nat \ {0} /\ StreakBlock \in Nat
    /\ MaxOpen \in Nat /\ PerCoinCap \in Nat /\ PerKeyCap \in Nat
    /\ MarginPct \in Nat /\ PortMarginPct \in Nat /\ ImPct \in Nat
    /\ DynWindow \in Nat \ {0} /\ DynFloorPct \in 0..100
    /\ FeeRate \in Nat /\ FeeCapPct \in Nat /\ SlCapPct \in Nat
    /\ NearHighPct \in Nat /\ NearHighMultPct \in 1..100

Least(a, b) == IF a <= b THEN a ELSE b
Greatest(a, b) == IF a >= b THEN a ELSE b
Magnitude(x) == Greatest(x, -x)

-----------------------------------------------------------------------------
(* Money. *)

fee_usd(notional, premium) ==
    Least((notional * FeeRate) \div 10000, (Magnitude(premium) * FeeCapPct) \div 100)

(* The profits (fractions) of the last trades, oldest first.  The factor is 1
   or 1/2; it is returned as its inverse. *)
dyn_divisor(recent) ==
    LET tail == (Len(recent) - DynWindow + 1)..Len(recent)
        wins == {i \in tail : recent[i] > 0}
    IN  IF Len(recent) >= DynWindow /\ Cardinality(wins) * 100 < DynFloorPct * DynWindow
        THEN 2 ELSE 1

margin_per_lot(strike, premium, lot) == ((ImPct * strike + 100 * premium) * lot) \div 100

NoSize == [lots |-> 0, margin |-> 0]
Lots(budget, perLot) ==
    IF perLot <= 0 \/ budget < perLot THEN NoSize
    ELSE [lots |-> budget \div perLot, margin |-> (budget \div perLot) * perLot]

FreeMargin(equity, used) == Greatest(0, (equity * PortMarginPct) \div 100 - used)

(* size_position: the extra multiplier (percent) scales the budget of the trade
   before it is cut to the free margin. *)
size_position(equity, used, recent, perLot, multPct) ==
    Lots(Least((((equity * MarginPct) \div 100) * multPct) \div (100 * dyn_divisor(recent)),
               FreeMargin(equity, used)),
         perLot)

(* A stop never loosened, and cut to a share of the equity in dollars. *)
sl_pct_effective(sl, equity, credit, qty) ==
    IF SlCapPct = 0 \/ equity <= 0 \/ credit <= 0 \/ qty <= 0 THEN sl
    ELSE Least(sl, (SlCapPct * equity * One) \div (100 * credit * qty))

(* distance is in percent below the high of seven days; Unknown when None. *)
Unknown == -1
near_high_mult(side, below) ==
    IF NearHighPct > 0 /\ side = "P" /\ below # Unknown /\ below < NearHighPct
    THEN NearHighMultPct ELSE 100

-----------------------------------------------------------------------------
(* Gates of an entry. *)

cb_active(until, now) == now < until

CapBlocks(open, coin, side) ==
    \/ Cardinality(open) >= MaxOpen
    \/ Cardinality({p \in open : p.coin = coin}) >= PerCoinCap
    \/ Cardinality({p \in open : p.coin = coin /\ p.side = side}) >= PerKeyCap
can_open(open, coin, side) == ~CapBlocks(open, coin, side)

(* Closed strategy trades are records with id, age (now - closed_at_ms) and
   pnl.  Sorted by time and then by profit, the last StreakN are those with
   fewer than StreakN behind them. *)
Behind(r, closed) ==
    {s \in closed : \/ s.age < r.age
                    \/ s.age = r.age /\ s.pnl > r.pnl
                    \/ s.age = r.age /\ s.pnl = r.pnl /\ s.id > r.id}
LastClosed(closed) == {r \in closed : Cardinality(Behind(r, closed)) < StreakN}
Realized(closed, window) ==
    LET within == {r \in closed : r.age <= window}
    IN  SumFunctionOnSet([r \in within |-> r.pnl], within)
LosingStreak(closed) ==
    LET tail == LastClosed(closed) IN
    /\ Cardinality(tail) = StreakN
    /\ \A r \in tail : r.pnl < 0
    /\ \E r \in tail : Behind(r, closed) = {} /\ r.age <= StreakBlock

(* account_breaker: a reason to block, or none. *)
account_breaker(closed, equity) ==
    \/ equity <= 0
    \/ 100 * Realized(closed, Day) <= -(DailyPct * equity)
    \/ 100 * Realized(closed, Week) <= -(WeeklyPct * equity)
    \/ LosingStreak(closed)

-----------------------------------------------------------------------------
(* Postures and early exits. *)

Postures == {"normal", "tight", "lockdown"}

(* age: time since posture_updated_ms; Never when that is 0 and the posture was
   never written. *)
Never == -1
(* Mutants, here and below: a definition named Bug... is a form of the one
   after it that a plausible mistake would give; no specification uses it. *)
BugSilentNormal(posture, age) ==   \* a mutant: as before 2026-09-02
    IF posture = "lockdown" /\ age > LockdownStale THEN "tight" ELSE posture
effective_posture(posture, age) ==
    IF posture = "lockdown" /\ age > LockdownStale THEN "tight"
    ELSE IF posture = "normal" /\ AdvisorStale > 0 /\ age > AdvisorStale THEN "tight"
    ELSE posture

trail_exit_due(peak, pnl) == peak >= TrailArm /\ pnl <= peak - TrailGiveback

endgame_ok(pnl, held, hold) ==
    hold > 0 /\ pnl >= EndgameMinProfit /\ 100 * held >= EndgameFracPct * hold

emergency_ok(pnl, itm) == itm /\ pnl <= EmergencyLoss
=============================================================================
