-------------------------------- MODULE Replay --------------------------------
(***************************************************************************)
(* The account of the backtest: one candidate trade after another, in the  *)
(* order of their entries, against the caps, the breaker, the sizing and   *)
(* the fees (research/jony_engine.replay_account, replay_account_v2).  A   *)
(* candidate already knows its outcome.  Version 1 books it at once, when  *)
(* it is entered; version 2 when its time of exit has come.                *)
(***************************************************************************)
EXTENDS Account, Functions, Sequences

CONSTANTS
    CbPause,  \* CB_PAUSE_HOURS, in bars
    Keep      \* recent_pnls kept: 50

ASSUME ReplayAssumption ==
    /\ CbPause \in Nat /\ Keep \in Nat \ {0}

NewAccount(equity) ==
    [equity |-> equity, peak |-> equity, dd |-> 0,
     open |-> {}, pending |-> {}, recent |-> <<>>,
     cb |-> [s \in {"P", "C"} |-> -1],
     taken |-> 0, skippedCap |-> 0, skippedCb |-> 0, skippedSize |-> 0, curve |-> <<>>]

-----------------------------------------------------------------------------
(* jony_core.size_position: the multiplier scales what is left after the cut to
   the free margin; live, it is applied before (Account.size_position). *)
(* Mutants, here and below: a definition named Bug... is a form of the one
   after it that a plausible mistake would give; no specification uses it. *)
BugCoreSize(equity, used, recent, perLot, multPct) ==
    Lots((((equity * MarginPct) \div 100) * multPct) \div (100 * dyn_divisor(recent)), perLot)
core_size_position(equity, used, recent, perLot, multPct) ==
    Lots((Least(((equity * MarginPct) \div 100) \div dyn_divisor(recent),
                FreeMargin(equity, used)) * multPct) \div 100,
         perLot)

(* The dollars of a trade of t.credit sold and bought back, after both fees. *)
ProfitOf(t, lots) ==
    LET back == (t.credit * (100 - t.pnl)) \div 100
        notional == t.strike * lots
    IN  (t.credit - back) * lots - fee_usd(notional, t.credit * lots) - fee_usd(notional, back * lots)

Booked(a, at, pnl, usd) ==
    LET equity == a.equity + usd
        peak == Greatest(a.peak, equity)
    IN  [a EXCEPT !.equity = equity, !.peak = peak,
                  !.recent = SubSeq(Append(@, pnl), Greatest(1, Len(@) + 2 - Keep), Len(@) + 1),
                  !.dd = IF peak > 0 THEN Greatest(@, (1000 * (peak - equity)) \div peak) ELSE @,
                  !.curve = Append(@, <<at, equity>>)]

Arm(a, side, pnl, exit) == IF pnl <= 0 THEN [a EXCEPT !.cb[side] = exit + CbPause] ELSE a

Position(t, size) ==
    [id |-> t.id, side |-> t.side, exit |-> t.exit, margin |-> size.margin, pnl |-> t.pnl,
     usd |-> ProfitOf(t, size.lots)]

(* The positions that still are open at the time of the entry. *)
StillOpen(a, now) == {p \in a.open : p.exit > now}
UsedMargin(a, now) ==
    LET open == StillOpen(a, now)
    IN  SumFunctionOnSet([p \in open |-> p.margin], open)

CapReached(open) == Cardinality(open) >= MaxOpen \/ Cardinality(open) >= PerCoinCap

-----------------------------------------------------------------------------
(* replay_account: the next trade. *)

replay_account(a, t) ==
    LET now == t.entry
        b == [a EXCEPT !.open = StillOpen(a, now)]
        size == core_size_position(b.equity, UsedMargin(b, now), b.recent,
                                   margin_per_lot(t.strike, t.credit, 1), t.mult)
        p == Position(t, size)
    IN  IF cb_active(b.cb[t.side], now) THEN b
        ELSE IF CapReached(b.open) THEN [b EXCEPT !.skippedCap = @ + 1]
        ELSE IF size.lots = 0 THEN b
        ELSE Arm([Booked(b, t.exit, t.pnl, p.usd)
                    EXCEPT !.taken = @ + 1, !.open = @ \cup {p}], t.side, t.pnl, t.exit)

-----------------------------------------------------------------------------
(* replay_v2. *)

SettleCb(a, p, cbAt) == IF cbAt = "exit" THEN Arm(a, p.side, p.pnl, p.exit) ELSE a
SettleOne(a, p, cbAt) == SettleCb(Booked(a, p.exit, p.pnl, p.usd), p, cbAt)

(* The heap: by exit, then by the order they were entered. *)
Precedes(p, q) == p.exit < q.exit \/ (p.exit = q.exit /\ p.id < q.id)
LastOf(s) == CHOOSE p \in s : \A q \in s \ {p} : Precedes(q, p)

(* Pops what is ripe, one after the other; popped[s] is the account with the
   positions of s settled. *)
settle(a, until, cbAt) ==
    LET ripe == {p \in a.pending : p.exit <= until}
        popped[s \in SUBSET ripe] ==
            IF s = {} THEN a ELSE SettleOne(popped[s \ {LastOf(s)}], LastOf(s), cbAt)
    IN  [popped[ripe] EXCEPT !.pending = @ \ ripe]

(* The outcome is known at the entry, and may be used there or at the exit. *)
BugBookAtEntry(creditAt) == TRUE
BookAtEntry(creditAt) == creditAt = "entry"

BugArmAtEntry(cbAt) == FALSE
ArmAtEntry(cbAt) == cbAt = "entry"

(* keyCap is per_key_cap, 0 for none. *)
replay_v2(a, t, creditAt, cbAt, keyCap) ==
    LET now == t.entry
        s == IF creditAt = "exit" THEN settle(a, now, cbAt) ELSE a
        b == [s EXCEPT !.open = StillOpen(s, now)]
        ofKey == {p \in b.open : p.side = t.side}
        size == core_size_position(b.equity, UsedMargin(b, now), b.recent,
                                   margin_per_lot(t.strike, t.credit, 1), t.mult)
        p == Position(t, size)
        entered == [b EXCEPT !.taken = @ + 1, !.open = @ \cup {p}]
        armed == IF ArmAtEntry(cbAt) THEN Arm(entered, t.side, t.pnl, t.exit) ELSE entered
    IN  IF cb_active(b.cb[t.side], now) THEN [b EXCEPT !.skippedCb = @ + 1]
        ELSE IF CapReached(b.open) \/ (keyCap > 0 /\ Cardinality(ofKey) >= keyCap)
          THEN [b EXCEPT !.skippedCap = @ + 1]
        ELSE IF size.lots = 0 THEN [b EXCEPT !.skippedSize = @ + 1]
        ELSE IF BookAtEntry(creditAt) THEN Booked(armed, t.exit, t.pnl, p.usd)
        ELSE [armed EXCEPT !.pending = @ \cup {p}]
=============================================================================
