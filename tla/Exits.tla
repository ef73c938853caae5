-------------------------------- MODULE Exits --------------------------------
(***************************************************************************)
(* The exit pass of the loop (loop.manage_exits): once a minute every open *)
(* position is looked at, in the order of its id, and an exit that is due  *)
(* is requested, put off or, after expiry, settled.  The pass works on a   *)
(* posture and an account it has read before, while the advisor, the clock *)
(* and the orders it sent go on; and it can end at any step, by an         *)
(* exception or with the process.  How an order lives is OrderExec's; here *)
(* it is out with a reason, and fills, ends unfilled or stays.  Time goes  *)
(* by in ticks of the loop: the pass falls on whichever tick finds its     *)
(* minute new, so two passes may be more or less than a minute apart.      *)
(***************************************************************************)
EXTENDS Account

CONSTANTS
    Pos,             \* ids of positions
    Advised,         \* those opened for the advisor (is_advisor_position)
    OpenFor,         \* how long each has been open at the start
    None,
    MinuteTicks,     \* ticks in a minute
    Hold, Life,      \* hold_h; time to expiry, both from the opening, in ticks
    RecordWait,      \* SETTLE_RECORD_WAIT_MIN, in ticks
    Defer,           \* EXIT_DEFER_MAX_MIN, in minutes
    CloseMax,        \* CLOSE_MAX_ATTEMPTS
    Tp2, Sl,         \* tp2_pct, sl_pct
    Epsilon,         \* the 0.005 below which a new peak is not written
    RequireEndgame,  \* TRAIL_REQUIRE_ENDGAME
    StartEquity,
    Marks,           \* profits the quotes can show
    Fills,            \* profits a close can realise
    Written          \* postures the advisor writes

Reasons == {"tp2", "sl", "time_stop", "lockdown_profit_lock", "trail_lock",
            "expiry_settle"}

ASSUME ExitsAssumption ==
    /\ Pos \subseteq Nat /\ IsFiniteSet(Pos) /\ Advised \subseteq Pos
    /\ None \notin Nat \cup Reasons \cup Postures
    /\ OpenFor \in [Pos -> 0..(Life + RecordWait)]
    /\ Hold \in Nat \ {0} /\ Life \in Nat /\ Hold < Life
    /\ MinuteTicks \in Nat \ {0}
    /\ RecordWait \in Nat /\ Defer \in Nat \ {0} /\ CloseMax \in Nat \ {0}
    /\ Tp2 \in Int /\ Sl \in Int /\ Epsilon \in Nat /\ RequireEndgame \in BOOLEAN
    /\ Written \subseteq Postures /\ StartEquity \in Nat /\ Marks \subseteq Int /\ Fills \subseteq Int
    /\ LockdownStale >= AdvisorStale

VARIABLES
    live,            \* executor.live
    row,             \* table positions: status, age (since the opening, then
                     \* since the close), peak, attempts and realised profit
    order,           \* reason of the close order that is out, or None
    acct,            \* bot_state: equity, keys (positions) with a breaker armed
    posture, heard,  \* risk_posture and the age of its update
    tx,              \* writes of the connection that are not committed
    pc, todo, mode,  \* the pass: where it is, positions ahead, posture it took
    copy,            \* the loop's `state`, a copy of bot_state
    due,             \* this minute's pass has not begun (last_exit_min)
    second,          \* where in its minute the clock is, in ticks
    deferred,        \* _exit_deferred_since: age of the timer in ticks, or None
    lag,             \* history: highest profit seen in a pass, above the peak kept
    delay            \* history: passes of this process that put off an overdue exit

table == <<row, order, acct>>
memory == <<pc, todo, mode, copy, due, deferred>>
vars == <<live, second, table, posture, heard, tx, memory, lag, delay>>

Statuses == {"open", "closed_tp2", "closed_sl", "closed_time", "closed_trail"}
StatusOf == [r \in Reasons |->
    CASE r = "tp2" -> "closed_tp2" [] r = "sl" -> "closed_sl"
      [] r \in {"time_stop", "expiry_settle"} -> "closed_time"
      [] OTHER -> "closed_trail"]

Oldest == Life + RecordWait
LongAgo == Week + 1
MaxWait == Defer * MinuteTicks
Silence == LockdownStale + 1

NoTx == [pos |-> None, reason |-> "sl", pnl |-> 0, via |-> "poll"]

TypeOK ==
    /\ live \in BOOLEAN
    /\ row \in [Pos -> [st : Statuses, age : Nat, peak : Nat, attempts : 0..CloseMax, pnl : Int]]
    /\ \A p \in Pos : row[p].age <= IF row[p].st = "open" THEN Oldest ELSE LongAgo
    /\ order \in [Pos -> Reasons \cup {None}]
    /\ acct \in [equity : Int, armed : SUBSET Pos] /\ copy \in [equity : Int, armed : SUBSET Pos]
    /\ posture \in Postures /\ heard \in Never..Silence
    /\ tx \in [pos : Pos \cup {None}, reason : Reasons, pnl : Int, via : {"poll", "fill", "settle"}]
    /\ pc \in {"idle", "pass", "booking"} /\ (pc = "booking" <=> tx.pos # None)
    /\ todo \subseteq Pos /\ mode \in Postures \cup {None} /\ (mode = None => todo = {})
    /\ due \in BOOLEAN /\ second \in 0..(MinuteTicks - 1)
    /\ deferred \in [Pos -> 0..MaxWait \cup {None}]
    /\ lag \in [Pos -> Int] /\ delay \in [Pos -> Nat]

NewRow(p) == [st |-> "open", age |-> OpenFor[p], peak |-> 0, attempts |-> 0, pnl |-> 0]
Nobody == [p \in Pos |-> None]

Init ==
    /\ live \in BOOLEAN
    /\ row = [p \in Pos |-> NewRow(p)] /\ order = Nobody
    /\ acct = [equity |-> StartEquity, armed |-> {}] /\ copy = acct
    /\ posture = "normal" /\ heard = Never
    /\ tx = NoTx /\ pc = "idle" /\ todo = {} /\ mode = None
    /\ due = TRUE /\ second \in 0..(MinuteTicks - 1) /\ deferred = Nobody
    /\ lag = [p \in Pos |-> 0] /\ delay = [p \in Pos |-> 0]

-----------------------------------------------------------------------------
(* The book as the loop reads it. *)

Open == {p \in Pos : row[p].st = "open"}
Expired(p) == row[p].age >= Life
Overdue(p) == row[p].age >= Hold

(* closed_pnls: outcomes of the strategy, not the harvests. *)
closed_pnls ==
    {[id |-> p, age |-> row[p].age, pnl |-> row[p].pnl] :
        p \in {q \in Pos : row[q].st \in {"closed_tp2", "closed_sl", "closed_time"}}}

(* The breaker floors the exits to tight, it closes nothing. *)
PostureNow ==
    LET eff == effective_posture(posture, heard) IN
    IF eff = "normal" /\ account_breaker(closed_pnls, copy.equity) THEN "tight" ELSE eff

-----------------------------------------------------------------------------
(* The pass. *)

Here(p) == pc = "pass" /\ p \in todo /\ \A q \in todo : p <= q

(* An empty book is no pass at all: it forgets the timers. *)
BeginPass ==
    /\ pc = "idle" /\ due /\ due' = FALSE
    /\ IF Open = {}
         THEN deferred' = Nobody /\ UNCHANGED <<pc, todo, mode, copy>>
         ELSE /\ pc' = "pass" /\ todo' = Open /\ copy' = acct
              /\ mode' = PostureNow
              /\ UNCHANGED deferred
    /\ UNCHANGED <<live, second, table, posture, heard, tx, lag, delay>>

(* Mutants, here and below: a definition named Bug... is a form of the one
   after it that a plausible mistake would give; no specification uses it. *)

(* The next position is done with. *)
Done(p) == todo' = todo \ {p} /\ UNCHANGED mode

InFlight(p) ==
    /\ Here(p) /\ order[p] # None /\ Done(p)
    /\ UNCHANGED <<live, second, table, posture, heard, tx, pc, copy, due, deferred,
                   lag, delay>>

(* _close writes the row first; the account follows in the same transaction. *)
BeginBooking(p, reason, pnl, via) ==
    /\ pc' = "booking"
    /\ tx' = [pos |-> p, reason |-> reason, pnl |-> pnl, via |-> via]

(* _settle_expired_live, or the intrinsic value when a paper position has no
   quote: no answer, still on the exchange, no record yet, no spot price; or
   the result is booked.  Without a record the spot price must do, after a
   while. *)
SpotWillDo(p) == ~live \/ row[p].age >= Oldest

SettleFrom(p, record) ==
    /\ Here(p) /\ order[p] = None /\ Expired(p) /\ Done(p)
    /\ record \/ SpotWillDo(p)
    /\ \E pnl \in Fills : BeginBooking(p, "expiry_settle", pnl, "settle")
    /\ UNCHANGED <<live, second, table, posture, heard, copy, due, deferred, lag, delay>>

SettleLater(p) ==
    /\ Here(p) /\ order[p] = None /\ Expired(p) /\ Done(p)
    /\ UNCHANGED <<live, second, table, posture, heard, tx, pc, copy, due, deferred, lag,
                   delay>>

(* No quote: nothing happens, the timer of a deferral runs on. *)
NoQuote(p) ==
    /\ Here(p) /\ order[p] = None /\ ~Expired(p) /\ Done(p)
    /\ UNCHANGED <<live, second, table, posture, heard, tx, pc, copy, due, deferred, lag,
                   delay>>

(* The peak is kept in every posture, and written when it rises enough. *)
BugPeakAfter(p, pnl) == IF mode # "normal" /\ pnl > row[p].peak + Epsilon THEN pnl ELSE row[p].peak
PeakAfter(p, pnl) == IF pnl > row[p].peak + Epsilon THEN pnl ELSE row[p].peak

update_peak_profit(p, pnl) == [row[p] EXCEPT !.peak = PeakAfter(p, pnl)]

BugRipe(p, pnl) == TRUE
Ripe(p, pnl) == RequireEndgame => endgame_ok(pnl, row[p].age, Hold)

Trailing(p) == mode \in {"tight", "lockdown"} \/ p \in Advised

ExitReason(p, pnl) ==
    IF pnl >= Tp2 THEN "tp2"
    ELSE IF pnl <= -Sl THEN "sl"
    ELSE IF Overdue(p) THEN "time_stop"
    ELSE IF mode = "lockdown" /\ endgame_ok(pnl, row[p].age, Hold) THEN "lockdown_profit_lock"
    ELSE IF /\ Trailing(p)
            /\ trail_exit_due(Greatest(row[p].peak, pnl), pnl)
            /\ Ripe(p, pnl) THEN "trail_lock"
    ELSE None

(* setdefault: the timer of a deferral starts once. *)
BugSince(p) == 0
Since(p) == IF deferred[p] = None THEN 0 ELSE deferred[p]

PutsOff(p, reason, wide) ==
    wide /\ reason \in {"tp2", "time_stop"} /\ ~Expired(p) /\ Since(p) < MaxWait

Exhausted(r) == r.attempts >= CloseMax

(* How the first call about an order ends: on paper it fills at the price it
   has; on the exchange it is refused, stays out, or fills.  An order for more
   than the exchange has is not sent, and ends like one that is refused. *)
PaperExecutor == {"fills"}
LiveExecutor == {"refused", "rests", "fills"}
Answers == IF live THEN LiveExecutor ELSE PaperExecutor

set_closing(r) == [r EXCEPT !.attempts = @ + 1]

(* _request_close, first advance included, unless the attempts are used up. *)
RequestClose(p, reason, noted) ==
    \/ /\ Exhausted(noted)
       /\ row' = [row EXCEPT ![p] = noted]
       /\ UNCHANGED <<order, tx, pc>>
    \/ /\ ~Exhausted(noted)
       /\ row' = [row EXCEPT ![p] = set_closing(noted)]
       /\ \E answer \in Answers :
            /\ order' = IF answer = "refused" THEN order ELSE [order EXCEPT ![p] = reason]
            /\ IF answer = "fills" THEN \E pnl \in Fills : BeginBooking(p, reason, pnl, "fill")
                                   ELSE UNCHANGED <<tx, pc>>

Overtakes(p, pnl, noted) == Greatest(row[p].peak + lag[p], pnl) - noted.peak

(* External: a contract leaves the quotes some time after its expiry. *)
Listed(p) == row[p].age < Oldest

(* A position with a mark that shows profit pnl; wide is spread_abnormal. *)
Quoted(p, pnl, wide) ==
    LET noted == update_peak_profit(p, pnl)
        reason == ExitReason(p, pnl)
    IN /\ Here(p) /\ order[p] = None /\ ~(live /\ Expired(p)) /\ Done(p)
       /\ Listed(p)
       /\ lag' = [lag EXCEPT ![p] = Overtakes(p, pnl, noted)]
       /\ IF reason # None /\ PutsOff(p, reason, wide)
            THEN /\ row' = [row EXCEPT ![p] = noted]
                 /\ deferred' = [deferred EXCEPT ![p] = Since(p)]
                 /\ delay' = [delay EXCEPT ![p] = IF Overdue(p) THEN @ + 1 ELSE @]
                 /\ UNCHANGED <<order, tx, pc>>
            ELSE /\ IF reason = None
                      THEN row' = [row EXCEPT ![p] = noted] /\ UNCHANGED <<order, tx, pc>>
                      ELSE RequestClose(p, reason, noted)
                 /\ deferred' = [deferred EXCEPT ![p] = None]
                 /\ delay' = [delay EXCEPT ![p] = 0]
       /\ UNCHANGED <<live, second, acct, posture, heard, copy, due>>

EndPass ==
    /\ pc = "pass" /\ todo = {} /\ pc' = "idle" /\ mode' = None
    /\ UNCHANGED <<live, second, table, posture, heard, tx, todo, copy, due, deferred,
                   lag, delay>>

(* A call of the exchange or the database raises: the rest of the pass waits
   for the next minute; a tick begins with the account read again. *)
PassRaises ==
    /\ pc = "pass" /\ pc' = "idle"
    /\ todo' = {} /\ mode' = None /\ copy' = acct
    /\ UNCHANGED <<live, second, table, posture, heard, tx, due, deferred, lag, delay>>

-----------------------------------------------------------------------------
(* Booking. *)

Protective(reason) == StatusOf[reason] = "closed_trail"

close_position(r, status, pnl) == [r EXCEPT !.st = status, !.age = 0, !.pnl = pnl]

(* A fill starts from bot_state as it is, a settlement from the loop's copy,
   which is read again after every close. *)
BugRefreshed(old) == old
Refreshed(old) == acct'

Absorb ==
    LET base == IF tx.via = "settle" THEN copy ELSE acct IN
    /\ pc = "booking" /\ tx' = NoTx
    /\ row' = [row EXCEPT ![tx.pos] = close_position(@, StatusOf[tx.reason], tx.pnl)]
    /\ order' = [order EXCEPT ![tx.pos] = None]
    /\ acct' = [equity |-> base.equity + tx.pnl,
                armed |-> IF tx.pnl <= 0 /\ ~Protective(tx.reason)
                          THEN base.armed \cup {tx.pos} ELSE base.armed]
    /\ copy' = IF tx.via = "poll" THEN acct' ELSE Refreshed(copy)
    /\ pc' = IF tx.via = "poll" THEN "idle" ELSE "pass"
    /\ deferred' = [deferred EXCEPT ![tx.pos] = None]
    /\ UNCHANGED <<live, second, posture, heard, todo, mode, due, lag, delay>>

(* Booking raises and rolls back.  The loop goes on with the pass when the
   order can be booked on a later tick; a settlement takes the pass with it. *)
BookingRaises ==
    /\ pc = "booking" /\ tx' = NoTx
    /\ pc' = IF tx.via = "fill" THEN "pass" ELSE "idle"
    /\ todo' = IF tx.via = "fill" THEN todo ELSE {}
    /\ mode' = IF tx.via = "fill" THEN mode ELSE None
    /\ copy' = IF tx.via = "fill" THEN copy ELSE acct
    /\ UNCHANGED <<live, second, table, posture, heard, due, deferred, lag, delay>>

(* process_orders: a close that is out has filled, or ended unfilled. *)
PollFills(p) ==
    /\ pc = "idle" /\ order[p] # None
    /\ \E pnl \in Fills : BeginBooking(p, order[p], pnl, "poll")
    /\ UNCHANGED <<live, second, table, posture, heard, todo, mode, copy, due, deferred,
                   lag, delay>>

PollNoFill(p) ==
    /\ pc = "idle" /\ order[p] # None /\ live
    /\ order' = [order EXCEPT ![p] = None]
    /\ UNCHANGED <<live, second, row, acct, posture, heard, tx, memory, lag, delay>>

-----------------------------------------------------------------------------
(* The clock, the advisor, the operator, the process. *)

Grown(a, most) == IF a < most THEN a + 1 ELSE a

(* A tick later; the first of a minute leaves its pass due. *)
Tick ==
    /\ pc = "idle" /\ second' = (second + 1) % MinuteTicks
    /\ due' = (due \/ second' = 0)
    /\ row' = [p \in Pos |-> [row[p] EXCEPT !.age =
                   Grown(@, IF row[p].st = "open" THEN Oldest ELSE LongAgo)]]
    /\ deferred' = [p \in Pos |-> IF deferred[p] = None THEN None ELSE Grown(deferred[p], MaxWait)]
    /\ heard' = IF heard = Never THEN Never ELSE Grown(heard, Silence)
    /\ UNCHANGED <<live, order, acct, posture, tx, pc, todo, mode, copy, lag, delay>>

SetPosture(s) ==
    /\ posture' = s /\ heard' = 0
    /\ UNCHANGED <<live, second, table, tx, memory, lag, delay>>

(* POST /exec/unhalt gives blocked exits their attempts back. *)
Unhalt ==
    /\ \E p \in Open : row[p].attempts = CloseMax
    /\ row' = [p \in Pos |-> IF p \in Open THEN [row[p] EXCEPT !.attempts = 0] ELSE row[p]]
    /\ UNCHANGED <<live, second, order, acct, posture, heard, tx, memory, lag, delay>>

Crash ==
    /\ tx' = NoTx /\ pc' = "idle" /\ todo' = {} /\ mode' = None /\ copy' = acct
    /\ due' = TRUE /\ deferred' = Nobody /\ delay' = [p \in Pos |-> 0]
    /\ UNCHANGED <<live, second, table, posture, heard, lag>>

-----------------------------------------------------------------------------
Step(p) ==
    \/ InFlight(p) \/ SettleLater(p) \/ NoQuote(p)
    \/ \E record \in BOOLEAN : SettleFrom(p, record)
    \/ \E pnl \in Marks, wide \in BOOLEAN : Quoted(p, pnl, wide)

Loop ==
    \/ BeginPass \/ EndPass \/ PassRaises \/ Absorb \/ BookingRaises
    \/ \E p \in Pos : Step(p) \/ PollFills(p) \/ PollNoFill(p)

Next ==
    \/ Loop
    \/ Tick \/ Unhalt \/ Crash
    \/ \E s \in Written : SetPosture(s)

Spec == Init /\ [][Next]_vars

-----------------------------------------------------------------------------
(* Properties. *)

(***************************************************************************)
(* A closed position and its profit are in the book together: whatever is  *)
(* raised, rolled back or lost on the way, the equity is the start and the *)
(* profit of every closed row, and the breaker of a key is armed exactly   *)
(* by a loss that was not a harvest (_close, _finalize).                   *)
(***************************************************************************)
BookedTogether ==
    LET closed == Pos \ Open
        pnl == [p \in Pos |-> row[p].pnl]
    IN /\ acct.equity = StartEquity + SumFunctionOnSet(pnl, closed)
       /\ acct.armed = {p \in closed : pnl[p] <= 0 /\ row[p].st # "closed_trail"}

(***************************************************************************)
(* What a close of the pass may be for, unless the trail is allowed before *)
(* the endgame: young profit is left alone in every posture, a harvest     *)
(* needs a posture that is in force, or a position of the advisor, and in  *)
(* lockdown the trail is out of reach ("unreachable in lockdown",          *)
(* loop.py:227).                                                           *)
(***************************************************************************)
HarvestsByPolicy ==
    [][ \A p \in Pos :
          LET asked == order[p] = None /\ order'[p] \in {"trail_lock", "lockdown_profit_lock"}
          IN RequireEndgame /\ asked =>
                      /\ 100 * row[p].age >= EndgameFracPct * Hold
                      /\ mode # "normal" \/ p \in Advised
                      /\ mode = "lockdown" <=> order'[p] = "lockdown_profit_lock" ]_vars

(***************************************************************************)
(* An exit whose time has come is put off by an abnormal book while less   *)
(* than Defer minutes have gone by since it was put off first              *)
(* (loop.py:252-253).  A pass is made once a minute, but not always at the *)
(* same second of it, so that is Defer + 1 passes at most; a restart,      *)
(* which forgets the timer, allows as many again.                          *)
(***************************************************************************)
OverdueWaits == \A p \in Pos : delay[p] <= Defer + 1

(***************************************************************************)
(* The peak that the trail goes by is within epsilon of the highest profit *)
(* any pass has seen, in every posture and across restarts.                *)
(***************************************************************************)
PeakKept == \A p \in Open : lag[p] <= Epsilon

(***************************************************************************)
(* With the advisor silent for longer than any of its limits, and the one  *)
(* of the normal posture not switched off, a pass is made in tight:        *)
(* neither a lockdown nor a normal posture outlives it.                    *)
(***************************************************************************)
SilenceTightens ==
    AdvisorStale > 0 /\ heard = Silence /\ mode # None => mode = "tight"

=============================================================================
