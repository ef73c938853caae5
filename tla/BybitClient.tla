------------------------------ MODULE BybitClient ------------------------------
(***************************************************************************)
(* The calls of services/bybit_client.py against an exchange that moves on *)
(* while they are made: retries, the candles that come in pages, the two   *)
(* places an order is looked for in, the positions, the contracts, and the *)
(* executors that sit on top of them (services/execution.py).  A time is   *)
(* the number of attempts made so far; what the exchange would answer is a *)
(* function of the time.  The exchange is modelled from how these calls    *)
(* read it.                                                                *)
(***************************************************************************)
EXTENDS Integers, Sequences, SequencesExt, FiniteSets, FiniteSetsExt, Functions

CONSTANTS
    NoAnswer,      \* Python's None of a call
    Attempts,      \* 1 + the delays of RETRY_DELAYS_S
    PageSize,      \* 1000 candles
    MaxTime,       \* bound: when an order arrives or ends
    MaxLimit       \* bound: the candles asked for

ASSUME BybitClientAssumption ==
    /\ {Attempts, PageSize, MaxTime, MaxLimit} \subseteq Nat \ {0}
    /\ NoAnswer \notin Int /\ NoAnswer \notin Seq(Int)

-----------------------------------------------------------------------------
(* Retries. *)

(* How the attempts of one call would go: the exchange answers, rejects what is
   asked, or cannot be reached. *)
Scripts == [1..Attempts -> {"answered", "rejected", "failed"}]
Decisive(script) == SelectInSeq(script, LAMBDA o : o # "failed")
Tries(script) == IF Decisive(script) = 0 THEN Attempts ELSE Decisive(script)

(* _with_retry from time t on: Answer(u) is what the exchange knows at u.  A
   rejection is not tried again. *)
with_retry(script, t, Answer(_)) ==
    IF Decisive(script) = 0 \/ script[Tries(script)] = "rejected" THEN NoAnswer
    ELSE Answer(t + Tries(script) - 1)

-----------------------------------------------------------------------------
(* Candles are numbered; at time t the newest is newest + t. *)

(* One page: up to `batch` candles that do not start after `end`. *)
Page(end, batch) == [i \in 1..Min({batch, end}) |-> end - Min({batch, end}) + i]

(* Mutants, here and below: a definition named Bug... is a form of the one
   after it that a plausible mistake would give; no specification uses it. *)
BugFromFirst(chunk) == chunk[1]
BeforeFirst(chunk) == chunk[1] - 1

(* A page is put before what is there and moves the end below its first candle;
   a short page, an empty one and a failure stop. *)
NextPage(s, script, newest) ==
    LET batch == Min({s.remaining, PageSize})
        answer(u) == Page(IF s.end = NoAnswer THEN newest + u ELSE s.end, batch)
        chunk == with_retry(script, s.time, answer)
        got == chunk # NoAnswer /\ chunk # <<>>
        after == [s EXCEPT !.time = @ + Tries(script)]
    IN  IF ~got THEN [after EXCEPT !.remaining = 0]
        ELSE [after EXCEPT !.out = chunk \o @, !.end = BeforeFirst(chunk),
                           !.remaining = IF Len(chunk) < batch THEN 0 ELSE @ - Len(chunk)]

(* get_klines with one script for each page. *)
get_klines(limit, scripts, newest) ==
    LET start == [out |-> <<>>, end |-> NoAnswer, remaining |-> limit, time |-> 0]
        s[k \in 0..Len(scripts)] ==
            IF k = 0 THEN start
            ELSE IF s[k - 1].remaining = 0 THEN s[k - 1]
            ELSE NextPage(s[k - 1], scripts[k], newest)
    IN  s[Len(scripts)].out

(* The three series of a coin, one after the other. *)
fetch_klines(limit, scripts, newest) ==
    [k \in DOMAIN limit |-> get_klines(limit[k], scripts[k], newest[k])]

-----------------------------------------------------------------------------
(* Orders.  One arrives at a time, rests, and ends (filled, cancelled, dead). *)

OrderLives == {o \in [arrives : 0..MaxTime, ends : 0..MaxTime] : o.arrives < o.ends}
Resting(o, t) == IF o.arrives <= t /\ t < o.ends THEN <<o>> ELSE <<>>
Ended(o, t) == IF o.ends <= t THEN <<o>> ELSE <<>>
Absent == <<>>

BugHistoryFirst(o, open, history, t) ==
    LET past(u) == Ended(o, u)
        now(u) == Resting(o, u)
        rows == <<with_retry(history, t, past), with_retry(open, t + Tries(history), now)>>
        found == SelectInSeq(rows, LAMBDA r : r \notin {NoAnswer, <<>>})
    IN  IF found # 0 THEN rows[found][1] ELSE IF NoAnswer \in ToSet(rows) THEN NoAnswer ELSE Absent
(* get_order: the open orders are asked first, the history second; absent only
   if both answered. *)
get_order(o, open, history, t) ==
    LET past(u) == Ended(o, u)
        now(u) == Resting(o, u)
        rows == <<with_retry(open, t, now), with_retry(history, t + Tries(open), past)>>
        found == SelectInSeq(rows, LAMBDA r : r \notin {NoAnswer, <<>>})
    IN  IF found # 0 THEN rows[found][1] ELSE IF NoAnswer \in ToSet(rows) THEN NoAnswer ELSE Absent

(* amend_order and cancel_order say no more than that an answer came. *)
amend_order(script) == LET now(u) == TRUE IN with_retry(script, 0, now) # NoAnswer
cancel_order(script) == LET now(u) == TRUE IN with_retry(script, 0, now) # NoAnswer

(* get_open_orders_all and get_option_positions: a failure is not an empty
   account; contracts of size zero are left out. *)
get_open_orders_all(script, orders) ==
    LET now(u) == {o \in orders : Resting(o, u) # <<>>} IN with_retry(script, 0, now)
get_option_positions(script, rows) ==
    LET now(u) == {r \in rows : r.size # 0} IN with_retry(script, 0, now)
(* get_executions and get_options_tickers: a failure is an empty list. *)
OrEmpty(answer) == IF answer = NoAnswer THEN <<>> ELSE answer
get_executions(script, fills) == LET now(u) == fills IN OrEmpty(with_retry(script, 0, now))
(* get_delivery: the first record, if there is one. *)
get_delivery(script, records) ==
    LET now(u) == records
        r == OrEmpty(with_retry(script, 0, now))
    IN  IF r = <<>> THEN NoAnswer ELSE r[1]

(* tick_size: 0 when unknown, and then not kept. *)
tick_size(cached, script, tick) ==
    LET now(u) == tick
        asked == with_retry(script, 0, now)
    IN  IF cached > 0 THEN cached ELSE IF asked = NoAnswer THEN 0 ELSE asked

-----------------------------------------------------------------------------
(* Contracts. *)

(* parse_option_symbol and the settlement suffix: a row of the chain is a
   contract if its name has four parts, a side, a strike and a date. *)
IsContract(c) == c.usdt /\ c.parts >= 4 /\ c.side \in {"P", "C"} /\ c.strike # NoAnswer /\ c.expiry # NoAnswer
get_options_tickers(script, chain) ==
    LET now(u) == SelectSeq(chain, IsContract) IN OrEmpty(with_retry(script, 0, now))

(* pick_atm_option: of the side's contracts that live long enough, one of the
   expiry nearest to the target, the strike nearest to the spot; of equals the
   first of the chain. *)
Apart(a, b) == IF a > b THEN a - b ELSE b - a
FirstLeast(s, Cost(_)) ==
    IF s = <<>> THEN NoAnswer
    ELSE s[SelectInSeq(s, LAMBDA x : \A y \in ToSet(s) : Cost(x) <= Cost(y))]
pick_atm_option(chain, spot, side, target, least, now) ==
    LET candidates == SelectSeq(chain, LAMBDA c : c.side = side /\ c.expiry > now + least)
        distance(c) == Apart(c.expiry, now + target)
        best == FirstLeast(candidates, distance)
        same == SelectSeq(candidates, LAMBDA c : c.expiry = best.expiry)
        offset(c) == Apart(c.strike, spot)
    IN  IF candidates = <<>> THEN NoAnswer ELSE FirstLeast(same, offset)

(* log_iv: the contracts nearest to the money, unless the chain is empty; a side
   without one, and both without a spot price, are logged as missing. *)
log_iv(chain, target, least, now) ==
    LET spots == SelectSeq(chain, LAMBDA c : c.underlying # NoAnswer)
        row(side) == IF spots = <<>> THEN NoAnswer
                     ELSE pick_atm_option(chain, spots[1].underlying, side, target, least, now)
    IN  IF chain = <<>> THEN NoAnswer ELSE [side \in {"P", "C"} |-> row(side)]

-----------------------------------------------------------------------------
(* Executors. *)

(* position_im: the share of the margin that belongs to qty. *)
position_im(rows, symbol, qty) ==
    LET mine == IF rows = NoAnswer THEN {} ELSE {r \in rows : r.symbol = symbol /\ r.im > 0}
        r == CHOOSE x \in mine : TRUE
    IN  IF mine = {} THEN NoAnswer ELSE (r.im * Min({qty, r.size})) \div r.size

(* live_preflight: may the loop start in live mode? *)
live_preflight(live, hasKey, script, key) ==
    LET now(u) == key
        status == with_retry(script, 0, now)
    IN  ~live \/ (hasKey /\ status # NoAnswer /\ ~status.readOnly /\ status.options)

-----------------------------------------------------------------------------
(* What must not happen; MCPriceLadder says so. *)

WronglyAbsent ==
    {c \in OrderLives \X Scripts \X Scripts :
        get_order(c[1], c[2], c[3], 1) = Absent /\ c[1].arrives <= Tries(c[2])}

Pages == (MaxLimit + PageSize - 1) \div PageSize
Consecutive(ks) == \A i \in 1..(Len(ks) - 1) : ks[i + 1] = ks[i] + 1
Answered(scripts) == \A k \in 1..Pages : Decisive(scripts[k]) # 0 /\ scripts[k][Tries(scripts[k])] = "answered"
Torn ==
    {c \in (1..MaxLimit) \X [1..Pages -> Scripts] \X (1..(MaxLimit + 1)) :
        LET ks == get_klines(c[1], c[2], c[3]) IN
        \/ ~Consecutive(ks) \/ Len(ks) > c[1]
        \/ ks # <<>> /\ Last(ks) # c[3] + Tries(c[2][1]) - 1
        \/ Answered(c[2]) /\ Len(ks) < c[1] /\ ks[1] # 1}
=============================================================================
