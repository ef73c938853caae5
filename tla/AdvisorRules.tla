------------------------------ MODULE AdvisorRules ------------------------------
(***************************************************************************)
(* What the advisor does with what it knows, as functions: the market and  *)
(* position snapshots it takes, the score it reads, the repair of the      *)
(* model's answer, the guards a close or an entry has to pass, and what    *)
(* the human is told (advisor.py; api.py's score; core/close_policy.py).   *)
(* The limits that are counted over the journal are in Advisor.  Any input *)
(* may be missing: None, a function without the key, or Garbage.           *)
(***************************************************************************)
EXTENDS Integers, Sequences, FiniteSets, FiniteSetsExt, SequencesExt, Lists

CONSTANTS
    None, Garbage,
    WeekBars, DayBars,          \* 168 and 24 candles of an hour
    RetPct,                     \* RET_7D_THRESHOLD, percent
    Keys, DisabledKeys,         \* COIN_SIDES as pairs <<coin, side>>; DISABLED_KEYS
    EntryConf, CallConf,        \* ENTRY_MIN_CONFIDENCE, CALL_MIN_CONF, percent
    CallMax24, CallMin24, CallAbs1, CallMax7, CallDist,   \* CALL_*, percent
    FundingMin, FundingMax,
    FadeMax24, FadeDist,        \* 0.5 and 1.5 in decide_entry
    KillN, KillWrPct, KillPnl,  \* CALL_KILL_*
    RevengeWindow, GatesStale,  \* REVENGE_WINDOW_H, GATES_STALE_MS
    EndgameProfit, EndgameFrac, EmergencyPct,   \* close_policy, percent
    Mode,                       \* ADVISOR_EXECUTE
    Worlds                      \* bound: the inputs of a tick MissingInputs looks at

ASSUME AdvisorRulesAssumption ==
    /\ WeekBars \in Nat /\ DayBars \in Nat \ {0} /\ 2 * DayBars < WeekBars
    /\ {RetPct, EntryConf, CallConf, CallAbs1, CallMax7, CallDist, KillN, KillWrPct,
        RevengeWindow, GatesStale, EndgameProfit, EndgameFrac} \subseteq Nat
    /\ {CallMax24, CallMin24, FadeMax24, FadeDist, FundingMin, FundingMax, KillPnl, EmergencyPct} \subseteq Int
    /\ KillN > 0 /\ DisabledKeys \subseteq Keys
    /\ Mode \in {"off", "profit_only", "full"}

Postures == {"normal", "tight", "lockdown"}
Magnitude(x) == IF x < 0 THEN -x ELSE x
Percent(a, b) == (100 * (a - b)) \div b

-----------------------------------------------------------------------------
(* Snapshots. *)

(* The sum of the squared returns (per mille) of DayBars candles, `ago` of them
   back: rv24 is the root of 365 times it. *)
Variance(closes, ago) ==
    LET ret(i) == (1000 * (closes[i] - closes[i - 1])) \div closes[i - 1]
        last == Len(closes) - ago
        day == (last - DayBars + 1)..last
    IN  SumFunctionOnSet([i \in day |-> ret(i) * ret(i)], day)

(* The premium over the realised volatility: the mean of the sides that have a
   volatility (per mille) against rv24, as a difference of squares. *)
Premium(ivs, closes) ==
    LET n == Cardinality(DOMAIN ivs)
        total == SumFunctionOnSet(ivs, DOMAIN ivs)
    IN  IF n = 0 THEN None ELSE total * total - n * n * 365 * Variance(closes, 0)

NoRow == [chg_1h |-> None, chg_24h |-> None, chg_7d |-> None, dist_high |-> None,
          vol_accelerating |-> FALSE, funding |-> None, iv_minus_rv24 |-> None]

(* None when the call failed; a ticker without the rate counts as a rate of 0. *)
Funding(ticker) ==
    IF ticker = None THEN None
    ELSE IF "fundingRate" \in DOMAIN ticker THEN ticker.fundingRate ELSE 0

(* market_block of one coin: the candles, its ticker and the weekly volatilities
   of the sides that have one. *)
market_block(closes, ticker, ivs) ==
    IF Len(closes) < WeekBars THEN NoRow
    ELSE LET n == Len(closes) IN
         [chg_1h |-> Percent(closes[n], closes[n - 1]),
          chg_24h |-> Percent(closes[n], closes[n - DayBars]),
          chg_7d |-> Percent(closes[n], closes[1]),
          dist_high |-> Percent(closes[n], Max(ToSet(closes))),
          vol_accelerating |-> 100 * Variance(closes, 0) > 169 * Variance(closes, DayBars),
          funding |-> Funding(ticker), iv_minus_rv24 |-> Premium(ivs, closes)]

(* strike_risk, of which only the sign of the buffer decides anything. *)
strike_risk(side, quote, strike, left) ==
    IF quote.spot = None \/ quote.iv = None \/ quote.spot <= 0 \/ quote.iv <= 0 \/ left <= 0
    THEN None
    ELSE (100 * (IF side = "P" THEN quote.spot - strike ELSE strike - quote.spot)) \div quote.spot

NoQuote == [mark |-> None, iv |-> None, spot |-> None]

(* positions_block: one row; a mark of zero counts as none. *)
positions_block(p, quote, at) ==
    LET marked == quote.mark \notin {None, 0} IN
    [id |-> p.id, coin |-> p.coin, side |-> p.side,
     unrealized |-> IF marked THEN (p.credit - quote.mark) * p.qty ELSE None,
     profit_pct |-> IF marked THEN (100 * (p.credit - quote.mark)) \div p.credit ELSE None,
     age |-> at - p.opened, hold |-> p.hold, tp2 |-> p.tp2, sl |-> p.sl,
     buffer |-> strike_risk(p.side, quote, p.strike, p.expiry - at)]

(* mechanical_gates_block: the gate row the loop left in window_status, stale
   when it was never checked or not for a while. *)
mechanical_gates_block(status, at) ==
    [stale |-> status.checked = None \/ at - status.checked > GatesStale,
     ret_7d |-> status.ret_7d]

(* /advice/score, by key and source, over the closed positions with a result. *)
by_key(positions) ==
    LET done == {p \in positions : p.pnl # None}
        of(k) == {p \in done : <<p.coin, p.side, p.source>> = k}
        pnl(p) == p.pnl
    IN  [k \in {<<p.coin, p.side, p.source>> : p \in done} |->
            [n |-> Cardinality(of(k)), wins |-> Cardinality({p \in of(k) : p.pnl > 0}),
             pnl |-> MapThenSumSet(pnl, of(k))]]

(* track_record_block: without a journal the score has no keys at all. *)
track_record_block(written, up, positions) ==
    IF ~up THEN None ELSE IF ~written THEN << >> ELSE by_key(positions)

-----------------------------------------------------------------------------
(* The answer. *)

WellFormed(rec) == rec # Garbage /\ rec.action \in {"HOLD", "CLOSE"}
Proposes(p) == p \notin {None, Garbage} /\ p.confidence # None

normalize_advice(raw, posture) ==
    LET kept == IF posture \in Postures THEN posture ELSE "normal" IN
    IF raw = Garbage
    THEN [market_risk |-> "medium", risk_posture |-> kept, positions |-> <<>>,
          entry_proposal |-> None]
    ELSE [raw EXCEPT
            !.risk_posture = IF @ \in Postures THEN @ ELSE kept,
            !.positions = Sift(@, {i \in DOMAIN @ : WellFormed(@[i])}),
            !.entry_proposal = IF Proposes(@) THEN @ ELSE None]

Raised == Garbage

(* How a run of the command line ends, or a call of the API, and the answer of
   one that ends "ok".  A run that fails and one that cannot be parsed are
   tried once more; a timeout and an error the model reports are not.  There is
   no run without the token. *)
call_claude_cli(token, attempts, posture) ==
    LET again == attempts[1].ended \in {"rc", "unparsed"}
        used == attempts[IF again THEN 2 ELSE 1]
    IN  IF token /\ used.ended = "ok" THEN normalize_advice(used.raw, posture) ELSE Raised

call_claude_api(reply, posture) ==
    IF reply.ended = "ok" THEN normalize_advice(reply.raw, posture) ELSE Raised

call_claude(backend, token, attempts, posture) ==
    IF backend = "cli" THEN call_claude_cli(token, attempts, posture)
                       ELSE call_claude_api(attempts[1], posture)

(* tick: an answer without rows about a book with positions is asked for once
   more. *)
Asked(first, second, rows) ==
    IF first # Raised /\ rows # {} /\ first.positions = <<>> THEN second ELSE first

-----------------------------------------------------------------------------
(* Closes. *)

(* endgame_ok or emergency_ok; a field that is missing vetoes. *)
close_policy_allows(row) ==
    /\ row.profit_pct # None
    /\ \/ /\ row.hold > 0 /\ row.profit_pct >= EndgameProfit
          /\ 100 * row.age >= EndgameFrac * row.hold
       \/ row.buffer # None /\ row.buffer < 0 /\ row.profit_pct <= EmergencyPct

RowOf(rows, id) == CHOOSE r \in rows : r.id = id
Known(rows, id) == \E r \in rows : r.id = id

(* What a previous answer said last of a position. *)
LastWord(advice, id) ==
    LET i == SelectLastInSeq(advice.positions, LAMBDA r : r.id = id)
    IN  IF i = 0 THEN None ELSE advice.positions[i].action

(* decide_executions, before its budget: may this row of the answer close? *)
Executes(rec, advice, rows, previous) ==
    /\ Mode # "off" /\ rec.action = "CLOSE" /\ Known(rows, rec.id)
    /\ LET row == RowOf(rows, rec.id) IN
       /\ row.unrealized # None
       /\ Mode = "profit_only" => row.unrealized > 0
       /\ close_policy_allows(row)
    /\ \/ advice.risk_posture = "lockdown"
       \/ previous # None /\ LastWord(previous, rec.id) = "CLOSE"

decide_executions(advice, rows, previous, budget) ==
    LET told == advice.positions
        may == Sift(told, {i \in DOMAIN told : Executes(told[i], advice, rows, previous)})
        ids == [i \in DOMAIN may |-> may[i].id]
    IN  IF budget <= 0 THEN <<>> ELSE SubSeq(ids, 1, Min({budget, Len(ids)}))

(* CLOSEs the policy rejects: the human is told to hold. *)
vetoed(advice, rows) ==
    {row.id : row \in {r \in rows : /\ ~close_policy_allows(r)
                                  /\ \E i \in DOMAIN advice.positions :
                                        advice.positions[i].id = r.id
                                        /\ advice.positions[i].action = "CLOSE"}}

(* _pos_line: what the push says of a row of the answer. *)
Told(rec, executed, held) ==
    CASE rec.id \in ToSet(executed) -> "closed"
      [] rec.id \notin ToSet(executed) /\ rec.action = "CLOSE" /\ rec.id \in held -> "rejected"
      [] rec.id \notin ToSet(executed) /\ rec.action = "CLOSE" /\ rec.id \notin held -> "close it yourself"
      [] OTHER -> "hold"

(* What the mechanics would do: the stop of a losing position, else the take. *)
mech_hint(row) ==
    [level |-> IF row.profit_pct # None /\ row.profit_pct < 0 /\ row.sl # None THEN "sl"
               ELSE IF row.tp2 # None THEN "tp2" ELSE None,
     left |-> IF row.hold > 0 THEN Max({0, row.hold - row.age}) ELSE None]

(* format_tg: of each position named, the first row. *)
format_tg(advice, rows, executed) ==
    LET told == advice.positions
        first == {i \in DOMAIN told : \A j \in 1..(i - 1) : told[j].id # told[i].id}
    IN  {[id |-> told[i].id, says |-> Told(told[i], executed, vetoed(advice, rows)),
          hint |-> IF Known(rows, told[i].id) THEN mech_hint(RowOf(rows, told[i].id)) ELSE None]
            : i \in first}

(* tick: is there something to push? *)
Actionable(advice, rows, executed, entry, posture) ==
    \/ advice.market_risk = "high" \/ executed # <<>> \/ entry # None
    \/ advice.risk_posture # posture
    \/ \E i \in DOMAIN advice.positions :
          /\ advice.positions[i].action = "CLOSE"
          /\ advice.positions[i].id \notin vetoed(advice, rows)

-----------------------------------------------------------------------------
(* Entries. *)

(* enabled_free_keys: offered to the model. *)
enabled_free_keys(rows) == (Keys \ DisabledKeys) \ {<<r.coin, r.side>> : r \in rows}

(* call_kill_active: the experiment with calls is over. *)
call_kill_active(score) ==
    LET calls == {k \in DOMAIN score : k[2] = "C" /\ k[3] = "advisor"}
        n(k) == score[k].n
        wins(k) == score[k].wins
        pnl(k) == score[k].pnl
        total == MapThenSumSet(n, calls)
    IN  /\ total >= KillN
        /\ \/ 100 * MapThenSumSet(wins, calls) < KillWrPct * total
           \/ MapThenSumSet(pnl, calls) < KillPnl

(* call_guard, without the cap of the day: a call may be sold. *)
call_guard(prop, mkt, score) ==
    /\ score # None /\ ~call_kill_active(score)
    /\ prop.confidence >= CallConf
    /\ None \notin {mkt.chg_1h, mkt.chg_24h, mkt.chg_7d, mkt.dist_high}
    /\ mkt.chg_24h \in CallMin24..CallMax24 /\ Magnitude(mkt.chg_1h) <= CallAbs1
    /\ mkt.chg_7d <= CallMax7 /\ Magnitude(mkt.dist_high) >= CallDist
    /\ mkt.funding # None /\ mkt.funding \in FundingMin..FundingMax

(* A mutant: a form of the definition after it that a plausible mistake would
   give; nothing uses it. *)
BugInTrendWindow(side, gates, mkt) ==
    /\ side = "P" => gates.ret_7d = None \/ gates.ret_7d >= -RetPct
    /\ side = "C" /\ gates.ret_7d # None /\ gates.ret_7d > RetPct =>
          /\ mkt.chg_24h \notin {None, 0} /\ mkt.chg_24h <= FadeMax24
          /\ mkt.dist_high # None /\ Magnitude(mkt.dist_high) >= FadeDist
(* The trend window: a put only inside it; a call above it only when the rise
   has run out (a day without any change counts as a rise). *)
InTrendWindow(side, gates, mkt) ==
    /\ side = "P" => gates.ret_7d # None /\ gates.ret_7d >= -RetPct
    /\ side = "C" /\ gates.ret_7d # None /\ gates.ret_7d > RetPct =>
          /\ mkt.chg_24h \notin {None, 0} /\ mkt.chg_24h <= FadeMax24
          /\ mkt.dist_high # None /\ Magnitude(mkt.dist_high) >= FadeDist

(* decide_entry, without its limits: silence is the time since the last losing
   close. *)
decide_entry(advice, mkt, rows, silence, gates, score) ==
    LET prop == advice.entry_proposal IN
    /\ prop # None /\ <<prop.coin, prop.side>> \in enabled_free_keys(rows)
    /\ prop.confidence >= EntryConf
    /\ advice.risk_posture # "lockdown"
    /\ ~(advice.risk_posture = "tight" /\ advice.market_risk = "high")
    /\ silence = None \/ silence >= RevengeWindow
    /\ mkt.iv_minus_rv24 # None /\ mkt.iv_minus_rv24 > 0 /\ ~mkt.vol_accelerating
    /\ prop.side = "C" => call_guard(prop, mkt, score)
    /\ ~gates.stale /\ InTrendWindow(prop.side, gates, mkt)

-----------------------------------------------------------------------------
(* A tick on the inputs w: candles, ticker and volatilities of the coin, the
   book and the quote of its position, the gate row, the score, the answer of
   the model and how the attempts at it ended, its answer before, the posture in
   force, the time since a loss. *)

Answered(w) ==
    call_claude(w.backend, w.token, [k \in 1..2 |-> [ended |-> w.ended[k], raw |-> w.raw]],
                w.posture)
Rows(w) == {positions_block(p, w.quote, w.now) : p \in w.book}
Advice(w) == Asked(Answered(w), Answered(w), Rows(w))
Market(w) == market_block(w.closes, w.ticker, w.ivs)
Gate(w) == mechanical_gates_block(w.status, w.now)
Score(w) == track_record_block(w.journal, w.up, w.closed)
Enters(w) ==
    /\ Advice(w) # Raised
    /\ decide_entry(Advice(w), Market(w), Rows(w), w.silence, Gate(w), Score(w))
Closing(w) ==
    IF Advice(w) = Raised THEN {}
    ELSE {r.id : r \in {x \in ToSet(Advice(w).positions) : Executes(x, Advice(w), Rows(w), w.previous)}}
Commands(w) ==
    IF Advice(w) = Raised THEN {}
    ELSE {t.id : t \in {x \in format_tg(Advice(w), Rows(w),
                                        decide_executions(Advice(w), Rows(w), w.previous, 1)) :
                          x.says \in {"closed", "close it yourself"}}}

(* The types of these inputs.  Some may be missing, and the model's answer may
   be malformed in part. *)
OrNone(S) == S \cup {None}
Mention == [id : Int, action : STRING]
Proposal == [coin : STRING, side : STRING, confidence : OrNone(Int)]
Normalized == [market_risk : STRING, risk_posture : Postures, positions : Seq(Mention),
               entry_proposal : OrNone(Proposal)]
RawAnswer == [market_risk : STRING, risk_posture : STRING \cup {None, Garbage},
              positions : Seq(Mention \cup {Garbage}), entry_proposal : Proposal \cup {None, Garbage}]
Position == [id : Int, coin : STRING, side : STRING, credit : Nat \ {0}, qty : Nat, strike : Nat,
             opened : Int, expiry : Int, hold : Int, tp2 : OrNone(Int), sl : OrNone(Int)]
World ==
    [closes : Seq(Nat \ {0}), ticker : OrNone([{"fundingRate"} -> Int] \cup [{} -> Int]),
     ivs : [{"P", "C"} -> Nat] \cup [{"P"} -> Nat] \cup [{"C"} -> Nat] \cup [{} -> Nat],
     quote : [mark : OrNone(Int), iv : OrNone(Int), spot : OrNone(Int)],
     status : [checked : OrNone(Int), ret_7d : OrNone(Int)], journal : BOOLEAN, up : BOOLEAN,
     closed : SUBSET [coin : STRING, side : STRING, source : STRING, pnl : OrNone(Int)],
     book : SUBSET Position, previous : OrNone([positions : Seq(Mention)]), raw : RawAnswer,
     posture : Postures, backend : {"cli", "api"}, token : BOOLEAN,
     ended : Seq(STRING), silence : OrNone(Int), now : Int]

(* A complete tick: an answer came at the first attempt, and does not say two
   things of one position.  There are never more candles than are asked for. *)
Complete(w) ==
    /\ w \in World
    /\ w.backend = "cli" /\ w.token /\ w.ended = <<"ok", "ok">>
    /\ LET said == w.raw.positions IN
       \A i, j \in DOMAIN said :
          WellFormed(said[i]) /\ WellFormed(said[j]) /\ said[i].id = said[j].id
             => said[i].action = said[j].action
    /\ Len(w.closes) \in 1..WeekBars
    /\ \A p, q \in w.book : p.id = q.id => p = q

ASSUME WorldsAssumption ==
    /\ \A w \in Worlds : Complete(w)
    /\ Garbage \notin Normalized \cup RawAnswer \cup Postures
    /\ None \notin Int

(* The same tick when one input could not be read, was too old or came out
   malformed, and a guard or the repair of the answer notices. *)
Noticed(w) ==
    {[w EXCEPT !.closes = Tail(@)], [w EXCEPT !.ticker = None], [w EXCEPT !.ivs = <<>>],
     [w EXCEPT !.quote = NoQuote], [w EXCEPT !.quote.iv = None], [w EXCEPT !.quote.mark = None],
     [w EXCEPT !.quote.spot = None],
     [w EXCEPT !.status.checked = None], [w EXCEPT !.status.checked = w.now - GatesStale - 1],
     [w EXCEPT !.up = FALSE], [w EXCEPT !.previous = None], [w EXCEPT !.raw = Garbage],
     [w EXCEPT !.raw.positions = <<Garbage>>], [w EXCEPT !.raw.entry_proposal = Garbage],
     [w EXCEPT !.token = FALSE], [w EXCEPT !.backend = "api"],
     [w EXCEPT !.backend = "api", !.ended[1] = "no_tool"], [w EXCEPT !.ended[1] = "timeout"],
     [w EXCEPT !.ended[1] = "unparsed"], [w EXCEPT !.ended = <<"rc", "unparsed">>]}

ClosesNoMore(w, d) == Closing(d) \subseteq Closing(w) /\ Commands(d) \subseteq Commands(w)
Confined(w, d) == ClosesNoMore(w, d) /\ (Enters(d) => Enters(w))

(* The other inputs whose lack goes unnoticed: a ticker without its rate, a coin
   with the volatility of one side only, a gate row without the week's return,
   and no journal, so no record either.  An entry can then pass that the complete
   tick refuses, but only past the guard that reads the input, and, the lone
   volatility apart, only an entry that sells a call. *)
Passes(w, d, allowed) == ClosesNoMore(w, d) /\ (Enters(d) /\ ~Enters(w) => ~allowed)

SellsCall(w) == Advice(w).entry_proposal.side = "C"
FundingAllows(w) ==
    SellsCall(w) => Market(w).funding # None /\ Market(w).funding \in FundingMin..FundingMax
PremiumAllows(w) == Market(w).iv_minus_rv24 # None /\ Market(w).iv_minus_rv24 > 0
TrendAllows(w) == SellsCall(w) => InTrendWindow("C", Gate(w), Market(w))
RecordAllows(w) == SellsCall(w) => Score(w) # None /\ ~call_kill_active(Score(w))
Cheapest(w, side) == \A s \in DOMAIN w.ivs : w.ivs[side] <= w.ivs[s]

UnnoticedPasses(w) ==
    /\ Passes(w, [w EXCEPT !.ticker = <<>>], FundingAllows(w))
    /\ \A side \in DOMAIN w.ivs :
          Passes(w, [w EXCEPT !.ivs = [s \in {side} |-> @[s]]],
                 PremiumAllows(w) \/ Cheapest(w, side))
    /\ Passes(w, [w EXCEPT !.status.ret_7d = None], TrendAllows(w))
    /\ Passes(w, [w EXCEPT !.journal = FALSE, !.previous = None], RecordAllows(w))

KeepsPosture(w) ==
    /\ Advice([w EXCEPT !.raw = Garbage]).risk_posture = w.posture
    /\ Advice([w EXCEPT !.raw.risk_posture = Garbage]).risk_posture = w.posture
Surprises ==
    {w \in Worlds : \/ ~KeepsPosture(w) \/ ~UnnoticedPasses(w)
                   \/ \E d \in Noticed(w) : ~Confined(w, d)}
=============================================================================
