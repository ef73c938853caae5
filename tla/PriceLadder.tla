----------------------------- MODULE PriceLadder -----------------------------
(***************************************************************************)
(* The price of one live order, from the quote it is submitted on to the   *)
(* last step of the urgent chase: loop._quote_px, the price rules of       *)
(* services/execution.py and the tick rounding LiveExecutor applies to     *)
(* them.  The row keeps the price that was wanted at submission, unrounded,*)
(* and the price that was sent after an amendment; the exchange only ever  *)
(* has multiples of the tick.  When orders may be amended is OrderExec's   *)
(* business: here only the price matters.                                  *)
(***************************************************************************)
EXTENDS Integers, FiniteSetsExt

CONSTANTS
    Quotes,       \* quotes {bid, ask, mark} seen, in quote units; 0: missing
    Tick,         \* tick of the contract, in quote units
    Slip,         \* EXIT_MAX_SLIP, in percent
    UrgentSlip,   \* EXEC_URGENT_MAX_SLIP, in percent
    ChasePct,     \* EXEC_URGENT_CHASE_PCT, in percent
    MaxMoves,     \* bound: changes of the quote in a behaviour
    MaxRefused    \* bound: amendments the exchange refuses

(* The sides of the book are prices of the exchange, hence whole ticks; the
   mark is not.  A smallest unit of 1/10000 makes every product exact. *)
ASSUME PriceLadderAssumption ==
    /\ Tick \in Nat \ {0} /\ Slip \in 0..99 /\ UrgentSlip \in Nat
    /\ ChasePct \in Nat \ {0} /\ Slip <= UrgentSlip
    /\ MaxMoves \in Nat /\ MaxRefused \in Nat
    /\ Quotes \subseteq [bid : Nat, ask : Nat, mark : Nat]
    /\ \A q \in Quotes : q.bid % Tick = 0 /\ q.ask % Tick = 0

Unit == 10000
TickUnits == Tick * Unit
Percent(x, p) == (x * p) \div 100

VARIABLES
    quote,     \* what get_option_marks answers now, in smallest units
    kind,      \* orders.kind
    stage,     \* orders.stage, "none" before submission
    price,     \* orders.price
    ceiling,   \* orders.ceiling, 0 for NULL
    resting,   \* external: the price of the order on the exchange
    moves, refused
vars == <<quote, kind, stage, price, ceiling, resting, moves, refused>>

InUnits(q) == [bid |-> q.bid * Unit, ask |-> q.ask * Unit, mark |-> q.mark * Unit]

TypeOK ==
    /\ quote \in {InUnits(q) : q \in Quotes}
    /\ kind \in {"open", "close"}
    /\ stage \in {"none", "mid", "retreat", "urgent", "over"}
    /\ price \in Nat /\ ceiling \in Nat
    /\ resting \in Nat /\ resting % TickUnits = 0
    /\ moves \in 0..MaxMoves /\ refused \in 0..MaxRefused

Init ==
    /\ quote \in {InUnits(q) : q \in Quotes}
    /\ kind = "open" /\ stage = "none"
    /\ price = 0 /\ ceiling = 0 /\ resting = 0
    /\ moves = 0 /\ refused = 0

-----------------------------------------------------------------------------
(* Price rules.  A rule without a usable mark gives 0. *)

CloseCap(q) == Percent(q.mark, 100 + Slip)
OpenFloor(q) == Percent(q.mark, 100 - Slip)
UrgentCeiling(q) == Percent(q.mark, 100 + UrgentSlip)

(* The least of the prices that are known, 0 if none is. *)
Cheapest(S) == IF S \subseteq {0} THEN 0 ELSE Min(S \ {0})

RoundUp(x) == ((x + TickUnits - 1) \div TickUnits) * TickUnits
RoundDown(x) == (x \div TickUnits) * TickUnits
(* Mutants, here and below: a definition named Bug... is a form of the one
   after it that a plausible mistake would give; no specification uses it. *)
ToTick(x, up) == IF up THEN RoundUp(x) ELSE RoundDown(x)

Mid(q) == (q.bid + q.ask) \div 2
FirstKnown(a, b) == IF a > 0 THEN a ELSE b

(* What a close pays on paper, and live without an ask: the ask, within the
   guard when the exit was put off long enough. *)
close_fill_price(q, capSlip) ==
    IF q.ask = 0 THEN Percent(q.mark, 101)
    ELSE IF capSlip THEN Cheapest({q.ask, CloseCap(q)}) ELSE q.ask

(* _quote_px; what its callers would fall back on is 99% of the mark to open
   and the price of a paper close. *)
QuotedOpen(q) ==
    LET px == IF q.bid > 0 /\ q.ask > 0 THEN Mid(q)
              ELSE FirstKnown(q.bid, Percent(q.mark, 99))
    IN IF q.mark > 0 THEN Min({Max({px, OpenFloor(q)}), CloseCap(q)}) ELSE px
BugQuotedClose(q, urgent) ==
    IF ~urgent /\ q.bid > 0 /\ q.ask > 0 THEN Mid(q)
    ELSE FirstKnown(q.ask, Percent(q.mark, 101))
QuotedClose(q, urgent) ==
    LET px == IF ~urgent /\ q.bid > 0 /\ q.ask > 0 THEN Mid(q)
              ELSE FirstKnown(q.ask, close_fill_price(q, TRUE))
    IN Cheapest({px, CloseCap(q)})

(* _stage_price of an order at mid: bid/ask inside the spread guard, 0 when
   the quote is of no use. *)
RetreatPrice(q) ==
    IF kind = "open"
      THEN LET px == FirstKnown(q.bid, Percent(q.mark, 99))
           IN IF px > 0 THEN Max({px, OpenFloor(q)}) ELSE 0
      ELSE LET px == FirstKnown(q.ask, Percent(q.mark, 101))
           IN IF px > 0 THEN Cheapest({px, CloseCap(q)}) ELSE 0

(* _stage_price of an urgent close, and the blind step when there is no quote:
   one step up, within the ask and the ceiling. *)
BugChasePrice(q, ceil) == Cheapest({Percent(price, 100 + ChasePct), ceil})
ChasePrice(q, ceil) == Cheapest({Percent(price, 100 + ChasePct), q.ask, ceil})

(* The ceiling of a fresh mark replaces the last one known. *)
FreshCeiling(q) == FirstKnown(UrgentCeiling(q), ceiling)

-----------------------------------------------------------------------------
(* Steps. *)

QuoteMoves(q) ==
    /\ moves < MaxMoves /\ moves' = moves + 1
    /\ quote' = InUnits(q) /\ quote' # quote
    /\ UNCHANGED <<kind, stage, price, ceiling, resting, refused>>

(* try_fire reaching submit: the contract has a bid or a mark.  The seller's
   price is rounded up to the tick when it is placed. *)
SubmitOpen ==
    /\ stage = "none" /\ (quote.bid > 0 \/ quote.mark > 0)
    /\ kind' = "open" /\ stage' = "mid"
    /\ price' = QuotedOpen(quote)
    /\ resting' = ToTick(price', TRUE)
    /\ UNCHANGED <<quote, ceiling, moves, refused>>

(* _request_close reaching submit: exits need a mark, the manual buttons a mark
   or an ask and are urgent.  The buyer's price is rounded down. *)
SubmitClose(urgent) ==
    /\ stage = "none" /\ (quote.mark > 0 \/ (urgent /\ quote.ask > 0))
    /\ kind' = "close" /\ stage' = IF urgent THEN "urgent" ELSE "mid"
    /\ price' = QuotedClose(quote, urgent)
    /\ ceiling' = UrgentCeiling(quote)
    /\ resting' = ToTick(price', FALSE)
    /\ UNCHANGED <<quote, moves, refused>>

(* LiveExecutor.amend: chase steps round away from the current price, and so
   does an open; the retreat of a close rounds down. *)
BugRoundsUp == kind = "open"
RoundsUp == stage = "urgent" \/ kind = "open"

(* The new price is sent unless rounding makes it the row's own; the row takes
   it when the exchange does. *)
Amend(px) ==
    LET sent == ToTick(px, RoundsUp) IN
    \/ /\ sent # price
       /\ price' = sent /\ resting' = sent
       /\ UNCHANGED refused
    \/ /\ sent # price /\ refused < MaxRefused
       /\ refused' = refused + 1
       /\ UNCHANGED <<price, resting>>
    \/ /\ sent = price
       /\ UNCHANGED <<price, resting, refused>>

(* advance at mid: the stage moves on only with an accepted amendment. *)
Retreat ==
    /\ stage = "mid" /\ RetreatPrice(quote) > 0
    /\ Amend(RetreatPrice(quote))
    /\ stage' = IF price' # price THEN "retreat" ELSE stage
    /\ UNCHANGED <<quote, kind, ceiling, moves>>

(* advance in the chase: the ceiling is refreshed; without one the price is
   held; a price that would not rise is pinned. *)
Chase ==
    /\ stage = "urgent"
    /\ ceiling' = FreshCeiling(quote)
    /\ IF ceiling' > 0 /\ ChasePrice(quote, ceiling') > price
         THEN Amend(ChasePrice(quote, ceiling'))
         ELSE UNCHANGED <<price, resting, refused>>
    /\ UNCHANGED <<quote, kind, stage, moves>>

(* The order fills, is cancelled or dies. *)
Over ==
    /\ stage \in {"mid", "retreat", "urgent"}
    /\ stage' = "over"
    /\ UNCHANGED <<quote, kind, price, ceiling, resting, moves, refused>>

Next ==
    \/ \E q \in Quotes : QuoteMoves(q)
    \/ SubmitOpen
    \/ \E urgent \in BOOLEAN : SubmitClose(urgent)
    \/ Retreat \/ Chase \/ Over

Spec == Init /\ [][Next]_vars

(* process_orders runs the chase on every tick of the loop. *)
FairSpec == Spec /\ WF_vars(Chase)

-----------------------------------------------------------------------------
(* Properties. *)

(***************************************************************************)
(* The spread guard of pos #65: as long as there is a mark, no close starts*)
(* and no patient one moves above mark * (1 + EXIT_MAX_SLIP), and no open  *)
(* is offered below mark * (1 - EXIT_MAX_SLIP), after rounding to the tick *)
(* and whatever the book shows.                                            *)
(***************************************************************************)
SpreadGuard ==
    [][ resting' # resting /\ quote.mark > 0 =>
          IF kind' = "open" THEN resting' >= OpenFloor(quote)
          ELSE stage = "urgent" \/ resting' <= CloseCap(quote) ]_vars

(***************************************************************************)
(* An urgent close only ever moves up, never past the ask it can see,      *)
(* never a whole tick past the ceiling of the last mark seen, and not at   *)
(* all while no mark was ever seen.                                        *)
(***************************************************************************)
ChaseBounded ==
    [][ stage = "urgent" /\ resting' # resting =>
          /\ resting' > resting
          /\ quote.ask > 0 => resting' <= quote.ask
          /\ ceiling' > 0 /\ resting' < ceiling' + TickUnits
          /\ quote.mark > 0 => ceiling' = UrgentCeiling(quote) ]_vars

(***************************************************************************)
(* "a coarse tick can't stall the chase": once the quote stands still and  *)
(* shows a mark, the order ends or reaches the ask, or the last tick below *)
(* the ceiling if that is less.                                            *)
(***************************************************************************)
Reached == resting >= RoundDown(Cheapest({quote.ask, UrgentCeiling(quote)}))
ChaseReachesAsk ==
    stage = "urgent" /\ moves = MaxMoves /\ quote.mark > 0
        ~> stage = "over" \/ Reached

=============================================================================
