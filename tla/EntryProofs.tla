----------------------------- MODULE EntryProofs -----------------------------
(***************************************************************************)
(* Proofs about how an entry comes about.  First its price: PriceLadder,   *)
(* for every tick, every slip and every quote, and the calls of            *)
(* BybitClient, for every script of failures.  Then its minute:            *)
(* EntryWindow, for every length of the window, tolerance, cooldown and    *)
(* number of restarts.                                                     *)
(***************************************************************************)
EXTENDS MCPriceLadder, EntryWindow, SequenceTheorems, Sums

LEMMA Constants ==
    /\ TickUnits \in Nat /\ TickUnits > 0 /\ Slip \in 0..99 /\ UrgentSlip \in Nat
    /\ ChasePct \in Nat /\ ChasePct > 0 /\ Slip <= UrgentSlip
    /\ Quotes \subseteq [bid : Nat, ask : Nat, mark : Nat]
BY PriceLadderAssumption DEF PriceLadderAssumption, TickUnits, Unit

-----------------------------------------------------------------------------
(* Arithmetic. *)

LEMMA Division ==
    ASSUME NEW a \in Nat, NEW d \in Nat, d > 0
    PROVE  /\ a \div d \in Nat
           /\ (a \div d) * d <= a
           /\ a < (a \div d) * d + d
OBVIOUS

(* Rounding to the tick stays within a tick and on its side of the price. *)
LEMMA RoundBounds ==
    ASSUME NEW x \in Nat
    PROVE  /\ RoundDown(x) \in Nat /\ RoundDown(x) <= x
           /\ RoundUp(x) \in Nat /\ x <= RoundUp(x) /\ RoundUp(x) < x + TickUnits
<1> USE Constants
<1>1. /\ x \div TickUnits \in Nat
      /\ (x \div TickUnits) * TickUnits <= x
  BY Division
<1> DEFINE y == x + TickUnits - 1
<1>2. y \in Nat
  OBVIOUS
<1> HIDE DEF y
<1>3. /\ y \div TickUnits \in Nat
      /\ (y \div TickUnits) * TickUnits <= y
      /\ y < (y \div TickUnits) * TickUnits + TickUnits
  BY <1>2, Division
<1>4. RoundUp(x) = (y \div TickUnits) * TickUnits
  BY DEF RoundUp, y
<1>5. RoundUp(x) \in Nat /\ x <= RoundUp(x) /\ RoundUp(x) < x + TickUnits
  <2>1. RoundUp(x) \in Nat
    BY <1>3, <1>4
  <2> QED
    BY <1>3, <1>4, <2>1 DEF y
<1> QED
  BY <1>1, <1>5 DEF RoundDown

(* A price at most a whole tick is at most that tick after rounding up. *)
LEMMA RoundUpWithin ==
    ASSUME NEW x \in Nat, NEW k \in Nat, x <= k * TickUnits
    PROVE  RoundUp(x) <= k * TickUnits
<1> USE Constants
<1> DEFINE n == (x + TickUnits - 1) \div TickUnits
<1>1. n \in Nat /\ RoundUp(x) = n * TickUnits /\ RoundUp(x) < x + TickUnits
  <2>1. x + TickUnits - 1 \in Nat
    OBVIOUS
  <2> QED
    BY <2>1, Division, RoundBounds DEF RoundUp
<1> HIDE DEF n
<1>2. n * TickUnits < (k + 1) * TickUnits
  <2>1. (k + 1) * TickUnits = k * TickUnits + TickUnits
    OBVIOUS
  <2> QED
    BY <1>1, <2>1
<1>3. n < k + 1
  <2> SUFFICES ASSUME n >= k + 1 PROVE FALSE
    BY <1>1
  <2>1. n * TickUnits >= (k + 1) * TickUnits
    BY <1>1
  <2> QED
    BY <1>1, <1>2, <2>1
<1>4. n * TickUnits <= k * TickUnits
  BY <1>1, <1>3
<1> QED
  BY <1>1, <1>4

LEMMA Looser ==
    ASSUME NEW a \in Nat, NEW b \in Nat, NEW c \in Nat, NEW d \in Nat, a < b + d, b <= c
    PROVE  a < c + d
OBVIOUS

LEMMA MinOfTwo ==
    ASSUME NEW a \in Int, NEW b \in Int
    PROVE  /\ Min({a, b}) \in {a, b} /\ Min({a, b}) <= a /\ Min({a, b}) <= b
           /\ Max({a, b}) \in {a, b} /\ Max({a, b}) >= a /\ Max({a, b}) >= b
BY DEF Min, Max

(* The least of the prices that are known. *)
LEMMA CheapestOf ==
    ASSUME NEW a \in Nat, NEW b \in Nat, NEW c \in Nat
    PROVE  /\ Cheapest({a, b, c}) \in {0, a, b, c}
           /\ a > 0 => Cheapest({a, b, c}) <= a
           /\ b > 0 => Cheapest({a, b, c}) <= b
           /\ c > 0 => Cheapest({a, b, c}) <= c
           /\ a > 0 => Cheapest({a, b, c}) > 0
<1> DEFINE S == {a, b, c} \ {0}
<1>1. CASE S = {}
  <2>1. a = 0 /\ b = 0 /\ c = 0
    BY <1>1
  <2> QED
    BY <2>1 DEF Cheapest
<1>2. CASE S # {}
  <2>1. \E x \in S : \A y \in S : x <= y
    BY <1>2
  <2>2. Min(S) \in S /\ \A y \in S : Min(S) <= y
    BY <2>1 DEF Min
  <2>3. Cheapest({a, b, c}) = Min(S)
    BY <1>2 DEF Cheapest
  <2> QED
    BY <2>2, <2>3
<1> QED
  BY <1>1, <1>2

LEMMA PercentOf ==
    ASSUME NEW x \in Nat, NEW p \in Nat, NEW r \in Nat, p <= r
    PROVE  /\ Percent(x, p) \in Nat
           /\ Percent(x, p) <= Percent(x, r)
           /\ p >= 100 => x <= Percent(x, p)
<1>1. x * p \in Nat /\ x * r \in Nat /\ x * p <= x * r
  <2>1. r - p \in Nat /\ x * (r - p) \in Nat /\ x * p \in Nat
    OBVIOUS
  <2>2. x * r = x * p + x * (r - p)
    OBVIOUS
  <2> QED
    BY <2>1, <2>2
<1>2. p >= 100 => x * 100 <= x * p
  <2>1. ASSUME p >= 100 PROVE x * 100 <= x * p
    <3>1. p - 100 \in Nat /\ x * (p - 100) \in Nat
      BY <2>1
    <3>2. x * p = x * 100 + x * (p - 100)
      OBVIOUS
    <3> QED
      BY <3>1, <3>2
  <2> QED
    BY <2>1
<1> DEFINE a == x * p
           b == x * r
<1>3. a \in Nat /\ b \in Nat /\ a <= b /\ (p >= 100 => x * 100 <= a)
  BY <1>1, <1>2
<1>4. Percent(x, p) = a \div 100 /\ Percent(x, r) = b \div 100
  BY DEF Percent
<1> HIDE DEF a, b
<1> QED
  BY <1>3, <1>4

LEMMA PercentType ==
    ASSUME NEW x \in Nat, NEW p \in Nat
    PROVE  Percent(x, p) \in Nat
<1>1. p <= p
  OBVIOUS
<1> QED
  BY <1>1, PercentOf

-----------------------------------------------------------------------------
(* The inductive invariant: an urgent order is a close, and its row never has
   a price below the one on the exchange. *)

QuoteOK(q) ==
    /\ q.bid \in Nat /\ q.ask \in Nat /\ q.mark \in Nat
    /\ \E k \in Nat : q.ask = k * TickUnits

Inv ==
    /\ QuoteOK(quote)
    /\ kind \in {"open", "close"}
    /\ price \in Nat /\ ceiling \in Nat /\ resting \in Nat
    /\ stage = "urgent" => kind = "close" /\ resting <= price

LEMMA QuotesOK ==
    ASSUME NEW q \in Quotes
    PROVE  QuoteOK(InUnits(q))
<1> DEFINE k == q.ask \div Tick
<1>1. /\ q.ask \in Nat /\ q.bid \in Nat /\ q.mark \in Nat /\ q.ask % Tick = 0
      /\ Tick \in Nat /\ Tick > 0
  BY PriceLadderAssumption DEF PriceLadderAssumption
<1>2. k \in Nat /\ q.ask = k * Tick
  BY <1>1
<1> HIDE DEF k
<1>3. q.ask * Unit = k * TickUnits
  BY <1>1, <1>2 DEF TickUnits, Unit
<1>4. /\ InUnits(q).ask = q.ask * Unit /\ InUnits(q).bid = q.bid * Unit
      /\ InUnits(q).mark = q.mark * Unit
  BY DEF InUnits
<1>5. q.ask * Unit \in Nat /\ q.bid * Unit \in Nat /\ q.mark * Unit \in Nat
  BY <1>1 DEF Unit
<1> QED
  BY <1>2, <1>3, <1>4, <1>5 DEF QuoteOK

(* The limits of a mark, and where the two sides of the guard lie. *)
LEMMA Limits ==
    ASSUME NEW q, QuoteOK(q)
    PROVE  /\ CloseCap(q) \in Nat /\ OpenFloor(q) \in Nat /\ UrgentCeiling(q) \in Nat
           /\ OpenFloor(q) <= CloseCap(q)
           /\ q.mark > 0 => CloseCap(q) > 0 /\ UrgentCeiling(q) > 0
<1> USE Constants
<1> DEFINE m == q.mark
<1>1. m \in Nat
  BY DEF QuoteOK
<1> HIDE DEF m
<1>2. Percent(m, 100 - Slip) \in Nat /\ Percent(m, 100 - Slip) <= Percent(m, 100 + Slip)
  BY <1>1, PercentOf
<1>3. Percent(m, 100 + Slip) \in Nat /\ m <= Percent(m, 100 + Slip)
  BY <1>1, PercentOf
<1>4. Percent(m, 100 + UrgentSlip) \in Nat /\ m <= Percent(m, 100 + UrgentSlip)
  BY <1>1, PercentOf
<1> HIDE DEF Percent
<1> QED
  BY <1>1, <1>2, <1>3, <1>4 DEF CloseCap, OpenFloor, UrgentCeiling, m

(* The price rules give a price, and keep to the guard when there is a mark. *)
LEMMA OpenPrice ==
    ASSUME NEW q, QuoteOK(q)
    PROVE  /\ QuotedOpen(q) \in Nat
           /\ q.mark > 0 => OpenFloor(q) <= QuotedOpen(q)
<1> DEFINE px == IF q.bid > 0 /\ q.ask > 0 THEN Mid(q)
                 ELSE FirstKnown(q.bid, Percent(q.mark, 99))
           floored == Max({px, OpenFloor(q)})
<1>1. px \in Nat
  <2>1. Percent(q.mark, 99) \in Nat
    BY PercentType DEF QuoteOK
  <2>2. Mid(q) \in Nat
    BY Division DEF Mid, QuoteOK
  <2> HIDE DEF Percent, Mid
  <2> QED
    BY <2>1, <2>2 DEF FirstKnown, QuoteOK
<1> HIDE DEF px
<1>2. CloseCap(q) \in Nat /\ OpenFloor(q) \in Nat /\ OpenFloor(q) <= CloseCap(q)
  BY Limits
<1>3. floored \in Nat /\ OpenFloor(q) <= floored
  BY <1>1, <1>2, MinOfTwo, SMTT(30)
<1> HIDE DEF floored
<1>4. Min({floored, CloseCap(q)}) \in Nat /\ OpenFloor(q) <= Min({floored, CloseCap(q)})
  <2>1. Min({floored, CloseCap(q)}) \in {floored, CloseCap(q)}
    <3>1. floored \in Int /\ CloseCap(q) \in Int
      BY <1>2, <1>3
    <3> HIDE DEF CloseCap
    <3> QED
      BY <3>1, MinOfTwo
  <2> QED
    BY <1>2, <1>3, <2>1
<1>5. QuotedOpen(q) = IF q.mark > 0 THEN Min({floored, CloseCap(q)}) ELSE px
  BY DEF QuotedOpen, px, floored
<1> QED
  BY <1>1, <1>4, <1>5

LEMMA ClosePrice ==
    ASSUME NEW q, QuoteOK(q), NEW urgent \in BOOLEAN
    PROVE  /\ QuotedClose(q, urgent) \in Nat
           /\ q.mark > 0 => QuotedClose(q, urgent) <= CloseCap(q)
<1> DEFINE px == IF ~urgent /\ q.bid > 0 /\ q.ask > 0 THEN Mid(q)
                 ELSE FirstKnown(q.ask, close_fill_price(q, TRUE))
<1>1. CloseCap(q) \in Nat /\ (q.mark > 0 => CloseCap(q) > 0)
  BY Limits
<1>2. px \in Nat
  <2>1. Percent(q.mark, 101) \in Nat
    BY PercentType DEF QuoteOK
  <2>2. Mid(q) \in Nat
    BY Division DEF Mid, QuoteOK
  <2>3. Cheapest({q.ask, CloseCap(q)}) \in Nat
    <3>1. {q.ask, CloseCap(q)} = {q.ask, CloseCap(q), CloseCap(q)} /\ q.ask \in Nat
      BY DEF QuoteOK
    <3> QED
      BY <1>1, <3>1, CheapestOf
  <2> HIDE DEF Percent, Mid, CloseCap, Cheapest
  <2>4. close_fill_price(q, TRUE) \in Nat
    BY <2>1, <2>3 DEF close_fill_price, QuoteOK
  <2> HIDE DEF close_fill_price
  <2> QED
    BY <2>2, <2>4 DEF FirstKnown, QuoteOK
<1> HIDE DEF px
<1>3. {px, CloseCap(q)} = {px, CloseCap(q), CloseCap(q)}
  OBVIOUS
<1>4. /\ Cheapest({px, CloseCap(q)}) \in Nat
      /\ CloseCap(q) > 0 => Cheapest({px, CloseCap(q)}) <= CloseCap(q)
  BY <1>1, <1>2, <1>3, CheapestOf
<1>5. QuotedClose(q, urgent) = Cheapest({px, CloseCap(q)})
  BY DEF QuotedClose, px
<1> QED
  BY <1>1, <1>4, <1>5

LEMMA RetreatOf ==
    ASSUME NEW q, QuoteOK(q), kind \in {"open", "close"}
    PROVE  /\ RetreatPrice(q) \in Nat
           /\ kind = "open" /\ RetreatPrice(q) > 0 => OpenFloor(q) <= RetreatPrice(q)
           /\ kind = "close" /\ q.mark > 0 => RetreatPrice(q) <= CloseCap(q)
<1> DEFINE lo == FirstKnown(q.bid, Percent(q.mark, 99))
           hi == FirstKnown(q.ask, Percent(q.mark, 101))
<1>1. lo \in Nat /\ hi \in Nat
  <2>1. Percent(q.mark, 99) \in Nat /\ Percent(q.mark, 101) \in Nat
    BY PercentType DEF QuoteOK
  <2> HIDE DEF Percent
  <2> QED
    BY <2>1 DEF FirstKnown, QuoteOK
<1> HIDE DEF lo, hi
<1>2. /\ CloseCap(q) \in Nat /\ OpenFloor(q) \in Nat
      /\ q.mark > 0 => CloseCap(q) > 0
  BY Limits
<1>3. {hi, CloseCap(q)} = {hi, CloseCap(q), CloseCap(q)}
  OBVIOUS
<1>4. /\ Cheapest({hi, CloseCap(q)}) \in Nat
      /\ CloseCap(q) > 0 => Cheapest({hi, CloseCap(q)}) <= CloseCap(q)
  BY <1>1, <1>2, <1>3, CheapestOf
<1>5. Max({lo, OpenFloor(q)}) \in Nat /\ OpenFloor(q) <= Max({lo, OpenFloor(q)})
  BY <1>1, <1>2, MinOfTwo
<1>6. RetreatPrice(q) = IF kind = "open" THEN IF lo > 0 THEN Max({lo, OpenFloor(q)}) ELSE 0
                        ELSE IF hi > 0 THEN Cheapest({hi, CloseCap(q)}) ELSE 0
  BY DEF RetreatPrice, lo, hi
<1> QED
  BY <1>1, <1>2, <1>4, <1>5, <1>6

LEMMA ChaseOf ==
    ASSUME Inv, NEW ceil \in Nat
    PROVE  /\ ChasePrice(quote, ceil) \in Nat
           /\ quote.ask > 0 => ChasePrice(quote, ceil) <= quote.ask
           /\ ceil > 0 => ChasePrice(quote, ceil) <= ceil
<1>1. Percent(price, 100 + ChasePct) \in Nat /\ quote.ask \in Nat
  <2>1. price \in Nat /\ 100 + ChasePct \in Nat
    BY Constants DEF Inv
  <2> QED
    BY <2>1, PercentType DEF Inv, QuoteOK
<1> QED
  BY <1>1, CheapestOf DEF ChasePrice

-----------------------------------------------------------------------------
(* The steps. *)

LEMMA Amended ==
    ASSUME Inv, NEW px \in Nat, Amend(px)
    PROVE  \/ /\ price' = ToTick(px, RoundsUp) /\ resting' = ToTick(px, RoundsUp)
              /\ ToTick(px, RoundsUp) # price
           \/ price' = price /\ resting' = resting
BY DEF Amend

LEMMA ToTickOf ==
    ASSUME NEW x \in Nat, NEW up \in BOOLEAN
    PROVE  /\ ToTick(x, up) \in Nat
           /\ up => x <= ToTick(x, up) /\ ToTick(x, up) < x + TickUnits
           /\ ~up => ToTick(x, up) <= x
BY RoundBounds DEF ToTick

(* What a submission sends to the exchange. *)
LEMMA OpensAt ==
    ASSUME Inv, SubmitOpen
    PROVE  /\ price' \in Nat /\ resting' \in Nat
           /\ quote.mark > 0 => OpenFloor(quote) <= resting'
<1>1. /\ price' \in Nat
      /\ quote.mark > 0 => OpenFloor(quote) <= price'
  BY OpenPrice DEF SubmitOpen, Inv
<1>2. resting' \in Nat /\ price' <= resting'
  BY <1>1, ToTickOf DEF SubmitOpen
<1>3. OpenFloor(quote) \in Nat
  BY Limits DEF Inv
<1> QED
  BY <1>1, <1>2, <1>3

LEMMA ClosesAt ==
    ASSUME Inv, NEW urgent \in BOOLEAN, SubmitClose(urgent)
    PROVE  /\ price' \in Nat /\ resting' \in Nat /\ ceiling' \in Nat
           /\ resting' <= price'
           /\ quote.mark > 0 => resting' <= CloseCap(quote)
<1>1. /\ price' \in Nat
      /\ quote.mark > 0 => price' <= CloseCap(quote)
  BY ClosePrice DEF SubmitClose, Inv
<1>2. resting' \in Nat /\ resting' <= price'
  BY <1>1, ToTickOf DEF SubmitClose
<1>3. CloseCap(quote) \in Nat /\ ceiling' \in Nat
  BY Limits DEF Inv, SubmitClose
<1> QED
  BY <1>1, <1>2, <1>3

LEMMA RetreatsTo ==
    ASSUME Inv, Retreat
    PROVE  /\ price' \in Nat /\ resting' \in Nat
           /\ resting' # resting /\ quote.mark > 0 =>
                 IF kind = "open" THEN OpenFloor(quote) <= resting' ELSE resting' <= CloseCap(quote)
<1> DEFINE px == RetreatPrice(quote)
<1>1. /\ px \in Nat /\ px > 0
      /\ kind = "open" => OpenFloor(quote) <= px
      /\ kind = "close" /\ quote.mark > 0 => px <= CloseCap(quote)
  BY RetreatOf DEF Inv, Retreat
<1>2. RoundsUp <=> kind = "open"
  BY DEF RoundsUp, Retreat
<1>3. Amend(px)
  BY DEF Retreat
<1> HIDE DEF px
<1>4. /\ ToTick(px, RoundsUp) \in Nat
      /\ RoundsUp => px <= ToTick(px, RoundsUp)
      /\ ~RoundsUp => ToTick(px, RoundsUp) <= px
  <2>1. RoundsUp \in BOOLEAN
    BY DEF RoundsUp
  <2> QED
    BY <1>1, <2>1, ToTickOf
<1>5. CloseCap(quote) \in Nat /\ OpenFloor(quote) \in Nat
  BY Limits DEF Inv
<1>6. \/ price' = ToTick(px, RoundsUp) /\ resting' = ToTick(px, RoundsUp)
      \/ price' = price /\ resting' = resting
  BY <1>1, <1>3, Amended
<1>7. kind \in {"open", "close"} /\ price \in Nat /\ resting \in Nat
  BY DEF Inv
<1> QED
  BY <1>1, <1>2, <1>4, <1>5, <1>6, <1>7

LEMMA ChasesTo ==
    ASSUME Inv, Chase
    PROVE  /\ price' \in Nat /\ resting' \in Nat /\ ceiling' \in Nat /\ resting' <= price'
           /\ quote.mark > 0 => ceiling' = UrgentCeiling(quote)
           /\ resting' # resting =>
                 /\ resting' > resting
                 /\ quote.ask > 0 => resting' <= quote.ask
                 /\ ceiling' > 0 /\ resting' < ceiling' + TickUnits
<1> USE Constants
<1>1. /\ UrgentCeiling(quote) \in Nat /\ (quote.mark > 0 => UrgentCeiling(quote) > 0)
      /\ ceiling' = FreshCeiling(quote) /\ ceiling \in Nat
  BY Limits DEF Inv, Chase
<1>2. ceiling' \in Nat /\ (quote.mark > 0 => ceiling' = UrgentCeiling(quote))
  BY <1>1 DEF FreshCeiling, FirstKnown, Inv, QuoteOK
<1> DEFINE px == ChasePrice(quote, ceiling')
<1>3. /\ px \in Nat
      /\ quote.ask > 0 => px <= quote.ask
      /\ ceiling' > 0 => px <= ceiling'
  BY <1>2, ChaseOf
<1>4. \/ ceiling' > 0 /\ px > price /\ Amend(px)
      \/ price' = price /\ resting' = resting
  BY DEF Chase
<1>5. stage = "urgent" /\ price \in Nat /\ resting \in Nat /\ resting <= price
  BY DEF Chase, Inv
<1> HIDE DEF px
<1>6. RoundsUp = TRUE
  BY <1>5 DEF RoundsUp
<1>7. /\ ToTick(px, TRUE) \in Nat /\ px <= ToTick(px, TRUE) /\ ToTick(px, TRUE) < px + TickUnits
      /\ quote.ask > 0 => ToTick(px, TRUE) <= quote.ask
  <2>1. PICK k \in Nat : quote.ask = k * TickUnits
    BY DEF Inv, QuoteOK
  <2>2. ToTick(px, TRUE) = RoundUp(px)
    BY DEF ToTick
  <2>3. quote.ask > 0 => RoundUp(px) <= k * TickUnits
    BY <1>3, <2>1, RoundUpWithin
  <2> QED
    BY <1>3, <2>1, <2>2, <2>3, RoundBounds
<1>8. CASE ceiling' > 0 /\ px > price /\ Amend(px)
  <2>1. \/ price' = ToTick(px, TRUE) /\ resting' = ToTick(px, TRUE)
        \/ price' = price /\ resting' = resting
    BY <1>3, <1>6, <1>8, Amended
  <2>2. quote.ask \in Nat
    BY DEF Inv, QuoteOK
  <2>3. CASE price' = ToTick(px, TRUE) /\ resting' = ToTick(px, TRUE)
    <3> DEFINE sent == ToTick(px, TRUE)
    <3>1. /\ sent \in Nat /\ px \in Nat /\ px <= sent /\ sent < px + TickUnits
          /\ px > price /\ price' = sent /\ resting' = sent
      BY <1>3, <1>7, <1>8, <2>3
    <3> HIDE DEF sent
    <3>2. sent > resting
      BY <1>5, <3>1
    <3>3. px <= ceiling' /\ ceiling' > 0 /\ ceiling' \in Nat
      BY <1>2, <1>3, <1>8
    <3>4. sent < ceiling' + TickUnits
      BY <3>1, <3>3, Looser
    <3>5. quote.ask > 0 => sent <= quote.ask
      BY <1>7 DEF sent
    <3>6. /\ price' \in Nat /\ resting' \in Nat /\ resting' <= price'
      BY <3>1
    <3> QED
      BY <1>2, <3>1, <3>2, <3>3, <3>4, <3>5, <3>6
  <2>4. CASE price' = price /\ resting' = resting
    BY <1>2, <1>5, <2>4
  <2> QED
    BY <2>1, <2>3, <2>4
<1>9. CASE price' = price /\ resting' = resting
  BY <1>2, <1>5, <1>9
<1> QED
  BY <1>4, <1>8, <1>9

LEMMA InitInv == Init => Inv
<1> SUFFICES ASSUME Init PROVE Inv
  OBVIOUS
<1>1. QuoteOK(quote)
  BY QuotesOK DEF Init
<1> QED
  BY <1>1 DEF Init, Inv

LEMMA NextKeeps == Inv /\ [Next]_vars => Inv'
<1> SUFFICES ASSUME Inv, [Next]_vars PROVE Inv'
  OBVIOUS
<1>1. ASSUME NEW q \in Quotes, QuoteMoves(q) PROVE Inv'
  <2>1. QuoteOK(quote')
    BY <1>1, QuotesOK DEF QuoteMoves
  <2>2. UNCHANGED <<kind, stage, price, ceiling, resting>> /\ QuoteOK(quote)'
    BY <1>1, <2>1 DEF QuoteMoves, QuoteOK
  <2> QED
    BY <2>2 DEF Inv
<1>2. CASE SubmitOpen
  <2>1. price' \in Nat /\ resting' \in Nat
    BY <1>2, OpensAt
  <2>2. kind' = "open" /\ stage' = "mid" /\ UNCHANGED <<quote, ceiling>> /\ QuoteOK(quote)'
    BY <1>2 DEF SubmitOpen, Inv, QuoteOK
  <2> QED
    BY <2>1, <2>2 DEF Inv
<1>3. ASSUME NEW urgent \in BOOLEAN, SubmitClose(urgent) PROVE Inv'
  <2>1. price' \in Nat /\ resting' \in Nat /\ ceiling' \in Nat /\ resting' <= price'
    BY <1>3, ClosesAt
  <2>2. kind' = "close" /\ UNCHANGED quote /\ QuoteOK(quote)'
    BY <1>3 DEF SubmitClose, Inv, QuoteOK
  <2> QED
    BY <2>1, <2>2 DEF Inv
<1>4. CASE Retreat
  <2>1. price' \in Nat /\ resting' \in Nat
    BY <1>4, RetreatsTo
  <2>2. stage' # "urgent" /\ UNCHANGED <<quote, kind, ceiling>> /\ QuoteOK(quote)'
    BY <1>4 DEF Retreat, Inv, QuoteOK
  <2> QED
    BY <2>1, <2>2 DEF Inv
<1>5. CASE Chase
  <2>1. price' \in Nat /\ resting' \in Nat /\ ceiling' \in Nat /\ resting' <= price'
    BY <1>5, ChasesTo
  <2>2. UNCHANGED <<quote, kind, stage>> /\ QuoteOK(quote)'
    BY <1>5 DEF Chase, Inv, QuoteOK
  <2> QED
    BY <2>1, <2>2 DEF Inv
<1>6. CASE Over
  BY <1>6 DEF Over, Inv, QuoteOK
<1>7. CASE UNCHANGED vars
  BY <1>7 DEF vars, Inv, QuoteOK
<1> QED
  BY <1>1, <1>2, <1>3, <1>4, <1>5, <1>6, <1>7 DEF Next

(***************************************************************************)
(* An urgent order is a close, and the exchange never holds it at more     *)
(* than its row says.                                                      *)
(***************************************************************************)
THEOREM Invariance == Spec => []Inv
<1> QED
  BY InitInv, NextKeeps, PTL DEF Spec

(***************************************************************************)
(* The spread guard of pos #65 for every tick and every slip: with a mark, *)
(* no open rests below the floor and no close starts or retreats above the *)
(* cap, after rounding (loop._quote_px, execution._stage_price).           *)
(***************************************************************************)
THEOREM GuardHolds == Spec => SpreadGuard
<1>1. Inv /\ [Next]_vars =>
        [ resting' # resting /\ quote.mark > 0 =>
            IF kind' = "open" THEN resting' >= OpenFloor(quote)
            ELSE stage = "urgent" \/ resting' <= CloseCap(quote) ]_vars
  <2> SUFFICES ASSUME Inv, Next, resting' # resting, quote.mark > 0
               PROVE  IF kind' = "open" THEN resting' >= OpenFloor(quote)
                      ELSE stage = "urgent" \/ resting' <= CloseCap(quote)
    OBVIOUS
  <2>t. OpenFloor(quote) \in Nat /\ CloseCap(quote) \in Nat
    BY Limits DEF Inv
  <2>1. CASE SubmitOpen
    <3>1. kind' = "open" /\ resting' \in Nat /\ OpenFloor(quote) <= resting'
      BY <2>1, OpensAt DEF SubmitOpen
    <3> QED
      BY <2>t, <3>1
  <2>2. ASSUME NEW urgent \in BOOLEAN, SubmitClose(urgent)
        PROVE  kind' # "open" /\ resting' <= CloseCap(quote)
    BY <2>2, ClosesAt DEF SubmitClose
  <2>3. CASE Retreat
    <3>1. kind' = kind
      BY <2>3 DEF Retreat
    <3>2. resting' \in Nat /\ IF kind = "open" THEN OpenFloor(quote) <= resting'
                                              ELSE resting' <= CloseCap(quote)
      BY <2>3, RetreatsTo
    <3> QED
      BY <2>t, <3>1, <3>2
  <2>4. CASE Chase
    BY <2>4 DEF Chase, Inv
  <2>5. ~Over /\ \A q \in Quotes : ~QuoteMoves(q)
    BY DEF Over, QuoteMoves
  <2> QED
    BY <2>1, <2>2, <2>3, <2>4, <2>5 DEF Next
<1> QED
  BY <1>1, Invariance, PTL DEF Spec, SpreadGuard

(***************************************************************************)
(* The chase for every tick, step and slip: up only, never past the ask it *)
(* sees, never a whole tick past the ceiling, and not without one          *)
(* (execution.advance, LiveExecutor.amend).                                *)
(***************************************************************************)
THEOREM ChaseIsBounded == Spec => ChaseBounded
<1>1. Inv /\ [Next]_vars =>
        [ stage = "urgent" /\ resting' # resting =>
          /\ resting' > resting
          /\ quote.ask > 0 => resting' <= quote.ask
          /\ ceiling' > 0 /\ resting' < ceiling' + TickUnits
          /\ quote.mark > 0 => ceiling' = UrgentCeiling(quote) ]_vars
  <2> SUFFICES ASSUME Inv, Next, stage = "urgent", resting' # resting
               PROVE  /\ resting' > resting
                      /\ quote.ask > 0 => resting' <= quote.ask
                      /\ ceiling' > 0 /\ resting' < ceiling' + TickUnits
                      /\ quote.mark > 0 => ceiling' = UrgentCeiling(quote)
    OBVIOUS
  <2>1. ~Over /\ ~SubmitOpen /\ ~Retreat
    BY DEF Over, SubmitOpen, Retreat
  <2>2. \A urgent \in BOOLEAN : ~SubmitClose(urgent)
    BY DEF SubmitClose
  <2>3. \A q \in Quotes : ~QuoteMoves(q)
    BY DEF QuoteMoves
  <2>4. Chase
    BY <2>1, <2>2, <2>3 DEF Next
  <2> QED
    BY <2>4, ChasesTo
<1> QED
  BY <1>1, Invariance, PTL DEF Spec, ChaseBounded

-----------------------------------------------------------------------------
(* The calls of the client. *)

LEMMA LeastMember ==
    ASSUME NEW S, S \subseteq Nat, S # {}
    PROVE  Min(S) \in S /\ \A y \in S : Min(S) <= y
<1>1. PICK x \in S : \A y \in S : ~ (<<y, x>> \in OpToRel(<, Nat))
  BY NatLessThanWellFounded, WFMin
<1>2. ASSUME NEW y \in S, ~ (x <= y)
      PROVE  FALSE
  <2>1. x \in Nat /\ y \in Nat /\ y < x
    BY <1>2
  <2> QED
    BY <1>1, <2>1 DEF OpToRel
<1>3. \E z \in S : \A y \in S : z <= y
  BY <1>2
<1> QED
  BY <1>3 DEF Min

(* A call makes one attempt at least, and no more than it has. *)
LEMMA TriesType ==
    ASSUME NEW script \in Scripts
    PROVE  Decisive(script) \in 0..Attempts /\ Tries(script) \in 1..Attempts
<1>1. Attempts \in Nat \ {0} /\ Len(script) = Attempts
  BY BybitClientAssumption DEF BybitClientAssumption, Scripts
<1>2. PICK I : I = {i \in 1..Len(script) : script[i] # "failed"}
  OBVIOUS
<1>3. Decisive(script) = IF I # {} THEN Min(I) ELSE 0
  BY <1>2 DEF Decisive, SelectInSeq
<1>4. I \subseteq 1..Attempts /\ I \subseteq Nat
  BY <1>1, <1>2
<1>5. I # {} => Min(I) \in 1..Attempts
  BY <1>4, LeastMember
<1> QED
  BY <1>1, <1>3, <1>5 DEF Tries

(* get_order finds what one of its two questions finds. *)
LEMMA FoundInPair ==
    ASSUME NEW rows, rows[1] \notin {NoAnswer, <<>>} \/ rows[2] \notin {NoAnswer, <<>>}, Len(rows) = 2
    PROVE  LET found == SelectInSeq(rows, LAMBDA r : r \notin {NoAnswer, <<>>})
           IN  found \in {1, 2} /\ rows[found] \notin {NoAnswer, <<>>}
<1>1. PICK I : I = {i \in 1..Len(rows) : rows[i] \notin {NoAnswer, <<>>}}
  OBVIOUS
<1>2. I # {} /\ I \subseteq {1, 2} /\ I \subseteq Nat
  BY <1>1
<1>3. Min(I) \in I
  BY <1>2, LeastMember
<1>4. SelectInSeq(rows, LAMBDA r : r \notin {NoAnswer, <<>>}) = Min(I)
  BY <1>1, <1>2 DEF SelectInSeq
<1> QED
  BY <1>1, <1>2, <1>3, <1>4

LEMMA AbsentFromBoth ==
    ASSUME NEW o \in OrderLives, NEW open \in Scripts, NEW history \in Scripts,
           get_order(o, open, history, 1) = Absent
    PROVE  Resting(o, Tries(open)) = <<>> /\ Ended(o, Tries(open) + Tries(history)) = <<>>
<1> DEFINE first == IF Decisive(open) = 0 \/ open[Tries(open)] = "rejected" THEN NoAnswer
                    ELSE Resting(o, 1 + Tries(open) - 1)
           second == IF Decisive(history) = 0 \/ history[Tries(history)] = "rejected" THEN NoAnswer
                     ELSE Ended(o, 1 + Tries(open) + Tries(history) - 1)
           rows == <<first, second>>
           found == SelectInSeq(rows, LAMBDA r : r \notin {NoAnswer, <<>>})
<1>1. get_order(o, open, history, 1)
        = IF found # 0 THEN rows[found][1] ELSE IF NoAnswer \in ToSet(rows) THEN NoAnswer ELSE Absent
  BY DEF get_order, with_retry
<1>2. first \in {NoAnswer, <<>>, <<o>>} /\ second \in {NoAnswer, <<>>, <<o>>}
  BY DEF Resting, Ended
<1>3. Tries(open) \in Nat /\ Tries(history) \in Nat
  BY TriesType
<1>4. NoAnswer # Absent
  BY BybitClientAssumption, EmptySeq DEF BybitClientAssumption, Absent
<1>5. o # Absent
  BY DEF OrderLives, Absent
<1> HIDE DEF first, second
<1>6. rows[1] = first /\ rows[2] = second /\ Len(rows) = 2 /\ ToSet(rows) = {first, second}
  BY DEF ToSet
<1> HIDE DEF rows, found
<1>7. first \in {NoAnswer, <<>>} /\ second \in {NoAnswer, <<>>}
  <2> SUFFICES ASSUME first \notin {NoAnswer, <<>>} \/ second \notin {NoAnswer, <<>>} PROVE FALSE
    OBVIOUS
  <2>1. found \in {1, 2} /\ rows[found] \notin {NoAnswer, <<>>}
    BY <1>6, FoundInPair DEF found
  <2>2. rows[found] = <<o>>
    BY <1>2, <1>6, <2>1
  <2> QED
    BY <1>1, <1>5, <2>1, <2>2
<1>8. first = <<>> /\ second = <<>>
  <2>1. found = 0
    <3>1. {i \in 1..Len(rows) : rows[i] \notin {NoAnswer, <<>>}} = {}
      BY <1>6, <1>7
    <3> QED
      BY <3>1 DEF found, SelectInSeq
  <2>2. NoAnswer \notin {first, second}
    BY <1>1, <1>4, <1>6, <2>1
  <2> QED
    BY <1>7, <2>2
<1>9. first = Resting(o, 1 + Tries(open) - 1)
      /\ second = Ended(o, 1 + Tries(open) + Tries(history) - 1)
  BY <1>4, <1>8 DEF first, second, Absent
<1>10. 1 + Tries(open) - 1 = Tries(open)
       /\ 1 + Tries(open) + Tries(history) - 1 = Tries(open) + Tries(history)
  BY <1>3
<1> QED
  BY <1>8, <1>9, <1>10

(* An order that get_order calls absent had not reached the exchange when it was
   asked for, for any number of attempts and any failures of them: the history
   is asked after the open orders, so an order that moves in between is seen
   there. *)
THEOREM AbsentIsRight == Spec => []AbsentWasNotThere
<1>1. WronglyAbsent = {}
  <2> SUFFICES ASSUME NEW o \in OrderLives, NEW open \in Scripts, NEW history \in Scripts,
                      get_order(o, open, history, 1) = Absent, o.arrives <= Tries(open)
               PROVE  FALSE
    BY DEF WronglyAbsent
  <2>1. Resting(o, Tries(open)) = <<>> /\ Ended(o, Tries(open) + Tries(history)) = <<>>
    BY AbsentFromBoth
  <2>2. Tries(open) \in Nat /\ Tries(history) \in Nat
    BY TriesType
  <2>3. o.arrives \in Nat /\ o.ends \in Nat
    BY BybitClientAssumption DEF BybitClientAssumption, OrderLives
  <2>4. <<o>> # <<>>
    OBVIOUS
  <2>5. ~ (o.ends <= Tries(open) + Tries(history)) /\ ~ (Tries(open) < o.ends)
    BY <2>1, <2>4 DEF Resting, Ended
  <2> QED
    BY <2>2, <2>3, <2>5
<1>2. AbsentWasNotThere
  BY <1>1 DEF AbsentWasNotThere
<1> QED
  BY <1>2, PTL

-----------------------------------------------------------------------------
(* Candles.  After each page what is collected is a run of candles that ends
   with the newest one of the first answer. *)

RunTo(last, len) == [i \in 1..len |-> last - len + i]

LEMMA RunType ==
    ASSUME NEW last \in Int, NEW len \in Nat
    PROVE  RunTo(last, len) \in Seq(Int) /\ Len(RunTo(last, len)) = len
<1>1. RunTo(last, len) \in [1..len -> Int]
  BY DEF RunTo
<1> QED
  BY <1>1, SeqDef, LenProperties

(* A run before a run is a run. *)
LEMMA RunOfRuns ==
    ASSUME NEW last \in Int, NEW len \in Nat, NEW more \in Nat
    PROVE  RunTo(last - len, more) \o RunTo(last, len) = RunTo(last, more + len)
<1> DEFINE a == RunTo(last - len, more)
           b == RunTo(last, len)
           c == RunTo(last, more + len)
<1>1. a \in Seq(Int) /\ b \in Seq(Int) /\ c \in Seq(Int)
      /\ Len(a) = more /\ Len(b) = len /\ Len(c) = more + len
  <2>1. last - len \in Int /\ more + len \in Nat
    OBVIOUS
  <2> QED
    BY <2>1, RunType
<1>2. \A i \in 1..more : a[i] = c[i]
  BY DEF RunTo
<1>3. \A i \in 1..len : b[i] = c[more + i]
  BY DEF RunTo
<1> HIDE DEF a, b, c
<1>4. a \o b \in Seq(Int) /\ Len(a \o b) = more + len
      /\ \A i \in 1..(more + len) : (a \o b)[i] = IF i <= more THEN a[i] ELSE b[i - more]
  BY <1>1, ConcatProperties
<1>5. ASSUME NEW i \in 1..(more + len)
      PROVE  (a \o b)[i] = c[i]
  <2>1. CASE i <= more
    BY <1>2, <1>4, <2>1
  <2>2. CASE ~ (i <= more)
    <3>1. i - more \in 1..len /\ more + (i - more) = i
      BY <2>2
    <3> QED
      BY <1>3, <1>4, <2>2, <3>1
  <2> QED
    BY <2>1, <2>2
<1>6. a \o b = c
  BY <1>1, <1>4, <1>5, SeqEqual
<1> QED
  BY <1>6 DEF a, b, c

LEMMA LesserOf ==
    ASSUME NEW a \in Nat, NEW b \in Nat
    PROVE  Min({a, b}) = IF a <= b THEN a ELSE b
<1>1. PICK S : S = {a, b}
  OBVIOUS
<1>2. Min(S) \in S /\ \A y \in S : Min(S) <= y
  BY <1>1, LeastMember
<1> QED
  BY <1>1, <1>2

LEMMA PageIsRun ==
    ASSUME NEW end \in Nat, NEW batch \in Nat
    PROVE  Page(end, batch) = RunTo(end, IF batch <= end THEN batch ELSE end)
BY LesserOf DEF Page, RunTo

Collected == [out : Seq(Int), end : Int \cup {NoAnswer}, remaining : Nat, time : Nat]

(* What holds of the candles after `page` pages of a call for `limit` of them,
   the newest being `last` when the first page was answered. *)
CollectedInv(s, page, limit, last, scripts) ==
    /\ s \in Collected
    /\ \E len \in 0..limit :
          /\ s.out = RunTo(last, len) /\ len <= last
          /\ s.remaining # 0 => /\ s.end = IF page = 0 THEN NoAnswer ELSE last - len
                                /\ s.remaining = limit - len /\ len = page * PageSize
          /\ s.remaining = 0 /\ Answered(scripts) => len = limit \/ len = last

(* One page more. *)
LEMMA NextPageHolds ==
    ASSUME NEW s, NEW page \in Nat, NEW limit \in Nat, NEW newest \in Nat, NEW last \in Nat,
           NEW script \in Scripts, NEW scripts,
           CollectedInv(s, page, limit, last, scripts), s.remaining # 0,
           page = 0 => s.time = 0 /\ last = newest + Tries(script) - 1,
           Answered(scripts) => Decisive(script) # 0 /\ script[Tries(script)] = "answered"
    PROVE  CollectedInv(NextPage(s, script, newest), page + 1, limit, last, scripts)
<1> DEFINE batch == Min({s.remaining, PageSize})
           end == IF s.end = NoAnswer THEN newest + (s.time + Tries(script) - 1) ELSE s.end
           chunk == IF Decisive(script) = 0 \/ script[Tries(script)] = "rejected" THEN NoAnswer
                    ELSE Page(end, batch)
           got == chunk # NoAnswer /\ chunk # <<>>
           next == NextPage(s, script, newest)
<1>1. s \in Collected /\ NoAnswer \notin Nat /\ NoAnswer \notin Seq(Int) /\ PageSize \in Nat \ {0}
  BY BybitClientAssumption DEF BybitClientAssumption, CollectedInv
<1>2. Tries(script) \in Nat /\ s.time \in Nat /\ s.remaining \in Nat \ {0} /\ s.out \in Seq(Int)
  BY <1>1, TriesType DEF Collected
<1>3. PICK len \in 0..limit :
          /\ s.out = RunTo(last, len) /\ len <= last
          /\ s.end = IF page = 0 THEN NoAnswer ELSE last - len
          /\ s.remaining = limit - len /\ len = page * PageSize
  BY DEF CollectedInv
<1> DEFINE before == page * PageSize
<1> HIDE DEF before
<1>4. len = before /\ len \in Nat /\ len <= limit /\ len <= last /\ s.remaining = limit - len
      /\ s.out = RunTo(last, len)
  BY <1>3 DEF before
<1>5. end = last - len /\ end \in Nat
  <2>1. CASE page = 0
    BY <1>1, <1>2, <1>3, <2>1
  <2>2. CASE page # 0
    BY <1>1, <1>3, <2>2
  <2> QED
    BY <2>1, <2>2
<1>6. batch = (IF s.remaining <= PageSize THEN s.remaining ELSE PageSize) /\ batch \in Nat \ {0}
  BY <1>1, <1>2, LesserOf
<1> HIDE DEF end, batch
<1> DEFINE more == IF batch <= end THEN batch ELSE end
           run == RunTo(end, more)
<1>7. more \in Nat /\ more <= batch /\ more <= end /\ (more = batch \/ more = end)
  BY <1>5, <1>6
<1>8. Page(end, batch) = run
  BY <1>5, <1>6, PageIsRun
<1> HIDE DEF more
<1>9. run \in Seq(Int) /\ Len(run) = more
  <2>1. end \in Int
    BY <1>5
  <2> HIDE DEF run
  <2>2. run = RunTo(end, more)
    BY DEF run
  <2>3. RunTo(end, more) \in Seq(Int) /\ Len(RunTo(end, more)) = more
    BY <1>7, <2>1, RunType
  <2> QED
    BY <2>2, <2>3
<1>10. chunk = NoAnswer \/ chunk = run
  BY <1>8
<1>11. next = LET after == [s EXCEPT !.time = @ + Tries(script)]
             IN  IF ~got THEN [after EXCEPT !.remaining = 0]
                 ELSE [after EXCEPT !.out = chunk \o @, !.end = chunk[1] - 1,
                                    !.remaining = IF Len(chunk) < batch THEN 0 ELSE @ - Len(chunk)]
  BY DEF NextPage, with_retry, BeforeFirst, end, batch
<1>12. Answered(scripts) => chunk = run
  BY <1>8
<1> HIDE DEF next, chunk, run
<1>13. CASE ~got
  <2>1. next.out = s.out /\ next.remaining = 0 /\ next \in Collected
    <3>1. next = [[s EXCEPT !.time = @ + Tries(script)] EXCEPT !.remaining = 0]
      BY <1>11, <1>13
    <3>2. s.time + Tries(script) \in Nat
      BY <1>2
    <3> QED
      BY <1>1, <3>1, <3>2 DEF Collected
  <2>2. Answered(scripts) => len = last
    <3> SUFFICES ASSUME Answered(scripts) PROVE len = last
      OBVIOUS
    <3>1. run = <<>>
      BY <1>1, <1>9, <1>12, <1>13
    <3>2. more = 0
      BY <1>9, <3>1, EmptySeq
    <3> QED
      BY <1>4, <1>5, <1>6, <1>7, <3>2
  <2>3. len \in 0..limit
    BY <1>4
  <2> QED
    <3>1. /\ next.out = RunTo(last, len) /\ len <= last
          /\ next.remaining # 0 => /\ next.end = IF page + 1 = 0 THEN NoAnswer ELSE last - len
                                   /\ next.remaining = limit - len /\ len = (page + 1) * PageSize
          /\ next.remaining = 0 /\ Answered(scripts) => len = limit \/ len = last
      BY <1>4, <2>1, <2>2
    <3> HIDE DEF got
    <3> QED
      BY <2>1, <2>3, <3>1, Zenon DEF CollectedInv, next
<1>14. CASE got
  <2>1. chunk = run /\ more \in Nat \ {0}
    BY <1>7, <1>9, <1>10, <1>14, EmptySeq
  <2>2. chunk[1] = end - more + 1
    BY <1>5, <2>1 DEF run, RunTo
  <2>3. chunk \o s.out = RunTo(last, more + len)
    <3>1. RunTo(last - len, more) \o RunTo(last, len) = RunTo(last, more + len)
      <4>1. last \in Int
        OBVIOUS
      <4> QED
        BY <1>4, <1>7, <4>1, RunOfRuns
    <3>2. run = RunTo(last - len, more)
      BY <1>5 DEF run
    <3> QED
      BY <1>4, <2>1, <3>1, <3>2
  <2> DEFINE left == IF more < batch THEN 0 ELSE s.remaining - more
  <2>4. left \in Nat
    BY <1>2, <1>6, <1>7, <2>1
  <2>5. /\ next.out = RunTo(last, more + len) /\ next.end = last - (more + len)
        /\ next.remaining = left /\ next.time = s.time + Tries(script) /\ next \in Collected
    <3>1. RunTo(last, more + len) \in Seq(Int)
      BY <1>4, <2>1, RunType
    <3>2. end - more + 1 - 1 = last - (more + len) /\ last - (more + len) \in Int
      BY <1>4, <1>5, <2>1
    <3>3. next = [[s EXCEPT !.time = @ + Tries(script)]
                     EXCEPT !.out = chunk \o @, !.end = chunk[1] - 1,
                            !.remaining = IF Len(chunk) < batch THEN 0 ELSE @ - Len(chunk)]
      BY <1>11, <1>14
    <3>4. /\ next.out = chunk \o s.out /\ next.end = chunk[1] - 1
          /\ next.remaining = (IF Len(chunk) < batch THEN 0 ELSE s.remaining - Len(chunk))
          /\ next.time = s.time + Tries(script)
      BY <1>1, <3>3 DEF Collected
    <3>5. next.out = RunTo(last, more + len) /\ next.end = last - (more + len) /\ next.remaining = left
      <4>1. chunk[1] - 1 = last - (more + len)
        BY <1>4, <1>5, <1>7, <2>2
      <4>2. Len(chunk) = more
        BY <1>9, <2>1
      <4> QED
        BY <2>3, <3>4, <4>1, <4>2
    <3>6. next \in Collected
      <4>1. /\ chunk \o s.out \in Seq(Int) /\ chunk[1] - 1 \in Int /\ s.time + Tries(script) \in Nat
            /\ (IF Len(chunk) < batch THEN 0 ELSE s.remaining - Len(chunk)) \in Nat
        <5>1. Len(chunk) = more
          BY <1>9, <2>1
        <5>2. (IF Len(chunk) < batch THEN 0 ELSE s.remaining - Len(chunk)) \in Nat
          BY <2>4, <5>1
        <5>3. s.time + Tries(script) \in Nat
          BY <1>2
        <5>4. chunk \o s.out \in Seq(Int)
          BY <2>3, <3>1
        <5>5. chunk[1] - 1 \in Int
          BY <1>5, <1>7, <2>2
        <5> QED
          BY <5>2, <5>3, <5>4, <5>5
      <4> QED
        BY <1>1, <3>3, <4>1 DEF Collected
    <3> QED
      BY <3>4, <3>5, <3>6
  <2>6. more + len \in 0..limit /\ more + len <= last
    BY <1>1, <1>2, <1>4, <1>5, <1>6, <1>7, <2>1
  <2>7. left = 0 => more + len = limit \/ more + len = last
    BY <1>1, <1>2, <1>4, <1>5, <1>6, <1>7, <2>1
  <2>8. left # 0 => left = limit - (more + len) /\ more + len = (page + 1) * PageSize
    <3> SUFFICES ASSUME left # 0 PROVE left = limit - (more + len) /\ more + len = (page + 1) * PageSize
      OBVIOUS
    <3>1. more = batch /\ left = s.remaining - more
      BY <1>5, <1>6, <1>7, <2>1
    <3>2. more = PageSize
      BY <1>1, <1>2, <1>6, <3>1
    <3>3. (page + 1) * PageSize = page * PageSize + PageSize
      BY <1>1
    <3> QED
      <4>1. left = limit - (more + len)
        BY <1>4, <1>7, <3>1
      <4>2. more + len = PageSize + before
        BY <1>1, <1>4, <3>2
      <4>3. (page + 1) * PageSize = before + PageSize
        BY <3>3 DEF before
      <4>4. before \in Int
        BY <1>4
      <4> QED
        BY <1>1, <4>1, <4>2, <4>3, <4>4
  <2> HIDE DEF left
  <2>9. page + 1 # 0
    OBVIOUS
  <2> QED
    <3> DEFINE l == more + len
    <3>1. /\ next.out = RunTo(last, l) /\ l <= last
          /\ next.remaining # 0 => /\ next.end = IF page + 1 = 0 THEN NoAnswer ELSE last - l
                                   /\ next.remaining = limit - l /\ l = (page + 1) * PageSize
          /\ next.remaining = 0 /\ Answered(scripts) => l = limit \/ l = last
      BY <2>5, <2>6, <2>7, <2>8, <2>9
    <3>2. l \in 0..limit
      BY <2>6
    <3> HIDE DEF got, l
    <3> QED
      BY <2>5, <3>1, <3>2, Zenon DEF CollectedInv, next
<1> QED
  BY <1>13, <1>14 DEF next

(* The pages as the states of a function of their number. *)
StartOf(limit) == [out |-> <<>>, end |-> NoAnswer, remaining |-> limit, time |-> 0]
Turn(s, script, newest) == IF s.remaining = 0 THEN s ELSE NextPage(s, script, newest)
Turns(limit, scripts, newest, n, f) ==
    f = [k \in 0..n |-> IF k = 0 THEN StartOf(limit) ELSE Turn(f[k - 1], scripts[k], newest)]

LEMMA SomeTurns ==
    ASSUME NEW limit, NEW scripts, NEW newest, NEW n \in Nat
    PROVE  \E f : Turns(limit, scripts, newest, n, f)
<1> DEFINE T == {k \in Nat : \E f : Turns(limit, scripts, newest, k, f)}
<1>1. 0 \in T
  <2> DEFINE f == [k \in 0..0 |-> StartOf(limit)]
  <2>1. Turns(limit, scripts, newest, 0, f)
    BY DEF Turns
  <2> QED
    BY <2>1
<1>2. ASSUME NEW k \in Nat, k \in T
      PROVE  k + 1 \in T
  <2>1. PICK f : Turns(limit, scripts, newest, k, f)
    BY <1>2
  <2> DEFINE g == [j \in 0..(k + 1) |-> IF j = k + 1 THEN Turn(f[k], scripts[k + 1], newest) ELSE f[j]]
  <2>2. \A j \in 0..k : g[j] = f[j]
    OBVIOUS
  <2>3. \A j \in 0..k : f[j] = IF j = 0 THEN StartOf(limit) ELSE Turn(f[j - 1], scripts[j], newest)
    BY <2>1 DEF Turns
  <2>4. ASSUME NEW j \in 0..(k + 1)
        PROVE  g[j] = IF j = 0 THEN StartOf(limit) ELSE Turn(g[j - 1], scripts[j], newest)
    <3>1. CASE j = k + 1
      <4>1. j # 0 /\ j - 1 = k /\ k \in 0..k /\ g[j] = Turn(f[k], scripts[j], newest)
        BY <3>1
      <4> QED
        BY <2>2, <4>1
    <3>2. CASE j # k + 1
      <4>1. j \in 0..k /\ (j # 0 => j - 1 \in 0..k)
        BY <3>2
      <4> HIDE DEF g
      <4> QED
        BY <2>2, <2>3, <4>1
    <3> QED
      BY <3>1, <3>2
  <2>5. g = [j \in 0..(k + 1) |-> g[j]]
    OBVIOUS
  <2> HIDE DEF g
  <2>6. Turns(limit, scripts, newest, k + 1, g)
    BY <2>4, <2>5, Zenon DEF Turns
  <2> QED
    BY <2>6
<1> QED
  BY <1>1, <1>2, SetInduction

LEMMA KlinesByTurns ==
    ASSUME NEW limit, NEW scripts, NEW newest, Len(scripts) \in Nat
    PROVE  \E f : /\ Turns(limit, scripts, newest, Len(scripts), f)
                  /\ get_klines(limit, scripts, newest) = f[Len(scripts)].out
<1>1. get_klines(limit, scripts, newest)
        = (CHOOSE f : Turns(limit, scripts, newest, Len(scripts), f))[Len(scripts)].out
  BY DEF get_klines, Turns, Turn, StartOf
<1> QED
  BY <1>1, SomeTurns

(* There are pages enough for what can be asked for. *)
LEMMA PagesType == Pages \in Nat \ {0} /\ Pages * PageSize >= MaxLimit
<1>0. MaxLimit \in Nat \ {0} /\ PageSize \in Nat \ {0}
  BY BybitClientAssumption DEF BybitClientAssumption
<1> DEFINE a == MaxLimit + PageSize - 1
<1>1. a \in Nat /\ a >= PageSize /\ PageSize > 0
  BY <1>0
<1>2. Pages = a \div PageSize
  BY DEF Pages
<1> HIDE DEF a
<1>3. Pages \in Nat /\ Pages * PageSize <= a /\ a < Pages * PageSize + PageSize
  BY <1>0, <1>1, <1>2, Division
<1>4. Pages # 0
  <2> SUFFICES ASSUME Pages = 0 PROVE FALSE
    OBVIOUS
  <2>1. Pages * PageSize = 0
    BY <1>0
  <2> QED
    BY <1>0, <1>1, <1>3, <2>1
<1>5. PICK b : b = Pages * PageSize
  OBVIOUS
<1>6. b \in Int
  BY <1>0, <1>3, <1>5
<1>7. b >= MaxLimit
  BY <1>0, <1>3, <1>5, <1>6 DEF a
<1> QED
  BY <1>3, <1>4, <1>5, <1>7

LEMMA KlinesHold ==
    ASSUME NEW limit \in 1..MaxLimit, NEW scripts \in [1..Pages -> Scripts], NEW newest \in 1..(MaxLimit + 1)
    PROVE  LET ks == get_klines(limit, scripts, newest)
               last == newest + Tries(scripts[1]) - 1
           IN  \E len \in 0..limit :
                  /\ ks = RunTo(last, len) /\ len <= last
                  /\ Answered(scripts) => len = limit \/ len = last
<1> DEFINE last == newest + Tries(scripts[1]) - 1
<1>1. MaxLimit \in Nat \ {0} /\ PageSize \in Nat \ {0} /\ limit \in Nat /\ newest \in Nat
  BY BybitClientAssumption DEF BybitClientAssumption
<1>2. Pages \in Nat \ {0} /\ Pages * PageSize >= MaxLimit
  BY PagesType
<1>3. Len(scripts) = Pages /\ \A k \in 1..Pages : scripts[k] \in Scripts
  BY <1>2
<1>4. Tries(scripts[1]) \in Nat \ {0} /\ last \in Nat
  <2>1. scripts[1] \in Scripts
    BY <1>2, <1>3
  <2>2. Tries(scripts[1]) \in 1..Attempts
    BY <2>1, TriesType
  <2> QED
    BY <1>1, <2>2
<1>5. PICK f : Turns(limit, scripts, newest, Pages, f) /\ get_klines(limit, scripts, newest) = f[Pages].out
  BY <1>2, <1>3, KlinesByTurns
<1>6. \A k \in 0..Pages : f[k] = IF k = 0 THEN StartOf(limit) ELSE Turn(f[k - 1], scripts[k], newest)
  BY <1>5 DEF Turns
<1>7. \A k \in 1..Pages : Answered(scripts) => Decisive(scripts[k]) # 0 /\ scripts[k][Tries(scripts[k])] = "answered"
  BY DEF Answered
<1> HIDE DEF last
<1> DEFINE Good(k) == CollectedInv(f[k], k, limit, last, scripts) /\ (k = 0 => f[k].time = 0)
           T == {k \in Nat : k <= Pages => Good(k)}
<1>8. 0 \in T
  <2>1. f[0] = StartOf(limit)
    BY <1>2, <1>6
  <2>2. StartOf(limit) \in Collected
    BY <1>1, EmptySeq DEF StartOf, Collected
  <2>3. RunTo(last, 0) = <<>>
    BY <1>4, RunType, EmptySeq
  <2>4. 0 \in 0..limit /\ 0 <= last /\ limit # 0 /\ limit = limit - 0 /\ 0 = 0 * PageSize
    BY <1>1, <1>4
  <2>5. CollectedInv(StartOf(limit), 0, limit, last, scripts)
    BY <2>2, <2>3, <2>4 DEF CollectedInv, StartOf
  <2> QED
    BY <2>1, <2>5 DEF StartOf
<1>9. ASSUME NEW k \in Nat, k \in T
       PROVE  k + 1 \in T
  <2> SUFFICES ASSUME k + 1 <= Pages PROVE Good(k + 1)
    OBVIOUS
  <2>1. Good(k) /\ k + 1 \in 1..Pages /\ k \in 0..Pages /\ k + 1 # 0
    BY <1>2, <1>9
  <2>2. f[k + 1] = Turn(f[k], scripts[k + 1], newest)
    <3>1. k + 1 \in 0..Pages /\ (k + 1) - 1 = k
      BY <2>1
    <3> QED
      BY <1>6, <2>1, <3>1
  <2>3. scripts[k + 1] \in Scripts
    BY <1>3, <2>1
  <2>4. CASE f[k].remaining = 0
    <3>1. f[k + 1] = f[k]
      BY <2>2, <2>4 DEF Turn
    <3>2. CollectedInv(f[k], k + 1, limit, last, scripts)
      BY <2>1, <2>4 DEF CollectedInv
    <3> QED
      BY <2>1, <3>1, <3>2
  <2>5. CASE f[k].remaining # 0
    <3>1. f[k + 1] = NextPage(f[k], scripts[k + 1], newest)
      BY <2>2, <2>5 DEF Turn
    <3>2. k = 0 => f[k].time = 0 /\ last = newest + Tries(scripts[k + 1]) - 1
      BY <2>1 DEF last
    <3>3. CollectedInv(NextPage(f[k], scripts[k + 1], newest), k + 1, limit, last, scripts)
      <4>1. PICK s, script : s = f[k] /\ script = scripts[k + 1]
        OBVIOUS
      <4>2. /\ CollectedInv(s, k, limit, last, scripts) /\ s.remaining # 0 /\ script \in Scripts
            /\ k = 0 => s.time = 0 /\ last = newest + Tries(script) - 1
        BY <2>1, <2>3, <2>5, <3>2, <4>1
      <4>3. Answered(scripts) => Decisive(script) # 0 /\ script[Tries(script)] = "answered"
        BY <1>7, <2>1, <4>1
      <4>4. CollectedInv(NextPage(s, script, newest), k + 1, limit, last, scripts)
        BY <1>1, <1>4, <1>9, <4>2, <4>3, NextPageHolds
      <4> QED
        BY <4>1, <4>4
    <3> QED
      BY <2>1, <3>1, <3>3
  <2> QED
    BY <2>4, <2>5
<1> HIDE DEF T
<1>10. Nat \subseteq T
  BY <1>8, <1>9, SetInduction
<1>11. CollectedInv(f[Pages], Pages, limit, last, scripts)
  BY <1>2, <1>10 DEF T
<1>12. f[Pages].remaining = 0
  <2> SUFFICES ASSUME f[Pages].remaining # 0 PROVE FALSE
    OBVIOUS
  <2>1. PICK len \in 0..limit : f[Pages].remaining = limit - len /\ len = Pages * PageSize
    BY <1>11 DEF CollectedInv
  <2>2. f[Pages].remaining \in Nat
    BY <1>11 DEF CollectedInv, Collected
  <2>3. len >= MaxLimit
    BY <1>2, <2>1
  <2> QED
    BY <1>1, <2>1, <2>2, <2>3
<1> QED
  BY <1>5, <1>11, <1>12 DEF CollectedInv, last

(* The candles of get_klines are consecutive and end with the newest one of the
   time of the first answer, though new ones appear between two pages and a page
   may be missing; they are as many as asked for, or all there are, if none was:
   for every size of a page and every number of attempts. *)
THEOREM KlinesAreConsecutive == Spec => []KlinesConsecutive
<1>1. Torn = {}
  <2> SUFFICES ASSUME NEW limit \in 1..MaxLimit, NEW scripts \in [1..Pages -> Scripts],
                      NEW newest \in 1..(MaxLimit + 1)
               PROVE  LET ks == get_klines(limit, scripts, newest) IN
                      /\ Consecutive(ks) /\ ~ (Len(ks) > limit)
                      /\ ks # <<>> => Last(ks) = newest + Tries(scripts[1]) - 1
                      /\ Answered(scripts) /\ Len(ks) < limit => ks[1] = 1
    BY DEF Torn
  <2> DEFINE ks == get_klines(limit, scripts, newest)
             last == newest + Tries(scripts[1]) - 1
  <2>1. PICK len \in 0..limit :
           /\ ks = RunTo(last, len) /\ len <= last
           /\ Answered(scripts) => len = limit \/ len = last
    BY KlinesHold
  <2>2. last \in Nat \ {0} /\ MaxLimit \in Nat \ {0}
    <3>1. MaxLimit \in Nat \ {0} /\ PageSize \in Nat \ {0}
      BY BybitClientAssumption DEF BybitClientAssumption
    <3>2. Pages \in Nat \ {0}
      BY <3>1, PagesType
    <3>3. scripts[1] \in Scripts
      BY <3>2
    <3>4. Tries(scripts[1]) \in Nat \ {0}
      BY <3>3, TriesType
    <3> QED
      BY <3>1, <3>4
  <2> HIDE DEF last, ks
  <2>3. len \in Nat /\ Len(ks) = len
    BY <2>1, <2>2, RunType
  <2>4. \A i \in 1..len : ks[i] = last - len + i
    BY <2>1 DEF RunTo
  <2>5. Consecutive(ks)
    BY <2>2, <2>3, <2>4 DEF Consecutive
  <2>6. ks # <<>> => Last(ks) = last
    <3> SUFFICES ASSUME ks # <<>> PROVE Last(ks) = last
      OBVIOUS
    <3>1. len # 0
      BY <2>1, <2>2, <2>3, RunType, EmptySeq
    <3> QED
      BY <2>2, <2>3, <2>4, <3>1 DEF Last
  <2>7. Answered(scripts) /\ Len(ks) < limit => ks[1] = 1
    BY <2>1, <2>2, <2>3, <2>4
  <2> QED
    BY <2>3, <2>5, <2>6, <2>7 DEF ks, last
<1>2. KlinesConsecutive
  BY <1>1 DEF KlinesConsecutive
<1> QED
  BY <1>2, PTL

-----------------------------------------------------------------------------
(* EntryWindow. *)

LEMMA WindowConstants ==
    /\ Minutes \in Nat /\ Minutes > 0 /\ StaleMinutes \in Nat
    /\ Tolerance \in Nat /\ Cooldown \in Nat /\ Cooldown > 0
    /\ None \notin Sides /\ None \notin Nat
    /\ LastWindow \in Nat /\ LastWindow > 0 /\ MaxRestarts \in Nat /\ MaxRaised \in Nat
BY EntryWindowAssumption DEF EntryWindowAssumption

-----------------------------------------------------------------------------
(* The tracker in memory. *)

Trackers ==
    [wid : 0..LastWindow, fails : Nat, disq : BOOLEAN, fired : BOOLEAN,
     last : {None} \cup (0..(Minutes - 1)),
     ev : {None} \cup [side : Sides \cup {None}, wid : 1..LastWindow]]

(* What holds of a tracker of window v at minute n: its signal is of its window,
   its last check was not later than now, and it is disqualified if it should be. *)
Consistent(w, v, n) ==
    /\ w.wid <= v
    /\ w.ev # None => w.ev.wid = w.wid
    /\ w.wid = v /\ w.last # None => w.last <= n
    /\ w.fails > Tolerance => w.disq

(* It counts at least the failures since the restart. *)
CountsFailures ==
    IF win.wid = wid THEN Cardinality(failed \ forgotten) <= win.fails
                     ELSE failed \ forgotten = {}

(* The row of the same process and window is not newer than the tracker, and
   shows what the tracker holds unless the tracker is newer. *)
RowBehind ==
    row # None /\ row.run = restarts /\ row.wid = wid =>
        /\ win.wid = wid /\ win.last # None /\ row.minute <= win.last
        /\ row.minute = win.last =>
              win.disq = row.disq /\ win.ev = [side |-> row.side, wid |-> wid]

(* The cooldown starts no earlier than the entry it follows. *)
EnteredFired == \A s \in Sides : entered[s] <= lastFired[s] /\ lastFired[s] <= wid

WindowInv ==
    /\ WindowTypeOK
    /\ Consistent(win, wid, minute)
    /\ CountsFailures
    /\ row # None => row.run <= restarts /\ row.wid <= wid
    /\ RowBehind
    /\ EnteredFired

LEMMA WindowInitInv == WindowInit => WindowInv
<1> SUFFICES ASSUME WindowInit PROVE WindowInv
  OBVIOUS
<1> USE WindowConstants DEF WindowInit, NewTracker, Never
<1>1. WindowTypeOK
  <2>1. win \in Trackers
    BY DEF Trackers
  <2>2. lastFired \in [Sides -> 0..LastWindow] /\ entered \in [Sides -> 0..LastWindow]
    OBVIOUS
  <2>3. /\ wid \in 1..LastWindow /\ minute \in 0..(Minutes - 1)
        /\ raised \in 0..MaxRaised /\ restarts \in 0..MaxRestarts
    OBVIOUS
  <2>4. /\ late \in BOOLEAN /\ paused \in BOOLEAN /\ row = None
        /\ failed \subseteq 0..(Minutes - 1) /\ forgotten \subseteq failed
    OBVIOUS
  <2> HIDE DEF WindowInit
  <2> QED
    BY <2>1, <2>2, <2>3, <2>4 DEF WindowTypeOK, Trackers
<1>2. Consistent(win, wid, minute) /\ EnteredFired /\ RowBehind
  BY DEF Consistent, EnteredFired, RowBehind
<1>3. CountsFailures
  BY DEF CountsFailures
<1> QED
  BY <1>1, <1>2, <1>3 DEF WindowInv

(***************************************************************************)
(* The tracker a tick works on is of the window, and as consistent as the  *)
(* one it found.                                                           *)
(***************************************************************************)
LEMMA TrackerIsOfWindow ==
    ASSUME WindowInv
    PROVE  /\ Tracker \in Trackers /\ Tracker.wid = wid
           /\ Consistent(Tracker, wid, minute)
           /\ Cardinality(failed \ forgotten) <= Tracker.fails
           /\ win.wid = wid => Tracker = win
           /\ win.wid # wid => Tracker.last = None
<1> USE WindowConstants DEF WindowInv, WindowTypeOK
<1>1. CASE win.wid = wid
  BY <1>1 DEF Tracker, Trackers, Consistent, CountsFailures
<1>2. CASE win.wid # wid
  <2>1. Tracker = [wid |-> wid, fails |-> 0, disq |-> FALSE, fired |-> FALSE,
                   last |-> None, ev |-> None]
    BY <1>2 DEF Tracker, NewTracker
  <2>2. Cardinality(failed \ forgotten) = 0
    BY <1>2, FS_EmptySet DEF CountsFailures
  <2> QED
    BY <1>2, <2>1, <2>2 DEF Trackers, Consistent
<1> QED
  BY <1>1, <1>2

(* A check adds at most one failure, and the tracker counts it. *)
LEMMA CheckCounts ==
    ASSUME WindowInv, NEW side \in Sides \cup {None}, NoteFailure(side), Due(Tracker)
    PROVE  /\ Checked(Tracker, side) \in Trackers
           /\ Checked(Tracker, side).wid = wid
           /\ Checked(Tracker, side).last = minute
           /\ Checked(Tracker, side).ev = [side |-> side, wid |-> wid]
           /\ Consistent(Checked(Tracker, side), wid, minute)
           /\ Cardinality(failed' \ forgotten) <= Checked(Tracker, side).fails
           /\ failed' \subseteq 0..(Minutes - 1) /\ forgotten \subseteq failed'
<1> DEFINE w == Checked(Tracker, side)
           n == FailStep(Tracker, side # None)
           d == n > Tolerance
<1> USE WindowConstants
<1>1. /\ Tracker \in Trackers /\ Tracker.wid = wid
      /\ Consistent(Tracker, wid, minute)
      /\ Cardinality(failed \ forgotten) <= Tracker.fails
  BY TrackerIsOfWindow
<1>2. wid \in 1..LastWindow /\ minute \in 0..(Minutes - 1) /\ failed \subseteq 0..(Minutes - 1)
      /\ forgotten \subseteq failed
  BY DEF WindowInv, WindowTypeOK
<1>3. n \in Nat
  BY <1>1 DEF Trackers, FailStep
<1>4. w = [Tracker EXCEPT !.last = minute, !.ev = [side |-> side, wid |-> wid],
                          !.fails = n, !.disq = d]
  BY DEF Checked
<1>5. /\ w \in Trackers /\ w.wid = wid /\ w.last = minute /\ w.fails = n
      /\ w.ev = [side |-> side, wid |-> wid] /\ w.disq = d
  <2>1. d \in BOOLEAN
    BY <1>3
  <2> HIDE DEF w, n, d
  <2> DEFINE e == [side |-> side, wid |-> wid]
  <2>2. w = [wid |-> Tracker.wid, fails |-> n, disq |-> d, fired |-> Tracker.fired,
             last |-> minute, ev |-> e]
    BY <1>1, <1>4 DEF Trackers
  <2>3. Tracker.wid \in 0..LastWindow /\ Tracker.fired \in BOOLEAN
    BY <1>1 DEF Trackers
  <2>4. e \in [side : Sides \cup {None}, wid : 1..LastWindow]
    BY <1>2
  <2> QED
    BY <1>1, <1>2, <1>3, <2>1, <2>2, <2>3, <2>4 DEF Trackers
<1>6. Consistent(w, wid, minute)
  <2>1. w.fails > Tolerance => w.disq
    BY <1>5
  <2>2. w.wid <= wid /\ w.last <= minute /\ w.ev.wid = w.wid
    BY <1>2, <1>5
  <2> QED
    BY <2>1, <2>2 DEF Consistent
<1>7. IsFiniteSet(failed \ forgotten) /\ Cardinality(failed \ forgotten) \in Nat
  <2>1. 0 \in Int /\ Minutes - 1 \in Int
    OBVIOUS
  <2>2. IsFiniteSet(0..(Minutes - 1))
    BY <2>1, FS_Interval, Zenon
  <2>3. failed \ forgotten \in SUBSET (0..(Minutes - 1))
    BY <1>2
  <2>4. IsFiniteSet(failed \ forgotten)
    BY <2>2, <2>3, FS_Subset, Zenon
  <2> QED
    BY <2>4, FS_CardinalityType, Zenon
<1>8. Cardinality(failed' \ forgotten) <= n
  <2>1. CASE side # None
    BY <1>1, <2>1 DEF NoteFailure, FailStep
  <2>2. CASE side = None
    <3>1. n = Tracker.fails + 1 /\ Tracker.fails \in Nat
      BY <1>1, <2>2 DEF FailStep, Trackers
    <3>2. \/ failed' \ forgotten = failed \ forgotten
          \/ failed' \ forgotten = (failed \ forgotten) \cup {minute}
      BY <2>2 DEF NoteFailure
    <3>3. Cardinality((failed \ forgotten) \cup {minute}) <= Cardinality(failed \ forgotten) + 1
      <4>1. PICK S : S = failed \ forgotten
        OBVIOUS
      <4>2. IsFiniteSet(S) /\ Cardinality(S) \in Nat
        BY <1>7, <4>1
      <4>3. Cardinality(S \cup {minute}) = IF minute \in S THEN Cardinality(S) ELSE Cardinality(S) + 1
        BY <4>2, FS_AddElement, Zenon
      <4>4. Cardinality(S \cup {minute}) <= Cardinality(S) + 1
        BY <4>2, <4>3
      <4> QED
        BY <4>1, <4>4
    <3>4. Cardinality((failed \ forgotten) \cup {minute}) \in Nat
      <4>1. IsFiniteSet((failed \ forgotten) \cup {minute})
        BY <1>7, FS_AddElement, Zenon
      <4> QED
        BY <4>1, FS_CardinalityType, Zenon
    <3>5. Cardinality(failed \ forgotten) <= Tracker.fails
      BY <1>1
    <3> DEFINE c == Cardinality(failed \ forgotten)
               c1 == Cardinality((failed \ forgotten) \cup {minute})
    <3>6. Cardinality(failed' \ forgotten) \in {c, c1}
      BY <3>2
    <3>7. c \in Nat /\ c1 \in Nat /\ c <= Tracker.fails /\ c1 <= c + 1
      BY <1>7, <3>3, <3>4, <3>5
    <3> HIDE DEF c, c1
    <3> QED
      BY <3>1, <3>6, <3>7
  <2> QED
    BY <2>1, <2>2
<1>9. failed' \subseteq 0..(Minutes - 1) /\ forgotten \subseteq failed'
  BY <1>2 DEF NoteFailure
<1> QED
  BY <1>5, <1>6, <1>8, <1>9

-----------------------------------------------------------------------------
(* What a tick does with its tracker, and what an entry needs. *)

AsSeen(w) ==
    /\ win' \in Trackers
    /\ win'.wid = w.wid /\ win'.fails = w.fails /\ win'.disq = w.disq
    /\ win'.last = w.last /\ win'.ev = w.ev

EntersWell(w) ==
    Enters => w.ev # None /\ w.ev.side \in Sides /\ ~w.disq

EntriesFar == \A s \in Sides : entered'[s] # entered[s] /\ entered[s] # Never =>
             entered'[s] - entered[s] >= Cooldown

LEMMA ActsWell ==
    ASSUME WindowInv, NEW w \in Trackers, Act(w), UNCHANGED wid
    PROVE  /\ AsSeen(w) /\ EntersWell(w) /\ EntriesFar /\ EnteredFired'
           /\ lastFired' \in [Sides -> 0..LastWindow] /\ entered' \in [Sides -> 0..LastWindow]
<1> USE WindowConstants
<1>1. /\ wid \in 1..LastWindow /\ EnteredFired
      /\ lastFired \in [Sides -> 0..LastWindow] /\ entered \in [Sides -> 0..LastWindow]
  BY DEF WindowInv, WindowTypeOK
<1>2. CASE UNCHANGED <<lastFired, entered>> /\ win' = w
  BY <1>1, <1>2 DEF AsSeen, EntersWell, Enters, EntriesFar, EnteredFired
<1>3. CASE FireDue(w) /\ TryFire(w)
  <2>1. AsSeen(w)
    <3>1. win' = [w EXCEPT !.fired = TRUE]
      BY <1>3 DEF TryFire
    <3> QED
      BY <3>1 DEF AsSeen, Trackers
  <2>2. w.ev # None /\ ~w.disq /\ w.ev.side \in Sides \cup {None}
    BY <1>3 DEF FireDue, Trackers
  <2>3. CASE UNCHANGED <<lastFired, entered>>
    BY <1>1, <2>1, <2>3 DEF EntersWell, Enters, EntriesFar, EnteredFired
  <2>4. CASE ~UNCHANGED <<lastFired, entered>>
    <3> DEFINE s == w.ev.side
    <3>1. /\ s \in Sides /\ CooledDown(s)
          /\ lastFired' = [lastFired EXCEPT ![s] = wid]
          /\ entered' \in {entered, [entered EXCEPT ![s] = wid]}
      BY <1>3, <2>2, <2>4 DEF TryFire
    <3> HIDE DEF s
    <3>2. lastFired' \in [Sides -> 0..LastWindow] /\ entered' \in [Sides -> 0..LastWindow]
      BY <1>1, <3>1
    <3>3. EnteredFired'
      BY <1>1, <3>1 DEF EnteredFired
    <3>4. EntriesFar
      <4> SUFFICES ASSUME NEW z \in Sides, entered'[z] # entered[z], entered[z] # Never
                   PROVE  entered'[z] - entered[z] >= Cooldown
        BY DEF EntriesFar
      <4>1. z = s /\ entered'[z] = wid
        BY <1>1, <3>1
      <4>2. entered[z] <= lastFired[z] /\ entered[z] \in Nat /\ lastFired[z] \in Nat
        BY <1>1 DEF EnteredFired
      <4>3. wid - lastFired[z] >= Cooldown
        BY <3>1, <4>1, <4>2 DEF CooledDown, Never
      <4> QED
        BY <1>1, <4>1, <4>2, <4>3
    <3>5. EntersWell(w)
      BY <2>2, <3>1 DEF EntersWell, s
    <3> QED
      BY <2>1, <3>2, <3>3, <3>4, <3>5
  <2> QED
    BY <1>1, <2>1, <2>3, <2>4
<1> QED
  BY <1>2, <1>3 DEF Act

(***************************************************************************)
(* The parts of the invariant after a step that works on the tracker.      *)
(***************************************************************************)
LEMMA TickKeeps ==
    ASSUME WindowInv, QuietTick
    PROVE  WindowInv' /\ EntersWell(Tracker) /\ AsSeen(Tracker) /\ EntriesFar
<1> USE WindowConstants
<1>1. /\ Tracker \in Trackers /\ Tracker.wid = wid
      /\ Consistent(Tracker, wid, minute)
      /\ Cardinality(failed \ forgotten) <= Tracker.fails
      /\ win.wid = wid => Tracker = win
      /\ win.wid # wid => Tracker.last = None
  BY TrackerIsOfWindow
<1>2. /\ Act(Tracker) /\ ~Due(Tracker)
      /\ UNCHANGED <<wid, minute, late, paused, forgotten, restarts, row, failed, raised>>
  BY DEF QuietTick, Running
<1>3. /\ AsSeen(Tracker) /\ EntersWell(Tracker) /\ EntriesFar /\ EnteredFired'
      /\ lastFired' \in [Sides -> 0..LastWindow] /\ entered' \in [Sides -> 0..LastWindow]
  BY <1>1, <1>2, ActsWell
<1>4. win.wid = wid
  BY <1>1, <1>2 DEF Due, WindowInv, WindowTypeOK
<1>5. Tracker = win
  BY <1>1, <1>4
<1>6. WindowTypeOK'
  BY <1>2, <1>3 DEF WindowInv, WindowTypeOK, AsSeen, Trackers
<1>7. Consistent(win, wid, minute)'
  BY <1>1, <1>2, <1>3 DEF Consistent, AsSeen
<1>8. CountsFailures'
  BY <1>1, <1>2, <1>3 DEF CountsFailures, AsSeen
<1>9. RowBehind' /\ (row # None => row.run <= restarts /\ row.wid <= wid)'
  BY <1>2, <1>3, <1>5 DEF WindowInv, RowBehind, AsSeen
<1> QED
  BY <1>3, <1>6, <1>7, <1>8, <1>9 DEF WindowInv

LEMMA CheckTickKeeps ==
    ASSUME WindowInv, NEW side \in Sides \cup {None}, CheckTick(side)
    PROVE  WindowInv' /\ EntersWell(Checked(Tracker, side)) /\ AsSeen(Checked(Tracker, side)) /\ EntriesFar
<1> DEFINE w == Checked(Tracker, side)
<1> USE WindowConstants
<1>1. /\ Act(w) /\ Due(Tracker) /\ NoteFailure(side) /\ row' = Status(w)
      /\ UNCHANGED <<wid, minute, late, paused, forgotten, restarts, raised>>
  BY DEF CheckTick, Running
<1>2. /\ w \in Trackers /\ w.wid = wid /\ w.last = minute
      /\ w.ev = [side |-> side, wid |-> wid]
      /\ Consistent(w, wid, minute)
      /\ Cardinality(failed' \ forgotten) <= w.fails
      /\ failed' \subseteq 0..(Minutes - 1) /\ forgotten \subseteq failed'
  BY <1>1, CheckCounts
<1>3. /\ AsSeen(w) /\ EntersWell(w) /\ EntriesFar /\ EnteredFired'
      /\ lastFired' \in [Sides -> 0..LastWindow] /\ entered' \in [Sides -> 0..LastWindow]
  BY <1>1, <1>2, ActsWell
<1> HIDE DEF w
<1>4. row' = [wid |-> wid, minute |-> minute, disq |-> w.disq, side |-> side, run |-> restarts]
  BY <1>1, <1>2 DEF Status
<1>5. row' \in [wid : 1..LastWindow, minute : 0..(Minutes - 1), disq : BOOLEAN,
                side : Sides \cup {None}, run : 0..MaxRestarts]
  BY <1>2, <1>4 DEF WindowInv, WindowTypeOK, Trackers
<1>6. WindowTypeOK'
  BY <1>1, <1>2, <1>3, <1>5 DEF WindowInv, WindowTypeOK, AsSeen, Trackers
<1>7. Consistent(win, wid, minute)'
  BY <1>1, <1>2, <1>3 DEF Consistent, AsSeen
<1>8. CountsFailures'
  BY <1>1, <1>2, <1>3 DEF CountsFailures, AsSeen
<1>9. RowBehind' /\ (row # None => row.run <= restarts /\ row.wid <= wid)'
  BY <1>1, <1>2, <1>3, <1>4 DEF WindowInv, WindowTypeOK, RowBehind, AsSeen
<1> QED
  BY <1>3, <1>6, <1>7, <1>8, <1>9 DEF WindowInv, w

(* A check that raises leaves a tracker newer than the row. *)
LEMMA RaisingTickKeeps ==
    ASSUME WindowInv, RaisingTick
    PROVE  WindowInv'
<1> USE WindowConstants
<1>1. /\ Tracker \in Trackers /\ Tracker.wid = wid
      /\ Consistent(Tracker, wid, minute)
      /\ Cardinality(failed \ forgotten) <= Tracker.fails
      /\ win.wid = wid => Tracker = win
  BY TrackerIsOfWindow
<1>2. /\ Due(Tracker) /\ raised' \in 0..MaxRaised
      /\ UNCHANGED <<wid, minute, late, paused, forgotten, restarts, lastFired, entered>>
  BY DEF RaisingTick, Running, WindowInv, WindowTypeOK
<1>3. EnteredFired'
  BY <1>2 DEF WindowInv, EnteredFired
<1>4. CASE win' = [Tracker EXCEPT !.last = minute] /\ UNCHANGED <<row, failed>>
  <2>1. /\ win' \in Trackers /\ win'.wid = wid /\ win'.last = minute
        /\ win'.fails = Tracker.fails /\ win'.disq = Tracker.disq /\ win'.ev = Tracker.ev
    BY <1>1, <1>4 DEF Trackers, WindowInv, WindowTypeOK
  <2>2. WindowTypeOK'
    BY <1>2, <1>4, <2>1 DEF WindowInv, WindowTypeOK, Trackers
  <2>3. Consistent(win, wid, minute)' /\ CountsFailures'
    BY <1>1, <1>2, <1>4, <2>1 DEF WindowInv, WindowTypeOK, Consistent, CountsFailures
  <2>4. RowBehind' /\ (row # None => row.run <= restarts /\ row.wid <= wid)'
    BY <1>1, <1>2, <1>4, <2>1 DEF WindowInv, WindowTypeOK, Trackers, Consistent, RowBehind, Due
  <2> QED
    BY <1>3, <2>2, <2>3, <2>4 DEF WindowInv
<1>5. ASSUME NEW side \in Sides \cup {None}, win' = Checked(Tracker, side),
             NoteFailure(side), row' \in {row, Status(win')}
      PROVE  WindowInv'
  <2>1. /\ win' \in Trackers /\ win'.wid = wid /\ win'.last = minute
        /\ win'.ev = [side |-> side, wid |-> wid]
        /\ Consistent(win', wid, minute)
        /\ Cardinality(failed' \ forgotten) <= win'.fails
        /\ failed' \subseteq 0..(Minutes - 1) /\ forgotten \subseteq failed'
    BY <1>2, <1>5, CheckCounts
  <2>2. \/ row' = row
        \/ row' = [wid |-> wid, minute |-> minute, disq |-> win'.disq, side |-> side,
                    run |-> restarts]
    BY <1>5, <2>1 DEF Status
  <2>3. row' \in {None} \cup [wid : 1..LastWindow, minute : 0..(Minutes - 1), disq : BOOLEAN,
                              side : Sides \cup {None}, run : 0..MaxRestarts]
    BY <2>1, <2>2 DEF WindowInv, WindowTypeOK, Trackers
  <2>4. WindowTypeOK'
    BY <1>2, <2>1, <2>3 DEF WindowInv, WindowTypeOK, Trackers
  <2>5. Consistent(win, wid, minute)' /\ CountsFailures'
    BY <1>2, <2>1 DEF Consistent, CountsFailures
  <2>6. (row # None => row.run <= restarts /\ row.wid <= wid)'
    BY <1>2, <2>2 DEF WindowInv, WindowTypeOK
  <2>7. CASE row' = row
    <3>1. RowBehind'
      BY <1>1, <1>2, <2>1, <2>7 DEF WindowInv, WindowTypeOK, Trackers, Consistent, RowBehind, Due
    <3> QED
      BY <1>3, <2>4, <2>5, <2>6, <3>1 DEF WindowInv
  <2>8. CASE row' = [wid |-> wid, minute |-> minute, disq |-> win'.disq, side |-> side,
                     run |-> restarts]
    <3>1. RowBehind'
      BY <1>2, <2>1, <2>8 DEF WindowInv, WindowTypeOK, RowBehind
    <3> QED
      BY <1>3, <2>4, <2>5, <2>6, <3>1 DEF WindowInv
  <2> QED
    BY <1>3, <2>2, <2>4, <2>5, <2>6, <2>7, <2>8 DEF WindowInv
<1> QED
  BY <1>4, <1>5 DEF RaisingTick

LEMMA RestartKeeps ==
    ASSUME WindowInv, Restart
    PROVE  WindowInv'
<1> USE WindowConstants
<1>1. /\ win' = NewTracker /\ restarts' = restarts + 1 /\ forgotten' = failed
      /\ UNCHANGED <<wid, minute, late, paused, row, lastFired, failed, entered, raised>>
      /\ restarts' \in 0..MaxRestarts /\ restarts \in Nat
  BY DEF Restart, WindowInv, WindowTypeOK
<1>2. win' \in Trackers /\ win'.wid = 0 /\ win'.ev = None /\ win'.fails = 0
  BY <1>1 DEF NewTracker, Trackers, Never
<1>3. WindowTypeOK'
  BY <1>1, <1>2 DEF WindowInv, WindowTypeOK, Trackers
<1>4. Consistent(win, wid, minute)' /\ CountsFailures' /\ EnteredFired'
  <2>1. failed' \ forgotten' = {} /\ wid \in 1..LastWindow
    BY <1>1 DEF WindowInv, WindowTypeOK
  <2> QED
    BY <1>1, <1>2, <2>1 DEF WindowInv, WindowTypeOK, Consistent, CountsFailures, EnteredFired
<1>5. RowBehind' /\ (row # None => row.run <= restarts /\ row.wid <= wid)'
  BY <1>1 DEF WindowInv, WindowTypeOK, RowBehind
<1> QED
  BY <1>3, <1>4, <1>5 DEF WindowInv

LEMMA TimePassesKeeps ==
    ASSUME WindowInv, TimePasses
    PROVE  WindowInv'
<1> USE WindowConstants
<1>1. UNCHANGED <<paused, win, row, lastFired, entered, raised, restarts>>
  BY DEF TimePasses
<1>2. \/ wid' = wid /\ minute <= minute' /\ UNCHANGED <<failed, forgotten>>
      \/ wid' = wid + 1 /\ failed' = {} /\ forgotten' = {}
  BY DEF TimePasses, WindowInv, WindowTypeOK
<1>3. /\ wid' \in 1..LastWindow /\ minute' \in 0..(Minutes - 1) /\ late' \in BOOLEAN
      /\ minute \in 0..(Minutes - 1) /\ wid \in 1..LastWindow
  <2>1. minute \in 0..(Minutes - 1) /\ wid \in 1..LastWindow
    BY DEF WindowInv, WindowTypeOK
  <2>2. late' \in BOOLEAN
    BY DEF TimePasses
  <2>3. CASE minute' = minute /\ wid' = wid
    BY <2>1, <2>2, <2>3
  <2>4. CASE minute < Minutes - 1 /\ minute' = minute + 1 /\ wid' = wid
    BY <2>1, <2>2, <2>4
  <2>5. CASE wid < LastWindow /\ wid' = wid + 1 /\ minute' = 0
    BY <2>1, <2>2, <2>5
  <2> QED
    BY <2>3, <2>4, <2>5 DEF TimePasses
<1>4. WindowTypeOK'
  BY <1>1, <1>2, <1>3 DEF WindowInv, WindowTypeOK
<1>5. Consistent(win, wid, minute)'
  BY <1>1, <1>2, <1>3 DEF WindowInv, WindowTypeOK, Consistent
<1>6. CountsFailures'
  <2>1. CASE wid' = wid /\ UNCHANGED <<failed, forgotten>>
    BY <1>1, <2>1 DEF WindowInv, CountsFailures
  <2>2. CASE wid' = wid + 1 /\ failed' = {} /\ forgotten' = {}
    <3>1. win'.wid # wid'
      BY <1>1, <1>3, <2>2 DEF WindowInv, WindowTypeOK, Consistent
    <3>2. failed' \ forgotten' = {}
      BY <2>2
    <3> QED
      BY <3>1, <3>2 DEF CountsFailures
  <2> QED
    BY <1>2, <2>1, <2>2
<1>7. EnteredFired'
  BY <1>1, <1>2, <1>3 DEF WindowInv, WindowTypeOK, EnteredFired
<1>8. RowBehind' /\ (row # None => row.run <= restarts /\ row.wid <= wid)'
  BY <1>1, <1>2, <1>3 DEF WindowInv, WindowTypeOK, RowBehind
<1> QED
  BY <1>4, <1>5, <1>6, <1>7, <1>8 DEF WindowInv

LEMMA Unchanged ==
    ASSUME WindowInv, SetPaused \/ UNCHANGED windowVars
    PROVE  WindowInv'
<1>1. UNCHANGED <<wid, minute, late, win, row, lastFired, failed, forgotten, entered, raised,
                  restarts>> /\ paused' \in BOOLEAN
  BY DEF SetPaused, windowVars, WindowInv, WindowTypeOK
<1> QED
  BY <1>1 DEF WindowInv, WindowTypeOK, Consistent, CountsFailures, RowBehind, EnteredFired

-----------------------------------------------------------------------------
(* Theorems. *)

LEMMA WindowNextKeeps == WindowInv /\ [WindowNext]_windowVars => WindowInv'
  BY TickKeeps, CheckTickKeeps, RaisingTickKeeps, RestartKeeps, TimePassesKeeps, Unchanged
     DEF WindowNext

THEOREM WindowInvariance == WindowSpec => []WindowInv
  BY WindowInitInv, WindowNextKeeps, PTL DEF WindowSpec

(* Every variable keeps its type. *)
THEOREM WindowTypeCorrect == WindowSpec => []WindowTypeOK
<1>1. WindowInv => WindowTypeOK
  BY DEF WindowInv
<1> QED
  BY <1>1, WindowInvariance, PTL

(***************************************************************************)
(* A full gauge speaks of the signal the loop holds, for every length of   *)
(* the window: the row is never newer than the tracker of its process.     *)
(***************************************************************************)
THEOREM GaugeIsHonest == WindowSpec => []GaugeHonest
<1>1. WindowInv => GaugeHonest
  <2> SUFFICES ASSUME WindowInv, proximity, row.run = restarts
               PROVE  /\ win.wid = wid /\ win.last = Minutes - 1
                      /\ ~win.disq /\ win.ev = [side |-> row.side, wid |-> wid]
    BY DEF GaugeHonest
  <2>1. row # None /\ row.wid = wid /\ row.minute = Minutes - 1 /\ ~row.disq
    BY DEF proximity, entry_proximity, SameWindow
  <2>2. /\ win.wid = wid /\ win.last # None /\ row.minute <= win.last
        /\ row.minute = win.last =>
              win.disq = row.disq /\ win.ev = [side |-> row.side, wid |-> wid]
    BY <2>1 DEF WindowInv, RowBehind
  <2>3. win.last = Minutes - 1
    BY <2>1, <2>2, WindowConstants DEF WindowInv, WindowTypeOK
  <2> QED
    BY <2>1, <2>2, <2>3
<1> QED
  BY <1>1, WindowInvariance, PTL

(* Only a tick enters, and it does so on a tracker of its window. *)
LEMMA OnlyTicksEnter ==
    ASSUME WindowInv, [WindowNext]_windowVars, Enters
    PROVE  /\ win'.ev # None /\ win'.ev.side \in Sides /\ ~win'.disq
           /\ win'.wid = wid /\ EntriesFar /\ UNCHANGED <<wid, forgotten>>
<1> USE WindowConstants
<1>1. CASE QuietTick
  <2>1. EntersWell(Tracker) /\ AsSeen(Tracker) /\ EntriesFar
    BY <1>1, TickKeeps
  <2>2. Tracker.wid = wid
    BY TrackerIsOfWindow
  <2>3. UNCHANGED <<wid, forgotten>>
    BY <1>1 DEF QuietTick, Running
  <2> QED
    BY <2>1, <2>2, <2>3 DEF EntersWell, AsSeen
<1>2. ASSUME NEW side \in Sides \cup {None}, CheckTick(side)
      PROVE  /\ win'.ev # None /\ win'.ev.side \in Sides /\ ~win'.disq
             /\ win'.wid = wid /\ EntriesFar /\ UNCHANGED <<wid, forgotten>>
  <2>1. EntersWell(Checked(Tracker, side)) /\ AsSeen(Checked(Tracker, side)) /\ EntriesFar
    BY <1>2, CheckTickKeeps
  <2>2. NoteFailure(side) /\ Due(Tracker) /\ UNCHANGED <<wid, forgotten>>
    BY <1>2 DEF CheckTick, Running
  <2>3. Checked(Tracker, side).wid = wid
    BY <2>2, CheckCounts
  <2> QED
    BY <2>1, <2>2, <2>3 DEF EntersWell, AsSeen
<1> QED
  BY <1>1, <1>2 DEF Enters, WindowNext, RaisingTick, Restart, SetPaused, TimePasses, windowVars

(***************************************************************************)
(* An entry is made on a signal of its own window, whatever minutes were   *)
(* paused, cut short or restarted.                                         *)
(***************************************************************************)
THEOREM OwnSignal == WindowSpec => EntersOnOwnSignal
<1>1. WindowInv /\ [WindowNext]_windowVars => [Enters => win'.ev.wid = wid /\ win'.ev.side \in Sides]_windowVars
  <2> SUFFICES ASSUME WindowInv, [WindowNext]_windowVars, Enters
               PROVE  win'.ev.wid = wid /\ win'.ev.side \in Sides
    OBVIOUS
  <2>1. win'.ev # None /\ win'.ev.side \in Sides /\ win'.wid = wid /\ wid' = wid
    BY OnlyTicksEnter
  <2>2. Consistent(win, wid, minute)'
    BY WindowNextKeeps DEF WindowInv
  <2> QED
    BY <2>1, <2>2 DEF Consistent
<1> QED
  BY <1>1, WindowInvariance, PTL DEF WindowSpec, EntersOnOwnSignal

(***************************************************************************)
(* The checks that failed before the eyes of the process that enters are   *)
(* at most Tolerance: the tracker counts each of them once, and an entry   *)
(* needs a tracker that is not disqualified.                               *)
(***************************************************************************)
THEOREM SurvivesWatched == WindowSpec => WatchedSurvive
<1>1. WindowInv /\ [WindowNext]_windowVars => [Enters => Cardinality(failed' \ forgotten') <= Tolerance]_windowVars
  <2> SUFFICES ASSUME WindowInv, [WindowNext]_windowVars, Enters
               PROVE  Cardinality(failed' \ forgotten') <= Tolerance
    OBVIOUS
  <2>1. ~win'.disq /\ win'.wid = wid /\ wid' = wid
    BY OnlyTicksEnter
  <2>2. Consistent(win, wid, minute)' /\ CountsFailures' /\ WindowTypeOK'
    BY WindowNextKeeps DEF WindowInv
  <2>3. win'.fails \in Nat /\ ~(win'.fails > Tolerance)
    BY <2>1, <2>2 DEF WindowTypeOK, Consistent
  <2>4. Cardinality(failed' \ forgotten') <= win'.fails
    BY <2>1, <2>2 DEF CountsFailures
  <2>5. Cardinality(failed' \ forgotten') \in Nat
    <3>1. IsFiniteSet(0..(Minutes - 1))
      BY FS_Interval, WindowConstants
    <3>2. failed' \ forgotten' \subseteq 0..(Minutes - 1)
      BY <2>2 DEF WindowTypeOK
    <3> QED
      BY <3>1, <3>2, FS_Subset, FS_CardinalityType
  <2> DEFINE c == Cardinality(failed' \ forgotten')
  <2> HIDE DEF c
  <2>6. c \in Nat /\ c <= win'.fails
    BY <2>4, <2>5 DEF c
  <2>7. c <= Tolerance
    BY <2>3, <2>6, WindowConstants
  <2> QED
    BY <2>7 DEF c
<1> QED
  BY <1>1, WindowInvariance, PTL DEF WindowSpec, WatchedSurvive

(***************************************************************************)
(* Two entries of a side are a cooldown apart, restarts included: the fire *)
(* that consumed the cooldown is never older than the entry.               *)
(***************************************************************************)
THEOREM CooldownHolds == WindowSpec => EntriesApart
<1>1. WindowInv /\ [WindowNext]_windowVars => [EntriesFar]_windowVars
  <2> SUFFICES ASSUME WindowInv, [WindowNext]_windowVars
               PROVE  EntriesFar
    OBVIOUS
  <2> QED
    BY OnlyTicksEnter DEF EntriesFar, Enters
<1> QED
  BY <1>1, WindowInvariance, PTL DEF WindowSpec, EntriesApart, EntriesFar
=============================================================================
