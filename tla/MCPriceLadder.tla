---------------------------- MODULE MCPriceLadder ----------------------------
(* Quotes of a contract with a coarse tick: none, a normal book, wide books
   around a small and a large mark, one side or the mark missing; and the calls of the client that reads them. *)
EXTENDS PriceLadder, BybitClient

Quote(b, a, m) == [bid |-> b, ask |-> a, mark |-> m]
BookQuotes ==
    {Quote(0, 0, 0), Quote(10, 0, 0), Quote(0, 40, 0)} \cup
    {Quote(b, a, m) : b \in {0, 10, 20}, a \in {0, 25, 40, 80}, m \in {18, 30, 41}}

(* Both are about the calls alone, and are looked at before the quote moves. *)

(* An order that get_order calls absent had not reached the exchange when it was
   asked for, whatever attempts failed and even if it moved from the open orders
   to the history in between; _retire_absent relies on it. *)
AbsentWasNotThere == moves = 0 => WronglyAbsent = {}

(* The candles of get_klines are consecutive, end with the newest of the time of
   the first answer and are at most as many as asked for, though new ones appear
   between two pages and a page may be missing; all are there if none was. *)
KlinesConsecutive == moves = 0 => Torn = {}
=============================================================================
