------------------------------ MODULE OrderExec ------------------------------
(***************************************************************************)
(* The order state machine of the live executor (services/execution.py)    *)
(* with the parts of loop.py that submit orders and book their fills.      *)
(*                                                                         *)
(* One single-threaded loop drives every order; the exchange moves on its  *)
(* own between any two calls the loop makes.  The durable state is the     *)
(* database (tables orders, positions, bot_control); "pc", "cur" and "ans" *)
(* are what the loop process holds in memory and loses when it crashes.    *)
(* A key is a (coin, side) pair; PER_KEY_CAP = 1 lets it hold one contract *)
(* at a time, so the key also stands for the option symbol.  A position is *)
(* named by the open order that created it.                                *)
(***************************************************************************)
EXTENDS Naturals, FiniteSets, Functions

CONSTANTS
    Key,           \* (coin, side) pairs the bot trades
    Oid,           \* order row ids, each standing also for its orderLinkId
    None,          \* SQL NULL / Python None
    MaxQty,        \* largest order quantity, in lots
    MaxAbsent,     \* EXEC_MAX_ATTEMPTS: consecutive "absent" answers to retire
    Lag,           \* consecutive "absent" answers the exchange may give for an
                   \* order it has or will still receive
    CloseMax,      \* CLOSE_MAX_ATTEMPTS
    MaxFaults,     \* bound: failed calls and crashes in a behaviour
    Expiries,      \* may contracts expire?
    OutsideCloses  \* may a position leave the exchange without the bot?

ASSUME OrderExecAssumption ==
    /\ None \notin Oid /\ None \notin Key
    /\ MaxQty \in Nat \ {0} /\ MaxAbsent \in Nat /\ Lag \in Nat
    /\ Lag < MaxAbsent
    /\ CloseMax \in Nat \ {0} /\ MaxFaults \in Nat
    /\ Expiries \in BOOLEAN /\ OutsideCloses \in BOOLEAN

VARIABLES
    orders,        \* table orders: Oid -> row
    pos,           \* table positions: opening order -> row
    halt,          \* bot_control.exec_halt and the class of its reason
    exch,          \* external: what the exchange knows of each order
    size,          \* external: Key -> size of the short position
    expired,       \* has the clock passed expiry_ms of the key's contract?
    gone,          \* history: the exchange position left without a bot order
    booked,        \* history: quantity booked for each order
    pc, cur, ans,  \* volatile: step of the loop, its order, the answer it holds
    faults         \* faults spent so far

db == <<orders, pos, halt>>
world == <<exch, size, expired, gone>>
proc == <<pc, cur, ans>>
vars == <<orders, pos, halt, exch, size, expired, gone, booked, pc, cur, ans, faults>>

Qty == 0..MaxQty
OrderRow ==
    [status : {"none", "active", "filled", "partial", "no_fill", "error"},
     kind : {"open", "close"}, key : Key \cup {None}, pos : Oid \cup {None},
     qty : Qty, stage : {"mid", "retreat", "urgent", "cancelled", "done"},
     known : BOOLEAN,                \* is orders.order_id set?
     absent : 0..MaxAbsent,          \* absent_ticks, saturated at MaxAbsent
     clock : {"fresh", "due", "overdue"}]    \* of an active row: how long since
                                             \* placed_at_ms and created_at_ms
PosRow ==
    [st : {"none", "open", "closed"}, key : Key \cup {None}, qty : Qty,
     closing : Oid \cup {None}, attempts : Nat, closedBy : Oid \cup {None}]
ExchRow == [st : {"none", "transit", "live", "filled", "dead"}, cum : Qty]

(***************************************************************************)
(* The type invariant.                                                     *)
(***************************************************************************)
TypeOK ==
    /\ orders \in [Oid -> OrderRow]
    /\ pos \in [Oid -> PosRow]
    /\ halt \in {"no", "reconcile", "manual"}
    /\ exch \in [Oid -> ExchRow]
    /\ size \in [Key -> Nat]
    /\ expired \in [Key -> BOOLEAN]
    /\ gone \in [Key -> BOOLEAN]
    /\ booked \in [Oid -> Nat]
    /\ pc \in {"idle", "send", "sent", "polled", "retire"}
    /\ cur \in Oid \cup {None}
    /\ ans \in {"nil", "ok", "rejected", "unknown", "live", "filled", "dead"}
    /\ faults \in Nat

NoOrder == [status |-> "none", kind |-> "open", key |-> None, pos |-> None,
            qty |-> 0, stage |-> "mid", known |-> FALSE, absent |-> 0,
            clock |-> "fresh"]
NoPosition == [st |-> "none", key |-> None, qty |-> 0, closing |-> None,
               attempts |-> 0, closedBy |-> None]

Init ==
    /\ orders = [o \in Oid |-> NoOrder]
    /\ pos = [o \in Oid |-> NoPosition]
    /\ halt = "no"
    /\ exch = [o \in Oid |-> [st |-> "none", cum |-> 0]]
    /\ size = [k \in Key |-> 0]
    /\ expired = [k \in Key |-> FALSE]
    /\ gone = [k \in Key |-> FALSE]
    /\ booked = [o \in Oid |-> 0]
    /\ pc = "idle" /\ cur = None /\ ans = "nil"
    /\ faults = 0

-----------------------------------------------------------------------------
(* Queries of db/repo.py and helpers. *)

Active(o) == orders[o].status = "active"
ActiveOn(k) == {o \in Oid : Active(o) /\ orders[o].key = k}
InflightOpens(k) == {o \in ActiveOn(k) : orders[o].kind = "open"}
OpenPositions(k) == {p \in Oid : pos[p].st = "open" /\ pos[p].key = k}
DbSize(k) == SumFunctionOnSet([p \in Oid |-> pos[p].qty], OpenPositions(k))

(* closing_order_id is unset, or names an order that is no longer active
   (manage_exits and close_position_now then clear the stale marker). *)
CloseFree(p) == pos[p].closing \notin {o \in Oid : Active(o)}

(* execution._halt: a reconcile reason never masks a manual-recovery halt. *)
HaltFor(reason) ==
    IF halt = "manual" /\ reason = "reconcile" THEN halt ELSE reason

Spend == faults < MaxFaults /\ faults' = faults + 1

Goto(p, o, a) == pc' = p /\ cur' = o /\ ans' = a
Idle == Goto("idle", None, "nil")

-----------------------------------------------------------------------------
(* submit(): the row is committed, then the order is sent, then its outcome
   is recorded. *)

NewOrder(kind, k, p, q, stage) ==
    [status |-> "active", kind |-> kind, key |-> k, pos |-> p, qty |-> q,
     stage |-> stage, known |-> FALSE, absent |-> 0, clock |-> "fresh"]

InsertOrder(o, kind, k, p, q, stage) ==
    /\ orders[o].status = "none"
    /\ orders' = [orders EXCEPT ![o] = NewOrder(kind, k, p, q, stage)]

(* An order that never reached the book is closed as an error and its position
   released, in one commit. *)
DropOrder(o) ==
    /\ orders' = [orders EXCEPT ![o] = [@ EXCEPT !.status = "error",
                               !.stage = "cancelled", !.clock = "fresh"]]
    /\ pos' = IF orders[o].pos = None THEN pos
              ELSE [pos EXCEPT ![orders[o].pos].closing = None]

(* Mutants, here and below: a definition named Bug... is a form of the one
   after it that a plausible mistake would give; no specification uses it. *)

(* can_open: PER_KEY_CAP over the open positions and the orders in flight. *)
BugKeyFreeInBook(k) == OpenPositions(k) = {}
KeyFree(k) == OpenPositions(k) = {} /\ InflightOpens(k) = {}

(* try_fire reaching submit: caps counted over open positions and in-flight
   opens, exec_halt, one open in flight per key.  The key takes a new
   contract. *)
SubmitOpen(o, k, q) ==
    /\ pc = "idle"
    /\ KeyFree(k)
    /\ halt = "no"
    /\ InsertOrder(o, "open", k, None, q, "mid")
    /\ expired' = [expired EXCEPT ![k] = FALSE]
    /\ gone' = [gone EXCEPT ![k] = FALSE]
    /\ Goto("send", o, "nil")
    /\ UNCHANGED <<pos, halt, exch, size, booked, faults>>

(* The callers of _request_close: manage_exits does not look for an exit past
   expiry, the two manual buttons do not ask about expiry. *)
MayRequestClose(p, manual) ==
    /\ pc = "idle"
    /\ pos[p].st = "open" /\ CloseFree(p)
    /\ manual \/ ~expired[pos[p].key]

BecomesUrgent(p, urgent, manual) == urgent \/ manual \/ pos[p].attempts >= 1
Exhausted(p, manual) == pos[p].attempts >= CloseMax /\ ~manual

(* _request_close: too many attempts, halt and leave it to the operator. *)
ExitBlocked(p) ==
    /\ MayRequestClose(p, FALSE) /\ Exhausted(p, FALSE)
    /\ halt' = HaltFor("manual")
    /\ pos' = [pos EXCEPT ![p].closing = None]
    /\ UNCHANGED <<orders, world, booked, proc, faults>>

(* _request_close: an urgent close of a position the exchange no longer has in
   full.  A manual close of a flat one is booked without an order; anything
   else counts as a failed attempt and halts. *)
CloseShort(p, urgent, manual) ==
    /\ MayRequestClose(p, manual) /\ ~Exhausted(p, manual)
    /\ BecomesUrgent(p, urgent, manual)
    /\ size[pos[p].key] < pos[p].qty
    /\ IF manual /\ size[pos[p].key] = 0
         THEN /\ pos' = [pos EXCEPT ![p] = [@ EXCEPT !.st = "closed", !.closing = None]]
              /\ UNCHANGED halt
         ELSE /\ pos' = [pos EXCEPT ![p] = [@ EXCEPT !.closing = None,
                             !.attempts = pos[p].attempts + (IF manual THEN 0 ELSE 1)]]
              /\ halt' = HaltFor("manual")
    /\ UNCHANGED <<orders, world, booked, proc, faults>>

(* set_closing: name the order on the position and count the attempt. *)
BugCountOnly(o, p) == pos' = [pos EXCEPT ![p].attempts = @ + 1]
Reserve(o, p) == pos' = [pos EXCEPT ![p] = [@ EXCEPT !.closing = o, !.attempts = pos[p].attempts + 1]]

(* _request_close reaching submit: the position is reserved in the transaction
   that inserts the row, before anything is sent. *)
SubmitClose(o, p, urgent, manual) ==
    /\ MayRequestClose(p, manual) /\ ~Exhausted(p, manual)
    /\ \/ ~BecomesUrgent(p, urgent, manual) /\ UNCHANGED faults
       \/ size[pos[p].key] >= pos[p].qty /\ UNCHANGED faults
       \/ Spend                                   \* positions unavailable
    /\ InsertOrder(o, "close", pos[p].key, p, pos[p].qty,
                   IF BecomesUrgent(p, urgent, manual) THEN "urgent" ELSE "mid")
    /\ Reserve(o, p)
    /\ Goto("send", o, "nil")
    /\ UNCHANGED <<halt, world, booked>>

(* How place_order reports a transport failure. *)
BugFailureIsReject == "rejected"
TransportFailure == "unknown"

(* ex.place(): accepted, refused, or unknown; an unknown one may still be on
   its way.  Reduce-only closes of a flat contract and orders on an expired
   one are refused. *)
Place(o) ==
    LET k == orders[o].key
        takes == ~expired[k] /\ (orders[o].kind = "close" => size[k] > 0)
    IN
    /\ pc = "send" /\ cur = o
    /\ \/ /\ takes
          /\ exch' = [exch EXCEPT ![o].st = "live"]
          /\ Goto("sent", o, "ok")
       \/ /\ exch' = [exch EXCEPT ![o].st = "transit"]
          /\ Goto("sent", o, TransportFailure)
       \/ /\ UNCHANGED exch
          /\ Goto("sent", o, "rejected")
    /\ UNCHANGED <<db, size, expired, gone, booked, faults>>

(* The rest of submit(): a rejected order is closed and its position released
   in one commit; an unknown one stays active without an order_id. *)
RecordPlace(o) ==
    /\ pc = "sent" /\ cur = o
    /\ \/ /\ ans = "ok"
          /\ orders' = [orders EXCEPT ![o].known = TRUE]
          /\ UNCHANGED pos
       \/ /\ ans = "unknown"
          /\ UNCHANGED <<orders, pos>>
       \/ /\ ans = "rejected"
          /\ DropOrder(o)
    /\ Idle
    /\ UNCHANGED <<halt, world, booked, faults>>

-----------------------------------------------------------------------------
(* advance(): one tick of one active order, from process_orders or right
   after submit. *)

(* The exchange could not be reached: the run of absent answers is broken. *)
PollUnreachable(o) ==
    /\ pc = "idle" /\ Active(o)
    /\ Spend
    /\ orders' = [orders EXCEPT ![o].absent = 0]
    /\ UNCHANGED <<pos, halt, world, booked, proc>>

(* Both endpoints answered and neither knows the link id. *)
ExchangeSaysAbsent(o) ==
    \/ exch[o].st = "none"
    \/ orders[o].absent < Lag

PollAbsent(o) ==
    /\ pc = "idle" /\ Active(o) /\ ~orders[o].known
    /\ ExchangeSaysAbsent(o)
    /\ LET n == IF orders[o].absent < MaxAbsent THEN orders[o].absent + 1
                ELSE MaxAbsent
       IN /\ orders' = [orders EXCEPT ![o].absent = n]
          /\ IF n >= MaxAbsent THEN Goto("retire", o, "nil") ELSE UNCHANGED proc
    /\ UNCHANGED <<pos, halt, world, booked, faults>>

(* _retire_absent: drop the row unless the exchange position moved. *)
RetireAbsent(o) ==
    LET k == orders[o].key
        changed == IF orders[o].kind = "close" THEN size[k] < DbSize(k)
                   ELSE size[k] > DbSize(k)
    IN
    /\ pc = "retire" /\ cur = o
    /\ \/ Spend /\ UNCHANGED db                   \* positions unavailable: page
       \/ /\ changed
          /\ halt' = HaltFor("manual")
          /\ UNCHANGED <<orders, pos, faults>>
       \/ /\ ~changed
          /\ DropOrder(o)
          /\ UNCHANGED <<halt, faults>>
    /\ Idle
    /\ UNCHANGED <<world, booked>>

(* The exchange shows the order: it is adopted, the answer is kept. *)
PollSeen(o) ==
    /\ pc = "idle" /\ Active(o)
    /\ exch[o].st \in {"live", "filled", "dead"}
    /\ orders' = [orders EXCEPT ![o] = [@ EXCEPT !.absent = 0, !.known = TRUE]]
    /\ Goto("polled", o, exch[o].st)
    /\ UNCHANGED <<pos, halt, world, booked, faults>>

(* A fill reported without a price yet, or a booking that raised and was
   rolled back: the order stays active for the next tick. *)
HoldFill(o) ==
    /\ pc = "polled" /\ cur = o
    /\ ans = "live" => exch[o].cum > 0
    /\ Spend
    /\ Idle
    /\ UNCHANGED <<db, world, booked>>

(* _on_open_fill *)
BugBookOrdered(o, n) ==
    pos' = [pos EXCEPT ![o] =
               [st |-> "open", key |-> orders[o].key, qty |-> orders[o].qty,
                closing |-> None, attempts |-> 0, closedBy |-> None]]
BookOpen(o, n) ==
    pos' = [pos EXCEPT ![o] =
               [st |-> "open", key |-> orders[o].key, qty |-> n,
                closing |-> None, attempts |-> 0, closedBy |-> None]]

BugCloseWhole(o, p, n) ==
    pos' = [pos EXCEPT ![p] = [@ EXCEPT !.st = "closed", !.closing = None, !.closedBy = o]]

(* _on_close_fill: a partial fill shrinks the position and releases it, a full
   one closes it. *)
BookClose(o, p, n) ==
    pos' = IF n < pos[p].qty
             THEN [pos EXCEPT ![p] = [@ EXCEPT !.qty = pos[p].qty - n, !.closing = None]]
             ELSE [pos EXCEPT ![p] = [@ EXCEPT !.st = "closed", !.closing = None,
                                               !.closedBy = o]]

(* _finalize: the booking and the order row in one transaction. *)
Finalize(o) ==
    LET n == exch[o].cum
        p == orders[o].pos
        outcome == IF ans = "filled" THEN "filled"
                   ELSE IF n > 0 THEN "partial" ELSE "no_fill"
        closes == orders[o].kind = "close"
        attributable == p # None /\ pos[p].st = "open"
    IN
    /\ pc = "polled" /\ cur = o /\ ans \in {"filled", "dead"}
    /\ orders' = [orders EXCEPT ![o] = [@ EXCEPT !.status = outcome,
                      !.stage = IF n > 0 THEN "done" ELSE "cancelled",
                      !.clock = "fresh"]]
    /\ \/ n = 0 /\ ~closes /\ UNCHANGED <<pos, halt, booked>>
       \/ /\ n = 0 /\ closes
          /\ pos' = [pos EXCEPT ![p].closing = None]
          /\ UNCHANGED <<halt, booked>>
       \/ /\ n > 0 /\ ~closes
          /\ BookOpen(o, n)
          /\ booked' = [booked EXCEPT ![o] = @ + n]
          /\ UNCHANGED halt
       \/ /\ n > 0 /\ closes /\ attributable
          /\ BookClose(o, p, n)
          /\ booked' = [booked EXCEPT ![o] = @ + n]
          /\ UNCHANGED halt
       \/ /\ n > 0 /\ closes /\ ~attributable
          /\ halt' = IF p # None /\ pos[p].closedBy = o THEN halt
                     ELSE HaltFor("manual")
          /\ UNCHANGED <<pos, booked>>
    /\ Idle
    /\ UNCHANGED <<world, faults>>

(* cancel_order on whatever the order has become since it was polled. *)
CancelCall(o) ==
    \/ /\ exch[o].st = "live"
       /\ exch' = [exch EXCEPT ![o].st = "dead"]
       /\ UNCHANGED faults
    \/ exch[o].st # "live" /\ UNCHANGED <<exch, faults>>
    \/ exch[o].st = "live" /\ UNCHANGED exch /\ Spend

PolledLive(o) == pc = "polled" /\ cur = o /\ ans = "live"
Patient(o) == orders[o].stage \in {"mid", "retreat"}
BugNoDeadline(o) == orders[o].stage = "retreat" /\ orders[o].clock = "due"
GiveUpDue(o) ==
    \/ Patient(o) /\ orders[o].clock = "overdue"
    \/ orders[o].stage = "retreat" /\ orders[o].clock = "due"

(* Our cancel did not take: issue it again. *)
CancelAgain(o) ==
    /\ PolledLive(o) /\ orders[o].stage = "cancelled"
    /\ CancelCall(o)
    /\ Idle
    /\ UNCHANGED <<db, size, expired, gone, booked>>

(* The deadline, or the wait at bid/ask, is over: cancel, whatever filled
   stays; the stage is recorded whether or not the call took. *)
GiveUp(o) ==
    /\ PolledLive(o) /\ GiveUpDue(o)
    /\ CancelCall(o)
    /\ orders' = [orders EXCEPT ![o].stage = "cancelled"]
    /\ Idle
    /\ UNCHANGED <<pos, halt, size, expired, gone, booked>>

(* The wait at mid is over: amend to bid/ask; without a quote, or when the
   amend fails, the order waits for its deadline. *)
Retreat(o) ==
    /\ PolledLive(o) /\ orders[o].stage = "mid" /\ orders[o].clock = "due"
    /\ \/ /\ exch[o].st = "live"
          /\ orders' = [orders EXCEPT ![o] = [@ EXCEPT !.stage = "retreat",
                                                     !.clock = "fresh"]]
       \/ UNCHANGED orders
    /\ Idle
    /\ UNCHANGED <<pos, halt, world, booked, faults>>

(* An urgent close steps its price up or stays pinned (module PriceLadder has
   the prices); either way its wait starts again. *)
Chase(o) ==
    /\ PolledLive(o) /\ orders[o].stage = "urgent" /\ orders[o].clock = "due"
    /\ orders' = [orders EXCEPT ![o].clock = "fresh"]
    /\ Idle
    /\ UNCHANGED <<pos, halt, world, booked, faults>>

StillWaiting(o) ==
    /\ PolledLive(o) /\ orders[o].stage # "cancelled"
    /\ ~GiveUpDue(o) /\ orders[o].clock # "due"
    /\ Idle
    /\ UNCHANGED <<db, world, booked, faults>>

-----------------------------------------------------------------------------
(* The rest of the loop and the operator. *)

(* _settle_expired_live: past expiry, once the exchange no longer lists the
   position; the wait for the delivery record is left open. *)
SettleExpired(p) ==
    /\ pc = "idle"
    /\ pos[p].st = "open" /\ CloseFree(p)
    /\ expired[pos[p].key] /\ size[pos[p].key] = 0
    /\ pos' = [pos EXCEPT ![p] = [@ EXCEPT !.st = "closed", !.closing = None]]
    /\ UNCHANGED <<orders, halt, world, booked, proc, faults>>

(* reconcile: strict comparison of the keys with nothing in flight, and no
   resting order without an active row. *)
Mismatch ==
    \/ \E k \in Key :
          /\ ActiveOn(k) = {}
          /\ ~(expired[k] /\ OpenPositions(k) # {})
          /\ DbSize(k) # size[k]
    \/ \E o \in Oid : exch[o].st = "live" /\ ~Active(o)

Reconcile ==
    /\ pc = "idle"
    /\ \/ Spend /\ halt' = HaltFor("reconcile")   \* positions unavailable
       \/ Mismatch /\ halt' = HaltFor("reconcile") /\ UNCHANGED faults
       \/ /\ ~Mismatch
          /\ halt' = IF halt = "reconcile" THEN "no" ELSE halt
          /\ UNCHANGED faults
    /\ UNCHANGED <<orders, pos, world, booked, proc>>

(* POST /exec/unhalt runs in another process, in two commits: the halt is
   lifted, then the attempt counters are reset. *)
Unhalt ==
    /\ halt' = "no"
    /\ UNCHANGED <<orders, pos, world, booked, proc, faults>>

ResetCloseAttempts ==
    /\ pos' = [p \in Oid |-> IF pos[p].st = "open" THEN [pos[p] EXCEPT !.attempts = 0]
                             ELSE pos[p]]
    /\ UNCHANGED <<orders, halt, world, booked, proc, faults>>

(* The loop process dies and is restarted: only committed rows survive. *)
Crash ==
    /\ Spend /\ Idle
    /\ UNCHANGED <<db, world, booked>>

-----------------------------------------------------------------------------
(* External: the exchange and the clock. *)

(* A placement of unknown outcome arrives after all, or never does. *)
Arrive(o) ==
    /\ exch[o].st = "transit"
    /\ ~expired[orders[o].key]
    /\ orders[o].kind = "close" => size[orders[o].key] > 0
    /\ exch' = [exch EXCEPT ![o].st = "live"]
    /\ UNCHANGED <<db, size, expired, gone, booked, proc, faults>>

Lose(o) ==
    /\ exch[o].st = "transit"
    /\ exch' = [exch EXCEPT ![o].st = "none"]
    /\ UNCHANGED <<db, size, expired, gone, booked, proc, faults>>

(* n lots execute; a reduce-only order never exceeds the position. *)
Fill(o, n) ==
    LET k == orders[o].key IN
    /\ exch[o].st = "live" /\ n <= orders[o].qty - exch[o].cum
    /\ orders[o].kind = "close" => n <= size[k]
    /\ exch' = [exch EXCEPT ![o] = [@ EXCEPT !.cum = exch[o].cum + n,
                    !.st = IF exch[o].cum + n = orders[o].qty THEN "filled"
                          ELSE exch[o].st]]
    /\ size' = [size EXCEPT ![k] = IF orders[o].kind = "open" THEN @ + n ELSE @ - n]
    /\ UNCHANGED <<db, expired, gone, booked, proc, faults>>

(* The exchange ends a resting order by itself. *)
Kill(o) ==
    /\ exch[o].st = "live"
    /\ exch' = [exch EXCEPT ![o].st = "dead"]
    /\ UNCHANGED <<db, size, expired, gone, booked, proc, faults>>

(* The clock passes expiry_ms of the contract the key holds; its resting
   orders end. *)
EndOrders(k, which) ==
    exch' = [o \in Oid |->
               IF orders[o].key = k /\ exch[o].st = "live" /\ orders[o].kind \in which
               THEN [exch[o] EXCEPT !.st = "dead"] ELSE exch[o]]

Expire(k) ==
    /\ Expiries /\ ~expired[k] /\ ActiveOn(k) \cup OpenPositions(k) # {}
    /\ expired' = [expired EXCEPT ![k] = TRUE]
    /\ EndOrders(k, {"open", "close"})
    /\ UNCHANGED <<db, size, gone, booked, proc, faults>>

(* The exchange settles an expired position, or someone closes or liquidates
   a live one outside the bot. *)
LeaveExchange(k) ==
    /\ size[k] > 0 /\ (expired[k] \/ OutsideCloses)
    /\ size' = [size EXCEPT ![k] = 0]
    /\ gone' = [gone EXCEPT ![k] = TRUE]
    /\ EndOrders(k, {"close"})
    /\ UNCHANGED <<db, expired, booked, proc, faults>>

(* Time passes for an order: its stage wait, or its whole deadline, is over. *)
Elapse(o) ==
    /\ Active(o) /\ orders[o].stage # "cancelled"
    /\ \E c \in {"due", "overdue"} :
          /\ c = "due" => orders[o].clock = "fresh"
          /\ c = "overdue" => orders[o].stage # "urgent" /\ orders[o].clock # "overdue"
          /\ orders' = [orders EXCEPT ![o].clock = c]
    /\ UNCHANGED <<pos, halt, world, booked, proc, faults>>

-----------------------------------------------------------------------------
Poll(o) == PollUnreachable(o) \/ PollAbsent(o) \/ PollSeen(o)

ActOnAnswer(o) ==
    \/ HoldFill(o) \/ Finalize(o)
    \/ CancelAgain(o) \/ GiveUp(o) \/ Retreat(o) \/ Chase(o) \/ StillWaiting(o)

FinishStep(o) == Place(o) \/ RecordPlace(o) \/ RetireAbsent(o) \/ ActOnAnswer(o)

RequestClose(p) ==
    \/ ExitBlocked(p)
    \/ \E urgent, manual \in BOOLEAN :
          \/ CloseShort(p, urgent, manual)
          \/ \E o \in Oid : SubmitClose(o, p, urgent, manual)

LoopStep ==
    \/ \E o \in Oid, k \in Key, q \in 1..MaxQty : SubmitOpen(o, k, q)
    \/ \E p \in Oid : RequestClose(p) \/ SettleExpired(p)
    \/ \E o \in Oid : Poll(o) \/ FinishStep(o)
    \/ Reconcile
    \/ Crash

Operator == Unhalt \/ ResetCloseAttempts

Exchange ==
    \/ \E o \in Oid : Arrive(o) \/ Lose(o) \/ Kill(o) \/ Elapse(o)
    \/ \E o \in Oid, n \in 1..MaxQty : Fill(o, n)
    \/ \E k \in Key : Expire(k) \/ LeaveExchange(k)

Next == LoopStep \/ Operator \/ Exchange

Spec == Init /\ [][Next]_vars

-----------------------------------------------------------------------------
(* Properties. *)

Executed(S) == SumFunctionOnSet([o \in Oid |-> exch[o].cum], S)

(***************************************************************************)
(* Every active close order is the one its open position is reserved for,  *)
(* and every reservation names an active close order of that position:     *)
(* "recorded on the position BEFORE the order is sent, so a crash can      *)
(* never produce a second close", and the stale markers the exits          *)
(* self-heal never occur.                                                  *)
(***************************************************************************)
Reserved ==
    /\ \A o \in Oid : Active(o) /\ orders[o].kind = "close" =>
          /\ orders[o].pos \in Oid
          /\ pos[orders[o].pos].st = "open" /\ pos[orders[o].pos].closing = o
    /\ \A p \in Oid : pos[p].closing # None =>
          /\ pos[p].st = "open"
          /\ Active(pos[p].closing) /\ orders[pos[p].closing].kind = "close"
          /\ orders[pos[p].closing].pos = p

(***************************************************************************)
(* A row leaves "active" only when its order can no longer trade, and then *)
(* exactly what it executed has been booked; an active one has booked      *)
(* nothing.  This covers the error rows of rejected and retired orders     *)
(* ("only ever marked error when the exchange DEFINITIVELY does not know   *)
(* it") and the one-transaction booking of _finalize.                      *)
(***************************************************************************)
ClosedRowsAreSettled ==
    \A o \in Oid :
        /\ Active(o) => booked[o] = 0
        /\ orders[o].status \notin {"none", "active"} =>
              exch[o].st \notin {"live", "transit"} /\ booked[o] = exch[o].cum

(***************************************************************************)
(* Why those two hold: the inductive invariants their proofs rest on.      *)
(***************************************************************************)
NotYetBooked ==
    \A o \in Oid : orders[o].status = "none" \/ (Active(o) /\ orders[o].kind = "open")
        => pos[o].st = "none"
OpensAreUnlinked == \A o \in Oid : orders[o].kind = "open" => orders[o].pos = None
WorksOnActive == pc # "idle" => cur \in Oid /\ Active(cur)

ReservationInv ==
    /\ TypeOK
    /\ Reserved
    /\ NotYetBooked
    /\ OpensAreUnlinked
    /\ WorksOnActive

NothingBeforePlacement ==
    \A o \in Oid :
        /\ orders[o].status = "none" => exch[o].st = "none" /\ booked[o] = 0
        /\ exch[o].st \in {"none", "transit"} => exch[o].cum = 0
LongAbsentIsUnknown ==
    \A o \in Oid : Active(o) /\ orders[o].absent > Lag => exch[o].st = "none"
AnswerStillHolds ==
    /\ pc = "send" => exch[cur].st = "none" /\ orders[cur].absent = 0
    /\ pc = "sent" /\ ans = "rejected" => exch[cur].st = "none"
    /\ pc = "retire" => exch[cur].st = "none"
    /\ pc = "polled" /\ ans \in {"filled", "dead"} => exch[cur].st = ans

(***************************************************************************)
(* What the loop may rely on between two of its calls: the answer it holds *)
(* for the order in hand is still true of the exchange, and an order that  *)
(* more than Lag answers in a row did not know never reached it.           *)
(***************************************************************************)
SettlementInv ==
    /\ ReservationInv
    /\ ClosedRowsAreSettled
    /\ NothingBeforePlacement
    /\ LongAbsentIsUnknown
    /\ AnswerStillHolds

(***************************************************************************)
(* Unless the position left the exchange without the bot, the exchange     *)
(* holds what the book holds plus the open fills and less the close fills  *)
(* that are not booked yet.                                                *)
(***************************************************************************)
BookMatchesExchange ==
    \A k \in Key : ~gone[k] =>
        LET closes == ActiveOn(k) \ InflightOpens(k)
        IN  size[k] + Executed(closes) = DbSize(k) + Executed(InflightOpens(k))

(***************************************************************************)
(* PER_KEY_CAP on the exchange and not only in the book: on one key at     *)
(* most one order of the bot can trade, and never more than one order's    *)
(* quantity is short, whatever was lost, delayed, adopted or retried.      *)
(***************************************************************************)
OneExposure ==
    \A k \in Key :
        /\ Cardinality({o \in Oid : orders[o].key = k /\ exch[o].st \in {"live", "transit"}}) <= 1
        /\ Cardinality(OpenPositions(k)) + Cardinality(InflightOpens(k)) <= 1
        /\ size[k] <= MaxQty

(***************************************************************************)
(* The tables implement PositionLedger: whatever is lost, late, repeated   *)
(* or retried, each key's book changes by exactly what was executed.       *)
(***************************************************************************)
Phase(k) ==
    CASE InflightOpens(k) # {} -> "opening"
      [] InflightOpens(k) = {} /\ OpenPositions(k) = {} -> "flat"
      [] InflightOpens(k) = {} /\ OpenPositions(k) # {} ->
            IF ActiveOn(k) = {} THEN "held" ELSE "closing"

Ledger == INSTANCE PositionLedger WITH
              phase <- [k \in Key |-> Phase(k)],
              held <- [k \in Key |-> DbSize(k)],
              executed <- [k \in Key |-> Executed(ActiveOn(k))]

ImplementsLedger == Ledger!Spec

(***************************************************************************)
(* The loop is one process that finishes what it began and polls every     *)
(* active order each tick; time passes; an unknown placement arrives or is *)
(* lost.  Fills, cancellations by the exchange and the operator are free.  *)
(***************************************************************************)
Fairness ==
    /\ \A o \in Oid :
          /\ WF_vars(FinishStep(o))
          /\ SF_vars(Poll(o))
          /\ WF_vars(Elapse(o))
          /\ WF_vars(Arrive(o) \/ Lose(o))
    /\ \A p \in Oid : SF_vars(SettleExpired(p))

FairSpec == Spec /\ Fairness

(***************************************************************************)
(* A patient order comes to an end: its deadline cancels it whatever       *)
(* quotes, amendments and calls do, and one that never arrived is retired. *)
(***************************************************************************)
PatientEnds ==
    \A o \in Oid : Active(o) /\ orders[o].stage # "urgent" ~> ~Active(o)

(***************************************************************************)
(* What the exchange executed for an order that is over is booked.         *)
(***************************************************************************)
FillsAreBooked ==
    \A o \in Oid : exch[o].st \in {"filled", "dead"} ~> booked[o] = exch[o].cum

(***************************************************************************)
(* "Bybit settles expired options itself; we only book the result once the *)
(* position has left the exchange book" (loop.py:164-165): an expired      *)
(* position that has left it is booked.                                    *)
(***************************************************************************)
ExpiredIsBooked ==
    \A p \in Oid, k \in Key :
        pos[p].st = "open" /\ pos[p].key = k /\ expired[k] /\ size[k] = 0
            ~> pos[p].st = "closed"

=============================================================================
