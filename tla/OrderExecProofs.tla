--------------------------- MODULE OrderExecProofs ---------------------------
(***************************************************************************)
(* Proofs about OrderExec, for every set of keys and order ids and every   *)
(* value of the bounds: reservation and settlement, then one exposure per  *)
(* key, the book against the exchange, and PositionLedger implemented.     *)
(***************************************************************************)
EXTENDS OrderExec, Sums

(***************************************************************************)
(* Type correctness.                                                       *)
(***************************************************************************)
LEMMA InitTypeOK == Init => TypeOK
  BY OrderExecAssumption
  DEF OrderExecAssumption, Init, TypeOK, NoOrder, NoPosition, OrderRow, PosRow, ExchRow, Qty

(* A row inserted by submit is a well-typed row. *)
LEMMA InsertTyped ==
    ASSUME TypeOK, NEW o \in Oid, NEW kind \in {"open", "close"},
           NEW k \in Key \cup {None}, NEW p \in Oid \cup {None}, NEW q \in Qty,
           NEW stage \in {"mid", "urgent"},
           InsertOrder(o, kind, k, p, q, stage)
    PROVE  orders' \in [Oid -> OrderRow]
<1>1. NewOrder(kind, k, p, q, stage) \in OrderRow
  <2>1. 0 \in 0..MaxAbsent
    BY OrderExecAssumption DEF OrderExecAssumption
  <2> QED
    BY <2>1 DEF NewOrder, OrderRow
<1> QED
  BY <1>1 DEF InsertOrder, TypeOK

(* What the updates of an order row and of a position row preserve. *)
LEMMA RowUpdates ==
    ASSUME NEW r \in OrderRow
    PROVE  /\ [r EXCEPT !.known = TRUE] \in OrderRow
           /\ [r EXCEPT !.absent = 0, !.known = TRUE] \in OrderRow
           /\ [r EXCEPT !.stage = "cancelled"] \in OrderRow
           /\ [r EXCEPT !.stage = "retreat", !.clock = "fresh"] \in OrderRow
           /\ \A s \in {"filled", "partial", "no_fill", "error"}, t \in {"done", "cancelled"} :
                 [r EXCEPT !.status = s, !.stage = t, !.clock = "fresh"] \in OrderRow
<1>1. [r EXCEPT !.known = TRUE] \in OrderRow
  BY DEF OrderRow
<1>2. [r EXCEPT !.absent = 0, !.known = TRUE] \in OrderRow
  <2>1. 0 \in 0..MaxAbsent
    BY OrderExecAssumption DEF OrderExecAssumption
  <2> QED
    BY <2>1 DEF OrderRow
<1>3. [r EXCEPT !.stage = "cancelled"] \in OrderRow
  BY DEF OrderRow
<1>5. [r EXCEPT !.stage = "retreat", !.clock = "fresh"] \in OrderRow
  BY DEF OrderRow
<1>4. \A s \in {"filled", "partial", "no_fill", "error"}, t \in {"done", "cancelled"} :
        [r EXCEPT !.status = s, !.stage = t, !.clock = "fresh"] \in OrderRow
  BY DEF OrderRow
<1> QED
  BY <1>1, <1>2, <1>3, <1>4, <1>5

LEMMA RowReplaced ==
    ASSUME TypeOK, NEW o \in Oid, NEW r \in OrderRow, orders' = [orders EXCEPT ![o] = r]
    PROVE  orders' \in [Oid -> OrderRow]
  BY DEF TypeOK

LEMMA PosUpdates ==
    ASSUME NEW r \in PosRow
    PROVE  /\ [r EXCEPT !.closing = None] \in PosRow
           /\ [r EXCEPT !.st = "closed", !.closing = None] \in PosRow
           /\ \A o \in Oid :
                 [r EXCEPT !.st = "closed", !.closing = None, !.closedBy = o] \in PosRow
           /\ \A o \in Oid : [r EXCEPT !.closing = o, !.attempts = r.attempts + 1] \in PosRow
           /\ \A d \in Nat : [r EXCEPT !.closing = None, !.attempts = r.attempts + d] \in PosRow
           /\ \A n \in Qty : n < r.qty =>
                 [r EXCEPT !.qty = r.qty - n, !.closing = None] \in PosRow
<1>1. [r EXCEPT !.closing = None] \in PosRow
  BY DEF PosRow
<1>2. [r EXCEPT !.st = "closed", !.closing = None] \in PosRow
  BY DEF PosRow
<1>3. ASSUME NEW o \in Oid
      PROVE  [r EXCEPT !.st = "closed", !.closing = None, !.closedBy = o] \in PosRow
  BY <1>3 DEF PosRow
<1>4. ASSUME NEW o \in Oid
      PROVE  [r EXCEPT !.closing = o, !.attempts = r.attempts + 1] \in PosRow
  <2>1. r.attempts + 1 \in Nat
    BY DEF PosRow
  <2> QED
    BY <2>1 DEF PosRow
<1>5. ASSUME NEW d \in Nat
      PROVE  [r EXCEPT !.closing = None, !.attempts = r.attempts + d] \in PosRow
  <2>1. r.attempts + d \in Nat
    BY DEF PosRow
  <2> QED
    BY <2>1 DEF PosRow
<1>6. ASSUME NEW n \in Qty, n < r.qty
      PROVE  [r EXCEPT !.qty = r.qty - n, !.closing = None] \in PosRow
  <2>1. r.qty \in Qty
    BY DEF PosRow
  <2>2. r.qty - n \in Qty
    BY <1>6, <2>1, OrderExecAssumption DEF OrderExecAssumption, Qty
  <2> QED
    BY <2>2 DEF PosRow
<1> QED
  BY <1>1, <1>2, <1>3, <1>4, <1>5, <1>6

LEMMA PosReplaced ==
    ASSUME TypeOK, NEW p \in Oid, NEW r \in PosRow, pos' = [pos EXCEPT ![p] = r]
    PROVE  pos' \in [Oid -> PosRow]
  BY DEF TypeOK

LEMMA PositionReleased ==
    ASSUME TypeOK, NEW p \in Oid \cup {None}, pos' = [pos EXCEPT ![p].closing = None]
    PROVE  pos' \in [Oid -> PosRow]
<1>1. CASE p \in Oid
  <2>1. pos[p] \in PosRow
    BY <1>1 DEF TypeOK
  <2> QED
    BY <1>1, <2>1, PosUpdates, PosReplaced
<1>2. CASE p = None
  BY <1>2, OrderExecAssumption DEF OrderExecAssumption, TypeOK
<1> QED
  BY <1>1, <1>2

LEMMA DropTyped ==
    ASSUME TypeOK, NEW o \in Oid, DropOrder(o)
    PROVE  orders' \in [Oid -> OrderRow] /\ pos' \in [Oid -> PosRow]
<1>1. orders[o] \in OrderRow /\ orders[o].pos \in Oid \cup {None}
  BY DEF TypeOK, OrderRow
<1>2. orders' \in [Oid -> OrderRow]
  BY <1>1, RowUpdates, RowReplaced DEF DropOrder
<1>3. pos' \in [Oid -> PosRow]
  BY <1>1, PositionReleased DEF DropOrder, TypeOK
<1> QED
  BY <1>2, <1>3

LEMMA SubmitTyped == 
    ASSUME TypeOK, NEW o \in Oid, NEW k \in Key, NEW q \in 1..MaxQty,
           SubmitOpen(o, k, q)
    PROVE  TypeOK'
<1>1. orders' \in [Oid -> OrderRow]
  BY InsertTyped, OrderExecAssumption DEF OrderExecAssumption, SubmitOpen, Qty
<1> QED
  BY <1>1, OrderExecAssumption DEF OrderExecAssumption, SubmitOpen, TypeOK, Goto

LEMMA CloseTyped ==
    ASSUME TypeOK, NEW p \in Oid, RequestClose(p)
    PROVE  TypeOK'
<1>1. CASE ExitBlocked(p)
  BY <1>1 DEF ExitBlocked, HaltFor, TypeOK, PosRow, world, proc
<1>2. ASSUME NEW urgent \in BOOLEAN, NEW manual \in BOOLEAN,
             CloseShort(p, urgent, manual)
      PROVE  TypeOK'
  <2>1. pos[p] \in PosRow
    BY DEF TypeOK
  <2>2. pos' \in [Oid -> PosRow]
    BY <1>2, <2>1, PosUpdates, PosReplaced DEF CloseShort
  <2> QED
    BY <1>2, <2>2 DEF CloseShort, HaltFor, TypeOK, world, proc
<1>3. ASSUME NEW urgent \in BOOLEAN, NEW manual \in BOOLEAN, NEW o \in Oid,
             SubmitClose(o, p, urgent, manual)
      PROVE  TypeOK'
  <2>1. orders' \in [Oid -> OrderRow]
    BY <1>3, InsertTyped DEF SubmitClose, TypeOK, PosRow
  <2>2. pos' \in [Oid -> PosRow]
    <3>1. pos[p] \in PosRow
      BY DEF TypeOK
    <3> QED
      BY <1>3, <3>1, PosUpdates, PosReplaced DEF SubmitClose, Reserve
  <2> QED
    BY <1>3, <2>1, <2>2 DEF SubmitClose, TypeOK, Goto, world, Spend
<1> QED
  BY <1>1, <1>2, <1>3 DEF RequestClose

LEMMA PlaceTyped ==
    ASSUME TypeOK, NEW o \in Oid, Place(o) \/ RecordPlace(o)
    PROVE  TypeOK'
<1>1. CASE Place(o)
  BY <1>1 DEF Place, TransportFailure, TypeOK, ExchRow, Goto, db
<1>2. CASE RecordPlace(o)
  <2>1. orders' \in [Oid -> OrderRow] /\ pos' \in [Oid -> PosRow]
    <3>1. CASE ans = "ok"
      <4>1. orders[o] \in OrderRow
        BY DEF TypeOK
      <4> QED
        BY <1>2, <3>1, <4>1, RowUpdates, RowReplaced DEF RecordPlace, TypeOK
    <3>2. CASE ans # "ok"
      BY <1>2, <3>2, DropTyped DEF RecordPlace, TypeOK
    <3> QED
      BY <3>1, <3>2
  <2> QED
    BY <1>2, <2>1 DEF RecordPlace, TypeOK, Idle, Goto, world
<1> QED
  BY <1>1, <1>2

LEMMA PollTyped ==
    ASSUME TypeOK, NEW o \in Oid, Poll(o)
    PROVE  TypeOK'
<1>1. orders' \in [Oid -> OrderRow]
  <2>1. CASE PollUnreachable(o)
    BY <2>1, OrderExecAssumption
    DEF OrderExecAssumption, PollUnreachable, TypeOK, OrderRow
  <2>2. CASE PollAbsent(o)
    <3>1. orders[o] \in OrderRow
      BY DEF TypeOK
    <3>2. orders[o].absent \in 0..MaxAbsent
      BY <3>1 DEF OrderRow
    <3>3. PICK n : /\ n = (IF orders[o].absent < MaxAbsent THEN orders[o].absent + 1
                           ELSE MaxAbsent)
                   /\ orders' = [orders EXCEPT ![o].absent = n]
      BY <2>2 DEF PollAbsent
    <3>4. n \in 0..MaxAbsent
      BY <3>2, <3>3, OrderExecAssumption DEF OrderExecAssumption
    <3>5. [orders[o] EXCEPT !.absent = n] \in OrderRow
      BY <3>1, <3>4 DEF OrderRow
    <3> QED
      BY <3>3, <3>5, RowReplaced
  <2>3. CASE PollSeen(o)
    <3>1. orders[o] \in OrderRow
      BY DEF TypeOK
    <3> QED
      BY <2>3, <3>1, RowUpdates, RowReplaced DEF PollSeen
  <2> QED
    BY <2>1, <2>2, <2>3 DEF Poll
<1> QED
  BY <1>1 DEF Poll, PollUnreachable, PollAbsent, PollSeen, Spend, Goto, TypeOK,
             ExchRow, world, proc

LEMMA RetireTyped ==
    ASSUME TypeOK, NEW o \in Oid, RetireAbsent(o)
    PROVE  TypeOK'
<1>1. orders' \in [Oid -> OrderRow] /\ pos' \in [Oid -> PosRow]
  BY DropTyped DEF RetireAbsent, TypeOK, db
<1> QED
  BY <1>1 DEF RetireAbsent, HaltFor, Spend, Idle, Goto, TypeOK, world, db

LEMMA FinalizeTyped ==
    ASSUME TypeOK, NEW o \in Oid, Finalize(o)
    PROVE  TypeOK'
<1>1. exch[o].cum \in Qty /\ exch[o].cum \in Nat /\ orders[o].pos \in Oid \cup {None}
  BY OrderExecAssumption DEF OrderExecAssumption, TypeOK, ExchRow, OrderRow, Qty
<1>2. orders' \in [Oid -> OrderRow]
  <2>1. orders[o] \in OrderRow
    BY DEF TypeOK
  <2> QED
    BY <2>1, RowUpdates, RowReplaced DEF Finalize
<1>3. pos' \in [Oid -> PosRow]
  <2>1. CASE UNCHANGED pos
    BY <2>1 DEF TypeOK
  <2>2. CASE pos' = [pos EXCEPT ![orders[o].pos].closing = None]
    BY <1>1, <2>2, PositionReleased
  <2>3. CASE BookOpen(o, exch[o].cum)
    BY <1>1, <2>3 DEF BookOpen, TypeOK, PosRow, OrderRow
  <2>4. CASE orders[o].pos # None /\ BookClose(o, orders[o].pos, exch[o].cum)
    <3>1. orders[o].pos \in Oid /\ pos[orders[o].pos] \in PosRow
      BY <1>1, <2>4 DEF TypeOK
    <3> QED
      BY <1>1, <2>4, <3>1, PosUpdates, PosReplaced DEF BookClose
  <2> QED
    BY <2>1, <2>2, <2>3, <2>4 DEF Finalize
<1>4. booked' \in [Oid -> Nat]
  BY <1>1 DEF Finalize, TypeOK
<1> QED
  BY <1>2, <1>3, <1>4 DEF Finalize, HaltFor, Idle, Goto, TypeOK, world

LEMMA CancelTyped ==
    ASSUME TypeOK, NEW o \in Oid, CancelCall(o)
    PROVE  exch' \in [Oid -> ExchRow] /\ faults' \in Nat
  BY DEF TypeOK, CancelCall, ExchRow, Spend

LEMMA AnswerTyped ==
    ASSUME TypeOK, NEW o \in Oid, ActOnAnswer(o)
    PROVE  TypeOK'
<1>1. CASE HoldFill(o)
  BY <1>1 DEF HoldFill, Spend, Idle, Goto, TypeOK, db, world
<1>2. CASE Finalize(o)
  BY <1>2, FinalizeTyped
<1>3. CASE CancelAgain(o)
  BY <1>3, CancelTyped DEF CancelAgain, Idle, Goto, TypeOK, db
<1>4. CASE GiveUp(o)
  <2>1. orders' \in [Oid -> OrderRow]
    <3>1. orders[o] \in OrderRow
      BY DEF TypeOK
    <3> QED
      BY <1>4, <3>1, RowUpdates, RowReplaced DEF GiveUp
  <2> QED
    BY <1>4, <2>1, CancelTyped DEF GiveUp, Idle, Goto, TypeOK
<1>5. CASE Retreat(o)
  <2>1. orders' \in [Oid -> OrderRow]
    <3>1. orders[o] \in OrderRow
      BY DEF TypeOK
    <3> QED
      BY <1>5, <3>1, RowUpdates, RowReplaced DEF Retreat, TypeOK
  <2> QED
    BY <1>5, <2>1 DEF Retreat, Idle, Goto, TypeOK, world
<1>6. CASE Chase(o)
  <2>1. orders' \in [Oid -> OrderRow]
    BY <1>6 DEF Chase, TypeOK, OrderRow
  <2> QED
    BY <1>6, <2>1 DEF Chase, Idle, Goto, TypeOK, world
<1>7. CASE StillWaiting(o)
  BY <1>7 DEF StillWaiting, Idle, Goto, TypeOK, db, world
<1> QED
  BY <1>1, <1>2, <1>3, <1>4, <1>5, <1>6, <1>7 DEF ActOnAnswer

LEMMA ExchangeTyped ==
    ASSUME TypeOK, Exchange
    PROVE  TypeOK'
<1>1. ASSUME NEW o \in Oid, Arrive(o) \/ Lose(o) \/ Kill(o)
      PROVE  TypeOK'
  <2>1. exch' \in [Oid -> ExchRow]
    BY <1>1 DEF Arrive, Lose, Kill, TypeOK, ExchRow
  <2> QED
    BY <1>1, <2>1 DEF Arrive, Lose, Kill, TypeOK, db, proc
<1>2. ASSUME NEW o \in Oid, Elapse(o)
      PROVE  TypeOK'
  <2>1. orders' \in [Oid -> OrderRow]
    BY <1>2 DEF Elapse, TypeOK, OrderRow
  <2> QED
    BY <1>2, <2>1 DEF Elapse, TypeOK, world, proc
<1>3. ASSUME NEW o \in Oid, NEW n \in 1..MaxQty, Fill(o, n)
      PROVE  TypeOK'
  <2>1. exch[o].cum \in Nat /\ orders[o].qty \in 0..MaxQty
    BY OrderExecAssumption DEF OrderExecAssumption, TypeOK, ExchRow, OrderRow, Qty
  <2>2. exch' \in [Oid -> ExchRow]
    <3>1. exch[o].cum + n \in Qty
      BY <1>3, <2>1, OrderExecAssumption DEF OrderExecAssumption, Fill, Qty
    <3>2. \A t \in {"filled", exch[o].st} :
            [exch[o] EXCEPT !.cum = @ + n, !.st = t] \in ExchRow
      BY <3>1 DEF TypeOK, ExchRow
    <3> QED
      BY <1>3, <3>2 DEF Fill, TypeOK
  <2>3. size' \in [Key -> Nat]
    <3>1. CASE orders[o].kind = "open"
      <4>1. ASSUME orders[o].key \in Key
            PROVE  size[orders[o].key] + n \in Nat
        BY <1>3, <4>1 DEF TypeOK
      <4> QED
        BY <1>3, <3>1, <4>1 DEF Fill, TypeOK
    <3>2. CASE orders[o].kind = "close"
      <4>1. ASSUME orders[o].key \in Key
            PROVE  size[orders[o].key] - n \in Nat
        BY <1>3, <3>2, <4>1 DEF Fill, TypeOK
      <4> QED
        BY <1>3, <3>2, <4>1 DEF Fill, TypeOK
    <3> QED
      BY <3>1, <3>2 DEF TypeOK, OrderRow
  <2> QED
    BY <1>3, <2>2, <2>3 DEF Fill, TypeOK, db, proc
<1>4. ASSUME NEW k \in Key, NEW which, EndOrders(k, which)
      PROVE  exch' \in [Oid -> ExchRow]
  BY <1>4 DEF EndOrders, TypeOK, ExchRow
<1>5. ASSUME NEW k \in Key, Expire(k)
      PROVE  TypeOK'
  <2>1. exch' \in [Oid -> ExchRow]
    BY <1>4, <1>5 DEF Expire
  <2> QED
    BY <1>5, <2>1 DEF Expire, TypeOK, db, proc
<1>6. ASSUME NEW k \in Key, LeaveExchange(k)
      PROVE  TypeOK'
  <2>1. exch' \in [Oid -> ExchRow]
    BY <1>4, <1>6 DEF LeaveExchange
  <2> QED
    BY <1>6, <2>1 DEF LeaveExchange, TypeOK, db, proc
<1> QED
  BY <1>1, <1>2, <1>3, <1>5, <1>6 DEF Exchange

LEMMA OtherStepsTyped ==
    ASSUME TypeOK, (\E p \in Oid : SettleExpired(p)) \/ Reconcile \/ Crash
                   \/ Unhalt \/ ResetCloseAttempts \/ UNCHANGED vars
    PROVE  TypeOK'
<1>1. ASSUME NEW p \in Oid, SettleExpired(p)
      PROVE  TypeOK'
  <2>1. pos' \in [Oid -> PosRow]
    <3>1. pos[p] \in PosRow
      BY DEF TypeOK
    <3>2. [pos[p] EXCEPT !.st = "closed", !.closing = None] \in PosRow
      BY <3>1, PosUpdates
    <3> QED
      BY <1>1, <3>2, PosReplaced DEF SettleExpired
  <2> QED
    BY <1>1, <2>1 DEF SettleExpired, TypeOK, world, proc
<1>2. CASE Reconcile
  BY <1>2 DEF Reconcile, HaltFor, Spend, TypeOK, world, proc
<1>3. CASE Crash
  BY <1>3 DEF Crash, Spend, Idle, Goto, TypeOK, db, world
<1>4. CASE Unhalt
  BY <1>4 DEF Unhalt, TypeOK, world, proc
<1>5. CASE ResetCloseAttempts
  <2>1. ASSUME NEW p \in Oid
        PROVE  pos[p] \in PosRow /\ [pos[p] EXCEPT !.attempts = 0] \in PosRow
    <3>1. pos[p] \in PosRow
      BY DEF TypeOK
    <3> QED
      BY <3>1 DEF PosRow
  <2>2. pos' \in [Oid -> PosRow]
    BY <1>5, <2>1 DEF ResetCloseAttempts
  <2> QED
    BY <1>5, <2>2 DEF ResetCloseAttempts, TypeOK, world, proc
<1>6. CASE UNCHANGED vars
  BY <1>6 DEF vars, TypeOK
<1> QED
  BY <1>1, <1>2, <1>3, <1>4, <1>5, <1>6

LEMMA StepTypeOK == TypeOK /\ [Next]_vars => TypeOK'
  BY SubmitTyped, CloseTyped, PlaceTyped, PollTyped, RetireTyped, AnswerTyped,
     ExchangeTyped, OtherStepsTyped
  DEF Next, LoopStep, Operator, FinishStep

(* Every reachable state of the tables, the exchange and the loop is well
   typed; in particular no counter or quantity leaves its range. *)
THEOREM TypeCorrect == Spec => []TypeOK
<1> QED
  BY InitTypeOK, StepTypeOK, PTL DEF Spec

-----------------------------------------------------------------------------
(***************************************************************************)
(* Reserved: the inductive invariant is ReservationInv.  Most steps touch  *)
(* none of the fields it speaks of; they are covered by the frame lemma.   *)
(***************************************************************************)
LEMMA InitReservation == Init => ReservationInv
<1> SUFFICES ASSUME Init PROVE ReservationInv
  OBVIOUS
<1>1. \A o \in Oid : /\ orders[o].status = "none" /\ orders[o].kind = "open"
                     /\ orders[o].pos = None
                     /\ pos[o].st = "none" /\ pos[o].closing = None
  BY DEF Init, NoOrder, NoPosition
<1> QED
  BY <1>1, InitTypeOK
  DEF Init, ReservationInv, Reserved, NotYetBooked, OpensAreUnlinked,
      WorksOnActive, Active

LEMMA FrameReservation ==
    ASSUME ReservationInv, TypeOK',
           \A o \in Oid : /\ orders'[o].status = orders[o].status
                          /\ orders'[o].kind = orders[o].kind
                          /\ orders'[o].pos = orders[o].pos,
           \A p \in Oid : /\ pos'[p].st = pos[p].st
                          /\ pos'[p].closing = pos[p].closing,
           WorksOnActive'
    PROVE  ReservationInv'
<1>1. \A p \in Oid : pos[p].closing \in Oid \cup {None}
  BY DEF ReservationInv, TypeOK, PosRow
<1>2. Reserved'
  BY <1>1 DEF ReservationInv, Reserved, Active
<1>3. NotYetBooked' /\ OpensAreUnlinked'
  BY DEF ReservationInv, NotYetBooked, OpensAreUnlinked, Active
<1> QED
  BY <1>2, <1>3 DEF ReservationInv

(* A position whose marker is free has no marker and no active close. *)
LEMMA FreeIsUnreserved ==
    ASSUME ReservationInv, NEW p \in Oid, CloseFree(p)
    PROVE  /\ pos[p].closing = None
           /\ \A o \in Oid : Active(o) /\ orders[o].kind = "close" => orders[o].pos # p
<1>1. pos[p].closing \in Oid \cup {None}
  BY DEF ReservationInv, TypeOK, PosRow
<1>2. pos[p].closing = None
  BY <1>1 DEF ReservationInv, Reserved, CloseFree
<1> QED
  BY <1>2, OrderExecAssumption DEF OrderExecAssumption, ReservationInv, Reserved

(* A free position may be closed, or keep its state. *)
LEMMA ClosedWhileFree ==
    ASSUME ReservationInv, TypeOK', NEW p \in Oid, CloseFree(p), pos[p].st = "open",
           pos' = [pos EXCEPT ![p] = [@ EXCEPT !.st = "closed", !.closing = None]],
           UNCHANGED <<orders, pc, cur>>
    PROVE  ReservationInv'
<1>1. /\ pos'[p].st = "closed" /\ pos'[p].closing = None
      /\ \A x \in Oid \ {p} : pos'[x] = pos[x]
  BY DEF ReservationInv, TypeOK, PosRow
<1>2. Reserved'
  BY <1>1, FreeIsUnreserved DEF ReservationInv, Reserved, Active
<1>3. NotYetBooked' /\ OpensAreUnlinked' /\ WorksOnActive'
  BY <1>1 DEF ReservationInv, NotYetBooked, OpensAreUnlinked, WorksOnActive, Active
<1> QED
  BY <1>2, <1>3 DEF ReservationInv

LEMMA SubmitOpenReserves ==
    ASSUME ReservationInv, TypeOK', NEW o \in Oid, NEW k \in Key, NEW q \in 1..MaxQty,
           SubmitOpen(o, k, q)
    PROVE  ReservationInv'
<1>1. /\ orders[o].status = "none"
      /\ orders' = [orders EXCEPT ![o] = NewOrder("open", k, None, q, "mid")]
      /\ UNCHANGED pos /\ cur' = o
  BY DEF SubmitOpen, InsertOrder, Goto
<1>2. /\ orders'[o].status = "active" /\ orders'[o].kind = "open"
      /\ orders'[o].pos = None
      /\ \A x \in Oid \ {o} : orders'[x] = orders[x]
  BY <1>1 DEF ReservationInv, TypeOK, NewOrder
<1>3. \A p \in Oid : pos[p].closing # o /\ pos[p].closing \in Oid \cup {None}
  BY <1>1, OrderExecAssumption
  DEF OrderExecAssumption, ReservationInv, Reserved, Active, TypeOK, PosRow
<1>4. Reserved'
  BY <1>1, <1>2, <1>3, OrderExecAssumption
  DEF OrderExecAssumption, ReservationInv, Reserved, Active
<1>5. NotYetBooked' /\ OpensAreUnlinked' /\ WorksOnActive'
  BY <1>1, <1>2
  DEF ReservationInv, NotYetBooked, OpensAreUnlinked, WorksOnActive, Active
<1> QED
  BY <1>4, <1>5 DEF ReservationInv

LEMMA SubmitCloseReserves ==
    ASSUME ReservationInv, TypeOK', NEW o \in Oid, NEW p \in Oid,
           NEW u \in BOOLEAN, NEW m \in BOOLEAN, SubmitClose(o, p, u, m)
    PROVE  ReservationInv'
<1>1. /\ orders[o].status = "none" /\ pos[p].st = "open" /\ CloseFree(p)
      /\ Reserve(o, p) /\ cur' = o
      /\ \E s \in {"urgent", "mid"} :
            orders' = [orders EXCEPT ![o] = NewOrder("close", pos[p].key, p, pos[p].qty, s)]
  BY DEF SubmitClose, MayRequestClose, InsertOrder, Goto
<1>2. /\ orders'[o].status = "active" /\ orders'[o].kind = "close"
      /\ orders'[o].pos = p
      /\ \A x \in Oid \ {o} : orders'[x] = orders[x]
  BY <1>1 DEF ReservationInv, TypeOK, NewOrder
<1>3. /\ pos'[p].closing = o /\ pos'[p].st = "open"
      /\ \A x \in Oid \ {p} : pos'[x] = pos[x]
  <2>1. pos \in [Oid -> PosRow]
    BY DEF ReservationInv, TypeOK
  <2>2. pos[p] \in PosRow
    BY <2>1
  <2> QED
    BY <1>1, <2>1, <2>2 DEF PosRow, Reserve
<1>4. \A x \in Oid : pos[x].closing # o /\ pos[x].closing \in Oid \cup {None}
  BY <1>1, OrderExecAssumption
  DEF OrderExecAssumption, ReservationInv, Reserved, Active, TypeOK, PosRow
<1>5. Reserved'
  BY <1>1, <1>2, <1>3, <1>4, FreeIsUnreserved DEF ReservationInv, Reserved, Active
<1>6. NotYetBooked' /\ OpensAreUnlinked' /\ WorksOnActive'
  BY <1>1, <1>2, <1>3
  DEF ReservationInv, NotYetBooked, OpensAreUnlinked, WorksOnActive, Active
<1> QED
  BY <1>5, <1>6 DEF ReservationInv

(* An active order leaves, and its position, if any, is released. *)
LEMMA OrderLeaves ==
    ASSUME ReservationInv, TypeOK', NEW o \in Oid, Active(o),
           orders'[o].status \notin {"none", "active"},
           orders'[o].kind = orders[o].kind, orders'[o].pos = orders[o].pos,
           \A x \in Oid \ {o} : orders'[x] = orders[x],
           \A x \in Oid : /\ pos'[x].closing = IF x = orders[o].pos THEN None
                                                ELSE pos[x].closing
                          /\ pos'[x].st = pos[x].st \/ x \in {o, orders[o].pos},
           orders[o].kind = "close" => pos'[o].st = pos[o].st \/ o = orders[o].pos,
           pc' = "idle"
    PROVE  ReservationInv'
<1>1. \A x \in Oid : /\ pos[x].closing \in Oid \cup {None}
                     /\ orders[x].kind \in {"open", "close"}
                     /\ orders[x].pos \in Oid \cup {None}
  BY DEF ReservationInv, TypeOK, PosRow, OrderRow
<1>2. \A x \in Oid : Active(x)' <=> Active(x) /\ x # o
  BY DEF Active
<1>3. Reserved'
  <2>1. CASE orders[o].kind = "open"
    <3>1. orders[o].pos = None /\ pos[o].st = "none"
      BY <2>1 DEF ReservationInv, OpensAreUnlinked, NotYetBooked
    <3> QED
      BY <1>1, <1>2, <2>1, <3>1, OrderExecAssumption
      DEF OrderExecAssumption, ReservationInv, Reserved
  <2>2. CASE orders[o].kind = "close"
    <3>1. orders[o].pos \in Oid /\ pos[orders[o].pos].closing = o
      BY <2>2 DEF ReservationInv, Reserved
    <3>2. ASSUME NEW y \in Oid, Active(y)', orders'[y].kind = "close"
          PROVE  /\ orders'[y].pos \in Oid
                 /\ pos'[orders'[y].pos].st = "open"
                 /\ pos'[orders'[y].pos].closing = y
      <4>1. /\ y # o /\ Active(y) /\ orders'[y] = orders[y]
            /\ orders[y].kind = "close"
        BY <1>2, <3>2
      <4>2. /\ orders[y].pos \in Oid /\ pos[orders[y].pos].st = "open"
            /\ pos[orders[y].pos].closing = y /\ orders[y].pos # orders[o].pos
        BY <3>1, <4>1 DEF ReservationInv, Reserved
      <4>3. pos'[orders[y].pos].st = "open"
        BY <2>2, <4>2
      <4> QED
        BY <4>1, <4>2, <4>3
    <3>3. ASSUME NEW x \in Oid, pos'[x].closing # None
          PROVE  /\ pos'[x].st = "open"
                 /\ Active(pos[x].closing)' /\ orders'[pos'[x].closing].kind = "close"
                 /\ orders'[pos'[x].closing].pos = x
      <4>1. /\ x # orders[o].pos /\ pos'[x].closing = pos[x].closing
            /\ pos[x].closing \in Oid
        BY <1>1, <3>3
      <4>2. /\ pos[x].st = "open" /\ Active(pos[x].closing)
            /\ orders[pos[x].closing].kind = "close"
            /\ orders[pos[x].closing].pos = x
        BY <4>1, OrderExecAssumption DEF OrderExecAssumption, ReservationInv, Reserved
      <4>3. pos[x].closing # o
        BY <4>1, <4>2
      <4> QED
        BY <1>2, <2>2, <4>1, <4>2, <4>3
    <3> QED
      BY <3>2, <3>3 DEF Reserved
  <2> QED
    BY <1>1, <2>1, <2>2
<1>4. NotYetBooked'
  <2> SUFFICES ASSUME NEW x \in Oid,
                      (orders[x].status = "none" \/ (Active(x) /\ orders[x].kind = "open"))'
               PROVE  pos'[x].st = "none"
    BY DEF NotYetBooked
  <2>1. x # o /\ orders'[x] = orders[x]
    BY DEF Active
  <2>2. pos[x].st = "none"
    BY <2>1 DEF ReservationInv, NotYetBooked, Active
  <2>3. x # orders[o].pos
    BY <1>1, <2>2, OrderExecAssumption
    DEF OrderExecAssumption, ReservationInv, Reserved, OpensAreUnlinked
  <2> QED
    BY <2>1, <2>2, <2>3
<1>5. OpensAreUnlinked' /\ WorksOnActive'
  BY DEF ReservationInv, OpensAreUnlinked, WorksOnActive
<1> QED
  BY <1>3, <1>4, <1>5 DEF ReservationInv

LEMMA DropReserves ==
    ASSUME ReservationInv, TypeOK', NEW o \in Oid, Active(o), DropOrder(o), pc' = "idle"
    PROVE  ReservationInv'
<1>1. /\ orders'[o].status = "error" /\ orders'[o].kind = orders[o].kind
      /\ orders'[o].pos = orders[o].pos
      /\ \A x \in Oid \ {o} : orders'[x] = orders[x]
  BY DEF DropOrder, ReservationInv, TypeOK, OrderRow
<1>2. \A x \in Oid : /\ pos'[x].st = pos[x].st
                     /\ pos'[x].closing = IF x = orders[o].pos THEN None
                                         ELSE pos[x].closing
  <2>1. CASE orders[o].pos = None
    BY <2>1, OrderExecAssumption DEF OrderExecAssumption, DropOrder
  <2>2. CASE orders[o].pos # None
    BY <2>2 DEF DropOrder, ReservationInv, TypeOK, OrderRow, PosRow
  <2> QED
    BY <2>1, <2>2
<1> QED
  BY <1>1, <1>2, OrderLeaves

LEMMA FinalizeReserves ==
    ASSUME ReservationInv, TypeOK', NEW o \in Oid, Finalize(o)
    PROVE  ReservationInv'
<1> DEFINE p == orders[o].pos
<1>1. Active(o) /\ pc' = "idle"
  BY DEF Finalize, ReservationInv, WorksOnActive, Idle, Goto
<1>2. /\ orders'[o].status \notin {"none", "active"}
      /\ orders'[o].kind = orders[o].kind /\ orders'[o].pos = orders[o].pos
      /\ \A x \in Oid \ {o} : orders'[x] = orders[x]
  BY DEF Finalize, ReservationInv, TypeOK, OrderRow
<1>3. CASE orders[o].kind = "open"
  <2>1. p = None /\ pos[o].closing = None
    BY <1>1, <1>3 DEF ReservationInv, OpensAreUnlinked, NotYetBooked, Reserved
  <2>2. UNCHANGED pos \/ BookOpen(o, exch[o].cum)
    BY <1>3 DEF Finalize
  <2>3. \A x \in Oid : /\ pos'[x].closing = pos[x].closing
                       /\ x # o => pos'[x].st = pos[x].st
    BY <2>1, <2>2 DEF BookOpen, ReservationInv, TypeOK, PosRow
  <2> QED
    BY <1>1, <1>2, <1>3, <2>1, <2>3, OrderLeaves, OrderExecAssumption
    DEF OrderExecAssumption
<1>4. CASE orders[o].kind = "close"
  <2>1. p \in Oid /\ pos[p].st = "open" /\ pos[p].closing = o
    BY <1>1, <1>4 DEF ReservationInv, Reserved
  <2>2. \/ pos' = [pos EXCEPT ![p].closing = None]
        \/ BookClose(o, p, exch[o].cum)
    BY <1>4, <2>1, OrderExecAssumption DEF OrderExecAssumption, Finalize
  <2>3. pos'[p].closing = None /\ \A x \in Oid \ {p} : pos'[x] = pos[x]
    <3>1. pos \in [Oid -> PosRow]
      BY DEF ReservationInv, TypeOK
    <3>2. CASE pos' = [pos EXCEPT ![p].closing = None]
      BY <2>1, <3>1, <3>2 DEF PosRow
    <3>3. CASE BookClose(o, p, exch[o].cum) /\ exch[o].cum < pos[p].qty
      <4>1. pos' = [pos EXCEPT ![p] = [@ EXCEPT !.qty = pos[p].qty - exch[o].cum,
                                                !.closing = None]]
        BY <3>3 DEF BookClose
      <4> QED
        BY <2>1, <3>1, <4>1 DEF PosRow
    <3>4. CASE BookClose(o, p, exch[o].cum) /\ ~(exch[o].cum < pos[p].qty)
      <4>1. pos' = [pos EXCEPT ![p] = [@ EXCEPT !.st = "closed", !.closing = None,
                                                !.closedBy = o]]
        BY <3>4 DEF BookClose
      <4> QED
        BY <2>1, <3>1, <4>1 DEF PosRow
    <3> QED
      BY <2>2, <3>2, <3>3, <3>4
  <2> QED
    BY <1>1, <1>2, <1>4, <2>1, <2>3, OrderLeaves
<1> QED
  BY <1>3, <1>4 DEF ReservationInv, TypeOK, OrderRow

LEMMA RequestCloseReserves ==
    ASSUME ReservationInv, TypeOK', NEW p \in Oid, RequestClose(p)
    PROVE  ReservationInv'
<1>1. CASE ExitBlocked(p)
  <2>1. pos[p].closing = None
    BY <1>1, FreeIsUnreserved DEF ExitBlocked, MayRequestClose
  <2>2. \A x \in Oid : pos'[x].st = pos[x].st /\ pos'[x].closing = pos[x].closing
    BY <1>1, <2>1 DEF ExitBlocked, ReservationInv, TypeOK, PosRow
  <2> QED
    BY <1>1, <2>2, FrameReservation
    DEF ExitBlocked, ReservationInv, WorksOnActive, Active, proc
<1>2. ASSUME NEW u \in BOOLEAN, NEW m \in BOOLEAN, CloseShort(p, u, m)
      PROVE  ReservationInv'
  <2>1. /\ CloseFree(p) /\ pos[p].st = "open" /\ pos[p].closing = None
        /\ UNCHANGED <<orders, pc, cur>>
    BY <1>2, FreeIsUnreserved DEF CloseShort, MayRequestClose, proc
  <2>2. CASE pos' = [pos EXCEPT ![p] = [@ EXCEPT !.st = "closed", !.closing = None]]
    BY <2>1, <2>2, ClosedWhileFree
  <2>3. CASE pos' = [pos EXCEPT ![p] = [@ EXCEPT !.closing = None,
                             !.attempts = pos[p].attempts + (IF m THEN 0 ELSE 1)]]
    <3>1. \A x \in Oid : pos'[x].st = pos[x].st /\ pos'[x].closing = pos[x].closing
      BY <2>1, <2>3 DEF ReservationInv, TypeOK, PosRow
    <3> QED
      BY <2>1, <3>1, FrameReservation DEF ReservationInv, WorksOnActive, Active
  <2> QED
    BY <1>2, <2>2, <2>3 DEF CloseShort
<1>3. ASSUME NEW u \in BOOLEAN, NEW m \in BOOLEAN, NEW o \in Oid, SubmitClose(o, p, u, m)
      PROVE  ReservationInv'
  BY <1>3, SubmitCloseReserves
<1> QED
  BY <1>1, <1>2, <1>3 DEF RequestClose

(* Steps that leave every field of the reservation alone. *)
LEMMA PollKeepsReservation ==
    ASSUME ReservationInv, TypeOK', NEW o \in Oid, Poll(o)
    PROVE  ReservationInv'
<1>1. UNCHANGED pos /\ Active(o)
  BY DEF Poll, PollUnreachable, PollAbsent, PollSeen
<1>2. \A x \in Oid : /\ orders'[x].status = orders[x].status
                     /\ orders'[x].kind = orders[x].kind
                     /\ orders'[x].pos = orders[x].pos
  <2>1. orders \in [Oid -> OrderRow]
    BY DEF ReservationInv, TypeOK
  <2>2. CASE PollUnreachable(o)
    BY <2>1, <2>2 DEF PollUnreachable, OrderRow
  <2>3. CASE PollAbsent(o)
    BY <2>1, <2>3 DEF PollAbsent, OrderRow
  <2>4. CASE PollSeen(o)
    BY <2>1, <2>4 DEF PollSeen, OrderRow
  <2> QED
    BY <2>2, <2>3, <2>4 DEF Poll
<1>3. WorksOnActive'
  BY <1>1, <1>2
  DEF Poll, PollUnreachable, PollAbsent, PollSeen, ReservationInv, WorksOnActive,
      Active, Goto, proc
<1> QED
  BY <1>1, <1>2, <1>3, FrameReservation

LEMMA AnswerKeepsReservation ==
    ASSUME ReservationInv, TypeOK', NEW o \in Oid, ActOnAnswer(o)
    PROVE  ReservationInv'
<1>1. CASE Finalize(o)
  BY <1>1, FinalizeReserves
<1>2. CASE ~Finalize(o)
  <2>1. UNCHANGED pos /\ pc' = "idle"
    BY <1>2 DEF ActOnAnswer, HoldFill, CancelAgain, GiveUp, Retreat, Chase,
                StillWaiting, Idle, Goto, db
  <2>2. \A x \in Oid : /\ orders'[x].status = orders[x].status
                       /\ orders'[x].kind = orders[x].kind
                       /\ orders'[x].pos = orders[x].pos
    <3>1. orders \in [Oid -> OrderRow]
      BY DEF ReservationInv, TypeOK
    <3>2. CASE GiveUp(o)
      BY <3>1, <3>2 DEF GiveUp, OrderRow
    <3>3. CASE Retreat(o)
      <4>1. CASE UNCHANGED orders
        BY <4>1
      <4>2. CASE orders' = [orders EXCEPT ![o] =
                               [@ EXCEPT !.stage = "retreat", !.clock = "fresh"]]
        BY <3>1, <4>2 DEF OrderRow
      <4> QED
        BY <3>3, <4>1, <4>2 DEF Retreat
    <3>4. CASE Chase(o)
      BY <3>1, <3>4 DEF Chase, OrderRow
    <3> QED
      BY <1>2, <3>2, <3>3, <3>4 DEF ActOnAnswer, HoldFill, CancelAgain, StillWaiting, db
  <2> QED
    BY <2>1, <2>2, FrameReservation DEF WorksOnActive
<1> QED
  BY <1>1, <1>2

LEMMA FinishKeepsReservation ==
    ASSUME ReservationInv, TypeOK', NEW o \in Oid, FinishStep(o)
    PROVE  ReservationInv'
<1>1. CASE Place(o)
  BY <1>1, FrameReservation
  DEF Place, Goto, db, ReservationInv, WorksOnActive, Active
<1>2. CASE RecordPlace(o)
  <2>1. Active(o) /\ pc' = "idle"
    BY <1>2 DEF RecordPlace, ReservationInv, WorksOnActive, Idle, Goto
  <2>2. CASE ans = "rejected"
    BY <1>2, <2>1, <2>2, DropReserves DEF RecordPlace
  <2>3. CASE ans # "rejected"
    <3>1. UNCHANGED pos
      BY <1>2, <2>3 DEF RecordPlace
    <3>2. \A x \in Oid : /\ orders'[x].status = orders[x].status
                         /\ orders'[x].kind = orders[x].kind
                         /\ orders'[x].pos = orders[x].pos
      BY <1>2, <2>3 DEF RecordPlace, ReservationInv, TypeOK, OrderRow
    <3> QED
      BY <2>1, <3>1, <3>2, FrameReservation DEF WorksOnActive
  <2> QED
    BY <2>2, <2>3
<1>3. CASE RetireAbsent(o)
  <2>1. Active(o) /\ pc' = "idle"
    BY <1>3 DEF RetireAbsent, ReservationInv, WorksOnActive, Idle, Goto
  <2>2. CASE DropOrder(o)
    BY <2>1, <2>2, DropReserves
  <2>3. CASE UNCHANGED <<orders, pos>>
    BY <2>1, <2>3, FrameReservation DEF WorksOnActive
  <2> QED
    BY <1>3, <2>2, <2>3 DEF RetireAbsent, db
<1>4. CASE ActOnAnswer(o)
  BY <1>4, AnswerKeepsReservation
<1> QED
  BY <1>1, <1>2, <1>3, <1>4 DEF FinishStep

LEMMA OthersKeepReservation ==
    ASSUME ReservationInv, TypeOK', Reconcile \/ Crash \/ Operator \/ Exchange
    PROVE  ReservationInv'
<1>1. \A x \in Oid : pos'[x].st = pos[x].st /\ pos'[x].closing = pos[x].closing
  <2>1. CASE UNCHANGED pos
    BY <2>1
  <2>2. CASE ResetCloseAttempts
    BY <2>2 DEF ResetCloseAttempts, ReservationInv, TypeOK, PosRow
  <2> QED
    BY <2>1, <2>2
    DEF Reconcile, Crash, Operator, Unhalt, Exchange, Arrive, Lose, Kill, Elapse,
        Fill, Expire, LeaveExchange, db
<1>2. \A x \in Oid : /\ orders'[x].status = orders[x].status
                     /\ orders'[x].kind = orders[x].kind
                     /\ orders'[x].pos = orders[x].pos
  <2>1. CASE UNCHANGED orders
    BY <2>1
  <2>2. ASSUME NEW o \in Oid, Elapse(o)
        PROVE  \A x \in Oid : /\ orders'[x].status = orders[x].status
                              /\ orders'[x].kind = orders[x].kind
                              /\ orders'[x].pos = orders[x].pos
    BY <2>2 DEF Elapse, ReservationInv, TypeOK, OrderRow
  <2> QED
    BY <2>1, <2>2
    DEF Reconcile, Crash, Operator, Unhalt, ResetCloseAttempts, Exchange, Arrive,
        Lose, Kill, Fill, Expire, LeaveExchange, db
<1>3. pc' = "idle" \/ UNCHANGED <<pc, cur>>
  BY DEF Reconcile, Crash, Operator, Unhalt, ResetCloseAttempts, Exchange, Arrive,
         Lose, Kill, Elapse, Fill, Expire, LeaveExchange, Idle, Goto, proc
<1> QED
  BY <1>1, <1>2, <1>3, FrameReservation DEF ReservationInv, WorksOnActive, Active

LEMMA StepReservation == ReservationInv /\ [Next]_vars => ReservationInv'
<1> SUFFICES ASSUME ReservationInv, [Next]_vars PROVE ReservationInv'
  OBVIOUS
<1>1. TypeOK'
  BY StepTypeOK DEF ReservationInv
<1>2. ASSUME NEW p \in Oid, SettleExpired(p)
      PROVE  ReservationInv'
  BY <1>1, <1>2, ClosedWhileFree DEF SettleExpired, proc
<1>3. CASE UNCHANGED vars
  BY <1>1, <1>3, FrameReservation DEF vars, ReservationInv, WorksOnActive, Active
<1> QED
  BY <1>1, <1>2, <1>3, SubmitOpenReserves, RequestCloseReserves,
     PollKeepsReservation, FinishKeepsReservation, OthersKeepReservation
  DEF Next, LoopStep

(* A close order and the reservation of its position stand and fall together
   in every reachable state: no position can have two closes at work, and no
   crash or failed call leaves a position reserved for an order that is gone
   (execution.submit, _finalize, _retire_absent; loop._on_close_fill). *)
THEOREM ReservationHolds == Spec => []Reserved
<1>1. Spec => []ReservationInv
  BY InitReservation, StepReservation, PTL DEF Spec
<1>2. ReservationInv => Reserved
  BY DEF ReservationInv
<1> QED
  BY <1>1, <1>2, PTL

-----------------------------------------------------------------------------
(***************************************************************************)
(* ClosedRowsAreSettled: the inductive invariant is SettlementInv.  The    *)
(* frame lemma covers the steps that insert, end and place no order.       *)
(***************************************************************************)
LEMMA InitSettlement == Init => SettlementInv
<1> SUFFICES ASSUME Init PROVE SettlementInv
  OBVIOUS
<1>1. \A o \in Oid : /\ orders[o].status = "none" /\ booked[o] = 0
                     /\ exch[o].st = "none" /\ exch[o].cum = 0
  BY DEF Init, NoOrder
<1> QED
  BY <1>1, InitReservation
  DEF Init, SettlementInv, ClosedRowsAreSettled, NothingBeforePlacement,
      LongAbsentIsUnknown, AnswerStillHolds, Active

LEMMA FrameSettlement ==
    ASSUME SettlementInv, ReservationInv', UNCHANGED booked,
           \A x \in Oid : /\ orders'[x].status = orders[x].status
                          /\ \/ orders'[x].absent = orders[x].absent
                             \/ orders'[x].absent = 0,
           \A x \in Oid : \/ exch'[x] = exch[x]
                          \/ /\ exch[x].st \in {"transit", "live"}
                             /\ exch'[x].st \in {"none", "transit"} => exch'[x].cum = 0,
           pc' = "idle" \/ UNCHANGED <<pc, cur, ans>>
    PROVE  SettlementInv'
<1> USE DEF SettlementInv
<1>1. ClosedRowsAreSettled'
  BY DEF ClosedRowsAreSettled, NothingBeforePlacement, Active
<1>2. NothingBeforePlacement'
  BY DEF NothingBeforePlacement
<1>3. LongAbsentIsUnknown'
  BY OrderExecAssumption DEF OrderExecAssumption, LongAbsentIsUnknown, Active
<1>4. AnswerStillHolds'
  BY DEF AnswerStillHolds, ReservationInv, WorksOnActive
<1> QED
  BY <1>1, <1>2, <1>3, <1>4

LEMMA InsertSettles ==
    ASSUME SettlementInv, ReservationInv', NEW o \in Oid,
           orders[o].status = "none",
           orders'[o].status = "active", orders'[o].absent = 0,
           \A x \in Oid \ {o} : orders'[x] = orders[x],
           UNCHANGED <<exch, booked>>, pc' = "send", cur' = o
    PROVE  SettlementInv'
<1> USE DEF SettlementInv
<1>1. ClosedRowsAreSettled'
  BY DEF ClosedRowsAreSettled, NothingBeforePlacement, Active
<1>2. NothingBeforePlacement' /\ AnswerStillHolds'
  BY DEF NothingBeforePlacement, AnswerStillHolds
<1>3. LongAbsentIsUnknown'
  BY OrderExecAssumption DEF OrderExecAssumption, LongAbsentIsUnknown, Active
<1> QED
  BY <1>1, <1>2, <1>3

LEMMA SubmitSettles ==
    ASSUME SettlementInv, ReservationInv', NEW o \in Oid,
           \/ \E k \in Key, q \in 1..MaxQty : SubmitOpen(o, k, q)
           \/ \E p \in Oid, u, m \in BOOLEAN : SubmitClose(o, p, u, m)
    PROVE  SettlementInv'
<1>1. PICK kind, k, p, q, stage : InsertOrder(o, kind, k, p, q, stage)
  BY DEF SubmitOpen, SubmitClose
<1>2. /\ orders[o].status = "none" /\ orders'[o] = NewOrder(kind, k, p, q, stage)
      /\ \A x \in Oid \ {o} : orders'[x] = orders[x]
  BY <1>1 DEF InsertOrder, SettlementInv, ReservationInv, TypeOK
<1>3. UNCHANGED <<exch, booked>> /\ pc' = "send" /\ cur' = o
  BY DEF SubmitOpen, SubmitClose, Goto, world
<1> QED
  BY <1>2, <1>3, InsertSettles DEF NewOrder

LEMMA PlaceSettles ==
    ASSUME SettlementInv, ReservationInv', NEW o \in Oid, Place(o)
    PROVE  SettlementInv'
<1> USE DEF SettlementInv
<1>1. Active(o) /\ orders[o].absent = 0 /\ exch[o].st = "none" /\ exch[o].cum = 0
  BY DEF Place, AnswerStillHolds, ReservationInv, WorksOnActive, NothingBeforePlacement
<1>2. UNCHANGED <<orders, booked>> /\ pc' = "sent" /\ cur' = o
  BY DEF Place, Goto, db
<1>3. \/ exch' = exch
      \/ /\ exch'[o].cum = 0 /\ \A x \in Oid \ {o} : exch'[x] = exch[x]
         /\ ans' # "rejected"
  BY <1>1 DEF Place, Goto, TransportFailure, ReservationInv, TypeOK, ExchRow
<1>4. ClosedRowsAreSettled'
  BY <1>1, <1>2, <1>3 DEF ClosedRowsAreSettled, Active
<1>5. NothingBeforePlacement'
  BY <1>1, <1>2, <1>3 DEF NothingBeforePlacement, Active
<1>6. LongAbsentIsUnknown'
  BY <1>1, <1>2, <1>3, OrderExecAssumption
  DEF OrderExecAssumption, LongAbsentIsUnknown, Active
<1>7. AnswerStillHolds'
  BY <1>1, <1>2, <1>3 DEF AnswerStillHolds
<1> QED
  BY <1>4, <1>5, <1>6, <1>7

LEMMA PollSettles ==
    ASSUME SettlementInv, ReservationInv', NEW o \in Oid, Poll(o)
    PROVE  SettlementInv'
<1> USE DEF SettlementInv
<1>0. orders \in [Oid -> OrderRow] /\ UNCHANGED <<exch, booked>> /\ Active(o)
  BY DEF Poll, PollUnreachable, PollAbsent, PollSeen, ReservationInv, TypeOK, world
<1>1. CASE PollUnreachable(o)
  <2>1. \A x \in Oid : /\ orders'[x].status = orders[x].status
                       /\ \/ orders'[x].absent = orders[x].absent
                          \/ orders'[x].absent = 0
    BY <1>0, <1>1 DEF PollUnreachable, OrderRow
  <2> QED
    BY <1>0, <1>1, <2>1, FrameSettlement DEF PollUnreachable, proc
<1>2. CASE PollAbsent(o)
  <2> DEFINE n == IF orders[o].absent < MaxAbsent THEN orders[o].absent + 1
                  ELSE MaxAbsent
  <2>1. orders[o].absent \in Nat
    BY <1>0, OrderExecAssumption DEF OrderExecAssumption, OrderRow
  <2>2. n > Lag => exch[o].st = "none"
    BY <1>0, <1>2, <2>1, OrderExecAssumption
    DEF OrderExecAssumption, PollAbsent, ExchangeSaysAbsent, LongAbsentIsUnknown
  <2>3. /\ orders'[o].status = orders[o].status /\ orders'[o].absent = n
        /\ \A x \in Oid \ {o} : orders'[x] = orders[x]
    BY <1>0, <1>2 DEF PollAbsent, OrderRow
  <2>4. \/ UNCHANGED <<pc, cur, ans>> /\ pc = "idle"
        \/ pc' = "retire" /\ cur' = o /\ n > Lag
    BY <1>2, <2>1, OrderExecAssumption DEF OrderExecAssumption, PollAbsent, Goto, proc
  <2> HIDE DEF n
  <2>5. ClosedRowsAreSettled' /\ NothingBeforePlacement'
    BY <1>0, <2>3 DEF ClosedRowsAreSettled, NothingBeforePlacement, Active
  <2>6. LongAbsentIsUnknown'
    BY <1>0, <2>2, <2>3 DEF LongAbsentIsUnknown, Active
  <2>7. AnswerStillHolds'
    BY <1>0, <2>2, <2>4 DEF AnswerStillHolds
  <2> QED
    BY <2>5, <2>6, <2>7
<1>3. CASE PollSeen(o)
  <2>1. /\ orders'[o].status = orders[o].status /\ orders'[o].absent = 0
        /\ \A x \in Oid \ {o} : orders'[x] = orders[x]
    BY <1>0, <1>3 DEF PollSeen, OrderRow
  <2>2. pc' = "polled" /\ cur' = o /\ ans' = exch[o].st
    BY <1>3 DEF PollSeen, Goto
  <2>3. ClosedRowsAreSettled' /\ NothingBeforePlacement'
    BY <1>0, <2>1 DEF ClosedRowsAreSettled, NothingBeforePlacement, Active
  <2>4. LongAbsentIsUnknown'
    BY <1>0, <2>1, OrderExecAssumption
    DEF OrderExecAssumption, LongAbsentIsUnknown, Active
  <2>5. AnswerStillHolds'
    BY <1>0, <2>2 DEF AnswerStillHolds
  <2> QED
    BY <2>3, <2>4, <2>5
<1> QED
  BY <1>1, <1>2, <1>3 DEF Poll

(* An order whose exchange side is over leaves with what it executed booked. *)
LEMMA LeavingSettles ==
    ASSUME SettlementInv, ReservationInv', NEW o \in Oid,
           exch[o].st \notin {"live", "transit"},
           orders'[o].status \notin {"none", "active"},
           \A x \in Oid \ {o} : orders'[x] = orders[x],
           UNCHANGED exch, booked'[o] = exch[o].cum,
           \A x \in Oid \ {o} : booked'[x] = booked[x],
           pc' = "idle"
    PROVE  SettlementInv'
<1> USE DEF SettlementInv
<1>1. ClosedRowsAreSettled'
  BY DEF ClosedRowsAreSettled, Active
<1>2. NothingBeforePlacement'
  BY DEF NothingBeforePlacement
<1>3. LongAbsentIsUnknown' /\ AnswerStillHolds'
  BY DEF LongAbsentIsUnknown, AnswerStillHolds, Active
<1> QED
  BY <1>1, <1>2, <1>3

LEMMA DropSettles ==
    ASSUME SettlementInv, ReservationInv', NEW o \in Oid, DropOrder(o), Active(o),
           exch[o].st = "none", UNCHANGED <<exch, booked>>, pc' = "idle"
    PROVE  SettlementInv'
<1>1. /\ orders'[o].status = "error"
      /\ \A x \in Oid \ {o} : orders'[x] = orders[x]
  BY DEF DropOrder, SettlementInv, ReservationInv, TypeOK, OrderRow
<1>2. exch[o].cum = 0 /\ booked[o] = 0
  BY DEF SettlementInv, ClosedRowsAreSettled, NothingBeforePlacement
<1> QED
  BY <1>1, <1>2, LeavingSettles

LEMMA FinalizeSettles ==
    ASSUME SettlementInv, ReservationInv', NEW o \in Oid, Finalize(o)
    PROVE  SettlementInv'
<1>1. Active(o) /\ exch[o].st \in {"filled", "dead"}
  BY DEF Finalize, SettlementInv, AnswerStillHolds, ReservationInv, WorksOnActive
<1>2. booked[o] = 0 /\ exch[o].cum \in Nat
  BY <1>1, OrderExecAssumption
  DEF OrderExecAssumption, SettlementInv, ClosedRowsAreSettled, ReservationInv,
      TypeOK, ExchRow, Qty
<1>3. /\ orders'[o].status \notin {"none", "active"}
      /\ \A x \in Oid \ {o} : orders'[x] = orders[x]
  BY DEF Finalize, SettlementInv, ReservationInv, TypeOK, OrderRow
<1>4. \/ exch[o].cum = 0 /\ UNCHANGED booked
      \/ booked' = [booked EXCEPT ![o] = @ + exch[o].cum]
  <2>1. orders[o].kind = "close" => orders[o].pos # None /\ pos[orders[o].pos].st = "open"
    BY <1>1, OrderExecAssumption
    DEF OrderExecAssumption, SettlementInv, ReservationInv, Reserved
  <2> QED
    BY <1>2, <2>1 DEF Finalize
<1>5. booked'[o] = exch[o].cum /\ \A x \in Oid \ {o} : booked'[x] = booked[x]
  BY <1>2, <1>4 DEF SettlementInv, ReservationInv, TypeOK
<1> QED
  BY <1>1, <1>3, <1>5, LeavingSettles DEF Finalize, Idle, Goto, world

LEMMA RecordSettles ==
    ASSUME SettlementInv, ReservationInv', NEW o \in Oid,
           RecordPlace(o) \/ RetireAbsent(o)
    PROVE  SettlementInv'
<1>1. Active(o) /\ UNCHANGED <<exch, booked>> /\ pc' = "idle"
  BY DEF RecordPlace, RetireAbsent, Idle, Goto, world, SettlementInv,
         ReservationInv, WorksOnActive
<1>2. CASE DropOrder(o)
  <2>1. (pc = "sent" /\ ans = "rejected") \/ pc = "retire" => exch[o].st = "none"
    BY DEF RecordPlace, RetireAbsent, SettlementInv, AnswerStillHolds
  <2>2. CASE exch[o].st = "none"
    BY <1>1, <1>2, <2>2, DropSettles
  <2>3. CASE exch[o].st # "none"
    <3>1. RecordPlace(o) /\ ans # "rejected"
      BY <2>1, <2>3 DEF RecordPlace, RetireAbsent
    <3>2. orders'[o].status = "active"
      BY <1>1, <3>1
      DEF RecordPlace, Active, SettlementInv, ReservationInv, TypeOK, OrderRow
    <3>3. orders'[o].status = "error"
      BY <1>2 DEF DropOrder, SettlementInv, ReservationInv, TypeOK, OrderRow
    <3> QED
      BY <3>2, <3>3
  <2> QED
    BY <2>2, <2>3
<1>3. CASE ~DropOrder(o)
  <2>1. UNCHANGED orders \/ orders' = [orders EXCEPT ![o].known = TRUE]
    BY <1>3 DEF RecordPlace, RetireAbsent, db
  <2>2. orders \in [Oid -> OrderRow]
    BY DEF SettlementInv, ReservationInv, TypeOK
  <2>3. \A x \in Oid : /\ orders'[x].status = orders[x].status
                       /\ orders'[x].absent = orders[x].absent
    BY <2>1, <2>2 DEF OrderRow
  <2> QED
    BY <1>1, <2>3, FrameSettlement
<1> QED
  BY <1>2, <1>3

LEMMA AnswerSettles ==
    ASSUME SettlementInv, ReservationInv', NEW o \in Oid, ActOnAnswer(o)
    PROVE  SettlementInv'
<1>1. CASE Finalize(o)
  BY <1>1, FinalizeSettles
<1>2. CASE ~Finalize(o)
  <2>0. orders \in [Oid -> OrderRow] /\ exch \in [Oid -> ExchRow]
    BY DEF SettlementInv, ReservationInv, TypeOK
  <2>1. UNCHANGED booked /\ pc' = "idle"
    BY <1>2 DEF ActOnAnswer, HoldFill, CancelAgain, GiveUp, Retreat, Chase,
                StillWaiting, Idle, Goto, world
  <2>2. \A x \in Oid : /\ orders'[x].status = orders[x].status
                       /\ orders'[x].absent = orders[x].absent
    <3>1. CASE UNCHANGED orders
      BY <3>1
    <3>2. CASE GiveUp(o)
      BY <2>0, <3>2 DEF GiveUp, OrderRow
    <3>3. CASE orders' = [orders EXCEPT ![o] =
                             [@ EXCEPT !.stage = "retreat", !.clock = "fresh"]]
      BY <2>0, <3>3 DEF OrderRow
    <3>4. CASE Chase(o)
      BY <2>0, <3>4 DEF Chase, OrderRow
    <3> QED
      BY <1>2, <3>1, <3>2, <3>3, <3>4
      DEF ActOnAnswer, HoldFill, CancelAgain, Retreat, StillWaiting, db
  <2>3. \A x \in Oid : \/ exch'[x] = exch[x]
                       \/ exch[x].st = "live" /\ exch'[x].st = "dead"
    <3>1. CASE CancelCall(o)
      BY <2>0, <3>1 DEF CancelCall, ExchRow
    <3>2. CASE UNCHANGED exch
      BY <3>2
    <3> QED
      BY <1>2, <3>1, <3>2 DEF ActOnAnswer, HoldFill, CancelAgain, GiveUp, Retreat,
                              Chase, StillWaiting, world
  <2> QED
    BY <2>1, <2>2, <2>3, FrameSettlement
<1> QED
  BY <1>1, <1>2

LEMMA ExchangeSettles ==
    ASSUME SettlementInv, ReservationInv', Exchange
    PROVE  SettlementInv'
<1>0. /\ orders \in [Oid -> OrderRow] /\ exch \in [Oid -> ExchRow]
      /\ NothingBeforePlacement
  BY DEF SettlementInv, ReservationInv, TypeOK
<1>1. UNCHANGED <<booked, pc, cur, ans>>
  BY DEF Exchange, Arrive, Lose, Kill, Elapse, Fill, Expire, LeaveExchange, proc
<1>2. \A x \in Oid : /\ orders'[x].status = orders[x].status
                     /\ orders'[x].absent = orders[x].absent
  <2>1. ASSUME NEW o \in Oid, Elapse(o)
        PROVE  \A x \in Oid : /\ orders'[x].status = orders[x].status
                              /\ orders'[x].absent = orders[x].absent
    BY <1>0, <2>1 DEF Elapse, OrderRow
  <2>2. CASE UNCHANGED orders
    BY <2>2
  <2> QED
    BY <2>1, <2>2 DEF Exchange, Arrive, Lose, Kill, Fill, Expire, LeaveExchange, db
<1>3. \A x \in Oid : \/ exch'[x] = exch[x]
                     \/ /\ exch[x].st \in {"transit", "live"}
                        /\ exch'[x].st \in {"none", "transit"} => exch'[x].cum = 0
  <2>1. ASSUME NEW o \in Oid, Arrive(o) \/ Lose(o) \/ Kill(o)
        PROVE  \A x \in Oid : \/ exch'[x] = exch[x]
                              \/ /\ exch[x].st \in {"transit", "live"}
                                 /\ exch'[x].st \in {"none", "transit"} => exch'[x].cum = 0
    BY <1>0, <2>1 DEF Arrive, Lose, Kill, ExchRow, NothingBeforePlacement
  <2>2. ASSUME NEW o \in Oid, NEW n \in 1..MaxQty, Fill(o, n)
        PROVE  \A x \in Oid : \/ exch'[x] = exch[x]
                              \/ exch[x].st = "live" /\ exch'[x].st \in {"live", "filled"}
    BY <1>0, <2>2 DEF Fill, ExchRow
  <2>3. ASSUME NEW k, NEW which, EndOrders(k, which)
        PROVE  \A x \in Oid : \/ exch'[x] = exch[x]
                              \/ exch[x].st = "live" /\ exch'[x].st = "dead"
    BY <1>0, <2>3 DEF EndOrders, ExchRow
  <2>4. CASE \E o \in Oid : Elapse(o)
    BY <2>4 DEF Elapse, world
  <2>5. CASE \E k \in Key : Expire(k) \/ LeaveExchange(k)
    BY <2>3, <2>5 DEF Expire, LeaveExchange
  <2> QED
    BY <2>1, <2>2, <2>4, <2>5 DEF Exchange
<1> QED
  BY <1>1, <1>2, <1>3, FrameSettlement

LEMMA OthersSettle ==
    ASSUME SettlementInv, ReservationInv',
           \/ \E p \in Oid : \/ ExitBlocked(p) \/ SettleExpired(p)
                            \/ \E u, m \in BOOLEAN : CloseShort(p, u, m)
           \/ Reconcile \/ Crash \/ Operator \/ UNCHANGED vars
    PROVE  SettlementInv'
<1>1. /\ UNCHANGED <<orders, exch, booked>>
      /\ pc' = "idle" \/ UNCHANGED <<pc, cur, ans>>
  BY DEF ExitBlocked, SettleExpired, CloseShort, Reconcile, Crash, Operator, Unhalt,
         ResetCloseAttempts, Idle, Goto, db, world, proc, vars
<1> QED
  BY <1>1, FrameSettlement

LEMMA StepSettlement == SettlementInv /\ [Next]_vars => SettlementInv'
<1> SUFFICES ASSUME SettlementInv, [Next]_vars PROVE SettlementInv'
  OBVIOUS
<1>1. ReservationInv'
  BY StepReservation DEF SettlementInv
<1> QED
  BY <1>1, SubmitSettles, PlaceSettles, PollSettles, RecordSettles, AnswerSettles,
     ExchangeSettles, OthersSettle
  DEF Next, LoopStep, RequestClose, FinishStep

(* What the loop acts on between two calls stays true of the exchange, and an
   order that more than Lag answers in a row did not know never reached it. *)
THEOREM AnswersHold == Spec => []SettlementInv
  BY InitSettlement, StepSettlement, PTL DEF Spec

(* No row leaves "active" while its order can still trade or has executed
   something that is not booked, and nothing is booked twice: so an order is
   marked error only when it never reached the exchange, and _finalize books
   each fill exactly once, whatever the loop lost, retried or was told late. *)
THEOREM SettlementHolds == Spec => []ClosedRowsAreSettled
<1>1. SettlementInv => ClosedRowsAreSettled
  BY DEF SettlementInv
<1> QED
  BY <1>1, AnswersHold, PTL

-----------------------------------------------------------------------------
(* The inductive invariant, which counts nothing and sums nothing. *)

Opening(o) == Active(o) /\ orders[o].kind = "open"
Held(p) == pos[p].st = "open"

(* What the close that is out for a position has executed. *)
Out(p) == IF pos[p].closing = None THEN 0 ELSE exch[pos[p].closing].cum

(* A key has one open in flight or one open position. *)
Alone ==
    /\ \A o, x \in Oid : Opening(o) /\ Opening(x) /\ orders[o].key = orders[x].key => o = x
    /\ \A p, y \in Oid : Held(p) /\ Held(y) /\ pos[p].key = pos[y].key => p = y
    /\ \A o, p \in Oid : Opening(o) /\ Held(p) => orders[o].key # pos[p].key

(* A position and the order that closes it are of one key. *)
Linked ==
    /\ \A o \in Oid : Opening(o) => orders[o].key \in Key
    /\ \A p \in Oid : Held(p) => /\ pos[p].key \in Key
                                 /\ pos[p].closing # None => orders[pos[p].closing].key = pos[p].key

(* What is short on a key is covered by what its open has executed, or by its
   position less what the close has executed. *)
Covered ==
    /\ \A o \in Oid : Opening(o) => size[orders[o].key] <= exch[o].cum
    /\ \A p \in Oid : Held(p) => size[pos[p].key] + Out(p) <= pos[p].qty
    /\ \A k \in Key : \/ size[k] = 0
                      \/ \E o \in Oid : Opening(o) /\ orders[o].key = k
                      \/ \E p \in Oid : Held(p) /\ pos[p].key = k

Exposure == Alone /\ Linked /\ Covered
ExposureInv == SettlementInv /\ Exposure

-----------------------------------------------------------------------------
(* What the invariants before say of the rows. *)

LEMMA Types ==
    ASSUME SettlementInv
    PROVE  /\ orders \in [Oid -> OrderRow] /\ pos \in [Oid -> PosRow]
           /\ exch \in [Oid -> ExchRow] /\ size \in [Key -> Nat]
           /\ \A o \in Oid : exch[o].cum \in Nat /\ orders[o].qty \in Nat /\ pos[o].qty \in Nat
           /\ \A o \in Oid : exch[o].cum <= MaxQty /\ pos[o].qty <= MaxQty
           /\ \A p \in Oid : pos[p].closing \in Oid \cup {None} /\ pos[p].key \in Key \cup {None}
           /\ \A o \in Oid : orders[o].pos \in Oid \cup {None} /\ orders[o].kind \in {"open", "close"}
           /\ None \notin Oid /\ None \notin Key
<1>1. TypeOK
  BY DEF SettlementInv, ReservationInv
<1>2. /\ orders \in [Oid -> OrderRow] /\ pos \in [Oid -> PosRow]
      /\ exch \in [Oid -> ExchRow] /\ size \in [Key -> Nat]
  BY <1>1 DEF TypeOK
<1>3. \A o \in Oid : /\ exch[o].cum \in Qty /\ orders[o].qty \in Qty /\ pos[o].qty \in Qty
                     /\ pos[o].closing \in Oid \cup {None} /\ pos[o].key \in Key \cup {None}
                     /\ orders[o].pos \in Oid \cup {None} /\ orders[o].kind \in {"open", "close"}
  BY <1>2 DEF OrderRow, PosRow, ExchRow
<1>4. MaxQty \in Nat /\ None \notin Oid /\ None \notin Key
  BY OrderExecAssumption DEF OrderExecAssumption
<1> QED
  BY <1>2, <1>3, <1>4 DEF Qty

LEMMA Closes ==
    ASSUME SettlementInv
    PROVE  /\ \A o \in Oid : Active(o) /\ orders[o].kind = "close" =>
                 /\ orders[o].pos \in Oid /\ Held(orders[o].pos)
                 /\ pos[orders[o].pos].closing = o
           /\ \A p \in Oid : pos[p].closing # None =>
                 /\ Held(p) /\ Active(pos[p].closing)
                 /\ orders[pos[p].closing].kind = "close"
                 /\ orders[pos[p].closing].pos = p
           /\ \A o \in Oid : Opening(o) => pos[o].st = "none"
BY DEF SettlementInv, ReservationInv, Reserved, NotYetBooked, Held, Opening

(* An order that may trade is an active row. *)
LEMMA TradingIsActive ==
    ASSUME SettlementInv, NEW o \in Oid, exch[o].st \in {"live", "transit"}
    PROVE  Active(o)
BY DEF SettlementInv, ClosedRowsAreSettled, NothingBeforePlacement, Active

LEMMA InitExposure == Init => Exposure
BY OrderExecAssumption
DEF OrderExecAssumption, Init, Exposure, Alone, Linked, Covered, Opening, Held, Active,
    NoOrder, NoPosition

(* What no row, no fill and no new lot disturbs. *)
LEMMA FrameExposure ==
    ASSUME SettlementInv, SettlementInv', Exposure,
           \A x \in Oid : /\ orders'[x].status = orders[x].status
                          /\ orders'[x].kind = orders[x].kind
                          /\ orders'[x].key = orders[x].key
                          /\ exch'[x].cum = exch[x].cum
                          /\ pos'[x].st = pos[x].st /\ pos'[x].key = pos[x].key
                          /\ pos'[x].qty = pos[x].qty /\ pos'[x].closing = pos[x].closing,
           \A k \in Key : size'[k] <= size[k]
    PROVE  Exposure'
<1>1. \A x \in Oid : (Opening(x)' <=> Opening(x)) /\ (Held(x)' <=> Held(x))
  BY DEF Opening, Held, Active
<1>2. \A p \in Oid : Out(p)' = Out(p) /\ Out(p) \in Nat
  BY Types DEF Out
<1>3. Alone'
  BY <1>1 DEF Exposure, Alone
<1>4. Linked'
  BY <1>1, Types DEF Exposure, Linked
<1>5. \A k \in Key : size[k] \in Nat /\ size'[k] \in Nat
  <2>1. size \in [Key -> Nat] /\ size' \in [Key -> Nat]
    BY DEF SettlementInv, ReservationInv, TypeOK
  <2> QED
    BY <2>1
<1>6. Covered'
  <2>1. \A o \in Oid : Opening(o)' => size'[orders'[o].key] <= exch'[o].cum
    BY <1>1, <1>5, Types DEF Exposure, Covered, Linked
  <2>2. \A p \in Oid : Held(p)' => size'[pos'[p].key] + Out(p)' <= pos'[p].qty
    <3> SUFFICES ASSUME NEW p \in Oid, Held(p)'
                 PROVE  size'[pos'[p].key] + Out(p)' <= pos'[p].qty
      OBVIOUS
    <3>1. pos[p].key \in Key /\ size[pos[p].key] + Out(p) <= pos[p].qty
      BY <1>1 DEF Exposure, Covered, Linked
    <3> QED
      BY <1>2, <1>5, <3>1, Types
  <2>3. \A k \in Key : \/ size'[k] = 0
                       \/ \E o \in Oid : Opening(o)' /\ orders'[o].key = k
                       \/ \E p \in Oid : Held(p)' /\ pos'[p].key = k
    BY <1>1, <1>5 DEF Exposure, Covered
  <2> QED
    BY <2>1, <2>2, <2>3 DEF Covered
<1> QED
  BY <1>3, <1>4, <1>6 DEF Exposure

-----------------------------------------------------------------------------
(* Submission: the new order has executed nothing. *)

LEMMA NewExecutedNothing ==
    ASSUME SettlementInv, NEW o \in Oid, orders[o].status = "none"
    PROVE  /\ exch[o].cum = 0 /\ ~Active(o)
           /\ \A p \in Oid : pos[p].closing # o
BY Closes, Types DEF SettlementInv, NothingBeforePlacement, Active

LEMMA SubmitOpenExposure ==
    ASSUME SettlementInv, SettlementInv', Exposure,
           NEW o \in Oid, NEW k \in Key, NEW q \in 1..MaxQty, SubmitOpen(o, k, q)
    PROVE  Exposure'
<1>1. /\ orders[o].status = "none" /\ UNCHANGED <<pos, size, exch>>
      /\ orders' = [orders EXCEPT ![o] = NewOrder("open", k, None, q, "mid")]
  BY DEF SubmitOpen, InsertOrder
<1>2. /\ \A p \in Oid : Held(p) => pos[p].key # k
      /\ \A x \in Oid : Opening(x) => orders[x].key # k
  BY DEF SubmitOpen, KeyFree, OpenPositions, InflightOpens, ActiveOn, Held, Opening
<1>3. size[k] = 0
  BY <1>2 DEF Exposure, Covered
<1>4. exch[o].cum = 0 /\ \A p \in Oid : pos[p].closing # o
  BY <1>1, NewExecutedNothing
<1>5. /\ Opening(o)' /\ orders'[o].key = k
      /\ \A x \in Oid \ {o} : (Opening(x)' <=> Opening(x)) /\ orders'[x] = orders[x]
      /\ \A p \in Oid : (Held(p)' <=> Held(p)) /\ Out(p)' = Out(p)
  BY <1>1, Types DEF Opening, Held, Active, NewOrder, Out
<1>6. ~Opening(o)
  BY <1>1 DEF Opening, Active
<1>7. Alone'
  BY <1>1, <1>2, <1>5 DEF Exposure, Alone
<1>8. Linked'
  BY <1>1, <1>4, <1>5, Types DEF Exposure, Linked
<1>9. Covered'
  BY <1>1, <1>3, <1>4, <1>5, <1>6, Types DEF Exposure, Covered
<1> QED
  BY <1>7, <1>8, <1>9 DEF Exposure

LEMMA SubmitCloseExposure ==
    ASSUME SettlementInv, SettlementInv', Exposure, NEW o \in Oid, NEW p \in Oid,
           NEW urgent \in BOOLEAN, NEW manual \in BOOLEAN, SubmitClose(o, p, urgent, manual)
    PROVE  Exposure'
<1>1. PICK stage : orders' = [orders EXCEPT ![o] = NewOrder("close", pos[p].key, p, pos[p].qty, stage)]
  BY DEF SubmitClose, InsertOrder
<1>2. /\ orders[o].status = "none" /\ UNCHANGED <<size, exch>>
      /\ pos' = [pos EXCEPT ![p] = [@ EXCEPT !.closing = o, !.attempts = pos[p].attempts + 1]]
      /\ Held(p) /\ CloseFree(p)
  BY DEF SubmitClose, InsertOrder, Reserve, MayRequestClose, Held, world
<1>3. pos[p].closing = None
  BY <1>2, Closes, Types DEF CloseFree
<1>4. exch[o].cum = 0 /\ \A y \in Oid : pos[y].closing # o
  BY <1>2, NewExecutedNothing
<1>5. /\ ~Opening(o) /\ ~Opening(o)' /\ orders'[o].key = pos[p].key
      /\ \A x \in Oid \ {o} : (Opening(x)' <=> Opening(x)) /\ orders'[x] = orders[x]
  BY <1>1, <1>2, Types DEF Opening, Active, NewOrder
<1>6. /\ pos'[p].closing = o
      /\ \A y \in Oid : /\ pos'[y].st = pos[y].st /\ pos'[y].key = pos[y].key
                        /\ pos'[y].qty = pos[y].qty
                        /\ y # p => pos'[y].closing = pos[y].closing
                        /\ Held(y)' <=> Held(y)
  BY <1>2, Types DEF Held, PosRow
<1>7. \A y \in Oid : Out(y)' = Out(y)
  BY <1>2, <1>3, <1>4, <1>6, Types DEF Out
<1>8. Alone'
  BY <1>5, <1>6 DEF Exposure, Alone
<1>9. Linked'
  BY <1>4, <1>5, <1>6, Types DEF Exposure, Linked
<1>10. Covered'
  BY <1>2, <1>5, <1>6, <1>7 DEF Exposure, Covered
<1> QED
  BY <1>8, <1>9, <1>10 DEF Exposure

-----------------------------------------------------------------------------
(* A close leaves a position of which nothing is short any more. *)

LEMMA ClosedExposure ==
    ASSUME SettlementInv, SettlementInv', Exposure, NEW p \in Oid, Held(p),
           pos'[p].st = "closed", \A y \in Oid \ {p} : pos'[y] = pos[y],
           size[pos[p].key] = 0, UNCHANGED <<size, exch>>,
           \A x \in Oid : orders'[x].key = orders[x].key /\ (Opening(x)' <=> Opening(x))
    PROVE  Exposure'
<1>1. /\ ~Held(p)'
      /\ \A y \in Oid \ {p} : (Held(y)' <=> Held(y)) /\ Out(y)' = Out(y)
  BY DEF Held, Out
<1>2. Alone'
  BY <1>1 DEF Exposure, Alone
<1>3. Linked'
  BY <1>1, Types DEF Exposure, Linked
<1>4. Covered'
  <2>1. \A k \in Key : size[k] # 0 => pos[p].key # k
    OBVIOUS
  <2> QED
    BY <1>1, <2>1 DEF Exposure, Covered
<1> QED
  BY <1>2, <1>3, <1>4 DEF Exposure

LEMMA RequestExposure ==
    ASSUME SettlementInv, SettlementInv', Exposure, NEW p \in Oid,
           RequestClose(p) \/ SettleExpired(p)
    PROVE  Exposure'
<1>0. pos \in [Oid -> PosRow]
  BY Types
<1>1. ASSUME CloseFree(p)
      PROVE  pos[p].closing = None
  BY <1>1, Closes, Types DEF CloseFree
<1>2. CASE pos' = [pos EXCEPT ![p] = [@ EXCEPT !.st = "closed", !.closing = None]]
           /\ Held(p) /\ size[pos[p].key] = 0 /\ UNCHANGED <<orders, size, exch>>
  BY <1>0, <1>2, ClosedExposure DEF PosRow, Opening, Active
<1>3. CASE ExitBlocked(p)
  <2>1. \A y \in Oid : /\ pos'[y].st = pos[y].st /\ pos'[y].key = pos[y].key
                       /\ pos'[y].qty = pos[y].qty /\ pos'[y].closing = pos[y].closing
    BY <1>0, <1>1, <1>3 DEF ExitBlocked, MayRequestClose, PosRow
  <2>2. UNCHANGED <<orders, exch, size>>
    BY <1>3 DEF ExitBlocked, world
  <2> QED
    BY <2>1, <2>2, FrameExposure, Types
<1>4. ASSUME NEW urgent \in BOOLEAN, NEW manual \in BOOLEAN, CloseShort(p, urgent, manual)
      PROVE  Exposure'
  <2>1. UNCHANGED <<orders, exch, size>> /\ Held(p) /\ pos[p].closing = None
    BY <1>1, <1>4 DEF CloseShort, world, MayRequestClose, Held
  <2>2. CASE manual /\ size[pos[p].key] = 0
    BY <1>2, <1>4, <2>1, <2>2 DEF CloseShort
  <2>3. CASE ~(manual /\ size[pos[p].key] = 0)
    <3>1. pos' = [pos EXCEPT ![p] = [@ EXCEPT !.closing = None,
                     !.attempts = pos[p].attempts + (IF manual THEN 0 ELSE 1)]]
      BY <1>4, <2>3 DEF CloseShort
    <3>2. \A y \in Oid : /\ pos'[y].st = pos[y].st /\ pos'[y].key = pos[y].key
                         /\ pos'[y].qty = pos[y].qty /\ pos'[y].closing = pos[y].closing
      BY <1>0, <2>1, <3>1 DEF PosRow
    <3> QED
      BY <2>1, <3>2, FrameExposure, Types
  <2> QED
    BY <2>2, <2>3
<1>5. CASE SettleExpired(p)
  BY <1>2, <1>5 DEF SettleExpired, world, Held
<1> QED
  BY <1>3, <1>4, <1>5, SubmitCloseExposure DEF RequestClose

-----------------------------------------------------------------------------
(* An order leaves. *)

LEMMA DropExposure ==
    ASSUME SettlementInv, SettlementInv', Exposure, NEW o \in Oid, DropOrder(o), Active(o),
           exch[o].st = "none", UNCHANGED <<size, exch>>
    PROVE  Exposure'
<1>1. exch[o].cum = 0
  BY DEF SettlementInv, NothingBeforePlacement
<1>2. /\ ~Opening(o)'
      /\ \A x \in Oid \ {o} : Opening(x)' <=> Opening(x)
      /\ \A x \in Oid : orders'[x].key = orders[x].key
  BY Types DEF DropOrder, Opening, Active, OrderRow
<1>3. /\ \A y \in Oid : /\ pos'[y].st = pos[y].st /\ pos'[y].key = pos[y].key
                        /\ pos'[y].qty = pos[y].qty
                        /\ \/ pos'[y].closing = pos[y].closing
                           \/ pos'[y].closing = None /\ pos[y].closing = o
                        /\ Held(y)' <=> Held(y)
  <2>1. orders[o].pos # None => orders[o].kind = "close"
    BY Types DEF SettlementInv, ReservationInv, OpensAreUnlinked
  <2>2. CASE orders[o].pos = None
    BY <2>2 DEF DropOrder, Held
  <2>3. CASE orders[o].pos # None
    BY <2>1, <2>3, Closes, Types DEF DropOrder, Held, PosRow
  <2> QED
    BY <2>2, <2>3
<1>4. \A y \in Oid : Out(y)' = Out(y)
  BY <1>1, <1>3, Types DEF Out
<1>5. Alone'
  BY <1>2, <1>3 DEF Exposure, Alone
<1>6. Linked'
  BY <1>2, <1>3, Types DEF Exposure, Linked
<1>7. Opening(o) => size[orders[o].key] = 0
  BY <1>1, Types DEF Exposure, Covered, Linked
<1>8. Covered'
  BY <1>2, <1>3, <1>4, <1>7 DEF Exposure, Covered
<1> QED
  BY <1>5, <1>6, <1>8 DEF Exposure

LEMMA OpenBooked ==
    ASSUME SettlementInv, SettlementInv', Exposure, NEW o \in Oid, Opening(o),
           BookOpen(o, exch[o].cum), ~Active(o)', UNCHANGED <<size, exch>>,
           \A x \in Oid \ {o} : Opening(x)' <=> Opening(x),
           \A x \in Oid : orders'[x].key = orders[x].key
    PROVE  Exposure'
<1>1. /\ pos'[o].st = "open" /\ pos'[o].key = orders[o].key /\ pos'[o].qty = exch[o].cum
      /\ pos'[o].closing = None
      /\ \A y \in Oid \ {o} : pos'[y] = pos[y]
  BY Types DEF BookOpen
<1>2. /\ Held(o)' /\ Out(o)' = 0 /\ ~Opening(o)' /\ ~Held(o)
      /\ \A y \in Oid \ {o} : (Held(y)' <=> Held(y)) /\ Out(y)' = Out(y)
  BY <1>1, Closes DEF Held, Out, Opening
<1>3. Alone'
  BY <1>1, <1>2 DEF Exposure, Alone
<1>4. Linked'
  BY <1>1, <1>2, Types DEF Exposure, Linked
<1>5. size[orders[o].key] \in Nat /\ size[orders[o].key] <= exch[o].cum
  BY Types DEF Exposure, Linked, Covered
<1>6. Covered'
  BY <1>1, <1>2, <1>5 DEF Exposure, Covered
<1> QED
  BY <1>3, <1>4, <1>6 DEF Exposure

LEMMA CloseBooked ==
    ASSUME SettlementInv, SettlementInv', Exposure, NEW o \in Oid, Active(o),
           orders[o].kind = "close", UNCHANGED <<size, exch>>,
           \/ BookClose(o, orders[o].pos, exch[o].cum)
           \/ /\ exch[o].cum = 0
              /\ pos' = [pos EXCEPT ![orders[o].pos].closing = None],
           \A x \in Oid : orders'[x].key = orders[x].key /\ (Opening(x)' <=> Opening(x))
    PROVE  Exposure'
<1>0. PICK p \in Oid : p = orders[o].pos
  BY Closes
<1> DEFINE n == exch[o].cum
<1>1. Held(p) /\ pos[p].closing = o /\ n \in Nat /\ pos[p].qty \in Nat
  BY <1>0, Closes, Types
<1>2. pos[p].key \in Key /\ size[pos[p].key] \in Nat /\ size[pos[p].key] + n <= pos[p].qty
  BY <1>1, Types DEF Exposure, Linked, Covered, Out
<1> HIDE DEF n
<1>3. CASE BookClose(o, p, n) /\ ~(n < pos[p].qty)
  <2>1. size[pos[p].key] = 0
    BY <1>1, <1>2, <1>3
  <2>2. pos'[p].st = "closed" /\ \A y \in Oid \ {p} : pos'[y] = pos[y]
    BY <1>1, <1>3, Types DEF BookClose, PosRow
  <2> QED
    BY <1>1, <2>1, <2>2, ClosedExposure
<1>4. CASE ~(BookClose(o, p, n) /\ ~(n < pos[p].qty))
  <2>1. /\ pos'[p].st = pos[p].st /\ pos'[p].key = pos[p].key
        /\ pos'[p].closing = None /\ pos'[p].qty = pos[p].qty - n
        /\ \A y \in Oid \ {p} : pos'[y] = pos[y]
    <3>1. CASE pos' = [pos EXCEPT ![p].closing = None] /\ n = 0
      BY <1>1, <3>1, Types DEF PosRow
    <3>2. CASE pos' = [pos EXCEPT ![p] = [@ EXCEPT !.qty = pos[p].qty - n, !.closing = None]]
      BY <1>1, <3>2, Types DEF PosRow
    <3> QED
      BY <1>0, <1>4, <3>1, <3>2 DEF BookClose, n
  <2>2. /\ Out(p)' = 0
        /\ \A y \in Oid : Held(y)' <=> Held(y)
        /\ \A y \in Oid \ {p} : Out(y)' = Out(y)
    BY <2>1 DEF Held, Out
  <2>3. Alone'
    BY <2>1, <2>2 DEF Exposure, Alone
  <2>4. Linked'
    BY <2>1, <2>2, Types, SMTT(30) DEF Exposure, Linked
  <2>5. Covered'
    BY <1>1, <1>2, <2>1, <2>2 DEF Exposure, Covered
  <2> QED
    BY <2>3, <2>4, <2>5 DEF Exposure
<1> QED
  BY <1>3, <1>4

LEMMA FinalizeExposure ==
    ASSUME SettlementInv, SettlementInv', Exposure, NEW o \in Oid, Finalize(o)
    PROVE  Exposure'
<1>1. Active(o) /\ UNCHANGED <<size, exch>>
  BY DEF Finalize, SettlementInv, ReservationInv, WorksOnActive, world
<1>2. /\ ~Active(o)'
      /\ \A x \in Oid \ {o} : Opening(x)' <=> Opening(x)
      /\ \A x \in Oid : orders'[x].key = orders[x].key
  BY Types DEF Finalize, Opening, Active, OrderRow
<1>3. CASE orders[o].kind = "close"
  <2>1. orders[o].pos # None /\ pos[orders[o].pos].st = "open"
    BY <1>1, <1>3, Closes, Types DEF Held
  <2>2. \A x \in Oid : Opening(x)' <=> Opening(x)
    BY <1>2, <1>3 DEF Opening
  <2>3. \/ BookClose(o, orders[o].pos, exch[o].cum)
        \/ exch[o].cum = 0 /\ pos' = [pos EXCEPT ![orders[o].pos].closing = None]
    BY <1>3, <2>1 DEF Finalize
  <2> QED
    BY <1>1, <1>2, <1>3, <2>2, <2>3, CloseBooked
<1>4. CASE orders[o].kind = "open"
  <2>1. Opening(o) /\ ~Opening(o)'
    BY <1>1, <1>2, <1>4 DEF Opening
  <2>2. CASE BookOpen(o, exch[o].cum)
    BY <1>1, <1>2, <2>1, <2>2, OpenBooked
  <2>3. CASE exch[o].cum = 0 /\ UNCHANGED pos
    <3>1. size[orders[o].key] = 0
      BY <2>1, <2>3, Types DEF Exposure, Covered, Linked
    <3>2. \A y \in Oid : (Held(y)' <=> Held(y)) /\ Out(y)' = Out(y)
      BY <1>1, <2>3 DEF Held, Out
    <3>3. Alone'
      BY <1>2, <2>1, <2>3, <3>2 DEF Exposure, Alone
    <3>4. Linked'
      BY <1>2, <2>1, <2>3, <3>2, Types DEF Exposure, Linked
    <3>5. Covered'
      BY <1>1, <1>2, <2>1, <2>3, <3>1, <3>2 DEF Exposure, Covered
    <3> QED
      BY <3>3, <3>4, <3>5 DEF Exposure
  <2> QED
    BY <1>4, <2>2, <2>3 DEF Finalize
<1> QED
  BY <1>3, <1>4, Types

-----------------------------------------------------------------------------
(* The exchange: lots move from the order to the key, or the other way. *)

LEMMA FillExposure ==
    ASSUME SettlementInv, SettlementInv', Exposure, NEW o \in Oid, NEW n \in 1..MaxQty, Fill(o, n)
    PROVE  Exposure'
<1> DEFINE k == orders[o].key
<1>1. Active(o) /\ UNCHANGED <<orders, pos>>
  BY TradingIsActive DEF Fill, db
<1>2. n \in Nat
  BY OrderExecAssumption DEF OrderExecAssumption
<1>3. /\ \A x \in Oid : Opening(x)' <=> Opening(x)
      /\ \A y \in Oid : Held(y)' <=> Held(y)
  BY <1>1 DEF Opening, Held, Active
<1>4. /\ exch'[o].cum = exch[o].cum + n
      /\ \A x \in Oid \ {o} : exch'[x] = exch[x]
  BY Types DEF Fill, ExchRow
<1>5. Alone' /\ Linked'
  BY <1>1, <1>3 DEF Exposure, Alone, Linked
<1>6. CASE orders[o].kind = "open"
  <2>1. Opening(o) /\ k \in Key
    BY <1>1, <1>6 DEF Opening, Exposure, Linked
  <2>2. size' = [size EXCEPT ![k] = size[k] + n]
    BY <1>6 DEF Fill
  <2>3. /\ \A x \in Oid \ {o} : Opening(x) => orders[x].key # k
        /\ \A y \in Oid : Held(y) => pos[y].key # k
    BY <2>1 DEF Exposure, Alone
  <2>4. \A y \in Oid : Out(y)' = Out(y)
    <3>1. \A y \in Oid : pos[y].closing # o
      BY <1>6, Closes, Types
    <3> QED
      BY <1>1, <1>4, <3>1, Types DEF Out
  <2>5. size'[k] = size[k] + n /\ \A l \in Key \ {k} : size'[l] = size[l]
    BY <2>1, <2>2, Types
  <2> HIDE DEF k
  <2>6. \A x \in Oid : Opening(x)' => size'[orders'[x].key] <= exch'[x].cum
    <3>1. size[k] \in Nat /\ exch[o].cum \in Nat /\ size[k] <= exch[o].cum
      BY <2>1, Types DEF Exposure, Covered, k
    <3>2. size'[k] <= exch'[o].cum
      BY <1>2, <1>4, <2>5, <3>1
    <3>3. \A x \in Oid \ {o} : Opening(x) => size'[orders[x].key] <= exch'[x].cum
      BY <1>4, <2>3, <2>5 DEF Exposure, Covered, Linked
    <3> QED
      BY <1>1, <1>3, <3>2, <3>3 DEF k
  <2>7. \A y \in Oid : Held(y)' => size'[pos'[y].key] + Out(y)' <= pos'[y].qty
    BY <1>1, <1>3, <2>3, <2>4, <2>5 DEF Exposure, Covered, Linked
  <2>8. \A l \in Key : \/ size'[l] = 0
                       \/ \E x \in Oid : Opening(x)' /\ orders'[x].key = l
                       \/ \E y \in Oid : Held(y)' /\ pos'[y].key = l
    <3>1. \E x \in Oid : Opening(x)' /\ orders'[x].key = k
      BY <1>1, <1>3, <2>1 DEF k
    <3> QED
      BY <1>1, <1>3, <2>5, <3>1 DEF Exposure, Covered
  <2> QED
    BY <1>5, <2>6, <2>7, <2>8 DEF Exposure, Covered
<1>7. CASE orders[o].kind = "close"
  <2>0. PICK p \in Oid : p = orders[o].pos
    BY <1>1, <1>7, Closes
  <2>1. Held(p) /\ pos[p].closing = o
    BY <1>1, <1>7, <2>0, Closes
  <2>2. k \in Key /\ pos[p].key = k
    BY <2>1, Types DEF Exposure, Linked
  <2>3. size' = [size EXCEPT ![k] = size[k] - n] /\ n <= size[k]
    BY <1>7 DEF Fill
  <2>4. size'[k] = size[k] - n /\ \A l \in Key \ {k} : size'[l] = size[l]
    BY <2>2, <2>3, Types
  <2>5. \A y \in Oid : Held(y) /\ y # p => pos[y].key # k
    BY <2>1, <2>2 DEF Exposure, Alone
  <2>6. \A x \in Oid : Opening(x) => orders[x].key # k
    BY <2>1, <2>2 DEF Exposure, Alone
  <2>7. Out(p)' = Out(p) + n
    BY <1>1, <1>4, <2>1, Types DEF Out
  <2>8. \A y \in Oid \ {p} : Out(y)' = Out(y)
    <3>1. \A y \in Oid \ {p} : pos[y].closing # o
      BY <2>0, Closes, Types
    <3> QED
      BY <1>1, <1>4, <3>1, Types DEF Out
  <2> HIDE DEF k
  <2>9. \A x \in Oid : Opening(x)' => size'[orders'[x].key] <= exch'[x].cum
    <3>1. \A x \in Oid : Opening(x) => x # o
      BY <1>7 DEF Opening
    <3> QED
      BY <1>1, <1>3, <1>4, <2>4, <2>6, <3>1 DEF Exposure, Covered, Linked
  <2>10. \A y \in Oid : Held(y)' => size'[pos'[y].key] + Out(y)' <= pos'[y].qty
    <3>1. size[k] \in Nat /\ Out(p) \in Nat /\ size[k] + Out(p) <= pos[p].qty
      BY <2>1, <2>2, Types DEF Exposure, Covered, Out
    <3>2. size'[k] + Out(p)' <= pos[p].qty
      BY <1>2, <2>4, <2>7, <3>1, Types
    <3>3. \A y \in Oid \ {p} : Held(y) => size'[pos[y].key] + Out(y)' <= pos[y].qty
      BY <2>4, <2>5, <2>8 DEF Exposure, Covered, Linked
    <3> QED
      BY <1>1, <1>3, <2>2, <3>2, <3>3
  <2>11. \A l \in Key : \/ size'[l] = 0
                        \/ \E x \in Oid : Opening(x)' /\ orders'[x].key = l
                        \/ \E y \in Oid : Held(y)' /\ pos'[y].key = l
    <3>1. \E y \in Oid : Held(y)' /\ pos'[y].key = k
      BY <1>1, <1>3, <2>1, <2>2
    <3> QED
      BY <1>1, <1>3, <2>4, <3>1 DEF Exposure, Covered
  <2> QED
    BY <1>5, <2>9, <2>10, <2>11 DEF Exposure, Covered
<1> QED
  BY <1>6, <1>7, Types

-----------------------------------------------------------------------------
(* The other steps leave key, kind and status of the rows alone, and the fills. *)

SameRows ==
    \A x \in Oid : /\ orders'[x].status = orders[x].status
                   /\ orders'[x].kind = orders[x].kind
                   /\ orders'[x].key = orders[x].key
SameFills == \A x \in Oid : exch'[x].cum = exch[x].cum

LEMMA PollRows ==
    ASSUME orders \in [Oid -> OrderRow], NEW o \in Oid, Poll(o)
    PROVE  SameRows
<1>1. CASE PollUnreachable(o)
  BY <1>1 DEF PollUnreachable, SameRows, OrderRow
<1>2. CASE PollAbsent(o)
  BY <1>2 DEF PollAbsent, SameRows, OrderRow
<1>3. CASE PollSeen(o)
  BY <1>3 DEF PollSeen, SameRows, OrderRow
<1> QED
  BY <1>1, <1>2, <1>3 DEF Poll

LEMMA LoopRows ==
    ASSUME SettlementInv, NEW o \in Oid,
           \/ Poll(o) \/ Place(o) \/ (ActOnAnswer(o) /\ ~Finalize(o))
           \/ ((RecordPlace(o) \/ RetireAbsent(o)) /\ ~DropOrder(o))
    PROVE  SameRows /\ SameFills /\ UNCHANGED <<pos, size>>
<1>0. orders \in [Oid -> OrderRow] /\ exch \in [Oid -> ExchRow]
  BY Types
<1>1. CASE Poll(o)
  <2>1. UNCHANGED <<pos, size, exch>>
    BY <1>1 DEF Poll, PollUnreachable, PollAbsent, PollSeen, world
  <2>2. SameRows
    BY <1>0, <1>1, PollRows
  <2> QED
    BY <2>1, <2>2 DEF SameFills
<1>2. CASE Place(o)
  <2>1. UNCHANGED <<orders, pos, size>>
    BY <1>2 DEF Place, db
  <2>2. SameFills
    BY <1>0, <1>2 DEF Place, SameFills, ExchRow
  <2> QED
    BY <2>1, <2>2 DEF SameRows
<1>3. CASE ActOnAnswer(o) /\ ~Finalize(o)
  <2>1. UNCHANGED <<pos, size>>
    BY <1>3 DEF ActOnAnswer, HoldFill, CancelAgain, GiveUp, Retreat, Chase, StillWaiting,
                db, world
  <2>2. SameRows
    <3>1. CASE UNCHANGED orders
      BY <3>1 DEF SameRows
    <3>2. CASE GiveUp(o) \/ Chase(o)
      BY <1>0, <3>2 DEF GiveUp, Chase, SameRows, OrderRow
    <3>3. CASE orders' = [orders EXCEPT ![o] =
                             [@ EXCEPT !.stage = "retreat", !.clock = "fresh"]]
      BY <1>0, <3>3 DEF SameRows, OrderRow
    <3> QED
      BY <1>3, <3>1, <3>2, <3>3
      DEF ActOnAnswer, HoldFill, CancelAgain, Retreat, StillWaiting, db
  <2>3. SameFills
    <3>1. CASE CancelCall(o)
      BY <1>0, <3>1 DEF CancelCall, SameFills, ExchRow
    <3>2. CASE UNCHANGED exch
      BY <3>2 DEF SameFills
    <3> QED
      BY <1>3, <3>1, <3>2 DEF ActOnAnswer, HoldFill, CancelAgain, GiveUp, Retreat, Chase,
                              StillWaiting, world
  <2> QED
    BY <2>1, <2>2, <2>3
<1>4. CASE (RecordPlace(o) \/ RetireAbsent(o)) /\ ~DropOrder(o)
  <2>1. UNCHANGED <<pos, size, exch>>
    BY <1>4 DEF RecordPlace, RetireAbsent, db, world
  <2>2. UNCHANGED orders \/ orders' = [orders EXCEPT ![o].known = TRUE]
    BY <1>4 DEF RecordPlace, RetireAbsent, db
  <2>3. SameRows
    BY <1>0, <2>2 DEF SameRows, OrderRow
  <2> QED
    BY <2>1, <2>3 DEF SameFills
<1> QED
  BY <1>1, <1>2, <1>3, <1>4

LEMMA FinishExposure ==
    ASSUME SettlementInv, SettlementInv', Exposure, NEW o \in Oid, Poll(o) \/ FinishStep(o)
    PROVE  Exposure'
<1>1. CASE Finalize(o)
  BY <1>1, FinalizeExposure
<1>2. CASE (RecordPlace(o) \/ RetireAbsent(o)) /\ DropOrder(o)
  <2>1. Active(o) /\ UNCHANGED <<size, exch>>
    BY <1>2 DEF RecordPlace, RetireAbsent, world, SettlementInv, ReservationInv, WorksOnActive
  <2>2. CASE exch[o].st = "none"
    BY <1>2, <2>1, <2>2, DropExposure
  <2>3. CASE exch[o].st # "none"
    <3>1. RecordPlace(o) /\ ans # "rejected"
      BY <1>2, <2>3 DEF RecordPlace, RetireAbsent, SettlementInv, AnswerStillHolds
    <3>2. orders'[o].status = "active"
      BY <2>1, <3>1, Types DEF RecordPlace, Active, OrderRow
    <3>3. orders'[o].status = "error"
      BY <1>2, Types DEF DropOrder, OrderRow
    <3> QED
      BY <3>2, <3>3
  <2> QED
    BY <2>2, <2>3
<1>3. CASE \/ Poll(o) \/ Place(o) \/ (ActOnAnswer(o) /\ ~Finalize(o))
           \/ ((RecordPlace(o) \/ RetireAbsent(o)) /\ ~DropOrder(o))
  <2>1. SameRows /\ SameFills /\ UNCHANGED <<pos, size>>
    BY <1>3, LoopRows
  <2>2. \A k \in Key : size'[k] <= size[k]
    BY <2>1, Types
  <2> QED
    BY <2>1, <2>2, FrameExposure DEF SameRows, SameFills
<1> QED
  BY <1>1, <1>2, <1>3 DEF FinishStep, ActOnAnswer

LEMMA ExchangeExposure ==
    ASSUME SettlementInv, SettlementInv', Exposure, Exchange
    PROVE  Exposure'
<1>0. orders \in [Oid -> OrderRow] /\ exch \in [Oid -> ExchRow] /\ size \in [Key -> Nat]
  BY Types
<1>1. CASE \E o \in Oid, n \in 1..MaxQty : Fill(o, n)
  BY <1>1, FillExposure
<1>2. CASE ~\E o \in Oid, n \in 1..MaxQty : Fill(o, n)
  <2>1. UNCHANGED pos
    BY <1>2 DEF Exchange, Arrive, Lose, Kill, Elapse, Expire, LeaveExchange, db
  <2>2. SameRows
    <3>1. ASSUME NEW o \in Oid, Elapse(o)
          PROVE  SameRows
      BY <1>0, <3>1 DEF Elapse, SameRows, OrderRow
    <3>2. CASE UNCHANGED orders
      BY <3>2 DEF SameRows
    <3> QED
      BY <1>2, <3>1, <3>2 DEF Exchange, Arrive, Lose, Kill, Expire, LeaveExchange, db
  <2>3. SameFills
    <3>1. ASSUME NEW o \in Oid, Arrive(o) \/ Lose(o) \/ Kill(o)
          PROVE  SameFills
      BY <1>0, <3>1 DEF Arrive, Lose, Kill, SameFills, ExchRow
    <3>2. ASSUME NEW k, NEW which, EndOrders(k, which)
          PROVE  SameFills
      BY <1>0, <3>2 DEF EndOrders, SameFills, ExchRow
    <3>3. CASE \E o \in Oid : Elapse(o)
      BY <3>3 DEF Elapse, world, SameFills
    <3>4. CASE \E k \in Key : Expire(k) \/ LeaveExchange(k)
      BY <3>2, <3>4 DEF Expire, LeaveExchange
    <3> QED
      BY <1>2, <3>1, <3>3, <3>4 DEF Exchange
  <2>4. \A k \in Key : size'[k] <= size[k]
    <3>1. ASSUME NEW l \in Key, LeaveExchange(l)
          PROVE  \A k \in Key : size'[k] <= size[k]
      BY <1>0, <3>1 DEF LeaveExchange
    <3>2. CASE UNCHANGED size
      BY <1>0, <3>2
    <3> QED
      BY <1>2, <3>1, <3>2 DEF Exchange, Arrive, Lose, Kill, Elapse, Expire, world
  <2> QED
    BY <2>1, <2>2, <2>3, <2>4, FrameExposure DEF SameRows, SameFills
<1> QED
  BY <1>1, <1>2

LEMMA OthersExposure ==
    ASSUME SettlementInv, SettlementInv', Exposure,
           Reconcile \/ Crash \/ Operator \/ UNCHANGED vars
    PROVE  Exposure'
<1>1. UNCHANGED <<orders, exch, size>>
  BY DEF Reconcile, Crash, Operator, Unhalt, ResetCloseAttempts, db, world, vars
<1>2. \A x \in Oid : /\ pos'[x].st = pos[x].st /\ pos'[x].key = pos[x].key
                     /\ pos'[x].qty = pos[x].qty /\ pos'[x].closing = pos[x].closing
  <2>1. CASE ResetCloseAttempts
    BY <2>1, Types DEF ResetCloseAttempts, PosRow
  <2>2. CASE UNCHANGED pos
    BY <2>2
  <2> QED
    BY <2>1, <2>2 DEF Reconcile, Crash, Operator, Unhalt, db, vars
<1> QED
  BY <1>1, <1>2, FrameExposure, Types

LEMMA StepExposure == ExposureInv /\ [Next]_vars => ExposureInv'
<1> SUFFICES ASSUME SettlementInv, Exposure, [Next]_vars PROVE ExposureInv'
  BY DEF ExposureInv
<1>1. SettlementInv'
  BY StepSettlement
<1>2. Exposure'
  BY <1>1, SubmitOpenExposure, RequestExposure, FinishExposure, ExchangeExposure,
     OthersExposure
  DEF Next, LoopStep
<1> QED
  BY <1>1, <1>2 DEF ExposureInv

-----------------------------------------------------------------------------
(* What the invariant says in numbers. *)

LEMMA AtMostOne ==
    ASSUME NEW S, \A x, y \in S : x = y
    PROVE  IsFiniteSet(S) /\ Cardinality(S) \in 0..1 /\ (Cardinality(S) = 0 <=> S = {})
<1>1. CASE S = {}
  BY <1>1, FS_EmptySet
<1>2. CASE S # {}
  <2>1. PICK x : S = {x}
    BY <1>2
  <2>2. IsFiniteSet({x}) /\ Cardinality({x}) = 1
    BY FS_Singleton
  <2> QED
    BY <1>2, <2>1, <2>2
<1> QED
  BY <1>1, <1>2

LEMMA ExposureBounds == ExposureInv => OneExposure
<1> SUFFICES ASSUME SettlementInv, Exposure, NEW k \in Key
             PROVE  /\ Cardinality({o \in Oid : /\ orders[o].key = k
                                               /\ exch[o].st \in {"live", "transit"}}) <= 1
                    /\ Cardinality(OpenPositions(k)) + Cardinality(InflightOpens(k)) <= 1
                    /\ size[k] <= MaxQty
  BY DEF ExposureInv, OneExposure
<1>1. Cardinality({o \in Oid : orders[o].key = k /\ exch[o].st \in {"live", "transit"}}) <= 1
  <2> DEFINE S == {o \in Oid : orders[o].key = k /\ exch[o].st \in {"live", "transit"}}
  <2>1. ASSUME NEW o \in S, NEW x \in S
        PROVE  o = x
    <3>1. o \in Oid /\ x \in Oid /\ Active(o) /\ Active(x)
      BY TradingIsActive
    <3>2. orders[o].kind \in {"open", "close"} /\ orders[x].kind \in {"open", "close"}
      BY Types
    <3>3. ASSUME NEW z \in Oid, Active(z), orders[z].kind = "close"
          PROVE  /\ orders[z].pos \in Oid /\ Held(orders[z].pos)
                 /\ pos[orders[z].pos].closing = z
                 /\ pos[orders[z].pos].key = orders[z].key
      BY <3>3, Closes, Types DEF Exposure, Linked
    <3>4. orders[o].key = orders[x].key
      OBVIOUS
    <3>5. CASE orders[o].kind = "open" /\ orders[x].kind = "open"
      BY <3>1, <3>4, <3>5 DEF Exposure, Alone, Opening
    <3>6. CASE orders[o].kind = "close" /\ orders[x].kind = "close"
      BY <3>1, <3>3, <3>4, <3>6 DEF Exposure, Alone
    <3>7. CASE orders[o].kind # orders[x].kind
      BY <3>1, <3>2, <3>3, <3>4, <3>7 DEF Exposure, Alone, Opening
    <3> QED
      BY <3>2, <3>5, <3>6, <3>7
  <2> HIDE DEF S
  <2>2. Cardinality(S) \in 0..1
    BY <2>1, AtMostOne
  <2> QED
    BY <2>2 DEF S
<1>2. Cardinality(OpenPositions(k)) + Cardinality(InflightOpens(k)) <= 1
  <2>1. \A p, y \in OpenPositions(k) : p = y
    BY DEF OpenPositions, Exposure, Alone, Held
  <2>2. \A o, x \in InflightOpens(k) : o = x
    BY DEF InflightOpens, ActiveOn, Exposure, Alone, Opening
  <2>3. OpenPositions(k) = {} \/ InflightOpens(k) = {}
    BY DEF OpenPositions, InflightOpens, ActiveOn, Exposure, Alone, Held, Opening
  <2>4. /\ Cardinality(OpenPositions(k)) \in 0..1
        /\ (Cardinality(OpenPositions(k)) = 0 <=> OpenPositions(k) = {})
    BY <2>1, AtMostOne
  <2>5. /\ Cardinality(InflightOpens(k)) \in 0..1
        /\ (Cardinality(InflightOpens(k)) = 0 <=> InflightOpens(k) = {})
    BY <2>2, AtMostOne
  <2> QED
    BY <2>3, <2>4, <2>5
<1>3. size[k] <= MaxQty
  <2>0. size[k] \in Nat /\ MaxQty \in Nat
    BY Types, OrderExecAssumption DEF OrderExecAssumption
  <2>1. CASE size[k] = 0
    BY <2>0, <2>1
  <2>2. ASSUME NEW o \in Oid, Opening(o), orders[o].key = k
        PROVE  size[k] <= MaxQty
    BY <2>0, <2>2, Types DEF Exposure, Covered
  <2>3. ASSUME NEW p \in Oid, Held(p), pos[p].key = k
        PROVE  size[k] <= MaxQty
    <3>1. Out(p) \in Nat
      BY Types DEF Out
    <3>2. size[k] + Out(p) <= pos[p].qty
      BY <2>3 DEF Exposure, Covered
    <3> QED
      BY <2>0, <3>1, <3>2, Types
  <2> QED
    BY <2>1, <2>2, <2>3 DEF Exposure, Covered
<1> QED
  BY <1>1, <1>2, <1>3

(* PER_KEY_CAP on the exchange: whatever was lost, delayed, adopted or retried, at
   most one order of the bot can trade on a key, the key has one open in flight or
   one open position, and what is short on it is never more than one order's
   quantity (can_open, submit, _retire_absent, _finalize). *)
THEOREM ExposureHolds == Spec => []OneExposure
<1>1. Init => ExposureInv
  BY InitSettlement, InitExposure DEF ExposureInv
<1> QED
  BY <1>1, StepExposure, ExposureBounds, PTL DEF Spec

-----------------------------------------------------------------------------
(* The ledger: what the rows of a key add up to. *)

LEMMA SizeOf ==
    ASSUME SettlementInv, NEW k
    PROVE  /\ OpenPositions(k) = {} => DbSize(k) = 0
           /\ \A p \in Oid : OpenPositions(k) = {p} => DbSize(k) = pos[p].qty
<1> DEFINE f == [p \in Oid |-> pos[p].qty]
<1>1. DbSize(k) = SumFunctionOnSet(f, OpenPositions(k))
  BY DEF DbSize
<1>2. \A p \in Oid : f[p] = pos[p].qty /\ f[p] \in Int
  BY Types
<1> HIDE DEF f
<1>3. OpenPositions(k) = {} => DbSize(k) = 0
  BY <1>1, SumEmpty
<1>4. ASSUME NEW p \in Oid, OpenPositions(k) = {p} PROVE DbSize(k) = pos[p].qty
  <2>1. SumFunctionOnSet(f, {p}) = f[p]
    BY <1>2, SumSingleton
  <2> QED
    BY <1>1, <1>2, <1>4, <2>1
<1> QED
  BY <1>3, <1>4

LEMMA ExecutedOf ==
    ASSUME SettlementInv
    PROVE  /\ Executed({}) = 0
           /\ \A o \in Oid : Executed({o}) = exch[o].cum
<1> DEFINE f == [o \in Oid |-> exch[o].cum]
<1>1. \A S : Executed(S) = SumFunctionOnSet(f, S)
  BY DEF Executed
<1>2. \A o \in Oid : f[o] = exch[o].cum /\ f[o] \in Int
  BY Types
<1> HIDE DEF f
<1> QED
  BY <1>1, <1>2, SumEmpty, SumSingleton

RowsSay(k) ==
    /\ \A o \in Oid : Opening(o) /\ orders[o].key = k =>
          /\ Phase(k) = "opening" /\ DbSize(k) = 0
          /\ Executed(ActiveOn(k)) = exch[o].cum
    /\ \A p \in Oid : Held(p) /\ pos[p].key = k =>
          /\ Phase(k) = IF pos[p].closing = None THEN "held" ELSE "closing"
          /\ DbSize(k) = pos[p].qty
          /\ Executed(ActiveOn(k)) = Out(p)
    /\ (\A x \in Oid : ~(Opening(x) /\ orders[x].key = k) /\ ~(Held(x) /\ pos[x].key = k)) =>
          Phase(k) = "flat" /\ DbSize(k) = 0 /\ Executed(ActiveOn(k)) = 0

LEMMA LedgerRows == ExposureInv => \A k \in Key : RowsSay(k)
<1> SUFFICES ASSUME SettlementInv, Exposure, NEW k \in Key PROVE RowsSay(k)
  BY DEF ExposureInv
<1>1. ASSUME NEW x \in Oid, Active(x), orders[x].kind = "close"
      PROVE  /\ orders[x].pos \in Oid /\ Held(orders[x].pos)
             /\ pos[orders[x].pos].closing = x /\ pos[orders[x].pos].key = orders[x].key
  BY <1>1, Closes, Types DEF Exposure, Linked
<1>2. \A x \in Oid : Active(x) => Opening(x) \/ orders[x].kind = "close"
  BY Types DEF Opening
<1>3. ASSUME NEW o \in Oid, Opening(o), orders[o].key = k
      PROVE  /\ Phase(k) = "opening" /\ DbSize(k) = 0
             /\ Executed(ActiveOn(k)) = exch[o].cum
  <2>1. OpenPositions(k) = {}
    BY <1>3 DEF OpenPositions, Held, Exposure, Alone
  <2>2. ActiveOn(k) = {o}
    BY <1>1, <1>2, <1>3 DEF ActiveOn, Exposure, Alone, Opening
  <2>3. InflightOpens(k) # {}
    BY <1>3 DEF InflightOpens, ActiveOn, Opening
  <2> QED
    BY <2>1, <2>2, <2>3, SizeOf, ExecutedOf DEF Phase
<1>4. ASSUME NEW p \in Oid, Held(p), pos[p].key = k
      PROVE  /\ Phase(k) = IF pos[p].closing = None THEN "held" ELSE "closing"
             /\ DbSize(k) = pos[p].qty
             /\ Executed(ActiveOn(k)) = Out(p)
  <2>1. OpenPositions(k) = {p}
    BY <1>4 DEF OpenPositions, Held, Exposure, Alone
  <2>2. InflightOpens(k) = {}
    BY <1>4 DEF InflightOpens, ActiveOn, Exposure, Alone, Opening
  <2>3. \A x \in ActiveOn(k) : x = pos[p].closing
    BY <1>1, <1>2, <1>4, <2>2 DEF ActiveOn, InflightOpens, Exposure, Alone, Opening
  <2>4. ActiveOn(k) = IF pos[p].closing = None THEN {} ELSE {pos[p].closing}
    <3>1. CASE pos[p].closing = None
      <4>1. None \notin Oid
        BY Types
      <4> QED
        BY <2>3, <3>1, <4>1 DEF ActiveOn
    <3>2. CASE pos[p].closing # None
      <4>1. /\ pos[p].closing \in Oid /\ Active(pos[p].closing)
            /\ orders[pos[p].closing].key = k
        BY <1>4, <3>2, Closes, Types DEF Exposure, Linked
      <4> QED
        BY <2>3, <3>2, <4>1 DEF ActiveOn
    <3> QED
      BY <3>1, <3>2
  <2>5. pos[p].closing = None <=> ActiveOn(k) = {}
    BY <2>4
  <2>6. Executed(ActiveOn(k)) = Out(p)
    BY <2>4, ExecutedOf, Types DEF Out
  <2> QED
    BY <2>1, <2>2, <2>5, <2>6, SizeOf DEF Phase
<1>5. ASSUME \A x \in Oid : ~(Opening(x) /\ orders[x].key = k) /\ ~(Held(x) /\ pos[x].key = k)
      PROVE  Phase(k) = "flat" /\ DbSize(k) = 0 /\ Executed(ActiveOn(k)) = 0
  <2>1. OpenPositions(k) = {}
    BY <1>5 DEF OpenPositions, Held
  <2>2. ActiveOn(k) = {}
    BY <1>1, <1>2, <1>5 DEF ActiveOn
  <2>3. InflightOpens(k) = {}
    BY <2>2 DEF InflightOpens
  <2> QED
    BY <2>1, <2>2, <2>3, SizeOf, ExecutedOf DEF Phase
<1> QED
  BY <1>3, <1>4, <1>5 DEF RowsSay

LEMMA LedgerRowsNext == ExposureInv' => (\A k \in Key : RowsSay(k))'
BY LedgerRows, PTL


(* What a step of the bot or of the exchange does to a key, in the ledger and in
   what is short on it. *)
Lots(k) == Executed(ActiveOn(k))

SameBook(k) == Phase(k)' = Phase(k) /\ DbSize(k)' = DbSize(k) /\ Lots(k)' = Lots(k)
SameSize(k) == size'[k] = size[k] /\ gone'[k] = gone[k]
Still(k) == SameBook(k) /\ (SameSize(k) \/ gone'[k])

Begins(k) ==
    /\ \/ Phase(k) = "flat" /\ Phase(k)' = "opening" /\ size[k] = 0 /\ size'[k] = 0
       \/ Phase(k) = "held" /\ Phase(k)' = "closing" /\ SameSize(k)
    /\ DbSize(k)' = DbSize(k) /\ Lots(k)' = Lots(k)
Executes(k, n) ==
    /\ \/ Phase(k) = "opening" /\ size'[k] = size[k] + n
       \/ /\ Phase(k) = "closing" /\ Lots(k) + n <= DbSize(k)
          /\ n <= size[k] /\ size'[k] = size[k] - n
    /\ Phase(k)' = Phase(k) /\ DbSize(k)' = DbSize(k) /\ Lots(k)' = Lots(k) + n
    /\ gone'[k] = gone[k]
Books(k) ==
    /\ \/ Phase(k) = "opening" /\ DbSize(k)' = Lots(k)
       \/ Phase(k) = "closing" /\ Lots(k) <= DbSize(k) /\ DbSize(k)' = DbSize(k) - Lots(k)
    /\ Phase(k)' = IF DbSize(k)' = 0 THEN "flat" ELSE "held"
    /\ Lots(k)' = 0 /\ SameSize(k)
WritesOff(k) ==
    /\ Phase(k) = "held" /\ Phase(k)' = "flat"
    /\ DbSize(k)' = 0 /\ Lots(k)' = Lots(k) /\ size[k] = 0 /\ SameSize(k)

Moves(k) == Begins(k) \/ Books(k) \/ WritesOff(k) \/ \E n \in 1..MaxQty : Executes(k, n)

OneMoves == \/ \A k \in Key : Still(k)
            \/ \E k \in Key : Moves(k) /\ \A l \in Key \ {k} : Still(l)

(* The position of a key is of some size, and the exchange holds what the book
   holds with what is not booked yet, unless the position left on its own. *)
Sound(k) ==
    /\ Phase(k) \in {"held", "closing"} => DbSize(k) > 0
    /\ gone[k] \/ size[k] + (IF Phase(k) = "closing" THEN Lots(k) ELSE 0)
                  = DbSize(k) + (IF Phase(k) = "opening" THEN Lots(k) ELSE 0)

LedgerInv == ExposureInv /\ \A k \in Key : Sound(k)

LEMMA SizeTypes == ExposureInv => size \in [Key -> Nat]
BY Types DEF ExposureInv

LEMMA SizeTypesNext == ExposureInv' => (size \in [Key -> Nat])'
BY SizeTypes, PTL

LEMMA KeyFacts ==
    ASSUME ExposureInv, NEW k \in Key
    PROVE  /\ DbSize(k) \in Nat /\ Lots(k) \in Nat /\ size[k] \in Nat
           /\ Phase(k) = "flat" => DbSize(k) = 0 /\ Lots(k) = 0 /\ size[k] = 0
           /\ Phase(k) = "opening" => DbSize(k) = 0
           /\ Phase(k) = "held" => Lots(k) = 0
           /\ Phase(k) \in {"flat", "opening", "held", "closing"}
<1>1. RowsSay(k) /\ SettlementInv /\ Exposure
  BY LedgerRows DEF ExposureInv
<1>2. size[k] \in Nat
  BY <1>1, Types
<1>3. ASSUME NEW o \in Oid, Opening(o), orders[o].key = k
      PROVE  Phase(k) = "opening" /\ DbSize(k) = 0 /\ Lots(k) \in Nat
  BY <1>1, <1>3, Types DEF RowsSay, Lots
<1>4. ASSUME NEW p \in Oid, Held(p), pos[p].key = k
      PROVE  /\ DbSize(k) \in Nat /\ Lots(k) \in Nat
             /\ Phase(k) \in {"held", "closing"} /\ (Phase(k) = "held" => Lots(k) = 0)
  BY <1>1, <1>4, Types DEF RowsSay, Lots, Out
<1>5. ASSUME \A x \in Oid : ~(Opening(x) /\ orders[x].key = k) /\ ~(Held(x) /\ pos[x].key = k)
      PROVE  Phase(k) = "flat" /\ DbSize(k) = 0 /\ Lots(k) = 0 /\ size[k] = 0
  BY <1>1, <1>5 DEF RowsSay, Lots, Exposure, Covered
<1> QED
  BY <1>2, <1>3, <1>4, <1>5

(* The step keeps the two of them in step. *)
LEMMA MovesSound ==
    ASSUME LedgerInv, ExposureInv', OneMoves
    PROVE  LedgerInv'
<1> SUFFICES ASSUME NEW k \in Key PROVE Sound(k)'
  BY DEF LedgerInv
<1>1. Sound(k) /\ ExposureInv
  BY DEF LedgerInv
<1>2. size'[k] \in Nat
  BY SizeTypesNext
<1>3. CASE Still(k)
  BY <1>1, <1>3 DEF Still, SameBook, SameSize, Sound
<1>4. CASE Begins(k)
  BY <1>1, <1>4, KeyFacts DEF Begins, SameSize, Sound
<1>5. ASSUME NEW n \in 1..MaxQty, Executes(k, n)
      PROVE  Sound(k)'
  <2>1. n \in Nat
    BY OrderExecAssumption DEF OrderExecAssumption
  <2> QED
    BY <1>1, <1>5, <2>1, KeyFacts DEF Executes, Sound
<1>6. CASE Books(k)
  BY <1>1, <1>6, KeyFacts DEF Books, SameSize, Sound
<1>7. CASE WritesOff(k)
  BY <1>1, <1>7, KeyFacts DEF WritesOff, SameSize, Sound
<1> QED
  BY <1>3, <1>4, <1>5, <1>6, <1>7 DEF OneMoves, Moves

(* A key whose rows, fills and positions a step leaves alone. *)
LEMMA SameKey ==
    ASSUME ExposureInv, ExposureInv', NEW k \in Key,
           \A x \in Oid : /\ (Opening(x) /\ orders[x].key = k) <=> (Opening(x)' /\ orders'[x].key = k)
                          /\ Opening(x) /\ orders[x].key = k => exch'[x].cum = exch[x].cum,
           \A p \in Oid : /\ (Held(p) /\ pos[p].key = k) <=> (Held(p)' /\ pos'[p].key = k)
                          /\ Held(p) /\ pos[p].key = k =>
                                /\ pos'[p].qty = pos[p].qty /\ Out(p)' = Out(p)
                                /\ pos'[p].closing = None <=> pos[p].closing = None
    PROVE  SameBook(k)
<1>1. RowsSay(k) /\ RowsSay(k)'
  BY LedgerRows, LedgerRowsNext
<1>2. ASSUME NEW o \in Oid, Opening(o), orders[o].key = k
      PROVE  SameBook(k)
  BY <1>1, <1>2 DEF RowsSay, SameBook, Lots
<1>3. ASSUME NEW p \in Oid, Held(p), pos[p].key = k
      PROVE  SameBook(k)
  BY <1>1, <1>3 DEF RowsSay, SameBook, Lots
<1>4. ASSUME \A x \in Oid : ~(Opening(x) /\ orders[x].key = k) /\ ~(Held(x) /\ pos[x].key = k)
      PROVE  SameBook(k)
  BY <1>1, <1>4 DEF RowsSay, SameBook, Lots
<1> QED
  BY <1>2, <1>3, <1>4

-----------------------------------------------------------------------------
(* Every step moves one key of the ledger, or none. *)

LEMMA FrameMoves ==
    ASSUME ExposureInv, ExposureInv',
           \A x \in Oid : /\ orders'[x].status = orders[x].status
                          /\ orders'[x].kind = orders[x].kind
                          /\ orders'[x].key = orders[x].key
                          /\ exch'[x].cum = exch[x].cum
                          /\ pos'[x].st = pos[x].st /\ pos'[x].key = pos[x].key
                          /\ pos'[x].qty = pos[x].qty /\ pos'[x].closing = pos[x].closing,
           \A k \in Key : SameSize(k) \/ gone'[k]
    PROVE  OneMoves
<1>1. \A x \in Oid : (Opening(x)' <=> Opening(x)) /\ (Held(x)' <=> Held(x))
  BY DEF Opening, Held, Active
<1>2. \A p \in Oid : Out(p)' = Out(p)
  BY Types DEF Out, ExposureInv
<1>3. ASSUME NEW k \in Key
      PROVE  SameBook(k)
  BY <1>1, <1>2, SameKey
<1> QED
  BY <1>3 DEF OneMoves, Still

LEMMA SubmitOpenMoves ==
    ASSUME LedgerInv, ExposureInv',
           NEW o \in Oid, NEW k \in Key, NEW q \in 1..MaxQty, SubmitOpen(o, k, q)
    PROVE  OneMoves
<1>0. ExposureInv /\ SettlementInv /\ Exposure
  BY DEF LedgerInv, ExposureInv
<1>1. /\ orders[o].status = "none" /\ UNCHANGED <<pos, size, exch>>
      /\ orders' = [orders EXCEPT ![o] = NewOrder("open", k, None, q, "mid")]
      /\ gone' = [gone EXCEPT ![k] = FALSE]
  BY DEF SubmitOpen, InsertOrder
<1>2. \A x \in Oid : ~(Opening(x) /\ orders[x].key = k) /\ ~(Held(x) /\ pos[x].key = k)
  BY DEF SubmitOpen, KeyFree, OpenPositions, InflightOpens, ActiveOn, Held, Opening
<1>3. exch[o].cum = 0 /\ ~Opening(o)
  BY <1>0, <1>1, NewExecutedNothing DEF Opening
<1>4. /\ Opening(o)' /\ orders'[o].key = k
      /\ \A x \in Oid \ {o} : (Opening(x)' <=> Opening(x)) /\ orders'[x] = orders[x]
      /\ \A p \in Oid : (Held(p)' <=> Held(p)) /\ Out(p)' = Out(p)
  BY <1>0, <1>1, Types DEF Opening, Held, Active, NewOrder, Out
<1>5. Begins(k)
  <2>1. Phase(k) = "flat" /\ DbSize(k) = 0 /\ Lots(k) = 0
    BY <1>0, <1>2, LedgerRows DEF RowsSay, Lots
  <2>2. Phase(k)' = "opening" /\ DbSize(k)' = 0 /\ Lots(k)' = 0
    <3>1. RowsSay(k)'
      BY LedgerRowsNext
    <3> QED
      BY <1>1, <1>3, <1>4, <3>1 DEF RowsSay, Lots
  <2>3. size[k] = 0
    BY <1>0, <1>2 DEF Exposure, Covered
  <2> QED
    BY <1>1, <2>1, <2>2, <2>3 DEF Begins
<1>6. ASSUME NEW l \in Key \ {k}
      PROVE  Still(l)
  <2>1. SameBook(l)
    BY <1>0, <1>1, <1>3, <1>4, SameKey
  <2>2. gone'[l] = gone[l]
    BY <1>0, <1>1 DEF SettlementInv, ReservationInv, TypeOK
  <2> QED
    BY <1>1, <2>1, <2>2 DEF Still, SameSize
<1> QED
  BY <1>5, <1>6 DEF OneMoves, Moves

LEMMA SubmitCloseMoves ==
    ASSUME LedgerInv, ExposureInv', NEW o \in Oid, NEW p \in Oid,
           NEW urgent \in BOOLEAN, NEW manual \in BOOLEAN, SubmitClose(o, p, urgent, manual)
    PROVE  OneMoves
<1>0. ExposureInv /\ SettlementInv /\ Exposure
  BY DEF LedgerInv, ExposureInv
<1>1. PICK stage : orders' = [orders EXCEPT ![o] = NewOrder("close", pos[p].key, p, pos[p].qty, stage)]
  BY DEF SubmitClose, InsertOrder
<1>2. /\ orders[o].status = "none" /\ UNCHANGED <<size, exch, gone>>
      /\ pos' = [pos EXCEPT ![p] = [@ EXCEPT !.closing = o, !.attempts = pos[p].attempts + 1]]
      /\ Held(p) /\ CloseFree(p)
  BY DEF SubmitClose, InsertOrder, Reserve, MayRequestClose, Held, world
<1>3. pos[p].closing = None /\ pos[p].key \in Key
  BY <1>0, <1>2, Closes, Types DEF CloseFree, Exposure, Linked
<1>4. exch[o].cum = 0 /\ \A y \in Oid : pos[y].closing # o
  BY <1>0, <1>2, NewExecutedNothing
<1>5. /\ ~Opening(o) /\ ~Opening(o)' /\ orders'[o].key = pos[p].key
      /\ \A x \in Oid \ {o} : (Opening(x)' <=> Opening(x)) /\ orders'[x] = orders[x]
  BY <1>0, <1>1, <1>2, Types DEF Opening, Active, NewOrder
<1>6. /\ pos'[p].closing = o
      /\ \A y \in Oid : /\ pos'[y].st = pos[y].st /\ pos'[y].key = pos[y].key
                        /\ pos'[y].qty = pos[y].qty
                        /\ y # p => pos'[y].closing = pos[y].closing
                        /\ Held(y)' <=> Held(y)
  BY <1>0, <1>2, Types DEF Held, PosRow
<1>7. \A y \in Oid : Out(y)' = Out(y)
  BY <1>0, <1>2, <1>3, <1>4, <1>6, Types DEF Out
<1>8. PICK k \in Key : k = pos[p].key
  BY <1>3
<1>9. Begins(k)
  <2>1. Phase(k) = "held" /\ DbSize(k) = pos[p].qty /\ Lots(k) = Out(p)
    BY <1>0, <1>2, <1>3, <1>8, LedgerRows DEF RowsSay, Lots
  <2>2. Phase(k)' = "closing" /\ DbSize(k)' = pos[p].qty /\ Lots(k)' = Out(p)
    <3>1. RowsSay(k)' /\ Held(p)' /\ pos'[p].key = k
      BY <1>2, <1>6, <1>8, LedgerRowsNext
    <3>2. None \notin Oid
      BY <1>0, Types
    <3> QED
      BY <1>6, <1>7, <3>1, <3>2 DEF RowsSay, Lots
  <2> QED
    BY <1>2, <2>1, <2>2 DEF Begins, SameSize
<1>10. ASSUME NEW l \in Key \ {k}
       PROVE  Still(l)
  <2>1. \A y \in Oid : Held(y) /\ pos[y].key = l => (pos'[y].closing = None <=> pos[y].closing = None)
    BY <1>6, <1>8
  <2>2. SameBook(l)
    BY <1>0, <1>2, <1>5, <1>6, <1>7, <2>1, SameKey
  <2> QED
    BY <1>2, <2>2 DEF Still, SameSize
<1> QED
  BY <1>9, <1>10 DEF OneMoves, Moves

(* A position nobody is closing leaves the book. *)
LEMMA WrittenOff ==
    ASSUME LedgerInv, ExposureInv', NEW p \in Oid, Held(p), pos[p].closing = None,
           size[pos[p].key] = 0, UNCHANGED <<orders, size, exch, gone>>,
           pos' = [pos EXCEPT ![p] = [@ EXCEPT !.st = "closed", !.closing = None]]
    PROVE  OneMoves
<1>0. ExposureInv /\ SettlementInv /\ Exposure
  BY DEF LedgerInv, ExposureInv
<1>1. PICK k \in Key : k = pos[p].key
  BY <1>0 DEF Exposure, Linked
<1>2. /\ ~Held(p)' /\ \A y \in Oid \ {p} : pos'[y] = pos[y] /\ (Held(y)' <=> Held(y))
      /\ \A y \in Oid \ {p} : Out(y)' = Out(y)
      /\ \A x \in Oid : Opening(x)' <=> Opening(x)
  BY <1>0, Types DEF Held, PosRow, Out, Opening, Active
<1>3. WritesOff(k)
  <2>1. Phase(k) = "held" /\ Lots(k) = 0
    BY <1>0, <1>1, LedgerRows DEF RowsSay, Lots, Out
  <2>2. \A x \in Oid : ~(Opening(x)' /\ orders'[x].key = k) /\ ~(Held(x)' /\ pos'[x].key = k)
    BY <1>0, <1>1, <1>2 DEF Exposure, Alone
  <2>3. Phase(k)' = "flat" /\ DbSize(k)' = 0 /\ Lots(k)' = 0
    BY <2>2, LedgerRowsNext DEF RowsSay, Lots
  <2> QED
    BY <1>1, <2>1, <2>3 DEF WritesOff, SameSize
<1>4. ASSUME NEW l \in Key \ {k}
      PROVE  Still(l)
  <2>1. SameBook(l)
    BY <1>0, <1>1, <1>2, SameKey
  <2> QED
    BY <2>1 DEF Still, SameSize
<1> QED
  BY <1>3, <1>4 DEF OneMoves, Moves

LEMMA RequestMoves ==
    ASSUME LedgerInv, ExposureInv', NEW p \in Oid, RequestClose(p) \/ SettleExpired(p)
    PROVE  OneMoves
<1>0. ExposureInv /\ SettlementInv /\ pos \in [Oid -> PosRow]
  BY Types DEF LedgerInv, ExposureInv
<1>1. ASSUME CloseFree(p)
      PROVE  pos[p].closing = None
  BY <1>0, <1>1, Closes, Types DEF CloseFree
<1>2. CASE ExitBlocked(p)
  <2>1. \A y \in Oid : /\ pos'[y].st = pos[y].st /\ pos'[y].key = pos[y].key
                       /\ pos'[y].qty = pos[y].qty /\ pos'[y].closing = pos[y].closing
    BY <1>0, <1>1, <1>2 DEF ExitBlocked, MayRequestClose, PosRow
  <2>2. UNCHANGED <<orders, exch, size, gone>>
    BY <1>2 DEF ExitBlocked, world
  <2> QED
    BY <1>0, <2>1, <2>2, FrameMoves DEF SameSize
<1>3. ASSUME NEW urgent \in BOOLEAN, NEW manual \in BOOLEAN, CloseShort(p, urgent, manual)
      PROVE  OneMoves
  <2>1. UNCHANGED <<orders, exch, size, gone>> /\ Held(p) /\ pos[p].closing = None
    BY <1>1, <1>3 DEF CloseShort, world, MayRequestClose, Held
  <2>2. CASE manual /\ size[pos[p].key] = 0
    BY <1>3, <2>1, <2>2, WrittenOff DEF CloseShort
  <2>3. CASE ~(manual /\ size[pos[p].key] = 0)
    <3>1. pos' = [pos EXCEPT ![p] = [@ EXCEPT !.closing = None,
                     !.attempts = pos[p].attempts + (IF manual THEN 0 ELSE 1)]]
      BY <1>3, <2>3 DEF CloseShort
    <3>2. \A y \in Oid : /\ pos'[y].st = pos[y].st /\ pos'[y].key = pos[y].key
                         /\ pos'[y].qty = pos[y].qty /\ pos'[y].closing = pos[y].closing
      BY <1>0, <2>1, <3>1 DEF PosRow
    <3> QED
      BY <1>0, <2>1, <3>2, FrameMoves DEF SameSize
  <2> QED
    BY <2>2, <2>3
<1>4. CASE SettleExpired(p)
  BY <1>1, <1>4, WrittenOff DEF SettleExpired, world, Held
<1> QED
  BY <1>2, <1>3, <1>4, SubmitCloseMoves DEF RequestClose

(* The order of a key is over: what it executed is in the book. *)

LEMMA OpenEnds ==
    ASSUME LedgerInv, ExposureInv', NEW o \in Oid, Opening(o), ~Opening(o)',
           UNCHANGED <<size, exch, gone>>,
           \A x \in Oid \ {o} : Opening(x)' <=> Opening(x),
           \A x \in Oid : orders'[x].key = orders[x].key,
           \/ BookOpen(o, exch[o].cum) /\ exch[o].cum # 0
           \/ UNCHANGED pos /\ exch[o].cum = 0
    PROVE  OneMoves
<1>0. ExposureInv /\ SettlementInv /\ Exposure
  BY DEF LedgerInv, ExposureInv
<1>1. PICK k \in Key : k = orders[o].key
  BY <1>0 DEF Exposure, Linked
<1>2. /\ \A y \in Oid \ {o} : pos'[y] = pos[y]
      /\ ~Held(o)
      /\ Held(o)' => /\ pos'[o].key = k /\ pos'[o].qty = exch[o].cum
                     /\ pos'[o].closing = None /\ exch[o].cum # 0
      /\ ~Held(o)' => exch[o].cum = 0
  BY <1>0, <1>1, Closes, Types DEF BookOpen, Held
<1>3. \A y \in Oid \ {o} : (Held(y)' <=> Held(y)) /\ Out(y)' = Out(y)
  BY <1>2 DEF Held, Out
<1>4. Phase(k) = "opening" /\ DbSize(k) = 0 /\ Lots(k) = exch[o].cum
  BY <1>0, <1>1, LedgerRows DEF RowsSay, Lots
<1>5. RowsSay(k)'
  BY LedgerRowsNext
<1>6. CASE Held(o)'
  <2>1. Phase(k)' = "held" /\ DbSize(k)' = exch[o].cum /\ Lots(k)' = 0
    BY <1>2, <1>5, <1>6 DEF RowsSay, Lots, Out
  <2>2. Books(k)
    BY <1>2, <1>4, <1>6, <2>1 DEF Books, SameSize
  <2>3. ASSUME NEW l \in Key \ {k}
        PROVE  Still(l)
    BY <1>0, <1>1, <1>2, <1>3, SameKey DEF Still, SameSize
  <2> QED
    BY <2>2, <2>3 DEF OneMoves, Moves
<1>7. CASE ~Held(o)'
  <2>1. \A x \in Oid : ~(Opening(x)' /\ orders'[x].key = k) /\ ~(Held(x)' /\ pos'[x].key = k)
    BY <1>0, <1>1, <1>2, <1>3, <1>7 DEF Exposure, Alone
  <2>2. Phase(k)' = "flat" /\ DbSize(k)' = 0 /\ Lots(k)' = 0
    BY <1>5, <2>1 DEF RowsSay, Lots
  <2>3. Books(k)
    BY <1>2, <1>4, <1>7, <2>2 DEF Books, SameSize
  <2>4. ASSUME NEW l \in Key \ {k}
        PROVE  Still(l)
    BY <1>0, <1>1, <1>2, <1>3, <1>7, SameKey DEF Still, SameSize
  <2> QED
    BY <2>3, <2>4 DEF OneMoves, Moves
<1> QED
  BY <1>6, <1>7

LEMMA CloseEnds ==
    ASSUME LedgerInv, ExposureInv', NEW o \in Oid, Active(o), orders[o].kind = "close",
           UNCHANGED <<size, exch, gone>>,
           \A x \in Oid : orders'[x].key = orders[x].key /\ (Opening(x)' <=> Opening(x)),
           \/ BookClose(o, orders[o].pos, exch[o].cum)
           \/ exch[o].cum = 0 /\ pos' = [pos EXCEPT ![orders[o].pos].closing = None]
    PROVE  OneMoves
<1>0. ExposureInv /\ SettlementInv /\ Exposure /\ pos \in [Oid -> PosRow]
  BY Types DEF LedgerInv, ExposureInv
<1>1. PICK p \in Oid : p = orders[o].pos
  BY <1>0, Closes
<1>2. /\ Held(p) /\ pos[p].closing = o /\ o # None
      /\ exch[o].cum \in Nat /\ pos[p].qty \in Nat
  BY <1>0, <1>1, Closes, Types
<1>3. PICK k \in Key : k = pos[p].key
  BY <1>0, <1>2 DEF Exposure, Linked
<1>4. PICK n \in Nat : n = exch[o].cum
  BY <1>2
<1>5. Phase(k) = "closing" /\ DbSize(k) = pos[p].qty /\ Lots(k) = n
  BY <1>0, <1>2, <1>3, <1>4, LedgerRows DEF RowsSay, Lots, Out
<1>6. n <= pos[p].qty /\ pos[p].qty > 0
  <2>1. size[k] \in Nat /\ size[k] + n <= pos[p].qty
    BY <1>0, <1>2, <1>3, <1>4, Types DEF Exposure, Covered, Out
  <2>2. Sound(k)
    BY DEF LedgerInv
  <2> QED
    BY <1>2, <1>5, <2>1, <2>2 DEF Sound
<1>7. RowsSay(k)'
  BY LedgerRowsNext
<1>8. /\ \A y \in Oid \ {p} : pos'[y] = pos[y]
      /\ \/ /\ ~Held(p)' /\ n = pos[p].qty
         \/ /\ Held(p)' /\ pos'[p].key = k /\ pos'[p].closing = None
            /\ n < pos[p].qty /\ pos'[p].qty = pos[p].qty - n
  <2>1. CASE n < pos[p].qty
    <3>1. CASE pos' = [pos EXCEPT ![p].closing = None] /\ n = 0
      BY <1>0, <1>2, <1>3, <2>1, <3>1 DEF PosRow, Held
    <3>2. CASE pos' = [pos EXCEPT ![p] = [@ EXCEPT !.qty = pos[p].qty - n, !.closing = None]]
      BY <1>0, <1>2, <1>3, <2>1, <3>2 DEF PosRow, Held
    <3> QED
      BY <1>1, <1>4, <2>1, <3>1, <3>2 DEF BookClose
  <2>2. CASE n = pos[p].qty
    <3>1. pos' = [pos EXCEPT ![p] = [@ EXCEPT !.st = "closed", !.closing = None, !.closedBy = o]]
      BY <1>1, <1>4, <1>6, <2>2 DEF BookClose
    <3> QED
      BY <1>0, <2>2, <3>1 DEF PosRow, Held
  <2> QED
    BY <1>2, <1>6, <2>1, <2>2
<1>9. \A y \in Oid \ {p} : (Held(y)' <=> Held(y)) /\ Out(y)' = Out(y)
  BY <1>8 DEF Held, Out
<1>10. Books(k)
  <2>1. CASE Held(p)'
    <3>1. Phase(k)' = "held" /\ DbSize(k)' = pos[p].qty - n /\ Lots(k)' = 0
      BY <1>7, <1>8, <2>1 DEF RowsSay, Lots, Out
    <3> QED
      BY <1>2, <1>5, <1>6, <1>8, <2>1, <3>1 DEF Books, SameSize
  <2>2. CASE ~Held(p)'
    <3>1. \A x \in Oid : ~(Opening(x)' /\ orders'[x].key = k) /\ ~(Held(x)' /\ pos'[x].key = k)
      BY <1>0, <1>2, <1>3, <1>8, <1>9, <2>2 DEF Exposure, Alone
    <3>2. Phase(k)' = "flat" /\ DbSize(k)' = 0 /\ Lots(k)' = 0
      BY <1>7, <3>1 DEF RowsSay, Lots
    <3> QED
      BY <1>2, <1>5, <1>6, <1>8, <2>2, <3>2 DEF Books, SameSize
  <2> QED
    BY <2>1, <2>2
<1>11. ASSUME NEW l \in Key \ {k}
       PROVE  Still(l)
  <2>1. SameBook(l)
    BY <1>0, <1>3, <1>8, <1>9, SameKey
  <2> QED
    BY <2>1 DEF Still, SameSize
<1> QED
  BY <1>10, <1>11 DEF OneMoves, Moves

LEMMA DropMoves ==
    ASSUME LedgerInv, ExposureInv', NEW o \in Oid, DropOrder(o), Active(o),
           exch[o].st = "none", UNCHANGED <<size, exch, gone>>
    PROVE  OneMoves
<1>0. ExposureInv /\ SettlementInv
  BY DEF LedgerInv, ExposureInv
<1>1. exch[o].cum = 0
  BY <1>0 DEF SettlementInv, NothingBeforePlacement
<1>2. /\ ~Opening(o)'
      /\ \A x \in Oid \ {o} : Opening(x)' <=> Opening(x)
      /\ \A x \in Oid : orders'[x].key = orders[x].key
  BY <1>0, Types DEF DropOrder, Opening, Active, OrderRow
<1>3. CASE orders[o].kind = "open"
  <2>1. Opening(o) /\ UNCHANGED pos
    BY <1>0, <1>3 DEF Opening, DropOrder, SettlementInv, ReservationInv, OpensAreUnlinked
  <2> QED
    BY <1>1, <1>2, <2>1, OpenEnds
<1>4. CASE orders[o].kind = "close"
  <2>1. pos' = [pos EXCEPT ![orders[o].pos].closing = None]
    BY <1>0, <1>4, Closes, Types DEF DropOrder
  <2>2. \A x \in Oid : Opening(x)' <=> Opening(x)
    BY <1>2, <1>4 DEF Opening
  <2> QED
    BY <1>1, <1>2, <1>4, <2>1, <2>2, CloseEnds
<1> QED
  BY <1>0, <1>3, <1>4, Types

LEMMA FinalizeMoves ==
    ASSUME LedgerInv, ExposureInv', NEW o \in Oid, Finalize(o)
    PROVE  OneMoves
<1>0. ExposureInv /\ SettlementInv
  BY DEF LedgerInv, ExposureInv
<1>1. Active(o) /\ UNCHANGED <<size, exch, gone>>
  BY <1>0 DEF Finalize, SettlementInv, ReservationInv, WorksOnActive, world
<1>2. /\ ~Active(o)'
      /\ \A x \in Oid \ {o} : Opening(x)' <=> Opening(x)
      /\ \A x \in Oid : orders'[x].key = orders[x].key
  BY <1>0, Types DEF Finalize, Opening, Active, OrderRow
<1>3. CASE orders[o].kind = "close"
  <2>1. orders[o].pos # None /\ pos[orders[o].pos].st = "open"
    BY <1>0, <1>1, <1>3, Closes, Types DEF Held
  <2>2. \A x \in Oid : Opening(x)' <=> Opening(x)
    BY <1>2, <1>3 DEF Opening
  <2>3. \/ BookClose(o, orders[o].pos, exch[o].cum)
        \/ exch[o].cum = 0 /\ pos' = [pos EXCEPT ![orders[o].pos].closing = None]
    BY <1>3, <2>1 DEF Finalize
  <2> QED
    BY <1>1, <1>2, <1>3, <2>2, <2>3, CloseEnds
<1>4. CASE orders[o].kind = "open"
  <2>1. Opening(o) /\ ~Opening(o)'
    BY <1>1, <1>2, <1>4 DEF Opening
  <2>2. \/ BookOpen(o, exch[o].cum) /\ exch[o].cum # 0
        \/ UNCHANGED pos /\ exch[o].cum = 0
    BY <1>0, <1>4, Types DEF Finalize
  <2> QED
    BY <1>1, <1>2, <2>1, <2>2, OpenEnds
<1> QED
  BY <1>0, <1>3, <1>4, Types

LEMMA FillMoves ==
    ASSUME LedgerInv, ExposureInv', NEW o \in Oid, NEW n \in 1..MaxQty, Fill(o, n)
    PROVE  OneMoves
<1>0. ExposureInv /\ SettlementInv /\ Exposure
  BY DEF LedgerInv, ExposureInv
<1>1. Active(o) /\ UNCHANGED <<orders, pos, gone>>
  BY <1>0, TradingIsActive DEF Fill, db
<1>2. n \in Nat
  BY OrderExecAssumption DEF OrderExecAssumption
<1>3. /\ \A x \in Oid : Opening(x)' <=> Opening(x)
      /\ \A y \in Oid : Held(y)' <=> Held(y)
  BY <1>1 DEF Opening, Held, Active
<1>4. /\ exch'[o].cum = exch[o].cum + n
      /\ \A x \in Oid \ {o} : exch'[x] = exch[x]
  BY <1>0, Types DEF Fill, ExchRow
<1>5. CASE orders[o].kind = "open"
  <2>1. PICK k \in Key : k = orders[o].key
    BY <1>0, <1>1, <1>5 DEF Opening, Exposure, Linked
  <2>2. size' = [size EXCEPT ![k] = size[k] + n] /\ Opening(o)
    BY <1>1, <1>5, <2>1 DEF Fill, Opening
  <2>3. size'[k] = size[k] + n /\ \A l \in Key \ {k} : size'[l] = size[l]
    BY <1>0, <2>1, <2>2, Types
  <2>4. \A y \in Oid : Out(y)' = Out(y)
    <3>1. \A y \in Oid : pos[y].closing # o
      BY <1>0, <1>5, Closes, Types
    <3> QED
      BY <1>0, <1>1, <1>4, <3>1, Types DEF Out
  <2>5. Executes(k, n)
    <3>1. RowsSay(k) /\ RowsSay(k)'
      BY <1>0, LedgerRows, LedgerRowsNext
    <3>2. Phase(k) = "opening" /\ DbSize(k) = 0 /\ Lots(k) = exch[o].cum
      BY <2>1, <2>2, <3>1 DEF RowsSay, Lots
    <3>3. Phase(k)' = "opening" /\ DbSize(k)' = 0 /\ Lots(k)' = exch'[o].cum
      BY <1>1, <1>3, <2>1, <2>2, <3>1 DEF RowsSay, Lots
    <3> QED
      BY <1>1, <1>4, <2>3, <3>2, <3>3 DEF Executes
  <2>6. ASSUME NEW l \in Key \ {k}
        PROVE  Still(l)
    <3>1. SameBook(l)
      BY <1>0, <1>1, <1>3, <1>4, <2>1, <2>4, SameKey
    <3> QED
      BY <1>1, <2>3, <3>1 DEF Still, SameSize
  <2> QED
    BY <2>5, <2>6 DEF OneMoves, Moves
<1>6. CASE orders[o].kind = "close"
  <2>1. PICK p \in Oid : p = orders[o].pos
    BY <1>0, <1>1, <1>6, Closes
  <2>2. Held(p) /\ pos[p].closing = o /\ o # None
    BY <1>0, <1>1, <1>6, <2>1, Closes, Types
  <2>3. PICK k \in Key : k = pos[p].key /\ k = orders[o].key
    BY <1>0, <2>2, Types DEF Exposure, Linked
  <2>4. size' = [size EXCEPT ![k] = size[k] - n] /\ n <= size[k]
    BY <1>6, <2>3 DEF Fill
  <2>5. size'[k] = size[k] - n /\ \A l \in Key \ {k} : size'[l] = size[l]
    BY <1>0, <2>3, <2>4, Types
  <2>6. Out(p)' = Out(p) + n /\ \A y \in Oid \ {p} : Out(y)' = Out(y)
    <3>1. \A y \in Oid \ {p} : pos[y].closing # o
      BY <1>0, <2>1, Closes, Types
    <3> QED
      BY <1>0, <1>1, <1>4, <2>2, <3>1, Types DEF Out
  <2>7. Executes(k, n)
    <3>1. RowsSay(k) /\ RowsSay(k)'
      BY <1>0, LedgerRows, LedgerRowsNext
    <3>2. Phase(k) = "closing" /\ DbSize(k) = pos[p].qty /\ Lots(k) = Out(p)
      BY <2>2, <2>3, <3>1 DEF RowsSay, Lots
    <3>3. Phase(k)' = "closing" /\ DbSize(k)' = pos[p].qty /\ Lots(k)' = Out(p)'
      BY <1>1, <1>3, <2>2, <2>3, <3>1 DEF RowsSay, Lots
    <3>4. Out(p) + n <= pos[p].qty
      <4>1. Out(p) \in Nat /\ size[k] \in Nat /\ pos[p].qty \in Nat
        BY <1>0, Types DEF Out
      <4>2. size[k] + Out(p) <= pos[p].qty
        BY <1>0, <2>2, <2>3 DEF Exposure, Covered
      <4> QED
        BY <1>2, <2>4, <4>1, <4>2
    <3> QED
      BY <1>1, <2>4, <2>5, <2>6, <3>2, <3>3, <3>4 DEF Executes
  <2>8. ASSUME NEW l \in Key \ {k}
        PROVE  Still(l)
    <3>1. \A x \in Oid : Opening(x) => x # o
      BY <1>6 DEF Opening
    <3>2. SameBook(l)
      BY <1>0, <1>1, <1>3, <1>4, <2>3, <2>6, <3>1, SameKey
    <3> QED
      BY <1>1, <2>5, <3>2 DEF Still, SameSize
  <2> QED
    BY <2>7, <2>8 DEF OneMoves, Moves
<1> QED
  BY <1>0, <1>5, <1>6, Types

LEMMA FinishMoves ==
    ASSUME LedgerInv, ExposureInv', NEW o \in Oid, Poll(o) \/ FinishStep(o)
    PROVE  OneMoves
<1>0. ExposureInv /\ SettlementInv
  BY DEF LedgerInv, ExposureInv
<1>1. CASE Finalize(o)
  BY <1>1, FinalizeMoves
<1>2. CASE (RecordPlace(o) \/ RetireAbsent(o)) /\ DropOrder(o)
  <2>1. Active(o) /\ UNCHANGED <<size, exch, gone>>
    BY <1>0, <1>2 DEF RecordPlace, RetireAbsent, world, SettlementInv, ReservationInv, WorksOnActive
  <2>2. CASE exch[o].st = "none"
    BY <1>2, <2>1, <2>2, DropMoves
  <2>3. CASE exch[o].st # "none"
    <3>1. RecordPlace(o) /\ ans # "rejected"
      BY <1>0, <1>2, <2>3 DEF RecordPlace, RetireAbsent, SettlementInv, AnswerStillHolds
    <3>2. orders'[o].status = "active"
      BY <1>0, <2>1, <3>1, Types DEF RecordPlace, Active, OrderRow
    <3>3. orders'[o].status = "error"
      BY <1>0, <1>2, Types DEF DropOrder, OrderRow
    <3> QED
      BY <3>2, <3>3
  <2> QED
    BY <2>2, <2>3
<1>3. CASE \/ Poll(o) \/ Place(o) \/ (ActOnAnswer(o) /\ ~Finalize(o))
           \/ ((RecordPlace(o) \/ RetireAbsent(o)) /\ ~DropOrder(o))
  <2>1. SameRows /\ SameFills /\ UNCHANGED <<pos, size>>
    BY <1>0, <1>3, LoopRows
  <2>2. UNCHANGED gone
    BY <1>3 DEF Poll, PollUnreachable, PollAbsent, PollSeen, Place, ActOnAnswer, HoldFill,
                CancelAgain, GiveUp, Retreat, Chase, StillWaiting, RecordPlace,
                RetireAbsent, world
  <2> QED
    BY <1>0, <2>1, <2>2, FrameMoves DEF SameRows, SameFills, SameSize
<1> QED
  BY <1>1, <1>2, <1>3 DEF FinishStep, ActOnAnswer

LEMMA ExchangeMoves ==
    ASSUME LedgerInv, ExposureInv', Exchange
    PROVE  OneMoves
<1>0. /\ ExposureInv /\ SettlementInv /\ gone \in [Key -> BOOLEAN]
      /\ orders \in [Oid -> OrderRow] /\ exch \in [Oid -> ExchRow] /\ size \in [Key -> Nat]
  BY Types DEF LedgerInv, ExposureInv, SettlementInv, ReservationInv, TypeOK
<1>1. CASE \E o \in Oid, n \in 1..MaxQty : Fill(o, n)
  BY <1>1, FillMoves
<1>2. CASE ~\E o \in Oid, n \in 1..MaxQty : Fill(o, n)
  <2>1. UNCHANGED pos
    BY <1>2 DEF Exchange, Arrive, Lose, Kill, Elapse, Expire, LeaveExchange, db
  <2>2. SameRows
    <3>1. ASSUME NEW o \in Oid, Elapse(o)
          PROVE  SameRows
      BY <1>0, <3>1 DEF Elapse, SameRows, OrderRow
    <3>2. CASE UNCHANGED orders
      BY <3>2 DEF SameRows
    <3> QED
      BY <1>2, <3>1, <3>2 DEF Exchange, Arrive, Lose, Kill, Expire, LeaveExchange, db
  <2>3. SameFills
    <3>1. ASSUME NEW o \in Oid, Arrive(o) \/ Lose(o) \/ Kill(o)
          PROVE  SameFills
      BY <1>0, <3>1 DEF Arrive, Lose, Kill, SameFills, ExchRow
    <3>2. ASSUME NEW k, NEW which, EndOrders(k, which)
          PROVE  SameFills
      BY <1>0, <3>2 DEF EndOrders, SameFills, ExchRow
    <3>3. CASE \E o \in Oid : Elapse(o)
      BY <3>3 DEF Elapse, world, SameFills
    <3>4. CASE \E k \in Key : Expire(k) \/ LeaveExchange(k)
      BY <3>2, <3>4 DEF Expire, LeaveExchange
    <3> QED
      BY <1>2, <3>1, <3>3, <3>4 DEF Exchange
  <2>4. \A k \in Key : SameSize(k) \/ gone'[k]
    <3>1. ASSUME NEW l \in Key, LeaveExchange(l)
          PROVE  \A k \in Key : SameSize(k) \/ gone'[k]
      BY <1>0, <3>1 DEF LeaveExchange, SameSize
    <3>2. CASE UNCHANGED <<size, gone>>
      BY <3>2 DEF SameSize
    <3> QED
      BY <1>2, <3>1, <3>2 DEF Exchange, Arrive, Lose, Kill, Elapse, Expire, world
  <2> QED
    BY <1>0, <2>1, <2>2, <2>3, <2>4, FrameMoves DEF SameRows, SameFills
<1> QED
  BY <1>1, <1>2

LEMMA OthersMove ==
    ASSUME LedgerInv, ExposureInv', Reconcile \/ Crash \/ Operator \/ UNCHANGED vars
    PROVE  OneMoves
<1>0. ExposureInv /\ SettlementInv
  BY DEF LedgerInv, ExposureInv
<1>1. UNCHANGED <<orders, exch, size, gone>>
  BY DEF Reconcile, Crash, Operator, Unhalt, ResetCloseAttempts, db, world, vars
<1>2. \A x \in Oid : /\ pos'[x].st = pos[x].st /\ pos'[x].key = pos[x].key
                     /\ pos'[x].qty = pos[x].qty /\ pos'[x].closing = pos[x].closing
  <2>1. CASE ResetCloseAttempts
    BY <1>0, <2>1, Types DEF ResetCloseAttempts, PosRow
  <2>2. CASE UNCHANGED pos
    BY <2>2
  <2> QED
    BY <2>1, <2>2 DEF Reconcile, Crash, Operator, Unhalt, db, vars
<1> QED
  BY <1>0, <1>1, <1>2, FrameMoves DEF SameSize

LEMMA StepMoves == LedgerInv /\ [Next]_vars => OneMoves /\ LedgerInv'
<1> SUFFICES ASSUME LedgerInv, [Next]_vars PROVE OneMoves /\ LedgerInv'
  OBVIOUS
<1>1. ExposureInv'
  BY StepExposure DEF LedgerInv
<1>2. OneMoves
  BY <1>1, SubmitOpenMoves, RequestMoves, FinishMoves, ExchangeMoves, OthersMove
  DEF Next, LoopStep
<1> QED
  BY <1>1, <1>2, MovesSound

LEMMA InitLedger == Init => LedgerInv
<1> SUFFICES ASSUME Init PROVE LedgerInv
  OBVIOUS
<1>1. ExposureInv
  BY InitSettlement, InitExposure DEF ExposureInv
<1>2. ASSUME NEW k \in Key
      PROVE  Sound(k)
  <2>1. \A x \in Oid : ~Opening(x) /\ ~Held(x)
    BY DEF Init, Opening, Active, Held, NoOrder, NoPosition
  <2>2. Phase(k) = "flat" /\ DbSize(k) = 0 /\ Lots(k) = 0
    BY <1>1, <2>1, LedgerRows DEF RowsSay, Lots
  <2>3. size[k] = 0
    BY DEF Init
  <2> QED
    BY <2>2, <2>3 DEF Sound
<1> QED
  BY <1>1, <1>2 DEF LedgerInv

LEMMA LedgerMatches == LedgerInv => BookMatchesExchange
<1> SUFFICES ASSUME LedgerInv, NEW k \in Key, ~gone[k]
             PROVE  size[k] + Executed(ActiveOn(k) \ InflightOpens(k))
                    = DbSize(k) + Executed(InflightOpens(k))
  BY DEF BookMatchesExchange
<1>0. ExposureInv /\ SettlementInv /\ Exposure
  BY DEF LedgerInv, ExposureInv
<1>1. /\ size[k] + (IF Phase(k) = "closing" THEN Lots(k) ELSE 0)
         = DbSize(k) + (IF Phase(k) = "opening" THEN Lots(k) ELSE 0)
      /\ Executed({}) = 0
  BY <1>0, ExecutedOf DEF LedgerInv, Sound
<1>2. CASE InflightOpens(k) # {}
  <2>1. PICK o \in Oid : Opening(o) /\ orders[o].key = k
    BY <1>2 DEF InflightOpens, ActiveOn, Opening
  <2>2. \A x \in ActiveOn(k) : x \in InflightOpens(k)
    <3> SUFFICES ASSUME NEW x \in ActiveOn(k), orders[x].kind # "open" PROVE FALSE
      BY DEF InflightOpens
    <3>1. x \in Oid /\ Active(x) /\ orders[x].key = k /\ orders[x].kind = "close"
      BY <1>0, Types DEF ActiveOn
    <3>2. /\ orders[x].pos \in Oid /\ Held(orders[x].pos) /\ pos[orders[x].pos].key = k
      BY <1>0, <3>1, Closes, Types DEF Exposure, Linked
    <3> QED
      BY <1>0, <2>1, <3>2 DEF Exposure, Alone
  <2>3. ActiveOn(k) \ InflightOpens(k) = {} /\ InflightOpens(k) = ActiveOn(k)
    BY <2>2 DEF InflightOpens
  <2>4. Phase(k) = "opening"
    BY <1>2 DEF Phase
  <2> QED
    BY <1>1, <2>3, <2>4 DEF Lots
<1>3. CASE InflightOpens(k) = {}
  <2>1. ActiveOn(k) \ InflightOpens(k) = ActiveOn(k)
    BY <1>3
  <2>2. Phase(k) # "closing" => Phase(k) \in {"flat", "held"} /\ Lots(k) = 0
    BY <1>0, <1>3, KeyFacts DEF Phase
  <2>3. Phase(k) # "opening"
    BY <1>3 DEF Phase
  <2>4. size[k] \in Nat /\ Lots(k) \in Nat
    BY <1>0, KeyFacts
  <2> QED
    BY <1>1, <1>3, <2>1, <2>2, <2>3, <2>4 DEF Lots
<1> QED
  BY <1>2, <1>3

(* The books and the exchange agree: unless a position left the exchange without the
   bot, what is short on a key is what the positions table says, with the open fills
   and without the close fills that are not booked yet, whatever was lost, delayed,
   retried or interrupted by a crash (submit, advance, _retire_absent, _finalize,
   _on_open_fill, _on_close_fill). *)
THEOREM LedgerHolds == Spec => []BookMatchesExchange
BY InitLedger, StepMoves, LedgerMatches, PTL DEF Spec

-----------------------------------------------------------------------------
(* The tables implement the ledger. *)

LEMMA InitImplements == Init => Ledger!Init
<1> SUFFICES ASSUME Init PROVE Ledger!Init
  OBVIOUS
<1>1. ExposureInv
  BY InitLedger DEF LedgerInv
<1>2. \A x \in Oid : ~Opening(x) /\ ~Held(x)
  BY DEF Init, Opening, Active, Held, NoOrder, NoPosition
<1>3. \A k \in Key : Phase(k) = "flat" /\ DbSize(k) = 0 /\ Executed(ActiveOn(k)) = 0
  BY <1>1, <1>2, LedgerRows DEF RowsSay
<1> QED
  BY <1>3 DEF Ledger!Init

LEMMA StillStutters ==
    ASSUME \A k \in Key : SameBook(k)
    PROVE  UNCHANGED Ledger!lvars
BY DEF SameBook, Lots, Ledger!lvars

LEMMA MovesImplement ==
    ASSUME ExposureInv, NEW k \in Key, Moves(k), \A l \in Key \ {k} : SameBook(l)
    PROVE  Ledger!Next
<1>1. CASE Begins(k)
  <2>1. Ledger!Begin(k)
    BY <1>1 DEF Begins, Lots, SameBook, Ledger!Begin
  <2> QED
    BY <2>1 DEF Ledger!Next
<1>2. CASE Books(k)
  <2>1. Ledger!Book(k)
    BY <1>2 DEF Books, Lots, SameBook, Ledger!Book
  <2> QED
    BY <2>1 DEF Ledger!Next
<1>3. CASE WritesOff(k)
  <2>1. Ledger!WriteOff(k)
    BY <1>3 DEF WritesOff, Lots, SameBook, Ledger!WriteOff
  <2> QED
    BY <2>1 DEF Ledger!Next
<1>4. ASSUME NEW n \in 1..MaxQty, Executes(k, n)
      PROVE  Ledger!Next
  <2>1. Ledger!Execute(k, n)
    BY <1>4 DEF Executes, Lots, SameBook, Ledger!Execute
  <2> QED
    BY <2>1 DEF Ledger!Next
<1> QED
  BY <1>1, <1>2, <1>3, <1>4 DEF Moves

(* The tables implement PositionLedger: a step of the bot, of the operator or of the
   exchange is one action of the ledger on one key, or changes nothing in it
   (services/execution.py and the booking in loop.py). *)
THEOREM LedgerImplemented == Spec => ImplementsLedger
<1>1. LedgerInv /\ [Next]_vars => [Ledger!Next]_(Ledger!lvars)
  <2> SUFFICES ASSUME LedgerInv, [Next]_vars PROVE Ledger!Next \/ UNCHANGED Ledger!lvars
    OBVIOUS
  <2>1. OneMoves /\ ExposureInv
    BY StepMoves DEF LedgerInv
  <2> QED
    BY <2>1, StillStutters, MovesImplement DEF OneMoves, Still
<1> QED
  BY <1>1, InitLedger, InitImplements, StepMoves, PTL DEF Spec, ImplementsLedger, Ledger!Spec
=============================================================================
