----------------------------- MODULE ExitsProofs -----------------------------
(***************************************************************************)
(* Proofs about Exits, for every number of positions, every limit, and     *)
(* every profit the quotes and the fills may show; and about two of the    *)
(* rules of Account.                                                       *)
(***************************************************************************)
EXTENDS Exits, Sums

LEMMA Constants ==
    /\ Pos \subseteq Nat /\ Advised \subseteq Pos /\ None \notin Nat /\ None \notin Reasons /\ None \notin Postures
    /\ OpenFor \in [Pos -> 0..(Life + RecordWait)]
    /\ Hold \in Nat /\ Hold > 0 /\ Life \in Nat /\ RecordWait \in Nat
    /\ MinuteTicks \in Nat /\ MinuteTicks > 0 /\ MaxWait \in Nat
    /\ Defer \in Nat /\ Defer > 0 /\ CloseMax \in Nat /\ CloseMax > 0
    /\ Tp2 \in Int /\ Sl \in Int /\ Epsilon \in Nat /\ RequireEndgame \in BOOLEAN
    /\ Written \subseteq Postures /\ StartEquity \in Nat /\ Marks \subseteq Int /\ Fills \subseteq Int
    /\ LockdownStale >= AdvisorStale /\ LockdownStale \in Nat /\ AdvisorStale \in Nat
    /\ Week \in Nat
BY ExitsAssumption, AccountAssumption DEF ExitsAssumption, AccountAssumption, MaxWait

-----------------------------------------------------------------------------
(* The inductive invariant. *)

RowSet == [st : Statuses, age : Nat, peak : Nat, attempts : 0..CloseMax, pnl : Int]

(* A pass works on open positions, one at a time; a booking is about an open
   position it has left behind; and what the loop copied of the account is the
   account. *)
PassInv ==
    /\ todo \subseteq Open
    /\ \A p \in Pos : order[p] # None => p \in Open
    /\ tx.pos # None => tx.pos \in Open /\ tx.pos \notin todo
    /\ pc = "idle" => todo = {} /\ mode = None
    /\ pc = "booking" /\ tx.via = "poll" => todo = {} /\ mode = None
    /\ due => todo = {}
    /\ copy = acct

(* With the clock at tick `at` of its minute and a timer that has run for `wait`
   ticks: `puts` passes that put an exit off took place in as many minutes, one
   of them this minute unless its pass is still `ahead`, and the first began
   inside its own. *)
Paced(puts, wait, at, ahead) ==
    puts * MinuteTicks <= wait + (MinuteTicks - 1 - at) + (IF ahead THEN 0 ELSE MinuteTicks)

(* A position is put off once a minute at most, and its timer counts the ticks
   of these minutes until it would put it off no longer. *)
TimerInv ==
    \A p \in Open :
        /\ deferred[p] = None => delay[p] = 0
        /\ deferred[p] # None /\ deferred[p] < MaxWait =>
              Paced(delay[p], deferred[p], second, due \/ p \in todo)

(* No peak is further behind than it may be, and no exit has waited too long. *)
LimitsInv == \A p \in Pos : lag[p] <= Epsilon /\ delay[p] <= Defer + 1

(* A key's breaker is armed exactly by a loss that was not a harvest. *)
ArmedByLosses ==
    acct.armed = {p \in Pos \ Open : row[p].pnl <= 0 /\ row[p].st # "closed_trail"}

Inv == TypeOK /\ PassInv /\ TimerInv /\ LimitsInv /\ ArmedByLosses /\ SilenceTightens

-----------------------------------------------------------------------------
(* Helpers. *)

LEMMA PostureType ==
    ASSUME NEW s \in Postures, NEW age \in Int
    PROVE  effective_posture(s, age) \in Postures
BY Constants DEF effective_posture, Postures

LEMMA SilentPosture ==
    ASSUME NEW s \in Postures, AdvisorStale > 0
    PROVE  effective_posture(s, Silence) = "tight"
<1>1. Silence > LockdownStale /\ Silence > AdvisorStale
  BY Constants DEF Silence
<1> QED
  BY <1>1 DEF effective_posture, Postures

LEMMA PostureNowType ==
    ASSUME TypeOK
    PROVE  /\ PostureNow \in Postures
           /\ AdvisorStale > 0 /\ heard = Silence => PostureNow = "tight"
<1>1. posture \in Postures /\ heard \in Int
  BY Constants DEF TypeOK, Never, Silence
<1>2. effective_posture(posture, heard) \in Postures
  BY <1>1, PostureType
<1>3. AdvisorStale > 0 /\ heard = Silence => effective_posture(posture, heard) = "tight"
  BY <1>1, SilentPosture
<1> QED
  BY <1>2, <1>3 DEF PostureNow, Postures

(* The row with the peak of this pass, and how far the peak is behind. *)
LEMMA PeakStep ==
    ASSUME TypeOK, LimitsInv, NEW p \in Pos, NEW pnl \in Marks
    PROVE  /\ update_peak_profit(p, pnl) \in RowSet
           /\ update_peak_profit(p, pnl).st = row[p].st
           /\ update_peak_profit(p, pnl).age = row[p].age
           /\ update_peak_profit(p, pnl).pnl = row[p].pnl
           /\ update_peak_profit(p, pnl).attempts = row[p].attempts
           /\ Overtakes(p, pnl, update_peak_profit(p, pnl)) \in Int
           /\ Overtakes(p, pnl, update_peak_profit(p, pnl)) <= Epsilon
<1> USE Constants
<1>1. row[p] \in RowSet /\ lag[p] \in Int /\ lag[p] <= Epsilon /\ pnl \in Int
  BY DEF TypeOK, LimitsInv, RowSet
<1>2. PeakAfter(p, pnl) \in Nat
  BY <1>1 DEF PeakAfter, RowSet
<1>3. /\ update_peak_profit(p, pnl) \in RowSet
      /\ update_peak_profit(p, pnl).st = row[p].st
      /\ update_peak_profit(p, pnl).age = row[p].age
      /\ update_peak_profit(p, pnl).pnl = row[p].pnl
      /\ update_peak_profit(p, pnl).attempts = row[p].attempts
      /\ update_peak_profit(p, pnl).peak = PeakAfter(p, pnl)
  <2> HIDE DEF PeakAfter
  <2> QED
    BY <1>1, <1>2 DEF update_peak_profit, RowSet
<1>4. Overtakes(p, pnl, update_peak_profit(p, pnl))
          = Greatest(row[p].peak + lag[p], pnl) - PeakAfter(p, pnl)
  BY <1>3 DEF Overtakes
<1>5. row[p].peak \in Nat
  BY <1>1 DEF RowSet
<1>6. /\ Greatest(row[p].peak + lag[p], pnl) - PeakAfter(p, pnl) \in Int
      /\ Greatest(row[p].peak + lag[p], pnl) - PeakAfter(p, pnl) <= Epsilon
  BY <1>1, <1>5 DEF Greatest, PeakAfter
<1> QED
  BY <1>3, <1>4, <1>6

(* How the count and the timer go together. *)
LEMMA PacedFirst ==
    ASSUME NEW at \in 0..(MinuteTicks - 1), NEW ahead \in BOOLEAN
    PROVE  Paced(0, 0, at, ahead)
BY Constants DEF Paced

LEMMA PacedLater ==
    ASSUME NEW puts \in Nat, NEW wait \in Nat, NEW at \in 0..(MinuteTicks - 1),
           NEW ahead \in BOOLEAN, NEW still \in BOOLEAN, still => ahead,
           Paced(puts, wait, at, ahead)
    PROVE  Paced(puts, wait, at, still)
<1>1. puts * MinuteTicks \in Nat
  BY Constants
<1> QED
  BY <1>1, Constants DEF Paced

LEMMA PacedTick ==
    ASSUME NEW puts \in Nat, NEW wait \in Nat, NEW at \in 0..(MinuteTicks - 1),
           NEW ahead \in BOOLEAN, NEW next, next = (at + 1) % MinuteTicks,
           Paced(puts, wait, at, ahead)
    PROVE  /\ next \in 0..(MinuteTicks - 1)
           /\ Paced(puts, wait + 1, next, ahead \/ next = 0)
<1>1. puts * MinuteTicks \in Nat
  BY Constants
<1>2. CASE at + 1 < MinuteTicks
  <2>1. next = at + 1
    BY <1>2, Constants
  <2> QED
    BY <1>1, <1>2, <2>1, Constants DEF Paced
<1>3. CASE at + 1 = MinuteTicks
  <2>1. next = 0
    BY <1>3, Constants
  <2> QED
    BY <1>1, <1>3, <2>1, Constants DEF Paced
<1> QED
  BY <1>2, <1>3, Constants

LEMMA PacedPut ==
    ASSUME NEW puts \in Nat, NEW wait \in Nat, NEW at \in 0..(MinuteTicks - 1),
           wait < MaxWait, Paced(puts, wait, at, TRUE)
    PROVE  Paced(puts + 1, wait, at, FALSE) /\ puts <= Defer
<1>1. puts * MinuteTicks \in Nat /\ (puts + 1) * MinuteTicks = puts * MinuteTicks + MinuteTicks
  BY Constants
<1>2. puts * MinuteTicks <= wait + (MinuteTicks - 1 - at)
  BY Constants DEF Paced
<1>3. puts * MinuteTicks < (Defer + 1) * MinuteTicks
  <2>1. (Defer + 1) * MinuteTicks = MaxWait + MinuteTicks
    BY Constants DEF MaxWait
  <2> QED
    BY <1>1, <1>2, <2>1, Constants
<1>4. puts <= Defer
  <2> SUFFICES ASSUME puts >= Defer + 1 PROVE FALSE
    BY Constants
  <2>1. puts * MinuteTicks >= (Defer + 1) * MinuteTicks
    BY Constants
  <2>2. (Defer + 1) * MinuteTicks \in Nat
    BY Constants
  <2> QED
    BY <1>1, <1>3, <2>1, <2>2
<1> QED
  BY <1>1, <1>2, <1>4, Constants DEF Paced

LEMMA InitInv == Init => Inv
<1> SUFFICES ASSUME Init PROVE Inv
  OBVIOUS
<1> USE Constants
<1>1. row \in [Pos -> RowSet] /\ \A p \in Pos : row[p].st = "open" /\ row[p].age <= Oldest
  BY DEF Init, NewRow, RowSet, Statuses, Oldest
<1>2. acct = [equity |-> StartEquity, armed |-> {}] /\ copy = acct
  BY DEF Init
<1>3. tx = [pos |-> None, reason |-> "sl", pnl |-> 0, via |-> "poll"]
  BY DEF Init, NoTx
<1>4. TypeOK
  <2>1. acct \in [equity : Int, armed : SUBSET Pos] /\ copy \in [equity : Int, armed : SUBSET Pos]
    BY <1>2
  <2>2. tx \in [pos : Pos \cup {None}, reason : Reasons, pnl : Int, via : {"poll", "fill", "settle"}]
    BY <1>3 DEF Reasons
  <2>3. /\ live \in BOOLEAN /\ due \in BOOLEAN /\ second \in 0..(MinuteTicks - 1) /\ pc = "idle" /\ tx.pos = None
        /\ posture \in Postures /\ heard \in Never..Silence
        /\ todo = {} /\ mode = None
    BY <1>3 DEF Init, Postures, Never, Silence
  <2>4. /\ order \in [Pos -> Reasons \cup {None}]
        /\ deferred \in [Pos -> 0..MaxWait \cup {None}]
        /\ lag \in [Pos -> Int] /\ delay \in [Pos -> Nat]
    BY DEF Init, Nobody
  <2> QED
    BY <1>1, <2>1, <2>2, <2>3, <2>4 DEF TypeOK, RowSet
<1>5. PassInv
  BY <1>3 DEF Init, PassInv, Nobody
<1>6. TimerInv /\ LimitsInv /\ SilenceTightens
  BY DEF Init, TimerInv, LimitsInv, SilenceTightens, Nobody, Open
<1>7. ArmedByLosses
  BY <1>1, <1>2 DEF ArmedByLosses, Open
<1> QED
  BY <1>4, <1>5, <1>6, <1>7 DEF Inv

-----------------------------------------------------------------------------
(* Steps that leave the book and the clocks alone: the pass moves on, stops,
   or starts or gives up a booking. *)

TxSet == [pos : Pos \cup {None}, reason : Reasons, pnl : Int, via : {"poll", "fill", "settle"}]

LEMMA PassMoves ==
    ASSUME Inv,
           UNCHANGED <<live, second, table, posture, heard, due, deferred, lag, delay>>,
           tx' \in TxSet, pc' \in {"idle", "pass", "booking"},
           pc' = "booking" <=> tx'.pos # None,
           todo' \subseteq todo, mode' \in {mode, None},
           mode' = None => todo' = {},
           tx'.pos # None => tx'.pos \in Open /\ tx'.pos \notin todo',
           pc' = "idle" => todo' = {} /\ mode' = None,
           pc' = "booking" /\ tx'.via = "poll" => todo' = {} /\ mode' = None,
           copy' = acct
    PROVE  Inv'
<1> USE Constants
<1>1. /\ UNCHANGED <<live, second, row, order, acct, posture, heard, due, deferred, lag, delay>>
      /\ Open' = Open
  BY DEF table, Open
<1>2. TypeOK'
  <2>1. copy' \in [equity : Int, armed : SUBSET Pos]
    BY DEF Inv, TypeOK
  <2>2. todo' \subseteq Pos /\ mode' \in Postures \cup {None}
    BY DEF Inv, TypeOK
  <2> QED
    BY <1>1, <2>1, <2>2 DEF Inv, TypeOK, TxSet
<1>3. PassInv'
  BY <1>1 DEF Inv, PassInv
<1>4. TimerInv'
  <2> SUFFICES ASSUME NEW p \in Open
               PROVE  /\ deferred[p] = None => delay[p] = 0
                      /\ deferred[p] # None /\ deferred[p] < MaxWait =>
                            Paced(delay[p], deferred[p], second, due \/ p \in todo')
    BY <1>1 DEF TimerInv
  <2>1. p \in Pos /\ delay[p] \in Nat /\ deferred[p] \in 0..MaxWait \cup {None}
        /\ second \in 0..(MinuteTicks - 1) /\ due \in BOOLEAN
    BY DEF Open, Inv, TypeOK
  <2>2. p \in todo' => p \in todo
    OBVIOUS
  <2>3. /\ deferred[p] = None => delay[p] = 0
        /\ deferred[p] # None /\ deferred[p] < MaxWait =>
              Paced(delay[p], deferred[p], second, due \/ p \in todo)
    BY DEF Inv, TimerInv
  <2>4. deferred[p] # None => deferred[p] \in Nat
    BY <2>1
  <2> QED
    BY <2>1, <2>2, <2>3, <2>4, PacedLater, Zenon
<1>5. LimitsInv' /\ ArmedByLosses'
  BY <1>1 DEF Inv, LimitsInv, ArmedByLosses
<1>6. SilenceTightens'
  BY <1>1 DEF Inv, SilenceTightens
<1> QED
  BY <1>2, <1>3, <1>4, <1>5, <1>6 DEF Inv

(* A position that is done with and starts no booking. *)
LEMMA DoneKeeps ==
    ASSUME Inv, NEW p \in Pos, Here(p), Done(p),
           UNCHANGED <<live, second, table, posture, heard, tx, pc, copy, due, deferred, lag, delay>>
    PROVE  Inv'
<1>1. pc = "pass" /\ tx.pos = None /\ mode # None
  BY DEF Here, Inv, TypeOK
<1>2. tx \in TxSet /\ copy = acct
  BY DEF Inv, TypeOK, TxSet, PassInv
<1>3. todo' \subseteq todo /\ mode' = mode /\ tx' = tx /\ pc' = pc /\ copy' = copy
  BY DEF Done
<1> QED
  BY <1>1, <1>2, <1>3, PassMoves

LEMMA SettleFromKeeps ==
    ASSUME Inv, NEW p \in Pos, NEW record \in BOOLEAN, SettleFrom(p, record)
    PROVE  Inv'
<1>1. Here(p) /\ Done(p) /\ p \in todo /\ mode # None /\ copy' = acct
  BY DEF SettleFrom, Here, Inv, TypeOK, PassInv
<1>2. PICK pnl \in Fills : tx' = [pos |-> p, reason |-> "expiry_settle", pnl |-> pnl, via |-> "settle"]
  BY DEF SettleFrom, BeginBooking
<1>3. /\ tx' \in TxSet /\ tx'.pos = p /\ tx'.via = "settle" /\ p # None
  BY <1>2, Constants DEF TxSet, Reasons
<1>4. pc' = "booking" /\ todo' = todo \ {p} /\ mode' = mode
  BY <1>1 DEF SettleFrom, BeginBooking, Done
<1>5. p \in Open
  BY <1>1 DEF Inv, PassInv
<1>6. UNCHANGED <<live, second, table, posture, heard, due, deferred, lag, delay>>
  BY DEF SettleFrom
<1> QED
  BY <1>1, <1>3, <1>4, <1>5, <1>6, PassMoves

LEMMA EndPassKeeps == ASSUME Inv, EndPass PROVE Inv'
<1>1. /\ tx \in TxSet /\ tx.pos = None /\ copy' = acct
      /\ pc' = "idle" /\ todo' = {} /\ mode' = None /\ todo' \subseteq todo /\ tx' = tx
  BY DEF EndPass, Inv, TypeOK, PassInv, TxSet
<1>2. UNCHANGED <<live, second, table, posture, heard, due, deferred, lag, delay>>
  BY DEF EndPass
<1> QED
  BY <1>1, <1>2, PassMoves

LEMMA PassRaisesKeeps == ASSUME Inv, PassRaises PROVE Inv'
<1>1. /\ tx \in TxSet /\ tx.pos = None /\ copy' = acct
      /\ pc' = "idle" /\ todo' = {} /\ mode' = None /\ todo' \subseteq todo /\ tx' = tx
  BY DEF PassRaises, Inv, TypeOK, TxSet
<1>2. UNCHANGED <<live, second, table, posture, heard, due, deferred, lag, delay>>
  BY DEF PassRaises
<1> QED
  BY <1>1, <1>2, PassMoves

LEMMA BookingRaisesKeeps == ASSUME Inv, BookingRaises PROVE Inv'
<1>1. tx' = NoTx /\ tx' \in TxSet /\ tx'.pos = None
  BY DEF BookingRaises, NoTx, TxSet, Reasons
<1>2. UNCHANGED <<live, second, table, posture, heard, due, deferred, lag, delay>>
  BY DEF BookingRaises
<1>3. copy' = acct
  BY DEF BookingRaises, Inv, PassInv
<1>4. CASE tx.via = "fill"
  <2>1. pc' = "pass" /\ todo' = todo /\ mode' = mode /\ (mode = None => todo = {})
    BY <1>4 DEF BookingRaises, Inv, TypeOK
  <2> QED
    BY <1>1, <1>2, <1>3, <2>1, PassMoves
<1>5. CASE tx.via # "fill"
  <2>1. pc' = "idle" /\ todo' = {} /\ mode' = None
    BY <1>5 DEF BookingRaises
  <2> QED
    BY <1>1, <1>2, <1>3, <2>1, PassMoves
<1> QED
  BY <1>4, <1>5

LEMMA PollFillsKeeps ==
    ASSUME Inv, NEW p \in Pos, PollFills(p)
    PROVE  Inv'
<1>1. /\ p \in Open /\ order[p] \in Reasons /\ p # None
      /\ todo = {} /\ mode = None /\ copy = acct
  BY Constants DEF PollFills, Inv, TypeOK, PassInv
<1>2. PICK pnl \in Fills : tx' = [pos |-> p, reason |-> order[p], pnl |-> pnl, via |-> "poll"]
  BY DEF PollFills, BeginBooking
<1>3. tx' \in TxSet /\ tx'.pos = p
  BY <1>1, <1>2, Constants DEF TxSet
<1>4. pc' = "booking" /\ todo' = todo /\ mode' = mode /\ copy' = copy
  BY DEF PollFills, BeginBooking
<1>5. UNCHANGED <<live, second, table, posture, heard, due, deferred, lag, delay>>
  BY DEF PollFills
<1> QED
  BY <1>1, <1>3, <1>4, <1>5, PassMoves

-----------------------------------------------------------------------------
(* The start of a pass, and what goes on around it. *)

LEMMA BeginPassKeeps == ASSUME Inv, BeginPass PROVE Inv'
<1> USE Constants
<1>1. /\ UNCHANGED <<live, second, row, order, acct, posture, heard, tx, lag, delay>>
      /\ Open' = Open /\ due' = FALSE /\ pc = "idle" /\ todo = {} /\ mode = None
      /\ tx.pos = None /\ Open \subseteq Pos
  BY DEF BeginPass, table, Open, Inv, TypeOK, PassInv
<1>2. CASE Open = {}
  <2>1. deferred' = Nobody /\ UNCHANGED <<pc, todo, mode, copy>>
    BY <1>2 DEF BeginPass
  <2>2. TypeOK'
    BY <1>1, <2>1 DEF Inv, TypeOK, Nobody
  <2>3. PassInv' /\ TimerInv' /\ LimitsInv' /\ ArmedByLosses' /\ SilenceTightens'
    BY <1>1, <1>2, <2>1 DEF Inv, PassInv, TimerInv, LimitsInv, ArmedByLosses, SilenceTightens
  <2> QED
    BY <2>2, <2>3 DEF Inv
<1>3. CASE Open # {}
  <2>1. /\ pc' = "pass" /\ todo' = Open /\ copy' = acct /\ mode' = PostureNow
        /\ deferred' = deferred
    BY <1>3 DEF BeginPass
  <2>2. PostureNow \in Postures /\ (AdvisorStale > 0 /\ heard = Silence => PostureNow = "tight")
    BY PostureNowType DEF Inv
  <2>3. TypeOK'
    BY <1>1, <2>1, <2>2 DEF Inv, TypeOK
  <2>4. PassInv'
    BY <1>1, <2>1 DEF Inv, PassInv
  <2>5. TimerInv'
    <3> SUFFICES ASSUME NEW p \in Open
                 PROVE  /\ deferred[p] = None => delay[p] = 0
                        /\ deferred[p] # None /\ deferred[p] < MaxWait =>
                              Paced(delay[p], deferred[p], second, FALSE \/ p \in Open)
      BY <1>1, <2>1 DEF TimerInv
    <3>1. due = TRUE
      BY DEF BeginPass, Inv, TypeOK
    <3>2. (due \/ p \in todo) = (FALSE \/ p \in Open)
      BY <3>1
    <3>3. /\ deferred[p] = None => delay[p] = 0
          /\ deferred[p] # None /\ deferred[p] < MaxWait =>
                Paced(delay[p], deferred[p], second, due \/ p \in todo)
      BY DEF Inv, TimerInv
    <3> QED
      BY <3>2, <3>3
  <2>6. LimitsInv' /\ ArmedByLosses'
    BY <1>1 DEF Inv, LimitsInv, ArmedByLosses
  <2>7. SilenceTightens'
    BY <1>1, <2>1, <2>2 DEF SilenceTightens
  <2> QED
    BY <2>3, <2>4, <2>5, <2>6, <2>7 DEF Inv
<1> QED
  BY <1>2, <1>3

LEMMA PollNoFillKeeps ==
    ASSUME Inv, NEW p \in Pos, PollNoFill(p)
    PROVE  Inv'
<1> USE Constants
<1>1. /\ UNCHANGED <<live, second, row, acct, posture, heard, tx, memory, lag, delay>>
      /\ order' = [order EXCEPT ![p] = None] /\ Open' = Open
  BY DEF PollNoFill, Open
<1>2. TypeOK' /\ PassInv'
  BY <1>1 DEF Inv, TypeOK, PassInv, memory
<1>3. TimerInv' /\ LimitsInv' /\ ArmedByLosses' /\ SilenceTightens'
  BY <1>1 DEF Inv, TimerInv, LimitsInv, ArmedByLosses, SilenceTightens, memory
<1> QED
  BY <1>2, <1>3 DEF Inv

LEMMA SetPostureKeeps ==
    ASSUME Inv, NEW s \in Written, SetPosture(s)
    PROVE  Inv'
<1> USE Constants
<1>1. /\ UNCHANGED <<live, second, row, order, acct, tx, memory, lag, delay>>
      /\ posture' = s /\ heard' = 0 /\ Open' = Open /\ s \in Postures
  BY DEF SetPosture, Open, table
<1>2. 0 \in Never..Silence /\ 0 # Silence
  BY DEF Never, Silence
<1>3. TypeOK' /\ PassInv'
  BY <1>1, <1>2 DEF Inv, TypeOK, PassInv, memory
<1>4. TimerInv' /\ LimitsInv' /\ ArmedByLosses' /\ SilenceTightens'
  BY <1>1, <1>2 DEF Inv, TimerInv, LimitsInv, ArmedByLosses, SilenceTightens, memory
<1> QED
  BY <1>3, <1>4 DEF Inv

LEMMA UnhaltKeeps == ASSUME Inv, Unhalt PROVE Inv'
<1> USE Constants
<1>1. /\ UNCHANGED <<live, second, order, acct, posture, heard, tx, memory, lag, delay>>
      /\ row' = [p \in Pos |-> IF p \in Open THEN [row[p] EXCEPT !.attempts = 0] ELSE row[p]]
  BY DEF Unhalt
<1>2. \A p \in Pos : /\ row'[p] \in RowSet /\ row'[p].st = row[p].st
                     /\ row'[p].age = row[p].age /\ row'[p].pnl = row[p].pnl
  <2> TAKE p \in Pos
  <2>1. row[p] \in RowSet
    BY DEF Inv, TypeOK, RowSet
  <2>2. row'[p] = row[p] \/ row'[p] = [row[p] EXCEPT !.attempts = 0]
    BY <1>1
  <2> QED
    BY <2>1, <2>2 DEF RowSet
<1>3. Open' = Open
  BY <1>2 DEF Open
<1>4. row' \in [Pos -> RowSet]
  BY <1>1, <1>2
<1>5. TypeOK'
  BY <1>1, <1>2, <1>4 DEF Inv, TypeOK, RowSet, memory
<1>6. PassInv' /\ TimerInv' /\ LimitsInv' /\ SilenceTightens'
  BY <1>1, <1>3 DEF Inv, PassInv, TimerInv, LimitsInv, SilenceTightens, memory
<1>7. ArmedByLosses'
  BY <1>1, <1>2, <1>3 DEF Inv, ArmedByLosses
<1> QED
  BY <1>5, <1>6, <1>7 DEF Inv

LEMMA CrashKeeps == ASSUME Inv, Crash PROVE Inv'
<1> USE Constants
<1>1. /\ UNCHANGED <<live, second, row, order, acct, posture, heard, lag>>
      /\ tx' = NoTx /\ tx' \in TxSet /\ tx'.pos = None
      /\ pc' = "idle" /\ todo' = {} /\ mode' = None /\ copy' = acct
      /\ due' = TRUE /\ deferred' = Nobody /\ delay' = [p \in Pos |-> 0] /\ Open' = Open
  BY DEF Crash, table, Open, NoTx, TxSet, Reasons
<1>2. TypeOK'
  BY <1>1 DEF Inv, TypeOK, TxSet, Nobody
<1>3. PassInv' /\ LimitsInv' /\ ArmedByLosses' /\ SilenceTightens'
  BY <1>1 DEF Inv, PassInv, LimitsInv, ArmedByLosses, SilenceTightens
<1>4. TimerInv'
  BY <1>1 DEF TimerInv, Nobody, Open
<1> QED
  BY <1>2, <1>3, <1>4 DEF Inv

LEMMA TickKeeps == ASSUME Inv, Tick PROVE Inv'
<1> USE Constants
<1>1. /\ UNCHANGED <<live, order, acct, posture, tx, pc, todo, mode, copy, lag, delay>>
      /\ pc = "idle" /\ todo = {} /\ mode = None
      /\ second' = (second + 1) % MinuteTicks /\ due' = (due \/ second' = 0)
      /\ row' = [p \in Pos |-> [row[p] EXCEPT !.age =
                   Grown(@, IF row[p].st = "open" THEN Oldest ELSE LongAgo)]]
      /\ deferred' = [p \in Pos |-> IF deferred[p] = None THEN None ELSE Grown(deferred[p], MaxWait)]
      /\ heard' = IF heard = Never THEN Never ELSE Grown(heard, Silence)
  BY DEF Tick, Inv, PassInv
<1>2. \A p \in Pos : /\ row'[p] \in RowSet /\ row'[p].st = row[p].st /\ row'[p].pnl = row[p].pnl
                     /\ row'[p].age <= IF row'[p].st = "open" THEN Oldest ELSE LongAgo
  <2> TAKE p \in Pos
  <2> DEFINE most == IF row[p].st = "open" THEN Oldest ELSE LongAgo
             older == Grown(row[p].age, most)
  <2>1. row[p] \in RowSet /\ most \in Nat /\ row[p].age <= most
    BY DEF Inv, TypeOK, RowSet, Oldest, LongAgo
  <2>2. older \in Nat /\ older <= most
    BY <2>1 DEF Grown, RowSet
  <2>3. row'[p] = [row[p] EXCEPT !.age = older]
    BY <1>1
  <2> HIDE DEF older
  <2>4. row'[p] \in RowSet /\ row'[p].st = row[p].st /\ row'[p].pnl = row[p].pnl /\ row'[p].age = older
    BY <2>1, <2>2, <2>3 DEF RowSet
  <2> QED
    BY <2>2, <2>4
<1>3. Open' = Open /\ row' \in [Pos -> RowSet]
  BY <1>1, <1>2 DEF Open
<1>4. heard' \in Never..Silence
  BY <1>1 DEF Inv, TypeOK, Grown, Never, Silence
<1>5. \A p \in Pos : /\ deferred[p] \in 0..MaxWait \cup {None}
                     /\ deferred'[p] = None <=> deferred[p] = None
                     /\ deferred[p] # None => /\ deferred'[p] \in 0..MaxWait
                                              /\ \/ deferred'[p] = deferred[p] + 1
                                                 \/ deferred'[p] = MaxWait
  <2> TAKE p \in Pos
  <2>1. deferred[p] \in 0..MaxWait \cup {None}
    BY DEF Inv, TypeOK
  <2>2. deferred'[p] = IF deferred[p] = None THEN None ELSE Grown(deferred[p], MaxWait)
    BY <1>1
  <2>3. deferred[p] # None => Grown(deferred[p], MaxWait) \in 0..MaxWait
                              /\ (Grown(deferred[p], MaxWait) = deferred[p] + 1
                                  \/ Grown(deferred[p], MaxWait) = MaxWait)
    BY <2>1 DEF Grown
  <2> HIDE DEF Grown
  <2>4. None \notin 0..MaxWait
    OBVIOUS
  <2> QED
    BY <2>1, <2>2, <2>3, <2>4
<1>6. TypeOK'
  <2>1. deferred' \in [Pos -> 0..MaxWait \cup {None}]
    BY <1>1, <1>5
  <2>2. second' \in 0..(MinuteTicks - 1) /\ due' \in BOOLEAN
    <3>1. second \in 0..(MinuteTicks - 1) /\ due \in BOOLEAN
      BY DEF Inv, TypeOK
    <3>2. second' \in 0..(MinuteTicks - 1)
      BY <1>1, <3>1
    <3> QED
      BY <1>1, <3>1, <3>2
  <2> QED
    BY <1>1, <1>2, <1>3, <1>4, <2>1, <2>2 DEF Inv, TypeOK, RowSet
<1>7. PassInv' /\ LimitsInv' /\ SilenceTightens'
  BY <1>1, <1>3 DEF Inv, PassInv, LimitsInv, SilenceTightens
<1>8. TimerInv'
  <2> SUFFICES ASSUME NEW p \in Open
               PROVE  /\ deferred'[p] = None => delay[p] = 0
                      /\ deferred'[p] # None /\ deferred'[p] < MaxWait =>
                            Paced(delay[p], deferred'[p], second', due' \/ p \in todo)
    BY <1>1, <1>3 DEF TimerInv
  <2>1. /\ p \in Pos /\ delay[p] \in Nat /\ second \in 0..(MinuteTicks - 1)
        /\ due \in BOOLEAN /\ p \notin todo
    BY <1>1 DEF Open, Inv, TypeOK
  <2>2. /\ deferred[p] = None => delay[p] = 0
        /\ deferred[p] # None /\ deferred[p] < MaxWait =>
              Paced(delay[p], deferred[p], second, due \/ p \in todo)
    BY DEF Inv, TimerInv
  <2>3. CASE deferred[p] = None
    BY <1>5, <2>1, <2>2, <2>3
  <2>4. CASE deferred[p] # None
    <3> SUFFICES ASSUME deferred'[p] < MaxWait
                 PROVE  Paced(delay[p], deferred'[p], second', due' \/ p \in todo)
      BY <1>5, <2>1, <2>4
    <3>1. deferred[p] \in Nat /\ deferred'[p] = deferred[p] + 1 /\ deferred[p] < MaxWait
      BY <1>5, <2>1, <2>4
    <3>2. Paced(delay[p], deferred[p], second, due)
      <4>1. (due \/ p \in todo) = due
        BY <2>1
      <4> QED
        BY <2>2, <2>4, <3>1, <4>1
    <3>3. Paced(delay[p], deferred[p] + 1, second', due \/ second' = 0)
      BY <1>1, <2>1, <3>1, <3>2, PacedTick
    <3>4. (due' \/ p \in todo) = (due \/ second' = 0)
      BY <1>1, <2>1
    <3> QED
      BY <3>1, <3>3, <3>4
  <2> QED
    BY <2>3, <2>4
<1>9. ArmedByLosses'
  BY <1>1, <1>2, <1>3 DEF Inv, ArmedByLosses
<1> QED
  BY <1>6, <1>7, <1>8, <1>9 DEF Inv

-----------------------------------------------------------------------------
(* A position with a mark. *)

LEMMA ExitReasonType ==
    ASSUME NEW p, NEW pnl
    PROVE  ExitReason(p, pnl) \in Reasons \cup {None}
BY DEF ExitReason, Reasons

(* What a request leaves of the row, the order and the booking. *)
LEMMA Requested ==
    ASSUME Inv, NEW p \in Open, NEW reason \in Reasons, NEW noted \in RowSet,
           pc = "pass", RequestClose(p, reason, noted)
    PROVE  /\ \E r \in RowSet : /\ row' = [row EXCEPT ![p] = r]
                              /\ r.st = noted.st /\ r.age = noted.age /\ r.pnl = noted.pnl
           /\ order' = order \/ order' = [order EXCEPT ![p] = reason]
           /\ \/ UNCHANGED <<tx, pc>>
              \/ pc' = "booking" /\ tx' \in TxSet /\ tx'.pos = p /\ tx'.via = "fill"
<1> USE Constants
<1>1. CASE Exhausted(noted) /\ row' = [row EXCEPT ![p] = noted] /\ UNCHANGED <<order, tx, pc>>
  BY <1>1
<1>2. CASE /\ ~Exhausted(noted)
           /\ row' = [row EXCEPT ![p] = set_closing(noted)]
           /\ \E answer \in Answers :
                /\ order' = IF answer = "refused" THEN order ELSE [order EXCEPT ![p] = reason]
                /\ IF answer = "fills" THEN \E pnl \in Fills : BeginBooking(p, reason, pnl, "fill")
                                       ELSE UNCHANGED <<tx, pc>>
  <2>1. /\ set_closing(noted) \in RowSet
        /\ set_closing(noted).st = noted.st /\ set_closing(noted).age = noted.age
        /\ set_closing(noted).pnl = noted.pnl
    <3>1. noted.attempts \in 0..CloseMax /\ noted.attempts < CloseMax
      BY <1>2 DEF Exhausted, RowSet
    <3>2. noted.attempts + 1 \in 0..CloseMax
      BY <3>1
    <3> QED
      BY <3>2 DEF set_closing, RowSet
  <2>2. order' = order \/ order' = [order EXCEPT ![p] = reason]
    BY <1>2
  <2>3. UNCHANGED <<tx, pc>> \/ \E pnl \in Fills : BeginBooking(p, reason, pnl, "fill")
    BY <1>2
  <2>4. ASSUME NEW pnl \in Fills, BeginBooking(p, reason, pnl, "fill")
        PROVE  pc' = "booking" /\ tx' \in TxSet /\ tx'.pos = p /\ tx'.via = "fill"
    <3>1. p \in Pos
      BY DEF Open
    <3> QED
      BY <2>4, <3>1 DEF BeginBooking, TxSet
  <2> QED
    BY <1>2, <2>1, <2>2, <2>3, <2>4
<1> QED
  BY <1>1, <1>2 DEF RequestClose

LEMMA QuotedBook ==
    ASSUME Inv, NEW p \in Pos, NEW pnl \in Marks, NEW wide \in BOOLEAN, Quoted(p, pnl, wide)
    PROVE  /\ p \in Open /\ p \in todo /\ pc = "pass" /\ order[p] = None
           /\ todo' = todo \ {p} /\ mode' = mode /\ ~due
           /\ UNCHANGED <<live, second, acct, posture, heard, copy, due>>
           /\ row' \in [Pos -> RowSet]
           /\ \A q \in Pos : /\ row'[q].st = row[q].st /\ row'[q].age = row[q].age
                             /\ row'[q].pnl = row[q].pnl
           /\ \/ order' = order
              \/ \E r \in Reasons : r = ExitReason(p, pnl) /\ order' = [order EXCEPT ![p] = r]
           /\ \/ UNCHANGED <<tx, pc>>
              \/ pc' = "booking" /\ tx' \in TxSet /\ tx'.pos = p /\ tx'.via = "fill"
           /\ lag' \in [Pos -> Int] /\ \A q \in Pos : lag'[q] <= Epsilon
<1> USE Constants
<1> DEFINE noted == update_peak_profit(p, pnl)
           reason == ExitReason(p, pnl)
<1>1. /\ noted \in RowSet /\ noted.st = row[p].st /\ noted.age = row[p].age /\ noted.pnl = row[p].pnl
      /\ Overtakes(p, pnl, noted) \in Int /\ Overtakes(p, pnl, noted) <= Epsilon
  BY PeakStep DEF Inv
<1>2. reason \in Reasons \cup {None}
  BY ExitReasonType
<1>3. /\ Here(p) /\ order[p] = None /\ Done(p)
      /\ lag' = [lag EXCEPT ![p] = Overtakes(p, pnl, noted)]
      /\ \/ row' = [row EXCEPT ![p] = noted] /\ UNCHANGED <<order, tx, pc>>
         \/ reason # None /\ RequestClose(p, reason, noted)
      /\ UNCHANGED <<live, second, acct, posture, heard, copy, due>>
  BY DEF Quoted
<1> HIDE DEF noted, reason
<1>4. /\ p \in Open /\ p \in todo /\ pc = "pass" /\ todo' = todo \ {p} /\ mode' = mode /\ ~due
  BY <1>3 DEF Here, Done, Inv, PassInv
<1>5. /\ \E r \in RowSet : /\ row' = [row EXCEPT ![p] = r]
                         /\ r.st = noted.st /\ r.age = noted.age /\ r.pnl = noted.pnl
      /\ order' = order \/ (reason # None /\ order' = [order EXCEPT ![p] = reason])
      /\ \/ UNCHANGED <<tx, pc>>
         \/ pc' = "booking" /\ tx' \in TxSet /\ tx'.pos = p /\ tx'.via = "fill"
  <2>1. CASE row' = [row EXCEPT ![p] = noted] /\ UNCHANGED <<order, tx, pc>>
    BY <1>1, <2>1
  <2>2. CASE reason # None /\ RequestClose(p, reason, noted)
    BY <1>1, <1>2, <1>4, <2>2, Requested
  <2> QED
    BY <1>3, <2>1, <2>2
<1>6. row \in [Pos -> RowSet]
  BY DEF Inv, TypeOK, RowSet
<1>7. /\ row' \in [Pos -> RowSet]
      /\ \A q \in Pos : /\ row'[q].st = row[q].st /\ row'[q].age = row[q].age
                        /\ row'[q].pnl = row[q].pnl
  BY <1>1, <1>5, <1>6
<1>8. lag' \in [Pos -> Int] /\ \A q \in Pos : lag'[q] <= Epsilon
  BY <1>1, <1>3 DEF Inv, TypeOK, LimitsInv
<1>9. order' = order \/ \E r \in Reasons : r = ExitReason(p, pnl) /\ order' = [order EXCEPT ![p] = r]
  BY <1>2, <1>5 DEF reason
<1> QED
  BY <1>3, <1>4, <1>5, <1>7, <1>8, <1>9

(* The timer of a deferral, and the passes it has put an exit off. *)
LEMMA QuotedTimer ==
    ASSUME Inv, NEW p \in Pos, NEW pnl \in Marks, NEW wide \in BOOLEAN, Quoted(p, pnl, wide)
    PROVE  /\ deferred' \in [Pos -> 0..MaxWait \cup {None}] /\ delay' \in [Pos -> Nat]
           /\ \A q \in Pos \ {p} : deferred'[q] = deferred[q] /\ delay'[q] = delay[q]
           /\ delay'[p] <= Defer + 1
           /\ deferred'[p] = None => delay'[p] = 0
           /\ deferred'[p] # None => Paced(delay'[p], deferred'[p], second, FALSE)
<1> USE Constants
<1>1. /\ deferred \in [Pos -> 0..MaxWait \cup {None}] /\ delay \in [Pos -> Nat]
      /\ deferred[p] \in 0..MaxWait \cup {None} /\ delay[p] \in Nat
  BY DEF Inv, TypeOK
<1>2. CASE /\ PutsOff(p, ExitReason(p, pnl), wide)
           /\ deferred' = [deferred EXCEPT ![p] = Since(p)]
           /\ delay' = [delay EXCEPT ![p] = IF Overdue(p) THEN @ + 1 ELSE @]
  <2>1. p \in Open /\ p \in todo
    BY QuotedBook
  <2>a. Since(p) \in 0..MaxWait /\ Since(p) \in Nat /\ Since(p) < MaxWait
    BY <1>1, <1>2 DEF Since, PutsOff
  <2>b. second \in 0..(MinuteTicks - 1)
    BY DEF Inv, TypeOK
  <2>c. Paced(delay[p], Since(p), second, TRUE)
    <3>1. CASE deferred[p] = None
      <4>1. delay[p] = 0 /\ Since(p) = 0
        BY <2>1, <3>1 DEF Since, Inv, TimerInv
      <4> QED
        BY <2>b, <4>1, PacedFirst
    <3>2. CASE deferred[p] # None
      <4>1. Since(p) = deferred[p]
        BY <3>2 DEF Since
      <4>2. Paced(delay[p], deferred[p], second, due \/ p \in todo)
        BY <2>1, <2>a, <3>2, <4>1 DEF Inv, TimerInv
      <4>3. (due \/ p \in todo) = TRUE
        BY <2>1
      <4> QED
        BY <4>1, <4>2, <4>3
    <3> QED
      BY <3>1, <3>2
  <2>2. /\ Paced(delay[p] + 1, Since(p), second, FALSE) /\ delay[p] <= Defer
        /\ Paced(delay[p], Since(p), second, FALSE)
    <3>1. Paced(delay[p] + 1, Since(p), second, FALSE) /\ delay[p] <= Defer
      BY <1>1, <2>a, <2>b, <2>c, PacedPut
    <3>2. Paced(delay[p], Since(p), second, FALSE)
      BY <1>1, <2>a, <2>b, <2>c, PacedLater
    <3> QED
      BY <3>1, <3>2
  <2>3. deferred'[p] = Since(p) /\ (delay'[p] = delay[p] \/ delay'[p] = delay[p] + 1)
    BY <1>1, <1>2
  <2>4. delay' \in [Pos -> Nat] /\ deferred' \in [Pos -> 0..MaxWait \cup {None}]
    BY <1>1, <1>2, <2>a
  <2>5. delay'[p] <= Defer + 1 /\ Paced(delay'[p], deferred'[p], second, FALSE)
    <3>1. delay[p] <= Defer
      BY <2>2
    <3>2. delay'[p] <= Defer + 1
      BY <1>1, <2>3, <3>1, Constants
    <3>3. Paced(delay'[p], Since(p), second, FALSE)
      BY <2>2, <2>3, Zenon
    <3> QED
      BY <2>3, <3>2, <3>3, Zenon
  <2>6. deferred'[p] # None
    BY <2>3, <2>a
  <2> QED
    BY <1>1, <1>2, <2>4, <2>5, <2>6
<1>3. CASE deferred' = [deferred EXCEPT ![p] = None] /\ delay' = [delay EXCEPT ![p] = 0]
  BY <1>1, <1>3
<1> QED
  BY <1>2, <1>3 DEF Quoted

LEMMA QuotedKeeps ==
    ASSUME Inv, NEW p \in Pos, NEW pnl \in Marks, NEW wide \in BOOLEAN, Quoted(p, pnl, wide)
    PROVE  Inv'
<1> USE Constants
<1>b. /\ p \in Open /\ p \in todo /\ pc = "pass" /\ order[p] = None
      /\ todo' = todo \ {p} /\ mode' = mode /\ ~due
      /\ UNCHANGED <<live, second, acct, posture, heard, copy, due>>
      /\ row' \in [Pos -> RowSet]
      /\ \A q \in Pos : /\ row'[q].st = row[q].st /\ row'[q].age = row[q].age
                        /\ row'[q].pnl = row[q].pnl
      /\ order' = order \/ \E r \in Reasons : order' = [order EXCEPT ![p] = r]
      /\ \/ UNCHANGED <<tx, pc>>
         \/ pc' = "booking" /\ tx' \in TxSet /\ tx'.pos = p /\ tx'.via = "fill"
      /\ lag' \in [Pos -> Int] /\ \A q \in Pos : lag'[q] <= Epsilon
  BY QuotedBook
<1>t. /\ deferred' \in [Pos -> 0..MaxWait \cup {None}] /\ delay' \in [Pos -> Nat]
      /\ \A q \in Pos \ {p} : deferred'[q] = deferred[q] /\ delay'[q] = delay[q]
      /\ delay'[p] <= Defer + 1
      /\ deferred'[p] = None => delay'[p] = 0
      /\ deferred'[p] # None => Paced(delay'[p], deferred'[p], second, FALSE)
  BY QuotedTimer
<1>1. Open' = Open
  BY <1>b DEF Open
<1>2. TypeOK'
  <2>1. mode # None /\ tx.pos = None
    BY <1>b DEF Inv, TypeOK
  <2>2. tx' \in TxSet /\ pc' \in {"pass", "booking"} /\ (pc' = "booking" <=> tx'.pos # None)
    BY <1>b, <2>1 DEF Inv, TypeOK, TxSet
  <2>3. order' \in [Pos -> Reasons \cup {None}]
    BY <1>b DEF Inv, TypeOK
  <2>4. \A q \in Pos : row'[q].age <= IF row'[q].st = "open" THEN Oldest ELSE LongAgo
    BY <1>b DEF Inv, TypeOK
  <2>5. /\ live' \in BOOLEAN /\ due' \in BOOLEAN /\ second' \in 0..(MinuteTicks - 1)
        /\ acct' \in [equity : Int, armed : SUBSET Pos] /\ copy' \in [equity : Int, armed : SUBSET Pos]
        /\ posture' \in Postures /\ heard' \in Never..Silence
        /\ todo' \subseteq Pos /\ mode' \in Postures \cup {None} /\ mode' # None
    BY <1>b, <2>1 DEF Inv, TypeOK
  <2> QED
    BY <1>b, <1>t, <2>2, <2>3, <2>4, <2>5 DEF TypeOK, RowSet, TxSet
<1>3. PassInv'
  <2>1. \A q \in Pos : order'[q] # None => q \in Open
    BY <1>b DEF Inv, TypeOK, PassInv
  <2>2. tx.pos = None
    BY <1>b DEF Inv, TypeOK
  <2>3. tx'.pos # None => tx'.pos \in Open /\ tx'.pos \notin todo'
    BY <1>b, <2>2
  <2>4. ~(pc' = "idle") /\ ~(pc' = "booking" /\ tx'.via = "poll")
    BY <1>b
  <2> QED
    BY <1>b, <1>1, <2>1, <2>3, <2>4 DEF Inv, PassInv
<1>4. TimerInv'
  <2> SUFFICES ASSUME NEW q \in Open
               PROVE  /\ deferred'[q] = None => delay'[q] = 0
                      /\ deferred'[q] # None /\ deferred'[q] < MaxWait =>
                            Paced(delay'[q], deferred'[q], second, due' \/ q \in todo')
    BY <1>1, <1>b DEF TimerInv
  <2>1. q \in Pos
    BY DEF Open
  <2>2. CASE q = p
    <3>1. (due' \/ q \in todo') = FALSE
      BY <1>b, <2>2
    <3> QED
      BY <1>t, <2>2, <3>1
  <2>3. CASE q # p
    <3>1. /\ deferred'[q] = deferred[q] /\ delay'[q] = delay[q]
          /\ (q \in todo') <=> (q \in todo)
          /\ due' = due
      BY <1>b, <1>t, <2>1, <2>3
    <3>2. (due' \/ q \in todo') = (due \/ q \in todo)
      BY <3>1
    <3>3. /\ deferred[q] = None => delay[q] = 0
          /\ deferred[q] # None /\ deferred[q] < MaxWait =>
                Paced(delay[q], deferred[q], second, due \/ q \in todo)
      BY DEF Inv, TimerInv
    <3> QED
      BY <3>1, <3>2, <3>3
  <2> QED
    BY <2>2, <2>3
<1>5. LimitsInv' /\ SilenceTightens'
  <2>1. \A q \in Pos : delay'[q] <= Defer + 1
    BY <1>b, <1>t DEF Inv, LimitsInv
  <2> QED
    BY <1>b, <2>1 DEF Inv, LimitsInv, SilenceTightens
<1>6. ArmedByLosses'
  BY <1>b, <1>1 DEF Inv, ArmedByLosses
<1> QED
  BY <1>2, <1>3, <1>4, <1>5, <1>6 DEF Inv

-----------------------------------------------------------------------------
(* Booking. *)

LEMMA AbsorbKeeps == ASSUME Inv, Absorb PROVE Inv'
<1> USE Constants
<1> DEFINE p == tx.pos
           closed == close_position(row[p], StatusOf[tx.reason], tx.pnl)
           loss == tx.pnl <= 0 /\ ~Protective(tx.reason)
<1>1. /\ p \in Open /\ p \in Pos /\ p \notin todo /\ pc = "booking"
      /\ tx.pnl \in Int /\ tx.reason \in Reasons /\ row[p] \in RowSet
  BY DEF Absorb, Inv, TypeOK, PassInv, RowSet, Open
<1>2. /\ UNCHANGED <<live, second, posture, heard, todo, mode, due, lag, delay>>
      /\ row' = [row EXCEPT ![p] = closed]
      /\ order' = [order EXCEPT ![p] = None]
      /\ acct' = [equity |-> acct.equity + tx.pnl,
                  armed |-> IF loss THEN acct.armed \cup {p} ELSE acct.armed]
      /\ copy' = acct'
      /\ pc' = IF tx.via = "poll" THEN "idle" ELSE "pass"
      /\ deferred' = [deferred EXCEPT ![p] = None]
      /\ tx' = NoTx
  BY DEF Absorb, Refreshed, Inv, PassInv
<1>3. StatusOf[tx.reason] \in Statuses \ {"open"}
  BY <1>1 DEF StatusOf, Reasons, Statuses
<1>4. /\ closed \in RowSet /\ closed.st = StatusOf[tx.reason] /\ closed.age = 0
      /\ closed.pnl = tx.pnl
  BY <1>1, <1>3 DEF close_position, RowSet
<1> HIDE DEF closed
<1>5. row \in [Pos -> RowSet] /\ row' \in [Pos -> RowSet]
  BY <1>2, <1>4 DEF Inv, TypeOK, RowSet
<1>6. /\ row'[p] = closed /\ \A q \in Pos \ {p} : row'[q] = row[q]
      /\ Open' = Open \ {p}
  BY <1>1, <1>2, <1>3, <1>4, <1>5 DEF Open
<1>7. TypeOK'
  <2>1. acct' \in [equity : Int, armed : SUBSET Pos]
    BY <1>1, <1>2 DEF Inv, TypeOK
  <2>2. tx' \in TxSet /\ tx'.pos = None
    BY <1>2 DEF NoTx, TxSet, Reasons
  <2>3. \A q \in Pos : row'[q].age <= IF row'[q].st = "open" THEN Oldest ELSE LongAgo
    <3> TAKE q \in Pos
    <3>1. CASE q = p
      BY <1>3, <1>4, <1>6, <3>1 DEF LongAgo, Oldest
    <3>2. CASE q # p
      BY <1>6, <3>2 DEF Inv, TypeOK
    <3> QED
      BY <3>1, <3>2
  <2>4. /\ order' \in [Pos -> Reasons \cup {None}]
        /\ deferred' \in [Pos -> 0..MaxWait \cup {None}]
    BY <1>2 DEF Inv, TypeOK
  <2>5. pc' \in {"idle", "pass", "booking"} /\ pc' # "booking"
    BY <1>2
  <2>6. /\ live' \in BOOLEAN /\ due' \in BOOLEAN /\ second' \in 0..(MinuteTicks - 1)
        /\ copy' \in [equity : Int, armed : SUBSET Pos]
        /\ posture' \in Postures /\ heard' \in Never..Silence
        /\ todo' \subseteq Pos /\ mode' \in Postures \cup {None} /\ (mode' = None => todo' = {})
        /\ lag' \in [Pos -> Int] /\ delay' \in [Pos -> Nat]
    BY <1>2, <2>1 DEF Inv, TypeOK
  <2> QED
    BY <1>5, <2>1, <2>2, <2>3, <2>4, <2>5, <2>6 DEF TypeOK, RowSet, TxSet
<1>8. PassInv'
  <2>1. tx'.pos = None
    BY <1>2 DEF NoTx
  <2>2. pc' = "idle" => todo' = {} /\ mode' = None
    BY <1>1, <1>2 DEF Inv, PassInv
  <2>3. \A q \in Pos : order'[q] # None => q \in Open'
    BY <1>2, <1>6 DEF Inv, TypeOK, PassInv
  <2> QED
    BY <1>1, <1>2, <1>6, <2>1, <2>2, <2>3 DEF Inv, PassInv
<1>9. TimerInv'
  <2> SUFFICES ASSUME NEW q \in Open, q # p
               PROVE  /\ deferred'[q] = None => delay[q] = 0
                      /\ deferred'[q] # None /\ deferred'[q] < MaxWait =>
                            Paced(delay[q], deferred'[q], second, due \/ q \in todo)
    BY <1>2, <1>6 DEF TimerInv
  <2>1. deferred'[q] = deferred[q]
    BY <1>2 DEF Open, Inv, TypeOK
  <2> QED
    BY <2>1 DEF Inv, TimerInv
<1>10. LimitsInv' /\ SilenceTightens'
  BY <1>2 DEF Inv, LimitsInv, SilenceTightens
<1>11. ArmedByLosses'
  <2>1. loss <=> row'[p].pnl <= 0 /\ row'[p].st # "closed_trail"
    BY <1>4, <1>6 DEF Protective
  <2>2. acct'.armed = IF loss THEN acct.armed \cup {p} ELSE acct.armed
    BY <1>2
  <2> HIDE DEF loss
  <2>3. Pos \ Open' = (Pos \ Open) \cup {p}
    BY <1>1, <1>6
  <2>4. acct.armed = {q \in Pos \ Open : row[q].pnl <= 0 /\ row[q].st # "closed_trail"}
    BY DEF Inv, ArmedByLosses
  <2>5. \A q \in Pos \ Open : row'[q] = row[q]
    BY <1>1, <1>6
  <2> QED
    BY <1>1, <2>1, <2>2, <2>3, <2>4, <2>5 DEF ArmedByLosses
<1> QED
  BY <1>7, <1>8, <1>9, <1>10, <1>11 DEF Inv

LEMMA Unmoved == ASSUME Inv, UNCHANGED vars PROVE Inv'
BY DEF vars, table, memory, Inv, TypeOK, PassInv, TimerInv, LimitsInv, ArmedByLosses,
       SilenceTightens, Open

-----------------------------------------------------------------------------
(* Every step keeps the invariant. *)

LEMMA StepKeeps ==
    ASSUME Inv, NEW p \in Pos, Step(p)
    PROVE  Inv'
<1>1. CASE InFlight(p)
  BY <1>1, DoneKeeps DEF InFlight
<1>2. CASE SettleLater(p)
  BY <1>2, DoneKeeps DEF SettleLater
<1>3. CASE NoQuote(p)
  BY <1>3, DoneKeeps DEF NoQuote
<1>4. ASSUME NEW record \in BOOLEAN, SettleFrom(p, record) PROVE Inv'
  BY <1>4, SettleFromKeeps
<1>5. ASSUME NEW pnl \in Marks, NEW wide \in BOOLEAN, Quoted(p, pnl, wide) PROVE Inv'
  BY <1>5, QuotedKeeps
<1> QED
  BY <1>1, <1>2, <1>3, <1>4, <1>5 DEF Step

LEMMA NextKeeps == Inv /\ [Next]_vars => Inv'
<1> SUFFICES ASSUME Inv, [Next]_vars PROVE Inv'
  OBVIOUS
<1>1. CASE BeginPass
  BY <1>1, BeginPassKeeps
<1>2. CASE EndPass
  BY <1>2, EndPassKeeps
<1>3. CASE PassRaises
  BY <1>3, PassRaisesKeeps
<1>4. CASE Absorb
  BY <1>4, AbsorbKeeps
<1>5. CASE BookingRaises
  BY <1>5, BookingRaisesKeeps
<1>6. ASSUME NEW p \in Pos, Step(p) \/ PollFills(p) \/ PollNoFill(p) PROVE Inv'
  BY <1>6, StepKeeps, PollFillsKeeps, PollNoFillKeeps
<1>7. CASE Tick
  BY <1>7, TickKeeps
<1>8. CASE Unhalt
  BY <1>8, UnhaltKeeps
<1>9. CASE Crash
  BY <1>9, CrashKeeps
<1>10. ASSUME NEW s \in Written, SetPosture(s) PROVE Inv'
  BY <1>10, SetPostureKeeps
<1>11. CASE UNCHANGED vars
  BY <1>11, Unmoved
<1> QED
  BY <1>1, <1>2, <1>3, <1>4, <1>5, <1>6, <1>7, <1>8, <1>9, <1>10, <1>11 DEF Next, Loop

(***************************************************************************)
(* The inductive invariant holds in every reachable state of the pass.     *)
(***************************************************************************)
THEOREM Invariance == Spec => []Inv
<1> QED
  BY InitInv, NextKeeps, PTL DEF Spec

(***************************************************************************)
(* Every state of the pass is of its type: an attempt is never counted     *)
(* past the limit, a timer never past the deferral, and a booking in hand  *)
(* is about one position.                                                  *)
(***************************************************************************)
THEOREM TypeCorrect == Spec => []TypeOK
<1>1. Inv => TypeOK
  BY DEF Inv
<1> QED
  BY <1>1, Invariance, PTL

(***************************************************************************)
(* However the passes, restarts and quotes fall, and at whatever second of *)
(* its minute each pass is made, an overdue exit is put off by an abnormal *)
(* book in Defer + 1 passes at most (loop.py:252-264).                     *)
(***************************************************************************)
THEOREM OverdueWaitsHolds == Spec => []OverdueWaits
<1>1. Inv => OverdueWaits
  BY DEF Inv, LimitsInv, OverdueWaits
<1> QED
  BY <1>1, Invariance, PTL

(***************************************************************************)
(* The peak the trail goes by is never further than epsilon below the      *)
(* highest profit a pass has seen (loop.py:213-215).                       *)
(***************************************************************************)
THEOREM PeakIsKept == Spec => []PeakKept
<1>1. Inv => PeakKept
  BY DEF Inv, LimitsInv, PeakKept, Open
<1> QED
  BY <1>1, Invariance, PTL

(***************************************************************************)
(* A pass made while the advisor is silent beyond its limits is made in    *)
(* tight (portfolio.effective_posture).                                    *)
(***************************************************************************)
THEOREM SilenceIsTight == Spec => []SilenceTightens
<1>1. Inv => SilenceTightens
  BY DEF Inv
<1> QED
  BY <1>1, Invariance, PTL

(***************************************************************************)
(* The breaker of a key is armed exactly by the closed positions whose     *)
(* result was a loss and no harvest, whatever was rolled back on the way.  *)
(***************************************************************************)
THEOREM BreakersByLosses == Spec => []ArmedByLosses
<1>1. Inv => ArmedByLosses
  BY DEF Inv
<1> QED
  BY <1>1, Invariance, PTL

-----------------------------------------------------------------------------
(* The equity is the start and the profit of every closed row. *)

Profits == [p \in Pos |-> row[p].pnl]
EquityInv == acct.equity = StartEquity + SumFunctionOnSet(Profits, Pos \ Open)

LEMMA FiniteBook == IsFiniteSet(Pos \ Open)
BY ExitsAssumption, FS_Subset DEF ExitsAssumption

(* A step that closes nothing. *)
LEMMA EquityKept ==
    ASSUME Inv, EquityInv, acct' = acct, Open' = Open,
           \A p \in Pos : row'[p].pnl = row[p].pnl
    PROVE  EquityInv'
<1>1. \A p \in Pos \ Open : Profits[p] = Profits'[p]
  BY DEF Profits
<1>2. SumFunctionOnSet(Profits, Pos \ Open) = SumFunctionOnSet(Profits', Pos \ Open)
  BY <1>1, FiniteBook, SumCongruence
<1> QED
  BY <1>2 DEF EquityInv

LEMMA AbsorbEquity ==
    ASSUME Inv, EquityInv, Absorb
    PROVE  EquityInv'
<1>1. PICK p \in Open : p = tx.pos
  BY DEF Absorb, Inv, TypeOK, PassInv
<1>2. p \in Pos /\ tx.pnl \in Int /\ tx.reason \in Reasons
  BY DEF Open, Inv, TypeOK
<1>3. /\ row' = [row EXCEPT ![p] = close_position(@, StatusOf[tx.reason], tx.pnl)]
      /\ acct'.equity = acct.equity + tx.pnl
  BY <1>1 DEF Absorb, Inv, PassInv
<1>4. row \in [Pos -> RowSet]
  BY DEF Inv, TypeOK, RowSet
<1>5. StatusOf[tx.reason] # "open"
  BY <1>2 DEF StatusOf, Reasons
<1>6. row'[p].pnl = tx.pnl /\ row'[p].st # "open" /\ \A q \in Pos \ {p} : row'[q] = row[q]
  BY <1>2, <1>3, <1>4, <1>5 DEF close_position, RowSet
<1>7. Pos \ Open' = (Pos \ Open) \cup {p} /\ p \notin Pos \ Open
  BY <1>1, <1>2, <1>6 DEF Open
<1>8. Profits' = [q \in Pos |-> row'[q].pnl]
  BY DEF Profits
<1>9. \A q \in Pos : Profits[q] \in Int
  BY <1>4 DEF Profits, RowSet
<1>10. PICK f : f = Profits'
  OBVIOUS
<1>11. /\ \A q \in Pos \ Open : f[q] = Profits[q]
       /\ \A q \in Pos : f[q] \in Int
       /\ f[p] = tx.pnl
  <2>1. \A q \in Pos : f[q] = row'[q].pnl
    BY <1>8, <1>10
  <2> QED
    BY <1>1, <1>2, <1>6, <1>9, <2>1 DEF Profits
<1>12. SumFunctionOnSet(f, (Pos \ Open) \cup {p}) = tx.pnl + SumFunctionOnSet(f, Pos \ Open)
  <2>1. \A q \in (Pos \ Open) \cup {p} : f[q] \in Int
    BY <1>2, <1>11
  <2>2. PICK S : S = Pos \ Open
    OBVIOUS
  <2>3. IsFiniteSet(S) /\ p \notin S /\ \A q \in S \cup {p} : f[q] \in Int
    BY <1>7, <2>1, <2>2, FiniteBook
  <2>4. SumFunctionOnSet(f, S \cup {p}) = f[p] + SumFunctionOnSet(f, S)
    BY <2>3, SumAdd
  <2> QED
    BY <1>11, <2>2, <2>4
<1>13. SumFunctionOnSet(f, Pos \ Open) = SumFunctionOnSet(Profits, Pos \ Open)
  BY <1>11, FiniteBook, SumCongruence
<1>14. SumFunctionOnSet(Profits, Pos \ Open) \in Int
  BY <1>9, FiniteBook, SumType
<1>15. acct'.equity = StartEquity + SumFunctionOnSet(f, Pos \ Open')
  <2>1. StartEquity \in Int
    BY Constants
  <2>2. acct'.equity = StartEquity + SumFunctionOnSet(f, Pos \ Open) + tx.pnl
    BY <1>3, <1>13 DEF EquityInv
  <2>3. SumFunctionOnSet(f, Pos \ Open') = tx.pnl + SumFunctionOnSet(f, Pos \ Open)
    BY <1>7, <1>12
  <2> QED
    BY <1>2, <1>13, <1>14, <2>1, <2>2, <2>3
<1> QED
  BY <1>10, <1>15 DEF EquityInv

LEMMA NextEquity == Inv /\ EquityInv /\ [Next]_vars => EquityInv'
<1> SUFFICES ASSUME Inv, EquityInv, [Next]_vars PROVE EquityInv'
  OBVIOUS
<1>1. CASE Absorb
  BY <1>1, AbsorbEquity
<1>2. CASE UNCHANGED <<row, acct>>
  BY <1>2, EquityKept DEF Open
<1>3. ASSUME NEW p \in Pos, NEW pnl \in Marks, NEW wide \in BOOLEAN, Quoted(p, pnl, wide)
      PROVE  EquityInv'
  <2>1. /\ acct' = acct
        /\ \A q \in Pos : row'[q].st = row[q].st /\ row'[q].pnl = row[q].pnl
    BY <1>3, QuotedBook
  <2>2. Open' = Open
    BY <2>1 DEF Open
  <2> QED
    BY <2>1, <2>2, EquityKept
<1>4. CASE Tick \/ Unhalt
  <2>1. row \in [Pos -> RowSet]
    BY DEF Inv, TypeOK, RowSet
  <2>2. acct' = acct /\ \A q \in Pos : row'[q].st = row[q].st /\ row'[q].pnl = row[q].pnl
    BY <1>4, <2>1 DEF Tick, Unhalt, RowSet
  <2>3. Open' = Open
    BY <2>2 DEF Open
  <2> QED
    BY <2>2, <2>3, EquityKept
<1> QED
  BY <1>1, <1>2, <1>3, <1>4
  DEF Next, Loop, Step, BeginPass, EndPass, PassRaises, BookingRaises, InFlight, SettleLater,
      NoQuote, SettleFrom, PollFills, PollNoFill, SetPosture, Crash, table, vars

(***************************************************************************)
(* A closed position and its profit are in the book together: whatever is  *)
(* raised, rolled back or lost on the way, the equity is the start and the *)
(* profit of every closed row, and the breaker of a key is armed exactly   *)
(* by a loss that was no harvest (_close, _finalize).                      *)
(***************************************************************************)
THEOREM BookedTogetherHolds == Spec => []BookedTogether
<1>1. Init => EquityInv
  <2> SUFFICES ASSUME Init PROVE EquityInv
    OBVIOUS
  <2>1. Pos \ Open = {}
    BY DEF Init, Open, NewRow
  <2>2. SumFunctionOnSet(Profits, Pos \ Open) = 0
    BY <2>1, SumEmpty
  <2>3. StartEquity \in Int /\ acct.equity = StartEquity
    BY Constants DEF Init
  <2> QED
    BY <2>2, <2>3 DEF EquityInv
<1>2. Inv /\ EquityInv => BookedTogether
  BY DEF Inv, ArmedByLosses, EquityInv, Profits, BookedTogether, Open
<1> QED
  BY <1>1, <1>2, NextEquity, Invariance, PTL DEF Spec

-----------------------------------------------------------------------------
(* What a close may be for. *)

LEMMA HarvestReason ==
    ASSUME Inv, RequireEndgame, NEW p \in Open, NEW pnl \in Marks, mode # None,
           ExitReason(p, pnl) \in {"trail_lock", "lockdown_profit_lock"}
    PROVE  /\ 100 * row[p].age >= EndgameFracPct * Hold
           /\ mode # "normal" \/ p \in Advised
           /\ mode = "lockdown" <=> ExitReason(p, pnl) = "lockdown_profit_lock"
<1>1. ExitReason(p, pnl) =
        IF mode = "lockdown" /\ endgame_ok(pnl, row[p].age, Hold) THEN "lockdown_profit_lock"
        ELSE IF Trailing(p) /\ trail_exit_due(Greatest(row[p].peak, pnl), pnl) /\ Ripe(p, pnl)
          THEN "trail_lock" ELSE None
  BY DEF ExitReason
<1>2. endgame_ok(pnl, row[p].age, Hold) => 100 * row[p].age >= EndgameFracPct * Hold
  BY DEF endgame_ok
<1>3. Ripe(p, pnl) => endgame_ok(pnl, row[p].age, Hold)
  BY DEF Ripe
<1>4. Trailing(p) => mode # "normal" \/ p \in Advised
  BY DEF Trailing
<1>5. None # "trail_lock" /\ None # "lockdown_profit_lock"
  BY Constants DEF Reasons
<1> QED
  BY <1>1, <1>2, <1>3, <1>4, <1>5

LEMMA AskedByQuote ==
    ASSUME Inv, [Next]_vars, NEW p \in Pos, order[p] = None, order'[p] # None
    PROVE  \E pnl \in Marks, wide \in BOOLEAN : Quoted(p, pnl, wide)
<1>t. order \in [Pos -> Reasons \cup {None}]
  BY DEF Inv, TypeOK
<1>1. ~(UNCHANGED order)
  OBVIOUS
<1>2. ~BeginPass /\ ~EndPass /\ ~PassRaises /\ ~BookingRaises /\ ~Tick /\ ~Unhalt /\ ~Crash
      /\ ~(UNCHANGED vars)
  BY <1>1 DEF BeginPass, EndPass, PassRaises, BookingRaises, Tick, Unhalt, Crash, vars, table
<1>3. ~Absorb
  BY <1>t, Constants DEF Absorb
<1>4. \A s \in Written : ~SetPosture(s)
  BY <1>1 DEF SetPosture, table
<1>5. \A q \in Pos : ~PollFills(q) /\ ~PollNoFill(q)
  BY <1>1, <1>t DEF PollFills, PollNoFill, table
<1>6. \A q \in Pos : /\ ~InFlight(q) /\ ~SettleLater(q) /\ ~NoQuote(q)
                    /\ \A record \in BOOLEAN : ~SettleFrom(q, record)
  BY <1>1 DEF InFlight, SettleLater, NoQuote, SettleFrom, table
<1>7. PICK q \in Pos : Step(q)
  BY <1>2, <1>3, <1>4, <1>5 DEF Next, Loop
<1>8. PICK pnl \in Marks, wide \in BOOLEAN : Quoted(q, pnl, wide)
  BY <1>6, <1>7 DEF Step
<1>9. order' = order \/ \E r \in Reasons : order' = [order EXCEPT ![q] = r]
  BY <1>8, QuotedBook
<1>10. q = p
  BY <1>1, <1>9, <1>t
<1> QED
  BY <1>8, <1>10

(***************************************************************************)
(* No pass asks for a harvest the policy does not allow: never before the  *)
(* endgame, never in the normal posture for a position that is not the     *)
(* advisor's, and in lockdown never by the trail (loop.py:217-235).        *)
(***************************************************************************)
THEOREM HarvestsAreAllowed == Spec => HarvestsByPolicy
<1>1. ASSUME Inv, [Next]_vars, NEW p \in Pos, RequireEndgame,
             order[p] = None, order'[p] \in {"trail_lock", "lockdown_profit_lock"}
      PROVE  /\ 100 * row[p].age >= EndgameFracPct * Hold
             /\ mode # "normal" \/ p \in Advised
             /\ mode = "lockdown" <=> order'[p] = "lockdown_profit_lock"
  <2>1. order'[p] # None
    BY <1>1, Constants DEF Reasons
  <2>2. PICK pnl \in Marks, wide \in BOOLEAN : Quoted(p, pnl, wide)
    BY <1>1, <2>1, AskedByQuote
  <2>3. /\ p \in Open /\ p \in todo
        /\ order' = order \/ \E r \in Reasons : r = ExitReason(p, pnl) /\ order' = [order EXCEPT ![p] = r]
    BY <1>1, <2>2, QuotedBook
  <2>4. order'[p] = ExitReason(p, pnl)
    BY <1>1, <2>1, <2>3 DEF Inv, TypeOK
  <2>5. mode # None
    BY <1>1, <2>3 DEF Inv, TypeOK
  <2> QED
    BY <1>1, <2>3, <2>4, <2>5, HarvestReason
<1>2. Inv /\ [Next]_vars =>
        [ \A p \in Pos :
            LET asked == order[p] = None /\ order'[p] \in {"trail_lock", "lockdown_profit_lock"}
            IN RequireEndgame /\ asked =>
                 /\ 100 * row[p].age >= EndgameFracPct * Hold
                 /\ mode # "normal" \/ p \in Advised
                 /\ mode = "lockdown" <=> order'[p] = "lockdown_profit_lock" ]_vars
  BY <1>1
<1> QED
  BY <1>2, Invariance, PTL DEF HarvestsByPolicy, Spec

-----------------------------------------------------------------------------
(* The rules of the account. *)

LEMMA DivideBelow ==
    ASSUME NEW n \in Nat, NEW d \in Nat \ {0}
    PROVE  n \div d \in Nat /\ (n \div d) * d <= n
OBVIOUS

(* "SL in $ never exceeds cap_pct x equity", "never loosens the strategy SL"
   (portfolio.py:108): with the cap on, a position that is stopped loses at most
   that share of the equity, and no more than it would without the cap. *)
THEOREM StopIsCapped ==
    ASSUME NEW sl \in Nat, NEW equity \in Nat \ {0}, NEW credit \in Nat \ {0}, NEW qty \in Nat \ {0},
           SlCapPct > 0, NEW stop, stop = sl_pct_effective(sl, equity, credit, qty)
    PROVE  /\ stop \in Nat /\ stop <= sl
           /\ stop * (100 * credit * qty) <= SlCapPct * equity * One
<1> DEFINE n == SlCapPct * equity * One
           d == 100 * credit * qty
           q == n \div d
<1>1. n \in Nat
  <2>1. SlCapPct \in Nat /\ One \in Nat
    BY AccountAssumption DEF AccountAssumption
  <2>2. SlCapPct * equity \in Nat
    BY <2>1
  <2> QED
    BY <2>1, <2>2
<1>2. d \in Nat \ {0}
  <2>1. 100 * credit \in Nat \ {0}
    OBVIOUS
  <2> QED
    BY <2>1
<1>3. stop = Least(sl, q)
  BY DEF sl_pct_effective
<1> HIDE DEF n, d
<1>4. q \in Nat /\ q * d <= n
  BY <1>1, <1>2, DivideBelow
<1> HIDE DEF q
<1>5. stop \in Nat /\ stop <= sl /\ stop <= q
  BY <1>3, <1>4 DEF Least
<1>6. stop * d <= q * d
  BY <1>2, <1>4, <1>5
<1>7. stop * d <= n
  BY <1>1, <1>2, <1>4, <1>5, <1>6
<1> QED
  BY <1>5, <1>7 DEF n, d

(* "budget scales with current equity, capped by free portfolio margin"
   (portfolio.py:33): what the live sizing grants is affordable; with it, all the
   margin in use is within the portfolio's share of the equity, and it is itself
   within the trade's share, scaled by the multiplier. *)
THEOREM LiveSizeFits ==
    ASSUME NEW equity \in Nat, NEW used \in Nat, NEW recent, NEW perLot \in Int, NEW mult \in Nat
    PROVE  LET size == size_position(equity, used, recent, perLot, mult) IN
           size.lots > 0 =>
             /\ size.margin = size.lots * perLot
             /\ 100 * (used + size.margin) <= PortMarginPct * equity
             /\ 10000 * size.margin <= equity * MarginPct * mult
<1> DEFINE free == FreeMargin(equity, used)
           share == (equity * MarginPct) \div 100
           scaled == (share * mult) \div (100 * dyn_divisor(recent))
           budget == Least(scaled, free)
           size == Lots(budget, perLot)
<1>1. PortMarginPct \in Nat /\ MarginPct \in Nat /\ dyn_divisor(recent) \in {1, 2}
  BY AccountAssumption DEF AccountAssumption, dyn_divisor
<1>2. free \in Nat /\ (free > 0 => 100 * (used + free) <= PortMarginPct * equity)
  <2> DEFINE most == (equity * PortMarginPct) \div 100
  <2>1. equity * PortMarginPct \in Nat /\ equity * PortMarginPct = PortMarginPct * equity
    BY <1>1
  <2>2. most \in Nat /\ most * 100 <= equity * PortMarginPct
    BY <2>1, DivideBelow
  <2>3. free = Greatest(0, most - used)
    BY DEF FreeMargin
  <2> HIDE DEF most, free
  <2> QED
    BY <2>1, <2>2, <2>3 DEF Greatest
<1>3. scaled \in Nat /\ 10000 * scaled <= equity * MarginPct * mult
  <2>1. equity * MarginPct \in Nat
    BY <1>1
  <2>2. share \in Nat /\ share * 100 <= equity * MarginPct
    BY <2>1, DivideBelow
  <2>3. share * mult \in Nat /\ 100 * (share * mult) <= equity * MarginPct * mult
    <3> DEFINE e == equity * MarginPct
    <3>1. e \in Nat /\ share * 100 <= e
      BY <2>1, <2>2
    <3> HIDE DEF e, share
    <3>2. share * 100 * mult <= e * mult /\ share * mult \in Nat /\ share * 100 * mult = 100 * (share * mult)
      BY <2>2, <3>1
    <3> QED
      BY <3>2 DEF e
  <2>4. scaled \in Nat /\ scaled * (100 * dyn_divisor(recent)) <= share * mult
    <3>1. 100 * dyn_divisor(recent) \in Nat \ {0}
      BY <1>1
    <3> QED
      BY <2>3, <3>1, DivideBelow
  <2> HIDE DEF share, scaled
  <2>5. 100 * scaled <= share * mult
    BY <1>1, <2>3, <2>4
  <2>6. equity * MarginPct * mult \in Nat
    BY <2>1
  <2> QED
    BY <2>3, <2>4, <2>5, <2>6
<1> HIDE DEF free, scaled
<1>4. budget \in Nat /\ budget <= free /\ budget <= scaled
  BY <1>2, <1>3 DEF Least
<1>5. size = size_position(equity, used, recent, perLot, mult)
  BY DEF size_position, free, share, scaled
<1> HIDE DEF budget
<1>6. CASE perLot <= 0 \/ budget < perLot
  <2>1. size.lots = 0
    BY <1>6 DEF Lots, NoSize
  <2> QED
    BY <1>5, <2>1
<1>7. CASE ~ (perLot <= 0 \/ budget < perLot)
  <2>1. perLot \in Nat \ {0} /\ budget >= perLot
    BY <1>4, <1>7
  <2> DEFINE lots == budget \div perLot
  <2>2. lots \in Nat /\ lots * perLot <= budget /\ lots * perLot \in Nat
    BY <1>4, <2>1, DivideBelow
  <2>3. size.lots = lots /\ size.margin = lots * perLot
    BY <1>7 DEF Lots
  <2> HIDE DEF lots, size
  <2> DEFINE margin == lots * perLot
  <2>4. margin \in Nat /\ margin <= free /\ margin <= scaled /\ free > 0
    BY <1>2, <1>3, <1>4, <2>1, <2>2
  <2>5. size.margin = margin
    BY <2>3
  <2> HIDE DEF margin
  <2>6. 100 * (used + margin) <= PortMarginPct * equity
    <3>1. PortMarginPct * equity \in Nat
      BY <1>1
    <3> QED
      BY <1>2, <2>4, <3>1
  <2>7. 10000 * margin <= equity * MarginPct * mult
    <3>1. equity * MarginPct * mult \in Nat
      BY <1>1
    <3> QED
      BY <1>3, <2>4, <3>1
  <2> QED
    BY <1>5, <2>3, <2>5, <2>6, <2>7
<1> QED
  BY <1>6, <1>7

(* A book of closed trades, told apart by their ids. *)
Trades(C) ==
    /\ IsFiniteSet(C)
    /\ \A r \in C : r.id \in Nat /\ r.age \in Nat /\ r.pnl \in Int
    /\ \A r, s \in C : r.id = s.id => r = s

(* Every two trades have their places in the order of the book. *)
LEMMA BehindOrder ==
    ASSUME NEW C, Trades(C), NEW r \in C, NEW s \in C
    PROVE  /\ r \notin Behind(r, C)
           /\ r # s => r \in Behind(s, C) \/ s \in Behind(r, C)
           /\ s \in Behind(r, C) => Behind(s, C) \subseteq Behind(r, C)
<1>1. \A t \in C : t.id \in Nat /\ t.age \in Nat /\ t.pnl \in Int
  BY DEF Trades
<1>2. r # s => r.id # s.id
  BY DEF Trades
<1>3. r \notin Behind(r, C)
  BY <1>1 DEF Behind
<1>4. r # s => r \in Behind(s, C) \/ s \in Behind(r, C)
  BY <1>1, <1>2 DEF Behind
<1>5. ASSUME s \in Behind(r, C), NEW t \in Behind(s, C)
      PROVE  t \in Behind(r, C)
  BY <1>1, <1>5 DEF Behind
<1> QED
  BY <1>3, <1>4, <1>5

Rank(r, C) == Cardinality(Behind(r, C))

LEMMA BehindFinite ==
    ASSUME NEW C, Trades(C), NEW r
    PROVE  IsFiniteSet(Behind(r, C)) /\ Rank(r, C) \in Nat /\ Behind(r, C) \subseteq C
<1>1. Behind(r, C) \subseteq C /\ IsFiniteSet(C)
  BY DEF Behind, Trades
<1>2. IsFiniteSet(Behind(r, C))
  BY <1>1, FS_Subset, Zenon
<1> QED
  BY <1>1, <1>2, FS_CardinalityType DEF Rank

LEMMA RankSmaller ==
    ASSUME NEW C, Trades(C), NEW r \in C, NEW s \in C, s \in Behind(r, C)
    PROVE  Rank(s, C) < Rank(r, C)
<1>1. Behind(s, C) \subseteq Behind(r, C) /\ s \notin Behind(s, C)
  BY BehindOrder
<1>2. IsFiniteSet(Behind(r, C)) /\ Rank(s, C) \in Nat /\ Rank(r, C) \in Nat
  BY BehindFinite
<1>3. Behind(s, C) # Behind(r, C)
  BY <1>1
<1>4. Cardinality(Behind(s, C)) <= Cardinality(Behind(r, C)) /\ Cardinality(Behind(s, C)) # Cardinality(Behind(r, C))
  BY <1>1, <1>2, <1>3, FS_Subset
<1> QED
  BY <1>2, <1>4 DEF Rank

(* The n trades that are last. *)
LastTrades(n, C) == {r \in C : Rank(r, C) < n}

(* After the n last trades of a longer book there is exactly one that has just
   these behind it. *)
LEMMA TailGrows ==
    ASSUME NEW C, Trades(C), NEW n \in Nat, n < Cardinality(C), Cardinality(LastTrades(n, C)) = n
    PROVE  Cardinality(LastTrades(n + 1, C)) = n + 1
<1> DEFINE K == LastTrades(n, C)
           R == {Rank(r, C) : r \in C \ K}
<1>0. IsFiniteSet(C) /\ \A r \in C : Rank(r, C) \in Nat
  BY BehindFinite DEF Trades
<1>1. K \subseteq C /\ IsFiniteSet(K)
  BY <1>0, FS_Subset DEF LastTrades
<1>2. IsFiniteSet(C \ K) /\ C \ K # {}
  <2>1. C # K
    BY <1>0, FS_CardinalityType
  <2>2. IsFiniteSet(C \ K)
    BY <1>0, FS_Subset
  <2> QED
    BY <1>1, <2>1, <2>2
<1>3. IsFiniteSet(R) /\ R # {} /\ R \subseteq Int
  <2>1. \A r \in C : Rank(r, C) <= Cardinality(C)
    BY <1>0, BehindFinite, FS_Subset DEF Rank
  <2>2. Cardinality(C) \in Int /\ R \subseteq 0..Cardinality(C)
    BY <1>0, <2>1, FS_CardinalityType
  <2>3. IsFiniteSet(R)
    <3> HIDE DEF R
    <3>1. IsFiniteSet(0..Cardinality(C))
      BY <2>2, FS_Interval
    <3> QED
      BY <2>2, <3>1, FS_Subset, Zenon
  <2> QED
    BY <1>0, <1>2, <2>3
<1>4. PICK x \in C \ K : \A r \in C \ K : Rank(x, C) <= Rank(r, C)
  <2>1. \E a \in R : \A b \in R : a <= b
    <3> HIDE DEF R
    <3> QED
      BY <1>3, SomeExtremes, Zenon
  <2> QED
    BY <2>1
<1>5. Behind(x, C) = K
  <2>1. ASSUME NEW y \in Behind(x, C)
        PROVE  y \in K
    <3>1. y \in C /\ Rank(y, C) < Rank(x, C)
      BY <1>4, <2>1, BehindFinite, RankSmaller
    <3> QED
      BY <1>0, <1>4, <3>1
  <2>2. ASSUME NEW y \in K
        PROVE  y \in Behind(x, C)
    <3>1. y \in C /\ x \in C /\ y # x /\ Rank(y, C) < n /\ ~(Rank(x, C) < n)
      BY <1>4 DEF LastTrades
    <3>2. x \notin Behind(y, C)
      <4>1. x \in Behind(y, C) => Rank(x, C) < Rank(y, C)
        BY <3>1, RankSmaller
      <4> QED
        BY <1>0, <3>1, <4>1
    <3> QED
      BY <3>1, <3>2, BehindOrder
  <2> QED
    BY <2>1, <2>2
<1>6. Rank(x, C) = n
  BY <1>5 DEF Rank
<1>7. LastTrades(n + 1, C) = K \cup {x}
  <2>1. ASSUME NEW y \in C, Rank(y, C) = n
        PROVE  y = x
    <3>1. y # x => x \in Behind(y, C) \/ y \in Behind(x, C)
      BY <1>4, BehindOrder
    <3>2. x \in Behind(y, C) => Rank(x, C) < Rank(y, C)
      BY <1>4, RankSmaller
    <3>3. y \in Behind(x, C) => Rank(y, C) < Rank(x, C)
      BY <1>4, RankSmaller
    <3> QED
      BY <1>6, <2>1, <3>1, <3>2, <3>3
  <2>2. \A y \in C : Rank(y, C) < n + 1 <=> Rank(y, C) < n \/ Rank(y, C) = n
    BY <1>0
  <2> QED
    BY <1>4, <1>6, <2>1, <2>2 DEF LastTrades
<1>8. x \notin K
  BY <1>4
<1> QED
  BY <1>1, <1>7, <1>8, FS_AddElement

LEMMA TailCount ==
    ASSUME NEW C, Trades(C), NEW n \in Nat, n <= Cardinality(C)
    PROVE  Cardinality(LastTrades(n, C)) = n
<1> DEFINE T == {k \in Nat : k <= Cardinality(C) => Cardinality(LastTrades(k, C)) = k}
<1>0. Cardinality(C) \in Nat
  BY FS_CardinalityType DEF Trades
<1>1. 0 \in T
  <2>1. LastTrades(0, C) = {}
    BY BehindFinite DEF LastTrades
  <2> QED
    BY <2>1, FS_EmptySet
<1>2. ASSUME NEW k \in Nat, k \in T
      PROVE  k + 1 \in T
  <2>1. CASE k < Cardinality(C)
    <3>1. Cardinality(LastTrades(k, C)) = k
      BY <1>0, <1>2, <2>1
    <3> QED
      BY <2>1, <3>1, TailGrows
  <2>2. CASE ~(k < Cardinality(C))
    BY <1>0, <2>2
  <2> QED
    BY <2>1, <2>2
<1> HIDE DEF T
<1>3. Nat \subseteq T
  BY <1>1, <1>2, SetInduction
<1>4. n \in T
  BY <1>3
<1> QED
  BY <1>4 DEF T

(* A loss more makes no sum of the last trades larger. *)
LEMMA LossLowersSum ==
    ASSUME NEW C, NEW r, Trades(C \cup {r}), r \notin C, r.pnl < 0, NEW window
    PROVE  /\ Realized(C, window) \in Int /\ Realized(C \cup {r}, window) \in Int
           /\ Realized(C \cup {r}, window) <= Realized(C, window)
<1> DEFINE D == C \cup {r}
           W == {t \in C : t.age <= window}
           V == {t \in D : t.age <= window}
           F == [t \in W |-> t.pnl]
           G == [t \in V |-> t.pnl]
<1>1. Realized(C, window) = SumFunctionOnSet(F, W) /\ Realized(D, window) = SumFunctionOnSet(G, V)
  BY DEF Realized
<1>2. IsFiniteSet(W) /\ IsFiniteSet(V)
  <2>1. IsFiniteSet(D) /\ W \subseteq D /\ V \subseteq D
    BY DEF Trades
  <2> HIDE DEF D, W, V
  <2> QED
    BY <2>1, FS_Subset, Zenon
<1>3. /\ \A t \in W : t \in V /\ F[t] = G[t] /\ G[t] \in Int
      /\ \A t \in V : G[t] \in Int
  BY DEF Trades
<1>4. SumFunctionOnSet(F, W) = SumFunctionOnSet(G, W)
  <2>1. \A t \in W : F[t] = G[t]
    BY <1>3
  <2> HIDE DEF F, G, W
  <2> QED
    BY <1>2, <2>1, SumCongruence, Zenon
<1>5. SumFunctionOnSet(G, W) \in Int
  <2>1. \A t \in W : G[t] \in Int
    BY <1>3
  <2> HIDE DEF G, W
  <2> QED
    BY <1>2, <2>1, SumType
<1>6. CASE r.age <= window
  <2>1. V = W \cup {r} /\ r \notin W /\ G[r] = r.pnl /\ r.pnl \in Int
    BY <1>6 DEF Trades
  <2>2. \A t \in W \cup {r} : G[t] \in Int
    BY <1>3, <2>1
  <2> HIDE DEF F, G, W, V, D
  <2>3. SumFunctionOnSet(G, W \cup {r}) = G[r] + SumFunctionOnSet(G, W)
    BY <1>2, <2>1, <2>2, SumAdd
  <2> QED
    BY <1>1, <1>4, <1>5, <2>1, <2>3 DEF D
<1>7. CASE ~(r.age <= window)
  <2>1. V = W
    BY <1>7
  <2> HIDE DEF F, G, W, V, D
  <2> QED
    BY <1>1, <1>4, <1>5, <2>1 DEF D
<1> QED
  BY <1>6, <1>7

(* A loss more prolongs a losing streak. *)
LEMMA LossKeepsStreak ==
    ASSUME NEW C, NEW r, Trades(C \cup {r}), r \notin C, r.pnl < 0, LosingStreak(C)
    PROVE  LosingStreak(C \cup {r})
<1> DEFINE D == C \cup {r}
<1>0. StreakN \in Nat /\ StreakBlock \in Nat
  BY AccountAssumption DEF AccountAssumption
<1>1. Trades(C)
  <2>1. IsFiniteSet(C)
    BY FS_Subset DEF Trades
  <2> QED
    BY <2>1 DEF Trades
<1>2. /\ \A s \in C : Behind(s, C) \subseteq Behind(s, D) /\ Behind(s, D) \subseteq Behind(s, C) \cup {r}
      /\ LastTrades(StreakN, C) = LastClosed(C) /\ LastTrades(StreakN, D) = LastClosed(D)
  BY DEF Behind, LastTrades, Rank, LastClosed
<1>3. Cardinality(LastClosed(D)) = StreakN
  <2>1. LastTrades(StreakN, C) \subseteq D /\ Cardinality(LastTrades(StreakN, C)) = StreakN
    BY <1>2 DEF LosingStreak, LastTrades
  <2>2. StreakN <= Cardinality(D)
    <3>1. IsFiniteSet(D)
      BY DEF Trades
    <3> HIDE DEF D
    <3> QED
      BY <2>1, <3>1, FS_Subset
  <2>3. Trades(D)
    OBVIOUS
  <2> HIDE DEF D
  <2> QED
    BY <1>0, <1>2, <2>2, <2>3, TailCount
<1>4. ASSUME NEW s \in LastClosed(D)
      PROVE  s.pnl < 0
  <2>1. CASE s = r
    BY <2>1
  <2>2. CASE s # r
    <3>1. s \in C /\ Rank(s, D) < StreakN
      BY <1>4, <2>2 DEF LastClosed, Rank
    <3>2. Rank(s, C) <= Rank(s, D)
      <4>1. IsFiniteSet(Behind(s, D)) /\ Behind(s, C) \subseteq Behind(s, D)
        BY <1>2, <3>1, BehindFinite
      <4> HIDE DEF D
      <4> QED
        BY <4>1, FS_Subset, Zenon DEF Rank
    <3>3. Rank(s, C) \in Nat /\ Rank(s, D) \in Nat
      BY <1>1, BehindFinite
    <3>4. s \in LastTrades(StreakN, C)
      BY <1>0, <3>1, <3>2, <3>3 DEF LastTrades
    <3> QED
      BY <1>2, <3>4 DEF LosingStreak
  <2> QED
    BY <2>1, <2>2
<1>5. PICK x \in C : Behind(x, C) = {} /\ x.age <= StreakBlock
  BY DEF LosingStreak, LastClosed
<1>6. ASSUME NEW y \in D, Behind(y, D) = {}, y.age <= StreakBlock
      PROVE  LosingStreak(D)
  <2>1. y \in LastClosed(D)
    <3>1. StreakN \in Nat \ {0}
      BY AccountAssumption DEF AccountAssumption
    <3> QED
      BY <1>6, <3>1, FS_EmptySet DEF LastClosed
  <2> QED
    BY <1>3, <1>4, <1>6, <2>1 DEF LosingStreak
<1>7. CASE r \in Behind(x, D)
  <2>1. Behind(r, D) \subseteq Behind(x, D) /\ r \notin Behind(r, D)
    BY <1>5, <1>7, BehindOrder
  <2>2. Behind(r, D) = {}
    BY <1>2, <1>5, <2>1
  <2>3. r.age <= x.age /\ r.age \in Nat /\ x.age \in Nat
    BY <1>5, <1>7 DEF Behind, Trades
  <2>4. r \in D /\ r.age <= StreakBlock
    BY <1>0, <1>5, <2>3
  <2> QED
    BY <1>6, <2>2, <2>4
<1>8. CASE r \notin Behind(x, D)
  <2>1. Behind(x, D) = {}
    BY <1>2, <1>5, <1>8
  <2> QED
    BY <1>5, <1>6, <2>1
<1> QED
  BY <1>7, <1>8

(* The account breaker is a brake on losses: whatever has tripped it (the day, the
   week, the streak, the equity), a further loss, booked in the equity too, does not
   release it, wherever it comes in the order of the book. *)
THEOREM LossKeepsBreaker ==
    ASSUME NEW C, NEW r, Trades(C \cup {r}), r \notin C, r.pnl < 0,
           NEW equity \in Int, account_breaker(C, equity)
    PROVE  account_breaker(C \cup {r}, equity + r.pnl)
<1> DEFINE D == C \cup {r}
           less == equity + r.pnl
<1>1. r.pnl \in Int /\ less \in Int /\ less <= equity
  BY DEF Trades
<1>2. ASSUME NEW percent \in Nat, NEW window, 100 * Realized(C, window) <= -(percent * equity)
      PROVE  100 * Realized(D, window) <= -(percent * less)
  <2>1. Realized(C, window) \in Int /\ Realized(D, window) \in Int /\ Realized(D, window) <= Realized(C, window)
    BY LossLowersSum
  <2>2. percent * less <= percent * equity /\ percent * less \in Int /\ percent * equity \in Int
    BY <1>1
  <2> QED
    BY <1>2, <2>1, <2>2
<1>3. DailyPct \in Nat /\ WeeklyPct \in Nat
  BY AccountAssumption DEF AccountAssumption
<1>4. CASE equity <= 0
  BY <1>1, <1>4 DEF account_breaker
<1>5. CASE 100 * Realized(C, Day) <= -(DailyPct * equity)
  BY <1>2, <1>3, <1>5 DEF account_breaker
<1>6. CASE 100 * Realized(C, Week) <= -(WeeklyPct * equity)
  BY <1>2, <1>3, <1>6 DEF account_breaker
<1>7. CASE LosingStreak(C)
  BY <1>7, LossKeepsStreak DEF account_breaker
<1> QED
  BY <1>4, <1>5, <1>6, <1>7 DEF account_breaker
=============================================================================
