---------------------------- MODULE AdvisorProofs ----------------------------
(***************************************************************************)
(* Proofs about Advisor, for every interval, gap, limit and number of      *)
(* failures: how old a posture and a trigger can get, and how far apart    *)
(* the two answers behind a close are.  Then the limits the advisor reads  *)
(* back from its journal, for as many failures as the journal has lines to *)
(* spare: the closes of an hour and the gap between two entries.  Last,     *)
(* what a tick which lacks an input may do that a complete one may not.    *)
(***************************************************************************)
EXTENDS Advisor, SequenceTheorems, FiniteSetTheorems, Sums, TLAPS

LEMMA Constants ==
    /\ Interval \in Nat /\ Interval > 0 /\ Retry \in Nat /\ Retry > 0
    /\ WakeGap \in Nat /\ WakeGap > 0 /\ WakeCool \in Nat /\ WakeCool > 0
    /\ CallTime \in Nat /\ MaxNow \in Nat /\ MaxFaults \in Nat
    /\ Lines \in Nat /\ Lines > 0
    /\ CallTime <= WakeGap /\ WakeGap <= WakeCool /\ WakeGap + Retry <= Interval
BY AdvisorAssumption DEF AdvisorAssumption

-----------------------------------------------------------------------------
(* What the failures since the last answer may have cost. *)

Cost(n) == n * (Retry + CallTime)

LEMMA CostGrows ==
    ASSUME NEW n \in Nat
    PROVE  Cost(n) \in Nat /\ Cost(n + 1) = Cost(n) + Retry + CallTime
<1> USE Constants
<1> DEFINE k == Retry + CallTime
<1>1. k \in Nat
  OBVIOUS
<1> HIDE DEF k
<1>2. n * k \in Nat /\ (n + 1) * k = n * k + k
  BY <1>1
<1>3. k = Retry + CallTime
  BY DEF k
<1> QED
  BY <1>2, <1>3 DEF Cost, k

LEMMA NoCost == Cost(0) = 0
BY Constants DEF Cost

-----------------------------------------------------------------------------
(* The inductive invariant. *)

AnyLine == Line \cup {Cut, Garbled}

(* A record with the fields of NoTick; what it read of the journal is not
   looked into. *)
TickSet ==
    [ts : Nat, due : BOOLEAN, past : {tick.past}, prev : {tick.prev},
     closes : SUBSET Pos, urgent : BOOLEAN, todo : SUBSET Pos, executed : SUBSET Pos,
     entry : Entries, seen : SUBSET Trig]

Typed ==
    /\ now \in Nat /\ lastLlm \in Int /\ failures \in Nat /\ freshAt \in Nat
    /\ wakeLast \in [Trig -> Int] /\ active \subseteq Trig /\ waited \in [Trig -> Nat]
    /\ pc \in {"sleep", "ask", "closes", "journal"}
    /\ tick \in TickSet
    /\ journal \in Seq(AnyLine)
    /\ restarted \in BOOLEAN

(* A tick is never older than a call. *)
Clock ==
    /\ lastLlm <= now /\ freshAt <= now /\ \A t \in Trig : wakeLast[t] <= now
    /\ pc = "ask" => tick.ts <= now /\ now <= tick.ts + CallTime
    /\ pc \in {"closes", "journal"} => /\ tick.ts <= now /\ now <= tick.ts + CallTime
                                       /\ freshAt = tick.ts
    /\ pc # "sleep" => lastLlm <= tick.ts /\ \A t \in Trig : wakeLast[t] <= tick.ts

(* The posture: between two ticks it ages for an interval at most, plus what
   the failures cost, and in a tick for a call more. *)
Fresh ==
    /\ pc = "sleep" => /\ now - freshAt <= Interval + Cost(failures)
                       /\ lastLlm - freshAt <= Cost(failures)
    /\ pc = "ask" => tick.ts - freshAt <= Interval + Cost(failures)

(* A trigger: between two ticks either the poll that is due or the one its own
   cooldown and the gap allow comes in time. *)
Ready(t) == WakeCool + Cost(failures) - waited[t]
Heard ==
    \A t \in Trig :
        /\ t \notin active => waited[t] = 0
        /\ pc = "sleep" => /\ 0 <= Ready(t)
                           /\ \/ lastLlm + Interval - now <= Ready(t)
                              \/ /\ wakeLast[t] + WakeCool - now <= Ready(t)
                                 /\ lastLlm + WakeGap - now <= Ready(t)
        /\ pc # "sleep" => /\ tick.ts - now <= Ready(t)
                           /\ t \notin tick.seen => waited[t] <= now - tick.ts

(* The journal a tick has read stays as it is until the tick writes its line,
   and its last line is a gap older than the tick. *)
Named == journal # <<>> /\ Readable(Last(journal))
Confirmed ==
    /\ ~restarted /\ Named /\ pc = "sleep" =>
          lastLlm = Last(journal).ts \/ now - Last(journal).ts >= WakeGap
    /\ ~restarted /\ Named /\ pc # "sleep" => tick.ts - Last(journal).ts >= WakeGap
    /\ pc # "sleep" => tick.prev = Previous(journal)
    /\ pc = "closes" => \A p \in tick.todo : tick.urgent \/ p \in tick.prev

Inv == Typed /\ Clock /\ Fresh /\ Heard /\ Confirmed

LEMMA InitInv == Init => Inv
<1> SUFFICES ASSUME Init PROVE Inv
  OBVIOUS
<1> USE Constants
<1>1. Typed
  <2>1. tick \in TickSet
    BY DEF Init, NoTick, TickSet, Entries
  <2>2. journal \in Seq(AnyLine)
    BY EmptySeq DEF Init
  <2>3. wakeLast \in [Trig -> Int] /\ waited \in [Trig -> Nat] /\ active \subseteq Trig
    BY DEF Init
  <2>4. now \in Nat /\ lastLlm \in Int /\ failures \in Nat /\ freshAt \in Nat
    BY DEF Init
  <2>5. pc = "sleep" /\ restarted \in BOOLEAN
    BY DEF Init
  <2> QED
    BY <2>1, <2>2, <2>3, <2>4, <2>5 DEF Typed
<1>2. Clock /\ Confirmed
  BY DEF Init, Clock, Confirmed, Named
<1>3. Fresh
  BY NoCost DEF Init, Fresh
<1>4. Heard
  BY NoCost DEF Init, Heard, Ready
<1> QED
  BY <1>1, <1>2, <1>3, <1>4 DEF Inv

-----------------------------------------------------------------------------
(* The journal: what its last line can be after each way of writing it. *)

LEMMA LastLine ==
    ASSUME Typed, Named
    PROVE  Last(journal) \in Line
<1>1. Last(journal) \in AnyLine
  BY EmptySeq DEF Typed, Named, Last
<1> QED
  BY <1>1 DEF AnyLine, Named, Readable, Cut, Garbled, Line

LEMMA OlderTyped ==
    ASSUME NEW l \in AnyLine
    PROVE  Older(l) \in AnyLine
<1>1. CASE l \in Line
  <2>1. [l EXCEPT !.closes = {}] \in Line
    BY <1>1 DEF Line
  <2> QED
    BY <1>1, <2>1 DEF Older, AnyLine
<1>2. CASE l \in {Cut, Garbled}
  BY <1>2 DEF Older, Readable, Cut, Garbled, AnyLine
<1> QED
  BY <1>1, <1>2 DEF AnyLine

LEMMA AppendedLast ==
    ASSUME NEW j \in Seq(AnyLine), NEW l \in AnyLine
    PROVE  /\ Appended(j, l) \in Seq(AnyLine) /\ Appended(j, l) # <<>>
           /\ Last(Appended(j, l)) \in {l, Garbled}
<1>1. Garbled \in AnyLine
  BY DEF AnyLine
<1>2. ASSUME NEW s \in Seq(AnyLine), NEW e \in AnyLine
      PROVE  Append(s, e) \in Seq(AnyLine) /\ Append(s, e) # <<>> /\ Last(Append(s, e)) = e
  BY <1>2, AppendProperties DEF Last
<1>3. CASE j = <<>> \/ Last(j) # Cut
  BY <1>2, <1>3 DEF Appended
<1>4. CASE ~(j = <<>> \/ Last(j) # Cut)
  <2>1. Front(j) \in Seq(AnyLine)
    <3>1. Len(j) \in Nat /\ Len(j) > 0
      BY <1>4, EmptySeq
    <3> QED
      BY <3>1, SubSeqProperties DEF Front
  <2> QED
    BY <1>1, <1>2, <1>4, <2>1 DEF Appended
<1> QED
  BY <1>3, <1>4

LEMMA LastKept ==
    ASSUME NEW j \in Seq(AnyLine), j # <<>>
    PROVE  /\ LastLines(j) \in Seq(AnyLine) /\ LastLines(j) # <<>>
           /\ Last(LastLines(j)) = Last(j)
<1>1. CASE Len(j) > Lines
  <2> DEFINE s == Tail(j)
  <2>1. s \in Seq(AnyLine) /\ Len(s) = Len(j) - 1
    BY HeadTailProperties
  <2>2. Len(j) \in Nat /\ Len(j) > 1
    BY <1>1, Constants
  <2>3. s[Len(j) - 1] = j[Len(j)]
    BY <2>2, HeadTailProperties
  <2>4. LastLines(j) = s
    BY <1>1 DEF LastLines
  <2> HIDE DEF s
  <2>5. s # <<>>
    <3>1. \A n \in Nat : n > 1 => n - 1 # 0
      OBVIOUS
    <3>2. Len(s) # 0
      BY <2>1, <2>2, <3>1, Zenon
    <3> QED
      BY <3>2
  <2>6. s[Len(s)] = j[Len(j)]
    BY <2>1, <2>3
  <2> QED
    BY <2>1, <2>4, <2>5, <2>6 DEF Last
<1>2. CASE ~(Len(j) > Lines)
  BY <1>2 DEF LastLines
<1> QED
  BY <1>1, <1>2

LEMMA Written ==
    ASSUME Typed, TickLine \in Line,
           journal' = LastLines(Appended([i \in DOMAIN journal |-> Older(journal[i])], TickLine))
    PROVE  /\ journal' \in Seq(AnyLine) /\ journal' # <<>>
           /\ Last(journal') \in {TickLine, Garbled}
<1> DEFINE j == [i \in DOMAIN journal |-> Older(journal[i])]
<1>1. j \in Seq(AnyLine)
  <2>1. DOMAIN journal = 1..Len(journal) /\ Len(journal) \in Nat
    BY LenProperties DEF Typed
  <2>2. \A i \in 1..Len(journal) : Older(journal[i]) \in AnyLine
    BY <2>1, OlderTyped, ElementOfSeq DEF Typed
  <2> QED
    BY <2>1, <2>2, IsASeq
<1>2. TickLine \in AnyLine
  BY DEF AnyLine
<1> HIDE DEF j
<1>3. /\ Appended(j, TickLine) \in Seq(AnyLine) /\ Appended(j, TickLine) # <<>>
      /\ Last(Appended(j, TickLine)) \in {TickLine, Garbled}
  BY <1>1, <1>2, AppendedLast
<1>4. journal' = LastLines(Appended(j, TickLine))
  BY DEF j
<1> QED
  BY <1>3, <1>4, LastKept

LEMMA Shortened ==
    ASSUME Typed, CutShort
    PROVE  /\ journal' \in Seq(AnyLine)
           /\ Named' => journal' = journal
<1>1. CASE journal' = journal
  BY <1>1 DEF Typed
<1>2. CASE journal' = LastLines(Append(journal, Cut))
  <2>1. Cut \in AnyLine
    BY DEF AnyLine
  <2>2. /\ Append(journal, Cut) \in Seq(AnyLine) /\ Append(journal, Cut) # <<>>
        /\ Last(Append(journal, Cut)) = Cut
    BY <2>1, AppendProperties DEF Last, Typed
  <2>3. journal' \in Seq(AnyLine) /\ Last(journal') = Cut
    BY <1>2, <2>2, LastKept
  <2> QED
    BY <2>3 DEF Named, Readable, Cut
<1> QED
  BY <1>1, <1>2 DEF CutShort

-----------------------------------------------------------------------------
(* Each action keeps the invariant. *)

LEMMA PollInv == Inv /\ Poll => Inv'
<1> SUFFICES ASSUME Inv, Poll PROVE Inv'
  OBVIOUS
<1> USE Constants
<1>1. /\ now' = now /\ lastLlm' = lastLlm /\ active' = active /\ journal' = journal
      /\ failures' = failures /\ freshAt' = freshAt /\ waited' = waited
      /\ restarted' = restarted /\ pc = "sleep" /\ pc' = "ask"
  BY DEF Poll, StartTick, history
<1>2. tick' \in TickSet' /\ tick'.ts = now /\ tick'.seen = active
      /\ tick'.prev = Previous(journal)
  <2>1. PICK d \in BOOLEAN : StartTick(d)
    BY DEF Poll
  <2>2. tick' = [ts |-> now, due |-> d, past |-> History(journal), prev |-> Previous(journal),
                 closes |-> {}, urgent |-> FALSE, todo |-> {}, executed |-> {}, entry |-> None,
                 seen |-> active]
    BY <2>1 DEF StartTick, NoTick
  <2>3. now \in Nat /\ active \in SUBSET Trig /\ None \in Entries
    BY DEF Inv, Typed, Entries
  <2> QED
    BY <2>2, <2>3 DEF TickSet
<1>3. wakeLast' \in [Trig -> Int] /\ \A t \in Trig : wakeLast'[t] <= now
  <2>1. wakeLast \in [Trig -> Int] /\ now \in Int /\ \A t \in Trig : wakeLast[t] <= now
    BY DEF Inv, Typed, Clock
  <2>2. wakeLast' = wakeLast \/ wakeLast' = Stamped(active, now)
    BY DEF Poll
  <2> QED
    BY <2>1, <2>2 DEF Stamped
<1>4. now - lastLlm >= WakeGap
  <2>1. now \in Int /\ lastLlm \in Int
    BY DEF Inv, Typed
  <2>2. now - lastLlm >= Interval \/ now - lastLlm >= WakeGap
    BY DEF Poll, Due, WakeDue
  <2> QED
    BY <2>1, <2>2
<1>5. Typed'
  BY <1>1, <1>2, <1>3 DEF Inv, Typed
<1>6. Clock'
  BY <1>1, <1>2, <1>3 DEF Inv, Typed, Clock
<1>7. Fresh'
  BY <1>1, <1>2 DEF Inv, Typed, Fresh
<1>8. Heard'
  <2> SUFFICES ASSUME NEW t \in Trig
               PROVE  /\ t \notin active => waited[t] = 0
                      /\ 0 <= Ready(t)
    BY <1>1, <1>2 DEF Heard, Ready, Inv, Typed
  <2> QED
    BY <1>1 DEF Inv, Heard
<1>9. Confirmed'
  <2>1. Named' = Named /\ Last(journal)' = Last(journal) /\ Previous(journal)' = Previous(journal)
    BY <1>1 DEF Named
  <2>2. Named => Last(journal).ts \in Nat
    BY LastLine DEF Inv, Line
  <2>3. ~restarted /\ Named => now - Last(journal).ts >= WakeGap
    BY <1>1, <1>4, <2>2 DEF Inv, Typed, Confirmed
  <2> QED
    BY <1>1, <1>2, <2>1, <2>3 DEF Confirmed
<1> QED
  BY <1>5, <1>6, <1>7, <1>8, <1>9 DEF Inv

LEMMA ElapseInv == Inv /\ Elapse => Inv'
<1> SUFFICES ASSUME Inv, Elapse PROVE Inv'
  OBVIOUS
<1> USE Constants
<1>1. /\ lastLlm' = lastLlm /\ active' = active /\ journal' = journal /\ tick' = tick
      /\ failures' = failures /\ freshAt' = freshAt /\ wakeLast' = wakeLast
      /\ restarted' = restarted /\ pc' = pc /\ now' = now + 1
      /\ (pc = "sleep" /\ ~Due /\ ~WakeDue) \/ (pc = "ask" /\ now < tick.ts + CallTime)
  BY DEF Elapse
<1>2. waited' \in [Trig -> Nat]
      /\ \A t \in Trig : waited'[t] = IF t \in active THEN waited[t] + 1 ELSE waited[t]
  BY DEF Elapse, Aged, Inv, Typed
<1>3. tick.ts \in Nat /\ Cost(failures) \in Nat
  <2>1. failures \in Nat /\ tick \in TickSet
    BY DEF Inv, Typed
  <2>2. Cost(failures) \in Nat
    BY <2>1, CostGrows
  <2> QED
    BY <2>1, <2>2 DEF TickSet
<1>4. Typed'
  <2>1. TickSet' = TickSet
    BY <1>1 DEF TickSet
  <2> QED
    BY <1>1, <1>2, <2>1 DEF Inv, Typed
<1>5. Clock'
  BY <1>1, <1>3 DEF Inv, Typed, Clock
<1>6. Fresh'
  BY <1>1, <1>3 DEF Inv, Typed, Fresh, Due
<1>7. Heard'
  <2> SUFFICES ASSUME NEW t \in Trig
               PROVE  /\ t \notin active => waited'[t] = 0
                      /\ pc = "sleep" => /\ 0 <= Ready(t)'
                                         /\ \/ lastLlm + Interval - now' <= Ready(t)'
                                            \/ /\ wakeLast[t] + WakeCool - now' <= Ready(t)'
                                               /\ lastLlm + WakeGap - now' <= Ready(t)'
                      /\ pc # "sleep" => /\ tick.ts - now' <= Ready(t)'
                                         /\ t \notin tick.seen => waited'[t] <= now' - tick.ts
    BY <1>1 DEF Heard
  <2>1. waited[t] \in Nat /\ wakeLast[t] \in Int /\ now \in Nat /\ lastLlm \in Int
    BY DEF Inv, Typed
  <2>2. Ready(t) \in Int /\ Ready(t)' = WakeCool + Cost(failures) - waited'[t]
    BY <1>1, <1>3, <2>1 DEF Ready, Cost
  <2>3. CASE t \in active
    <3>1. waited'[t] = waited[t] + 1 /\ Ready(t)' = Ready(t) - 1
      BY <1>2, <1>3, <2>1, <2>2, <2>3 DEF Ready
    <3>2. CASE pc = "sleep"
      <4>1. ~(lastLlm + Interval - now <= 0)
        BY <1>1, <2>1, <3>2 DEF Due
      <4>2. ~(wakeLast[t] + WakeCool - now <= 0 /\ lastLlm + WakeGap - now <= 0)
        BY <1>1, <2>1, <2>3, <3>2 DEF WakeDue, OutOfCooldown, Due
      <4>3. /\ 0 <= Ready(t)
            /\ \/ lastLlm + Interval - now <= Ready(t)
               \/ /\ wakeLast[t] + WakeCool - now <= Ready(t)
                  /\ lastLlm + WakeGap - now <= Ready(t)
        BY <3>2 DEF Inv, Heard
      <4> QED
        BY <1>1, <2>1, <2>2, <2>3, <3>1, <3>2, <4>1, <4>2, <4>3
    <3>3. CASE pc = "ask"
      BY <1>1, <1>3, <2>1, <2>2, <2>3, <3>1, <3>3 DEF Inv, Heard
    <3> QED
      BY <1>1, <3>2, <3>3
  <2>4. CASE t \notin active
    BY <1>1, <1>2, <1>3, <2>1, <2>2, <2>4 DEF Inv, Heard, Ready
  <2> QED
    BY <2>3, <2>4
<1>8. Confirmed'
  <2>1. Named' = Named /\ Last(journal)' = Last(journal) /\ Previous(journal)' = Previous(journal)
    BY <1>1 DEF Named
  <2>2. Named => Last(journal).ts \in Nat
    BY LastLine DEF Inv, Line
  <2> QED
    BY <1>1, <2>1, <2>2 DEF Inv, Typed, Confirmed
<1> QED
  BY <1>4, <1>5, <1>6, <1>7, <1>8 DEF Inv

LEMMA CandlesUnreadInv == Inv /\ CandlesUnread => Inv'
<1> SUFFICES ASSUME Inv, CandlesUnread PROVE Inv'
  OBVIOUS
<1> USE Constants
<1>1. /\ lastLlm' = lastLlm /\ active' = active /\ journal' = journal /\ tick' = tick
      /\ failures' = failures /\ freshAt' = freshAt /\ wakeLast' = wakeLast
      /\ waited' = waited /\ restarted' = restarted /\ pc' = pc /\ now' = now + 1
      /\ pc = "sleep" /\ ~Due
  BY DEF CandlesUnread, history, WakeDue
<1>2. Cost(failures) \in Nat
  <2>1. failures \in Nat
    BY DEF Inv, Typed
  <2> QED
    BY <2>1, CostGrows
<1>3. Typed'
  <2>1. TickSet' = TickSet
    BY <1>1 DEF TickSet
  <2> QED
    BY <1>1, <2>1 DEF Inv, Typed
<1>4. Clock'
  BY <1>1 DEF Inv, Typed, Clock
<1>5. Fresh'
  BY <1>1, <1>2 DEF Inv, Typed, Fresh, Due
<1>6. Heard'
  <2> SUFFICES ASSUME NEW t \in Trig
               PROVE  /\ t \notin active => waited[t] = 0
                      /\ 0 <= Ready(t)
                      /\ \/ lastLlm + Interval - (now + 1) <= Ready(t)
                         \/ /\ wakeLast[t] + WakeCool - (now + 1) <= Ready(t)
                            /\ lastLlm + WakeGap - (now + 1) <= Ready(t)
    BY <1>1 DEF Heard, Ready
  <2>1. /\ waited[t] \in Nat /\ wakeLast[t] \in Int /\ now \in Nat /\ lastLlm \in Int
        /\ Ready(t) \in Int
    BY <1>2 DEF Inv, Typed, Ready
  <2>2. /\ t \notin active => waited[t] = 0
        /\ 0 <= Ready(t)
        /\ \/ lastLlm + Interval - now <= Ready(t)
           \/ /\ wakeLast[t] + WakeCool - now <= Ready(t)
              /\ lastLlm + WakeGap - now <= Ready(t)
    BY <1>1 DEF Inv, Heard
  <2> QED
    BY <2>1, <2>2
<1>7. Confirmed'
  <2>1. Named' = Named /\ Last(journal)' = Last(journal)
    BY <1>1 DEF Named
  <2>2. Named => Last(journal).ts \in Nat
    BY LastLine DEF Inv, Line
  <2> QED
    BY <1>1, <2>1, <2>2 DEF Inv, Typed, Confirmed
<1> QED
  BY <1>3, <1>4, <1>5, <1>6, <1>7 DEF Inv

LEMMA ToggleInv == \A u \in Trig : Inv /\ Toggle(u) => Inv'
<1> SUFFICES ASSUME NEW u \in Trig, Inv, Toggle(u) PROVE Inv'
  OBVIOUS
<1> USE Constants
<1>1. /\ lastLlm' = lastLlm /\ journal' = journal /\ now' = now
      /\ failures' = failures /\ freshAt' = freshAt /\ wakeLast' = wakeLast
      /\ restarted' = restarted /\ pc' = pc /\ pc \in {"sleep", "ask"}
  BY DEF Toggle
<1>2. waited' \in [Trig -> Nat] /\ waited'[u] = 0
      /\ \A t \in Trig \ {u} : waited'[t] = waited[t]
  BY DEF Toggle, Inv, Typed
<1>3. active' \subseteq Trig /\ \A t \in Trig \ {u} : t \in active' <=> t \in active
  BY DEF Toggle, Inv, Typed
<1>4. /\ tick' \in TickSet' /\ tick'.ts = tick.ts /\ tick'.prev = tick.prev
      /\ tick'.seen = tick.seen \ {u} /\ tick.ts \in Nat
  BY DEF Toggle, Inv, Typed, TickSet
<1>5. Cost(failures) \in Nat
  <2>1. failures \in Nat
    BY DEF Inv, Typed
  <2> QED
    BY <2>1, CostGrows
<1>6. Typed'
  BY <1>1, <1>2, <1>3, <1>4 DEF Inv, Typed
<1>7. Clock'
  BY <1>1, <1>4 DEF Inv, Clock
<1>8. Fresh'
  BY <1>1, <1>4 DEF Inv, Fresh
<1>9. Heard'
  <2> SUFFICES ASSUME NEW t \in Trig
               PROVE  /\ t \notin active' => waited'[t] = 0
                      /\ pc = "sleep" => /\ 0 <= Ready(t)'
                                         /\ \/ lastLlm + Interval - now <= Ready(t)'
                                            \/ /\ wakeLast[t] + WakeCool - now <= Ready(t)'
                                               /\ lastLlm + WakeGap - now <= Ready(t)'
                      /\ pc # "sleep" => /\ tick.ts - now <= Ready(t)'
                                         /\ t \notin tick'.seen => waited'[t] <= now - tick.ts
    BY <1>1, <1>4 DEF Heard
  <2>1. /\ waited[t] \in Nat /\ wakeLast[t] \in Int /\ now \in Nat /\ lastLlm \in Int
        /\ wakeLast[t] <= now /\ lastLlm <= now /\ (pc = "ask" => tick.ts <= now)
    BY DEF Inv, Typed, Clock
  <2>2. Ready(t)' = WakeCool + Cost(failures) - waited'[t]
    BY <1>1 DEF Ready, Cost
  <2>3. CASE t = u
    BY <1>1, <1>2, <1>4, <1>5, <2>1, <2>2, <2>3
  <2>4. CASE t # u
    <3>1. Ready(t)' = Ready(t) /\ waited'[t] = waited[t]
      BY <1>2, <2>2, <2>4 DEF Ready
    <3> QED
      BY <1>1, <1>3, <1>4, <2>4, <3>1 DEF Inv, Heard
  <2> QED
    BY <2>3, <2>4
<1>10. Confirmed'
  <2>1. Named' = Named /\ Last(journal)' = Last(journal) /\ Previous(journal)' = Previous(journal)
    BY <1>1 DEF Named
  <2> QED
    BY <1>1, <1>4, <2>1 DEF Inv, Confirmed
<1> QED
  BY <1>6, <1>7, <1>8, <1>9, <1>10 DEF Inv

LEMMA AnswerInv == Inv /\ Answer => Inv'
<1> SUFFICES ASSUME Inv, Answer PROVE Inv'
  OBVIOUS
<1> USE Constants
<1>1. /\ now' = now /\ lastLlm' = lastLlm /\ wakeLast' = wakeLast /\ active' = active
      /\ journal' = journal /\ failures' = failures /\ waited' = waited
      /\ restarted' = restarted /\ pc = "ask" /\ pc' = "closes" /\ freshAt' = tick.ts
  BY DEF Answer
<1>2. PICK closes \in SUBSET Pos, urgent \in BOOLEAN :
         \E S \in Executions(closes, urgent) :
            tick' = [tick EXCEPT !.closes = closes, !.urgent = urgent, !.todo = S]
  BY DEF Answer
<1>3. PICK S \in Executions(closes, urgent) :
         tick' = [tick EXCEPT !.closes = closes, !.urgent = urgent, !.todo = S]
  BY <1>2
<1>4. S \subseteq Pos /\ \A p \in S : urgent \/ p \in tick.prev
  BY DEF Executions, Eligible
<1>5. /\ tick' \in TickSet' /\ tick'.ts = tick.ts /\ tick'.prev = tick.prev
      /\ tick'.seen = tick.seen /\ tick'.urgent = urgent /\ tick'.todo = S /\ tick.ts \in Nat
  BY <1>3, <1>4 DEF Inv, Typed, TickSet
<1>6. Typed'
  BY <1>1, <1>5 DEF Inv, Typed
<1>7. Clock'
  BY <1>1, <1>5 DEF Inv, Clock
<1>8. Fresh'
  BY <1>1 DEF Inv, Fresh
<1>9. Heard'
  BY <1>1, <1>5 DEF Inv, Heard, Ready
<1>10. Confirmed'
  <2>1. Named' = Named /\ Last(journal)' = Last(journal) /\ Previous(journal)' = Previous(journal)
    BY <1>1 DEF Named
  <2> QED
    BY <1>1, <1>4, <1>5, <2>1 DEF Inv, Confirmed
<1> QED
  BY <1>6, <1>7, <1>8, <1>9, <1>10 DEF Inv

LEMMA RequestCloseInv == \A p \in Pos : Inv /\ RequestClose(p) => Inv'
<1> SUFFICES ASSUME NEW p \in Pos, Inv, RequestClose(p) PROVE Inv'
  OBVIOUS
<1>1. /\ now' = now /\ lastLlm' = lastLlm /\ wakeLast' = wakeLast /\ active' = active
      /\ journal' = journal /\ failures' = failures /\ freshAt' = freshAt
      /\ waited' = waited /\ restarted' = restarted /\ pc' = pc
  BY DEF RequestClose
<1>2. /\ tick' \in TickSet' /\ tick'.ts = tick.ts /\ tick'.prev = tick.prev
      /\ tick'.seen = tick.seen /\ tick'.urgent = tick.urgent /\ tick'.todo \subseteq tick.todo
  BY DEF RequestClose, Inv, Typed, TickSet
<1>3. Typed'
  BY <1>1, <1>2 DEF Inv, Typed
<1>4. Clock'
  BY <1>1, <1>2 DEF Inv, Clock
<1>5. Fresh'
  BY <1>1, <1>2 DEF Inv, Fresh
<1>6. Heard'
  BY <1>1, <1>2 DEF Inv, Heard, Ready
<1>7. Confirmed'
  <2>1. Named' = Named /\ Last(journal)' = Last(journal) /\ Previous(journal)' = Previous(journal)
    BY <1>1 DEF Named
  <2> QED
    BY <1>1, <1>2, <2>1 DEF Inv, Confirmed
<1> QED
  BY <1>3, <1>4, <1>5, <1>6, <1>7 DEF Inv

LEMMA RequestEntryInv == \A e \in Entries : Inv /\ RequestEntry(e) => Inv'
<1> SUFFICES ASSUME NEW e \in Entries, Inv, RequestEntry(e) PROVE Inv'
  OBVIOUS
<1>1. /\ now' = now /\ lastLlm' = lastLlm /\ wakeLast' = wakeLast /\ active' = active
      /\ journal' = journal /\ failures' = failures /\ freshAt' = freshAt
      /\ waited' = waited /\ restarted' = restarted /\ pc = "closes" /\ pc' = "journal"
  BY DEF RequestEntry
<1>2. /\ tick' \in TickSet' /\ tick'.ts = tick.ts /\ tick'.prev = tick.prev
      /\ tick'.seen = tick.seen
  BY DEF RequestEntry, Inv, Typed, TickSet
<1>3. Typed'
  BY <1>1, <1>2 DEF Inv, Typed
<1>4. Clock'
  BY <1>1, <1>2 DEF Inv, Clock
<1>5. Fresh'
  BY <1>1, <1>2 DEF Inv, Fresh
<1>6. Heard'
  BY <1>1, <1>2 DEF Inv, Heard, Ready
<1>7. Confirmed'
  <2>1. Named' = Named /\ Last(journal)' = Last(journal) /\ Previous(journal)' = Previous(journal)
    BY <1>1 DEF Named
  <2> QED
    BY <1>1, <1>2, <2>1 DEF Inv, Confirmed
<1> QED
  BY <1>3, <1>4, <1>5, <1>6, <1>7 DEF Inv

LEMMA FinishTickInv == Inv /\ FinishTick => Inv'
<1> SUFFICES ASSUME Inv, FinishTick PROVE Inv'
  OBVIOUS
<1> USE Constants
<1>1. /\ now' = now /\ active' = active /\ freshAt' = freshAt /\ tick' = NoTick
      /\ lastLlm' = tick.ts /\ failures' = 0 /\ restarted' = FALSE
      /\ pc = "journal" /\ pc' = "sleep"
  BY DEF FinishTick, NextCall
<1>2. tick \in TickSet /\ tick.ts \in Nat /\ now \in Nat /\ freshAt = tick.ts
      /\ tick.ts <= now /\ now <= tick.ts + CallTime
  BY <1>1 DEF Inv, Typed, TickSet, Clock
<1>3. tick' \in TickSet'
  BY <1>1 DEF NoTick, TickSet, Entries
<1>4. wakeLast' \in [Trig -> Int] /\ \A t \in Trig : wakeLast'[t] <= tick.ts
  <2>1. wakeLast \in [Trig -> Int] /\ \A t \in Trig : wakeLast[t] <= tick.ts
    BY <1>1 DEF Inv, Typed, Clock
  <2>2. wakeLast' = wakeLast \/ wakeLast' = Stamped(active, tick.ts)
    BY DEF FinishTick
  <2> QED
    BY <1>2, <2>1, <2>2 DEF Stamped
<1>5. waited' \in [Trig -> Nat]
      /\ \A t \in Trig : waited'[t] = IF t \in tick.seen THEN 0 ELSE waited[t]
  BY DEF FinishTick, Inv, Typed
<1>6. TickLine \in Line
  BY <1>2 DEF TickLine, Line, TickSet
<1>7. /\ journal' \in Seq(AnyLine) /\ journal' # <<>>
      /\ Last(journal') \in {TickLine, Garbled}
  BY <1>6, Written DEF FinishTick, Inv
<1>8. Typed'
  <2>1. active \subseteq Trig
    BY DEF Inv, Typed
  <2>2. now' \in Nat /\ lastLlm' \in Int /\ failures' \in Nat /\ freshAt' \in Nat
    BY <1>1, <1>2
  <2>3. restarted' \in BOOLEAN /\ pc' = "sleep" /\ active' \subseteq Trig
    BY <1>1, <2>1
  <2> QED
    BY <1>3, <1>4, <1>5, <1>7, <2>2, <2>3 DEF Typed
<1>9. Clock'
  BY <1>1, <1>2, <1>4 DEF Clock
<1>10. Fresh'
  BY <1>1, <1>2, NoCost DEF Fresh
<1>11. Heard'
  <2> SUFFICES ASSUME NEW t \in Trig
               PROVE  /\ t \notin active => waited'[t] = 0
                      /\ 0 <= Ready(t)'
                      /\ wakeLast'[t] + WakeCool - now <= Ready(t)'
                      /\ tick.ts + WakeGap - now <= Ready(t)'
    BY <1>1 DEF Heard
  <2>1. Ready(t)' = WakeCool - waited'[t] /\ waited'[t] \in Nat /\ wakeLast'[t] \in Int
    BY <1>1, <1>4, <1>5, NoCost DEF Ready
  <2>2. waited'[t] <= now - tick.ts
    BY <1>1, <1>2, <1>5 DEF Inv, Heard
  <2>3. t \notin active => waited'[t] = 0
    BY <1>5 DEF Inv, Heard
  <2> QED
    BY <1>2, <1>4, <2>1, <2>2, <2>3
<1>12. Confirmed'
  <2>1. Named' => Last(journal') = TickLine
    BY <1>7 DEF Named, Readable, Garbled
  <2>2. Named' => Last(journal').ts = tick.ts
    BY <2>1 DEF TickLine
  <2> QED
    BY <1>1, <2>2 DEF Confirmed
<1> QED
  BY <1>8, <1>9, <1>10, <1>11, <1>12 DEF Inv

LEMMA FailInv == Inv /\ Fail => Inv'
<1> SUFFICES ASSUME Inv, Fail PROVE Inv'
  OBVIOUS
<1> USE Constants
<1>1. /\ now' = now /\ wakeLast' = wakeLast /\ active' = active /\ freshAt' = freshAt
      /\ waited' = waited /\ restarted' = restarted
      /\ lastLlm' = now - (Interval - Retry) /\ failures' = failures + 1
      /\ pc \in {"ask", "closes", "journal"} /\ pc' = "sleep" /\ tick' = NoTick
  BY DEF Fail, CutShort, RetryAt
<1>2. journal' \in Seq(AnyLine) /\ (Named' => journal' = journal)
  BY Shortened DEF Inv, Fail
<1>3. /\ tick.ts \in Nat /\ now \in Nat /\ freshAt \in Nat /\ freshAt <= now
      /\ tick.ts <= now /\ now <= tick.ts + CallTime
      /\ pc = "ask" \/ freshAt = tick.ts
  BY <1>1 DEF Inv, Typed, TickSet, Clock
<1>4. tick' \in TickSet'
  BY <1>1 DEF NoTick, TickSet, Entries
<1>5. Cost(failures) \in Nat /\ Cost(failures') = Cost(failures) + Retry + CallTime
  <2>1. failures \in Nat
    BY DEF Inv, Typed
  <2> QED
    BY <1>1, <2>1, CostGrows
<1>6. Typed'
  BY <1>1, <1>2, <1>3, <1>4 DEF Inv, Typed
<1>7. Clock'
  BY <1>1, <1>3 DEF Inv, Clock
<1>8. Fresh'
  <2>1. pc = "ask" => tick.ts - freshAt <= Interval + Cost(failures)
    BY DEF Inv, Fresh
  <2> QED
    BY <1>1, <1>3, <1>5, <2>1 DEF Fresh
<1>9. Heard'
  <2> SUFFICES ASSUME NEW t \in Trig
               PROVE  /\ t \notin active => waited[t] = 0
                      /\ 0 <= Ready(t)'
                      /\ (now - (Interval - Retry)) + Interval - now <= Ready(t)'
    BY <1>1 DEF Heard
  <2>1. waited[t] \in Nat
    BY DEF Inv, Typed
  <2>2. Ready(t)' = Ready(t) + Retry + CallTime /\ Ready(t) \in Int
    BY <1>1, <1>5, <2>1 DEF Ready
  <2>3. tick.ts - now <= Ready(t) /\ (t \notin active => waited[t] = 0)
    BY <1>1 DEF Inv, Heard
  <2> QED
    BY <1>3, <2>2, <2>3
<1>10. Confirmed'
  <2> SUFFICES ASSUME ~restarted, Named'
               PROVE  now - Last(journal').ts >= WakeGap
    BY <1>1 DEF Confirmed
  <2>1. Last(journal') = Last(journal) /\ Named
    BY <1>2 DEF Named
  <2>2. Last(journal).ts \in Nat
    BY <2>1, LastLine DEF Inv, Line
  <2>3. tick.ts - Last(journal).ts >= WakeGap
    BY <1>1, <2>1 DEF Inv, Confirmed
  <2> QED
    BY <1>3, <2>1, <2>2, <2>3
<1> QED
  BY <1>6, <1>7, <1>8, <1>9, <1>10 DEF Inv

LEMMA RestartInv == Inv /\ Restart => Inv'
<1> SUFFICES ASSUME Inv, Restart PROVE Inv'
  OBVIOUS
<1> USE Constants
<1>1. /\ now' = now /\ active' = active /\ freshAt' = now /\ restarted' = TRUE
      /\ lastLlm' = 0 /\ failures' = 0 /\ pc' = "sleep" /\ tick' = NoTick
  BY DEF Restart, CutShort
<1>2. journal' \in Seq(AnyLine)
  BY Shortened DEF Inv, Restart
<1>3. /\ wakeLast' \in [Trig -> Int] /\ waited' \in [Trig -> Nat]
      /\ \A t \in Trig : wakeLast'[t] = -WakeCool /\ waited'[t] = 0
  BY DEF Restart
<1>4. tick' \in TickSet' /\ now \in Nat /\ active \subseteq Trig
  BY <1>1 DEF NoTick, TickSet, Entries, Inv, Typed
<1>5. Typed'
  BY <1>1, <1>2, <1>3, <1>4 DEF Typed
<1>6. Clock'
  BY <1>1, <1>3, <1>4 DEF Clock
<1>7. Fresh'
  BY <1>1, <1>4, NoCost DEF Fresh
<1>8. Heard'
  <2> SUFFICES ASSUME NEW t \in Trig
               PROVE  /\ waited'[t] = 0 /\ 0 <= Ready(t)'
                      /\ wakeLast'[t] + WakeCool - now <= Ready(t)'
                      /\ 0 + WakeGap - now <= Ready(t)'
    BY <1>1 DEF Heard
  <2>1. Ready(t)' = WakeCool
    BY <1>1, <1>3, NoCost DEF Ready
  <2> QED
    BY <1>3, <1>4, <2>1
<1>9. Confirmed'
  BY <1>1 DEF Confirmed
<1> QED
  BY <1>5, <1>6, <1>7, <1>8, <1>9 DEF Inv

LEMMA StutterInv == Inv /\ UNCHANGED vars => Inv'
<1> SUFFICES ASSUME Inv, UNCHANGED vars PROVE Inv'
  OBVIOUS
<1>1. Typed' /\ Clock' /\ Fresh'
  BY DEF vars, Inv, Typed, TickSet, Clock, Fresh
<1>2. Heard'
  BY DEF vars, Inv, Heard, Ready
<1>3. Confirmed'
  BY DEF vars, Inv, Confirmed, Named, Previous
<1> QED
  BY <1>1, <1>2, <1>3 DEF Inv

THEOREM Invariance == Spec => []Inv
<1>1. Inv /\ [Next]_vars => Inv'
  BY PollInv, ElapseInv, CandlesUnreadInv, ToggleInv, AnswerInv, RequestCloseInv,
     RequestEntryInv, FinishTickInv, FailInv, RestartInv, StutterInv DEF Next
<1> QED
  BY <1>1, InitInv, PTL DEF Spec

-----------------------------------------------------------------------------
(* The properties. *)

(* While the advisor answers, the posture it wrote is never older than an
   interval and a call, and a retry and a call more for each failure since, so a
   lockdown is renewed before portfolio.effective_posture lets it decay. *)
THEOREM PostureIsFresh == Spec => []PostureConfirmed
<1>1. Inv => PostureConfirmed
  <2> SUFFICES ASSUME Inv PROVE PostureConfirmed
    OBVIOUS
  <2> USE Constants
  <2>1. Cost(failures) \in Nat
    <3>1. failures \in Nat
      BY DEF Inv, Typed
    <3> QED
      BY <3>1, CostGrows
  <2>2. now \in Nat /\ freshAt \in Nat /\ tick.ts \in Nat
    BY DEF Inv, Typed, TickSet
  <2>3. now - freshAt <= Interval + CallTime + Cost(failures)
    <3>1. CASE pc = "sleep"
      BY <2>1, <2>2, <3>1 DEF Inv, Fresh
    <3>2. CASE pc = "ask"
      BY <2>1, <2>2, <3>2 DEF Inv, Fresh, Clock
    <3>3. CASE pc \in {"closes", "journal"}
      BY <2>1, <2>2, <3>3 DEF Inv, Clock
    <3> QED
      BY <3>1, <3>2, <3>3 DEF Inv, Typed
  <2> QED
    BY <2>1, <2>3 DEF PostureConfirmed, Cost
<1> QED
  BY <1>1, Invariance, PTL

(* No trigger that stays active waits longer for the model than its cooldown and
   a call, and a retry and a call more for each failure, even when a tick that
   did not see it put it into its cooldown (pick_wake, check_wake, main). *)
THEOREM TriggersSeen == Spec => []TriggersAreSeen
<1>1. Inv => TriggersAreSeen
  <2> SUFFICES ASSUME Inv, NEW t \in Trig
               PROVE  waited[t] <= WakeCool + CallTime + Cost(failures)
    BY DEF TriggersAreSeen, Cost
  <2> USE Constants
  <2>1. Cost(failures) \in Nat
    <3>1. failures \in Nat
      BY DEF Inv, Typed
    <3> QED
      BY <3>1, CostGrows
  <2>2. now \in Nat /\ tick.ts \in Nat /\ waited[t] \in Nat
    BY DEF Inv, Typed, TickSet
  <2>3. CASE pc = "sleep"
    BY <2>1, <2>2, <2>3 DEF Inv, Heard, Ready
  <2>4. CASE pc # "sleep"
    <3>1. now <= tick.ts + CallTime
      BY <2>4 DEF Inv, Typed, Clock
    <3>2. tick.ts - now <= WakeCool + Cost(failures) - waited[t]
      BY <2>4 DEF Inv, Heard, Ready
    <3> QED
      BY <2>1, <2>2, <3>1, <3>2
  <2> QED
    BY <2>3, <2>4
<1> QED
  BY <1>1, Invariance, PTL

(* Outside of a lockdown a close is requested only on the word of two answers, the
   earlier one the last line of the journal and a wake-up gap older, whatever
   failed between the two, as long as the process was not restarted
   (decide_executions, main). *)
THEOREM ClosesConfirmedApart == Spec => ConfirmationsApart
<1> DEFINE Twice(p) ==
      \/ tick.urgent
      \/ /\ journal # <<>> /\ Readable(Last(journal))
         /\ p \in Last(journal).closes
         /\ restarted \/ tick.ts - Last(journal).ts >= WakeGap
<1>1. ASSUME Inv, NEW p \in Pos, RequestClose(p), NEW q \in tick'.executed \ tick.executed
      PROVE  Twice(q)
  <2>1. q = p /\ p \in tick.todo /\ pc = "closes"
    BY <1>1 DEF RequestClose, Inv, Typed, TickSet
  <2>2. tick.urgent \/ p \in Previous(journal)
    BY <1>1, <2>1 DEF Inv, Confirmed
  <2>3. CASE p \in Previous(journal)
    <3>1. Named /\ p \in Last(journal).closes
      BY <2>3 DEF Previous, Named
    <3>2. restarted \/ tick.ts - Last(journal).ts >= WakeGap
      BY <1>1, <2>1, <3>1 DEF Inv, Confirmed
    <3> QED
      BY <2>1, <3>1, <3>2 DEF Named
  <2> QED
    BY <2>1, <2>2, <2>3
<1>2. ASSUME Inv, Next, ~\E p \in Pos : RequestClose(p)
      PROVE  tick'.executed \subseteq tick.executed
  <2>1. tick \in TickSet
    BY <1>2 DEF Inv, Typed
  <2>2. CASE tick' = NoTick
    BY <2>2 DEF NoTick
  <2>3. CASE UNCHANGED tick
    BY <2>3
  <2>4. CASE Poll
    BY <2>4 DEF Poll, StartTick, NoTick
  <2>5. CASE \E t \in Trig : Toggle(t)
    BY <2>1, <2>5 DEF Toggle, TickSet
  <2>6. CASE Answer
    BY <2>1, <2>6 DEF Answer, TickSet
  <2>7. CASE \E e \in Entries : RequestEntry(e)
    BY <2>1, <2>7 DEF RequestEntry, TickSet
  <2>8. Elapse \/ CandlesUnread => UNCHANGED tick
    BY DEF Elapse, CandlesUnread
  <2>9. FinishTick \/ Fail \/ Restart => tick' = NoTick
    BY DEF FinishTick, Fail, Restart, CutShort
  <2> QED
    BY <1>2, <2>2, <2>3, <2>4, <2>5, <2>6, <2>7, <2>8, <2>9 DEF Next
<1>3. Inv /\ [Next]_vars => [\A p \in tick'.executed \ tick.executed : Twice(p)]_vars
  BY <1>1, <1>2
<1>4. [\A p \in tick'.executed \ tick.executed : Twice(p)]_vars
      => [\A p \in tick'.executed \ tick.executed :
            \/ tick.urgent
            \/ /\ journal # <<>> /\ Readable(Last(journal))
               /\ p \in Last(journal).closes
               /\ restarted \/ tick.ts - Last(journal).ts >= WakeGap]_vars
  OBVIOUS
<1> QED
  BY <1>3, <1>4, Invariance, PTL DEF Spec, ConfirmationsApart

-----------------------------------------------------------------------------
(* The limits of an hour and of an entry gap.                              *)
(*                                                                         *)
(* They are read back from the journal, which drops its oldest line once   *)
(* Lines are written.  Lines are a gap apart but for those a restart lets  *)
(* follow at once, so a dropped line is older than the lines behind it,    *)
(* less one gap for each failure.                                          *)

Gaps(n) == n * WakeGap
(* A restart since the last line shows only with the next one. *)
Slack == IF restarted THEN faults - 1 ELSE faults
At == IF pc = "sleep" THEN now ELSE tick.ts

Counted ==
    /\ faults \in 0..MaxFaults /\ (restarted => faults > 0) /\ torn \in BOOLEAN
    /\ pc \in {"ask", "closes"} => tick.entry = None
    /\ pc = "ask" => tick.executed = {}
    /\ tick.todo \cap tick.executed = {}

(* As long as every request has its line, each line of the journal is whole. *)
Whole == journal \in Seq(Line) /\ Len(journal) <= Lines
ReadBack == pc # "sleep" => tick.past = journal
Behind == \A i \in DOMAIN journal : journal[i].ts <= At
Spaced ==
    \A i, j \in DOMAIN journal :
        i <= j => journal[j].ts - journal[i].ts >= Gaps(j - i - Slack)

(* Where what was requested is known from. *)
Request == [ts : Nat, what : Pos \cup {"P", "C"}]
InTick(r) ==
    /\ pc # "sleep" /\ r.ts = tick.ts
    /\ r.what \in tick.executed \/ (tick.entry # None /\ r.what = tick.entry)
Says(l, r) == l.ts = r.ts /\ (r.what \in l.executed \/ r.what = l.entry)
InJournal(r) == \E i \in DOMAIN journal : Says(journal[i], r)
Dropped(r) == journal # <<>> /\ Last(journal).ts - r.ts >= Gaps(Lines - Slack)
Traced ==
    /\ IsFiniteSet(sent) /\ sent \subseteq Request
    /\ \A r \in sent : r.ts <= At /\ (InTick(r) \/ InJournal(r) \/ Dropped(r))

Kept == Counted /\ (~torn => Whole /\ ReadBack /\ Behind /\ Spaced /\ Traced)

(* The closes of the last hour, seen from a tick, and those it may still make. *)
Late == {q \in ClosesSent : tick.ts - q.ts < Hour}
WithinBudget ==
    pc = "closes" /\ tick.todo # {} => Cardinality(Late) + Cardinality(tick.todo) <= MaxExec

(* The lines that failures cannot make up for: of the 80 that are read, six are
   an hour and 24 an entry gap, which leaves 74 and 56 failures. *)
Spare(window) == window + Gaps(MaxFaults) <= Gaps(Lines)

LEMMA GapsAre ==
    ASSUME NEW m \in Int, NEW n \in Int
    PROVE  /\ Gaps(m) \in Int /\ Gaps(m + 1) = Gaps(m) + WakeGap
           /\ m <= n => Gaps(m) <= Gaps(n)
           /\ Gaps(m - n) = Gaps(m) - Gaps(n)
<1> USE Constants
<1> DEFINE k == WakeGap
<1>1. k \in Nat
  OBVIOUS
<1> HIDE DEF k
<1>2. m * k \in Int /\ n * k \in Int /\ (m + 1) * k = m * k + k /\ (m - n) * k = m * k - n * k
  BY <1>1
<1>3. m <= n => m * k <= n * k
  BY <1>1
<1> QED
  BY <1>2, <1>3 DEF Gaps, k

LEMMA InitKept == Init => Kept
<1> SUFFICES ASSUME Init PROVE Kept
  OBVIOUS
<1>1. Counted
  <2>1. tick.entry = None /\ tick.executed = {} /\ tick.todo = {}
    BY DEF Init, NoTick
  <2>2. faults \in 0..MaxFaults
    BY Constants DEF Init
  <2>3. ~restarted /\ torn \in BOOLEAN
    BY DEF Init
  <2> QED
    BY <2>1, <2>2, <2>3 DEF Counted
<1>2. Whole /\ ReadBack /\ Behind /\ Spaced
  <2>1. journal = <<>> /\ Len(journal) = 0 /\ DOMAIN journal = {} /\ journal \in Seq(Line)
    BY EmptySeq DEF Init
  <2> QED
    BY <2>1, Constants DEF Init, Whole, ReadBack, Behind, Spaced
<1>3. Traced
  BY FS_EmptySet DEF Init, Traced
<1> QED
  BY <1>1, <1>2, <1>3 DEF Kept

(* A line that is whole is read again. *)
LEMMA HistoryWhole ==
    ASSUME Whole
    PROVE  History(journal) = journal
<1>1. \A i \in 1..Len(journal) : Readable(journal[i])
  <2>1. \A i \in 1..Len(journal) : journal[i] \in Line
    BY ElementOfSeq DEF Whole
  <2> QED
    BY <2>1 DEF Line, Readable
<1>2. SelectInSeq(journal, LAMBDA l : ~Readable(l)) = 0
  BY <1>1 DEF SelectInSeq
<1>3. journal # <<>> => Readable(Last(journal))
  <2> SUFFICES ASSUME journal # <<>> PROVE Readable(journal[Len(journal)])
    BY DEF Last
  <2>1. Len(journal) \in Nat /\ Len(journal) # 0
    BY EmptySeq DEF Whole
  <2> QED
    BY <1>1, <2>1
<1> QED
  BY <1>2, <1>3 DEF History

LEMMA LineTimes ==
    ASSUME Whole
    PROVE  /\ DOMAIN journal = 1..Len(journal) /\ Len(journal) \in Nat
           /\ \A i \in DOMAIN journal : journal[i] \in Line /\ journal[i].ts \in Nat
           /\ journal # <<>> => Len(journal) \in DOMAIN journal /\ Last(journal) = journal[Len(journal)]
<1>1. DOMAIN journal = 1..Len(journal) /\ Len(journal) \in Nat
  BY LenProperties DEF Whole
<1>2. \A i \in DOMAIN journal : journal[i] \in Line /\ journal[i].ts \in Nat
  <2>1. \A i \in DOMAIN journal : journal[i] \in Line
    BY <1>1, ElementOfSeq DEF Whole
  <2> QED
    BY <2>1 DEF Line
<1>3. journal # <<>> => Len(journal) # 0
  BY EmptySeq DEF Whole
<1> QED
  BY <1>1, <1>2, <1>3 DEF Last

LEMMA SlackIs ==
    ASSUME Counted, restarted \in BOOLEAN
    PROVE  Slack \in Nat /\ Slack <= faults /\ faults \in Nat /\ faults <= MaxFaults
BY Constants DEF Counted, Slack

LEMMA GapsLess ==
    ASSUME NEW k \in Int, NEW f \in Int, NEW s \in Int, s <= f
    PROVE  /\ Gaps(k) \in Int /\ Gaps(k - f) \in Int /\ Gaps(k - s) \in Int
           /\ Gaps(k - f) <= Gaps(k - s)
           /\ Gaps(k + 1 - f) = Gaps(k - f) + WakeGap
           /\ f = s + 1 => Gaps(k + 1 - f) = Gaps(k - s)
<1> PICK x \in Int : x = k - f
  OBVIOUS
<1> PICK y \in Int : y = k - s
  OBVIOUS
<1>1. x <= y /\ k + 1 - f = x + 1 /\ (f = s + 1 => x + 1 = y)
  OBVIOUS
<1>2. Gaps(k) \in Int /\ Gaps(x) \in Int /\ Gaps(y) \in Int
  BY GapsAre
<1>3. Gaps(x) <= Gaps(y)
  BY <1>1, GapsAre
<1>4. Gaps(x + 1) = Gaps(x) + WakeGap
  BY GapsAre
<1> QED
  BY <1>1, <1>2, <1>3, <1>4

(* A step that writes nothing down. *)
LEMMA StillKept ==
    ASSUME Typed, Typed', Kept, Counted',
           journal' = journal, sent' = sent, ~torn' => ~torn, ~torn' => ReadBack',
           Slack' >= Slack, At' >= At,
           ~torn' => \A r \in sent : InTick(r) => InTick(r)'
    PROVE  Kept'
<1> USE Constants
<1> SUFFICES ASSUME ~torn' PROVE Whole' /\ Behind' /\ Spaced' /\ Traced'
  BY DEF Kept
<1>1. Whole /\ Behind /\ Spaced /\ Traced /\ Counted
  BY DEF Kept
<1>2. /\ Slack \in Int /\ Slack' \in Int /\ At \in Int /\ At' \in Int
  <2>1. restarted \in BOOLEAN /\ restarted' \in BOOLEAN /\ tick.ts \in Int /\ tick'.ts \in Int
        /\ now \in Int /\ now' \in Int
    BY DEF Typed, TickSet
  <2>2. faults \in Int /\ faults' \in Int
    BY <1>1 DEF Counted
  <2> QED
    BY <2>1, <2>2 DEF Slack, At
<1>3. Whole'
  BY <1>1 DEF Whole
<1>4. /\ DOMAIN journal = 1..Len(journal) /\ Len(journal) \in Nat
      /\ \A i \in DOMAIN journal : journal[i].ts \in Int
      /\ journal # <<>> => Len(journal) \in DOMAIN journal /\ Last(journal) = journal[Len(journal)]
  BY <1>1, LineTimes
<1>5. Behind'
  BY <1>1, <1>2, <1>4 DEF Behind
<1>6. \A n \in Int : Gaps(n - Slack) \in Int /\ Gaps(n - Slack') \in Int
                     /\ Gaps(n - Slack') <= Gaps(n - Slack)
  <2> TAKE n \in Int
  <2>0. ASSUME NEW x \in Int, NEW y \in Int, x <= y
        PROVE  n - x \in Int /\ n - y \in Int /\ n - y <= n - x
    BY <2>0
  <2>1. n - Slack \in Int /\ n - Slack' \in Int /\ n - Slack' <= n - Slack
    BY <1>2, <2>0
  <2> QED
    BY <2>1, GapsAre
<1>7. Spaced'
  <2> SUFFICES ASSUME NEW i \in DOMAIN journal, NEW j \in DOMAIN journal, i <= j
               PROVE  journal[j].ts - journal[i].ts >= Gaps(j - i - Slack')
    BY DEF Spaced, Gaps
  <2>1. journal[j].ts - journal[i].ts >= Gaps(j - i - Slack)
    BY <1>1 DEF Spaced
  <2>2. j - i \in Int
    BY <1>4
  <2>3. Gaps(j - i - Slack) \in Int /\ Gaps(j - i - Slack') \in Int
        /\ Gaps(j - i - Slack') <= Gaps(j - i - Slack)
    BY <1>6, <2>2
  <2>4. journal[j].ts \in Int /\ journal[i].ts \in Int
    BY <1>4
  <2> QED
    BY <2>1, <2>3, <2>4
<1>8. Traced'
  <2> SUFFICES ASSUME NEW r \in sent
               PROVE  r.ts <= At' /\ (InTick(r)' \/ InJournal(r)' \/ Dropped(r)')
    BY <1>1 DEF Traced
  <2>1. r.ts \in Int /\ r.ts <= At /\ (InTick(r) \/ InJournal(r) \/ Dropped(r))
    BY <1>1 DEF Traced, Request
  <2>2. InTick(r) => InTick(r)'
    OBVIOUS
  <2>3. InJournal(r) => InJournal(r)'
    BY DEF InJournal, Says
  <2>4. Dropped(r) => Dropped(r)'
    <3> SUFFICES ASSUME journal # <<>>, Last(journal).ts - r.ts >= Gaps(Lines - Slack)
                 PROVE  Last(journal).ts - r.ts >= Gaps(Lines - Slack')
      BY DEF Dropped, Gaps
    <3>1. Last(journal).ts \in Int
      BY <1>4
    <3>2. Gaps(Lines - Slack) \in Int /\ Gaps(Lines - Slack') \in Int
          /\ Gaps(Lines - Slack') <= Gaps(Lines - Slack)
      BY <1>6
    <3> QED
      BY <2>1, <3>1, <3>2
  <2>5. r.ts <= At'
    BY <1>2, <2>1
  <2> QED
    BY <2>1, <2>2, <2>3, <2>4, <2>5
<1> QED
  BY <1>3, <1>5, <1>7, <1>8

LEMMA PollKept == Typed /\ Typed' /\ Clock /\ Kept /\ Poll => Kept'
<1> SUFFICES ASSUME Typed, Typed', Clock, Kept, Poll PROVE Kept'
  OBVIOUS
<1>1. /\ pc = "sleep" /\ pc' = "ask" /\ journal' = journal /\ sent' = sent /\ torn' = torn
      /\ faults' = faults /\ restarted' = restarted
  BY DEF Poll, StartTick, history
<1>2. /\ tick'.ts = now /\ tick'.past = History(journal) /\ tick'.entry = None
      /\ tick'.executed = {} /\ tick'.todo = {}
  <2>1. PICK d \in BOOLEAN : StartTick(d)
    BY DEF Poll
  <2> QED
    BY <2>1 DEF StartTick, NoTick
<1>3. Counted'
  BY <1>1, <1>2 DEF Kept, Counted
<1>4. Slack' >= Slack /\ At' >= At
  <2>1. Slack' = Slack /\ Slack \in Int
    BY <1>1 DEF Slack, Kept, Counted
  <2>2. At' = now /\ At = now /\ now \in Int
    BY <1>1, <1>2 DEF At, Typed
  <2> QED
    BY <2>1, <2>2
<1>5. ~torn' => ReadBack'
  BY <1>1, <1>2, HistoryWhole DEF Kept, ReadBack
<1>6. \A r \in sent : InTick(r) => InTick(r)'
  BY <1>1 DEF InTick
<1> QED
  BY <1>1, <1>3, <1>4, <1>5, <1>6, StillKept

(* Time passes, a trigger comes or goes, an answer comes: the tick has requested
   what it had. *)
LEMMA QuietKept ==
    ASSUME Typed, Typed', Kept,
           journal' = journal, sent' = sent, torn' = torn, restarted' = restarted,
           faults' \in {faults, faults + 1}, faults' <= MaxFaults,
           now' \in {now, now + 1}, tick'.ts = tick.ts, tick'.past = tick.past,
           tick'.executed = tick.executed, tick'.entry = tick.entry,
           tick'.todo \cap tick.executed = {},
           pc' = pc \/ (pc = "ask" /\ pc' = "closes")
    PROVE  Kept'
<1> USE Constants
<1>1. Counted'
  <2>1. faults' \in 0..MaxFaults /\ (restarted' => faults' > 0)
    BY DEF Kept, Counted
  <2> QED
    BY <2>1 DEF Kept, Counted
<1>2. Slack' >= Slack
  <2>1. faults \in Int
    BY DEF Kept, Counted
  <2> QED
    BY <2>1 DEF Slack
<1>3. At' >= At
  <2>1. now \in Int /\ tick.ts \in Int
    BY DEF Typed, TickSet
  <2> QED
    BY <2>1 DEF At
<1>4. ~torn' => ReadBack'
  BY DEF Kept, ReadBack
<1>5. \A r \in sent : InTick(r) => InTick(r)'
  BY DEF InTick
<1> QED
  BY <1>1, <1>2, <1>3, <1>4, <1>5, StillKept

LEMMA IdleKept ==
    Typed /\ Typed' /\ Kept /\ (Elapse \/ CandlesUnread \/ (\E t \in Trig : Toggle(t)) \/ Answer)
    => Kept'
<1> SUFFICES ASSUME Typed, Typed', Kept,
                    Elapse \/ CandlesUnread \/ (\E t \in Trig : Toggle(t)) \/ Answer
             PROVE  Kept'
  OBVIOUS
<1>1. /\ journal' = journal /\ sent' = sent /\ torn' = torn /\ restarted' = restarted
      /\ faults' \in {faults, faults + 1} /\ faults' <= MaxFaults
      /\ now' \in {now, now + 1} /\ (pc' = pc \/ (pc = "ask" /\ pc' = "closes"))
  <2>1. faults \in Nat /\ faults <= MaxFaults /\ MaxFaults \in Nat
    BY Constants DEF Kept, Counted
  <2>2. UNCHANGED <<journal, sent, torn, restarted>>
    BY DEF Elapse, CandlesUnread, Toggle, Answer, history
  <2>3. faults' = faults \/ (faults < MaxFaults /\ faults' = faults + 1)
    <3>1. Elapse \/ (\E t \in Trig : Toggle(t)) \/ Answer => faults' = faults
      BY DEF Elapse, Toggle, Answer
    <3>2. CandlesUnread => faults < MaxFaults /\ faults' = faults + 1
      BY DEF CandlesUnread
    <3> QED
      BY <3>1, <3>2
  <2>4. now' \in {now, now + 1}
    BY DEF Elapse, CandlesUnread, Toggle, Answer
  <2>5. pc' = pc \/ (pc = "ask" /\ pc' = "closes")
    <3>1. Elapse \/ CandlesUnread \/ (\E t \in Trig : Toggle(t)) => pc' = pc
      BY DEF Elapse, CandlesUnread, Toggle
    <3>2. Answer => pc = "ask" /\ pc' = "closes"
      BY DEF Answer
    <3> QED
      BY <3>1, <3>2
  <2> QED
    BY <2>1, <2>2, <2>3, <2>4, <2>5
<1>2. /\ tick'.ts = tick.ts /\ tick'.past = tick.past /\ tick'.executed = tick.executed
      /\ tick'.entry = tick.entry /\ tick'.todo \cap tick.executed = {}
  <2>1. tick \in TickSet /\ tick.todo \cap tick.executed = {}
    BY DEF Typed, Kept, Counted
  <2>2. CASE tick' = tick
    BY <2>1, <2>2
  <2>3. CASE \E t \in Trig : Toggle(t)
    BY <2>1, <2>3 DEF Toggle, TickSet
  <2>4. CASE Answer
    <3>1. tick.executed = {}
      BY <2>4 DEF Answer, Kept, Counted
    <3>2. /\ tick'.ts = tick.ts /\ tick'.past = tick.past /\ tick'.executed = tick.executed
          /\ tick'.entry = tick.entry
      BY <2>1, <2>4 DEF Answer, TickSet
    <3> QED
      BY <3>1, <3>2
  <2>5. Elapse \/ CandlesUnread => tick' = tick
    BY DEF Elapse, CandlesUnread
  <2> QED
    BY <2>2, <2>3, <2>4, <2>5
<1> QED
  BY <1>1, <1>2, QuietKept

(* A tick cut short: what it requested without a line makes torn true. *)
LEMMA CutKept ==
    Typed /\ Typed' /\ Clock /\ Kept /\ (Fail \/ Restart) => Kept'
<1> SUFFICES ASSUME Typed, Typed', Clock, Kept, Fail \/ Restart PROVE Kept'
  OBVIOUS
<1> USE Constants
<1>1. /\ now' = now /\ sent' = sent /\ pc' = "sleep" /\ tick' = NoTick
      /\ faults < MaxFaults /\ faults' = faults + 1
      /\ restarted' = restarted \/ restarted' = TRUE
      /\ ~torn' => ~torn /\ journal' = journal /\ tick.executed = {} /\ tick.entry = None
  BY DEF Fail, Restart, CutShort
<1>2. Counted'
  <2>1. faults \in Nat
    BY DEF Kept, Counted
  <2>2. faults' \in 0..MaxFaults /\ faults' > 0
    BY <1>1, <2>1
  <2>3. torn' \in BOOLEAN
    BY DEF Fail, Restart, CutShort, Kept, Counted
  <2>4. tick'.todo = {} /\ tick'.executed = {} /\ tick'.entry = None
    BY <1>1 DEF NoTick
  <2> QED
    BY <2>2, <2>3, <2>4 DEF Counted
<1>3. CASE torn'
  BY <1>2, <1>3 DEF Kept
<1>4. CASE ~torn'
  <2>1. Slack' >= Slack
    <3>1. faults \in Int
      BY DEF Kept, Counted
    <3> QED
      BY <1>1, <3>1 DEF Slack
  <2>2. At' >= At
    <3>1. now \in Int /\ tick.ts \in Int /\ (pc # "sleep" => tick.ts <= now)
      BY DEF Typed, TickSet, Clock
    <3> QED
      BY <1>1, <3>1 DEF At
  <2>3. ReadBack'
    BY <1>1 DEF ReadBack
  <2>4. \A r \in sent : InTick(r) => InTick(r)'
    BY <1>1, <1>4 DEF InTick
  <2>5. journal' = journal /\ sent' = sent /\ ~torn
    BY <1>1, <1>4
  <2> QED
    BY <1>2, <2>1, <2>2, <2>3, <2>4, <2>5, StillKept
<1> QED
  BY <1>3, <1>4

(* A step that remembers what it requested in the tick. *)
LEMMA RequestKept ==
    ASSUME Typed, Typed', Kept, Counted', pc # "sleep", pc' # "sleep",
           journal' = journal, torn' = torn, restarted' = restarted, faults' = faults,
           tick'.ts = tick.ts, tick'.past = tick.past,
           tick.executed \subseteq tick'.executed, tick.entry = None,
           IsFiniteSet(sent'),
           \A r \in sent' : r \in sent \/ (r \in Request /\ r.ts = tick.ts /\ InTick(r)')
    PROVE  Kept'
<1> USE Constants
<1> SUFFICES ASSUME ~torn PROVE Whole' /\ ReadBack' /\ Behind' /\ Spaced' /\ Traced'
  BY DEF Kept
<1>1. Whole /\ ReadBack /\ Behind /\ Spaced /\ Traced
  BY DEF Kept
<1>2. Slack' = Slack /\ At' = At /\ At = tick.ts /\ At \in Nat
  BY DEF Slack, At, Typed, TickSet
<1>3. Whole' /\ ReadBack'
  BY <1>1 DEF Whole, ReadBack
<1>4. Behind' /\ Spaced'
  BY <1>1, <1>2 DEF Behind, Spaced, Gaps
<1>5. Traced'
  <2> SUFFICES ASSUME NEW r \in sent'
               PROVE  r \in Request /\ r.ts <= At /\ (InTick(r)' \/ InJournal(r)' \/ Dropped(r)')
    BY <1>2 DEF Traced, Request
  <2>1. CASE r \in sent
    <3>1. r \in Request /\ r.ts <= At /\ (InTick(r) \/ InJournal(r) \/ Dropped(r))
      BY <1>1, <2>1 DEF Traced
    <3>2. InTick(r) => InTick(r)'
      BY DEF InTick
    <3>3. InJournal(r) => InJournal(r)'
      BY DEF InJournal, Says
    <3>4. Dropped(r) => Dropped(r)'
      BY <1>2 DEF Dropped, Gaps
    <3> QED
      BY <3>1, <3>2, <3>3, <3>4
  <2>2. CASE r \notin sent
    BY <1>2, <2>2
  <2> QED
    BY <2>1, <2>2
<1> QED
  BY <1>3, <1>4, <1>5

LEMMA Remembered ==
    ASSUME Kept, IsFiniteSet(sent), Typed, NEW w \in Pos \cup {"P", "C"}, Remember(w)
    PROVE  /\ IsFiniteSet(sent')
           /\ \A r \in sent' :
                 \/ r \in sent /\ tick.ts - r.ts < Day
                 \/ r \in Request /\ r.ts = tick.ts /\ r.what = w
                    /\ r = [ts |-> tick.ts, what |-> w]
<1> DEFINE new == [ts |-> tick.ts, what |-> w]
           young == {r \in sent : tick.ts - r.ts < Day}
<1>1. sent' = young \cup {new}
  BY DEF Remember
<1>2. IsFiniteSet(young)
  BY FS_Subset
<1>3. IsFiniteSet(young \cup {new})
  BY <1>2, FS_AddElement
<1>4. new \in Request /\ new.ts = tick.ts /\ new.what = w
  BY DEF Request, Typed, TickSet
<1> QED
  BY <1>1, <1>3, <1>4

LEMMA CloseKept == \A p \in Pos : Typed /\ Typed' /\ Kept /\ RequestClose(p) => Kept'
<1> SUFFICES ASSUME NEW p \in Pos, Typed, Typed', Kept, RequestClose(p) PROVE Kept'
  OBVIOUS
<1>1. /\ pc = "closes" /\ pc' = "closes" /\ journal' = journal /\ torn' = torn
      /\ restarted' = restarted /\ faults' = faults /\ p \in tick.todo /\ Remember(p)
  BY DEF RequestClose
<1>2. /\ tick'.ts = tick.ts /\ tick'.past = tick.past /\ tick'.entry = tick.entry
      /\ tick'.executed = tick.executed \cup {p} /\ tick'.todo = tick.todo \ {p}
  BY DEF RequestClose, Typed, TickSet
<1>3. Counted'
  <2>1. Counted
    BY DEF Kept
  <2>2. tick'.todo \cap tick'.executed = {}
    BY <1>2, <2>1 DEF Counted
  <2> QED
    BY <1>1, <1>2, <2>1, <2>2 DEF Counted
<1>4. CASE torn
  BY <1>1, <1>3, <1>4 DEF Kept
<1>5. CASE ~torn
  <2>1. IsFiniteSet(sent) /\ tick.entry = None
    BY <1>1, <1>5 DEF Kept, Traced, Counted
  <2>2. /\ IsFiniteSet(sent')
        /\ \A r \in sent' : r \in sent \/ (r \in Request /\ r.ts = tick.ts /\ r.what = p)
    BY <1>1, <2>1, Remembered
  <2>3. \A r \in sent' : r \in sent \/ (r \in Request /\ r.ts = tick.ts /\ InTick(r)')
    BY <1>1, <1>2, <2>2 DEF InTick
  <2> QED
    BY <1>1, <1>2, <1>3, <2>1, <2>2, <2>3, RequestKept
<1> QED
  BY <1>4, <1>5

LEMMA EntryKept == \A e \in Entries : Typed /\ Typed' /\ Kept /\ RequestEntry(e) => Kept'
<1> SUFFICES ASSUME NEW e \in Entries, Typed, Typed', Kept, RequestEntry(e) PROVE Kept'
  OBVIOUS
<1>1. /\ pc = "closes" /\ pc' = "journal" /\ journal' = journal /\ torn' = torn
      /\ restarted' = restarted /\ faults' = faults
      /\ (e = None /\ sent' = sent) \/ (e # None /\ Remember(e))
  BY DEF RequestEntry
<1>2. /\ tick'.ts = tick.ts /\ tick'.past = tick.past /\ tick'.entry = e
      /\ tick'.executed = tick.executed /\ tick'.todo = tick.todo
  BY DEF RequestEntry, Typed, TickSet
<1>3. Counted'
  BY <1>1, <1>2 DEF Kept, Counted
<1>4. CASE torn
  BY <1>1, <1>3, <1>4 DEF Kept
<1>5. CASE ~torn
  <2>1. IsFiniteSet(sent) /\ tick.entry = None
    BY <1>1, <1>5 DEF Kept, Traced, Counted
  <2>2. /\ IsFiniteSet(sent')
        /\ \A r \in sent' :
              r \in sent \/ (r \in Request /\ r.ts = tick.ts /\ r.what = e /\ e # None)
    <3>1. CASE e # None /\ Remember(e)
      <4>1. e \in Pos \cup {"P", "C"}
        BY <3>1 DEF Entries
      <4> QED
        BY <2>1, <3>1, <4>1, Remembered
    <3> QED
      BY <1>1, <2>1, <3>1
  <2>3. \A r \in sent' : r \in sent \/ (r \in Request /\ r.ts = tick.ts /\ InTick(r)')
    BY <1>1, <1>2, <2>2 DEF InTick
  <2> QED
    BY <1>1, <1>2, <1>3, <2>1, <2>2, <2>3, RequestKept
<1> QED
  BY <1>4, <1>5

LEMMA OlderLine ==
    ASSUME NEW l \in Line
    PROVE  /\ Older(l) \in Line /\ Older(l).ts = l.ts
           /\ Older(l).executed = l.executed /\ Older(l).entry = l.entry
BY DEF Older, Line, Readable

(* The line is written behind the others, and the oldest falls out when there
   are too many. *)
LEMMA JournalGrows ==
    ASSUME Whole, TickLine \in Line,
           journal' = LastLines(Appended([i \in DOMAIN journal |-> Older(journal[i])], TickLine))
    PROVE  /\ Whole'
           /\ \E d \in {0, 1} :
                 /\ d = 1 => Len(journal) = Lines
                 /\ Len(journal') = Len(journal) + 1 - d
                 /\ DOMAIN journal' = 1..(Len(journal) + 1 - d)
                 /\ \A i \in DOMAIN journal' :
                       journal'[i] = IF i + d <= Len(journal) THEN Older(journal[i + d])
                                     ELSE TickLine
<1> USE Constants
<1> DEFINE n == Len(journal)
           j == [i \in DOMAIN journal |-> Older(journal[i])]
           f == Append(j, TickLine)
<1>1. n \in Nat /\ n <= Lines /\ DOMAIN journal = 1..n /\ \A i \in 1..n : journal[i] \in Line
  BY LineTimes DEF Whole
<1>2. j \in Seq(Line) /\ Len(j) = n /\ \A i \in 1..n : j[i] = Older(journal[i])
  <2>1. \A i \in 1..n : Older(journal[i]) \in Line
    BY <1>1, OlderLine
  <2>2. j \in Seq(Line)
    BY <1>1, <2>1, IsASeq
  <2>3. DOMAIN j = 1..n
    BY <1>1
  <2> QED
    BY <1>1, <2>2, <2>3, LenProperties
<1>3. Appended(j, TickLine) = f
  <2>1. j # <<>> => Last(j) # Cut
    <3> SUFFICES ASSUME j # <<>> PROVE j[Len(j)] # Cut
      BY DEF Last
    <3>1. Len(j) # 0
      BY <1>2, EmptySeq
    <3>2. j[Len(j)] \in Line
      BY <1>1, <1>2, <3>1, ElementOfSeq
    <3> QED
      BY <3>2 DEF Line, Cut
  <2> QED
    BY <2>1 DEF Appended
<1>4. journal' = LastLines(f)
  BY <1>3
<1>5. f \in Seq(Line) /\ Len(f) = n + 1 /\ f[n + 1] = TickLine
      /\ \A i \in 1..n : f[i] = Older(journal[i])
  BY <1>2, AppendProperties
<1>n. n = Len(journal)
  OBVIOUS
<1> HIDE DEF f, j, n
<1>6. CASE n + 1 <= Lines
  <2>1. journal' = f
    BY <1>1, <1>4, <1>5, <1>6 DEF LastLines
  <2>2. DOMAIN f = 1..(n + 1)
    BY <1>5, LenProperties
  <2>3. \A i \in 1..(n + 1) : f[i] = IF i + 0 <= n THEN Older(journal[i + 0]) ELSE TickLine
    BY <1>1, <1>5
  <2>4. Len(journal') = n + 1 - 0 /\ DOMAIN journal' = 1..(n + 1 - 0)
    BY <1>1, <1>5, <2>1, <2>2
  <2>5. Whole'
    BY <1>1, <1>5, <1>6, <2>1 DEF Whole
  <2>6. \A i \in DOMAIN journal' :
           journal'[i] = IF i + 0 <= n THEN Older(journal[i + 0]) ELSE TickLine
    BY <2>1, <2>2, <2>3
  <2>7. 0 \in {0, 1} /\ (0 = 1 => n = Lines)
    OBVIOUS
  <2> QED
    BY <1>n, <2>4, <2>5, <2>6, <2>7
<1>7. CASE n = Lines
  <2>1. journal' = Tail(f)
    <3>1. Len(f) > Lines
      BY <1>1, <1>5, <1>7
    <3> QED
      BY <1>4, <3>1 DEF LastLines
  <2>2. f # <<>>
    BY <1>1, <1>5
  <2>3. Tail(f) \in Seq(Line) /\ Len(Tail(f)) = n /\ \A i \in 1..n : Tail(f)[i] = f[i + 1]
    BY <1>1, <1>5, <2>2, HeadTailProperties
  <2>4. DOMAIN Tail(f) = 1..n
    BY <2>3, LenProperties
  <2>5. \A i \in 1..n : f[i + 1] = IF i + 1 <= n THEN Older(journal[i + 1]) ELSE TickLine
    <3> TAKE i \in 1..n
    <3>1. CASE i + 1 <= n
      BY <1>1, <1>5, <3>1
    <3>2. CASE i = n
      BY <1>1, <1>5, <3>2
    <3> QED
      BY <1>1, <3>1, <3>2
  <2>6. Whole'
    BY <1>1, <2>1, <2>3 DEF Whole
  <2>7. Len(journal') = n + 1 - 1 /\ DOMAIN journal' = 1..(n + 1 - 1)
    BY <1>1, <2>1, <2>3, <2>4
  <2> QED
    BY <1>n, <1>7, <2>1, <2>3, <2>4, <2>5, <2>6, <2>7
<1> QED
  BY <1>1, <1>6, <1>7

LEMMA FinishKept == Inv /\ Inv' /\ Kept /\ FinishTick => Kept'
<1> SUFFICES ASSUME Inv, Inv', Kept, FinishTick PROVE Kept'
  OBVIOUS
<1> USE Constants
<1>1. /\ now' = now /\ sent' = sent /\ torn' = torn /\ pc = "journal" /\ pc' = "sleep"
      /\ faults' = faults /\ restarted' = FALSE /\ tick' = NoTick
      /\ journal' = LastLines(Appended([i \in DOMAIN journal |-> Older(journal[i])], TickLine))
  BY DEF FinishTick
<1>2. Counted'
  <2>1. tick'.todo = {} /\ tick'.executed = {} /\ tick'.entry = None
    BY <1>1 DEF NoTick
  <2> QED
    BY <1>1, <2>1 DEF Kept, Counted
<1>3. CASE torn
  BY <1>1, <1>2, <1>3 DEF Kept
<1>4. CASE ~torn
  <2>1. Whole /\ Behind /\ Spaced /\ Traced /\ Counted
    BY <1>4 DEF Kept
  <2> DEFINE n == Len(journal)
             Ts(i) == IF i <= n THEN journal[i].ts ELSE tick.ts
  <2>2. /\ n \in Nat /\ n <= Lines /\ DOMAIN journal = 1..n
        /\ \A i \in 1..n : journal[i] \in Line /\ journal[i].ts \in Nat
        /\ n > 0 => Last(journal) = journal[n] /\ Readable(journal[n])
    <3>1. n > 0 => journal # <<>>
      OBVIOUS
    <3>2. \A i \in 1..n : Readable(journal[i])
      BY <2>1, LineTimes DEF Line, Readable
    <3> QED
      BY <2>1, <3>1, <3>2, LineTimes DEF Whole
  <2>3. /\ tick.ts \in Nat /\ now \in Nat /\ tick.ts <= now
        /\ restarted \in BOOLEAN
        /\ \A i \in 1..n : journal[i].ts <= tick.ts
    BY <1>1, <2>1, <2>2 DEF Inv, Typed, TickSet, Clock, Behind, At
  <2>4. /\ faults \in Nat /\ Slack \in Nat /\ Slack <= faults /\ Slack' = faults
        /\ restarted => faults = Slack + 1
        /\ ~restarted => Slack = faults
    <3>1. Slack \in Nat /\ Slack <= faults /\ faults \in Nat
      BY <2>1, <2>3, SlackIs
    <3>2. Slack' = faults
      BY <1>1 DEF Slack
    <3>3. (restarted => faults = Slack + 1) /\ (~restarted => Slack = faults)
      BY <3>1 DEF Slack
    <3> QED
      BY <3>1, <3>2, <3>3
  <2>5. TickLine \in Line
    BY DEF TickLine, Line, Inv, Typed, TickSet
  <2>6. PICK d \in {0, 1} :
           /\ d = 1 => n = Lines
           /\ Len(journal') = n + 1 - d
           /\ DOMAIN journal' = 1..(n + 1 - d)
           /\ \A i \in DOMAIN journal' :
                 journal'[i] = IF i + d <= n THEN Older(journal[i + d]) ELSE TickLine
    BY <1>1, <2>1, <2>5, JournalGrows
  <2>7. Whole'
    BY <1>1, <2>1, <2>5, JournalGrows
  <2>n. n = Len(journal)
    OBVIOUS
  <2>8. n > 0 /\ ~restarted => tick.ts - journal[n].ts >= WakeGap
    <3>1. n > 0 => journal # <<>>
      OBVIOUS
    <3> QED
      BY <1>1, <2>2, <3>1 DEF Inv, Confirmed, Named
  <2> HIDE DEF n
  <2>9. \A k \in Int : /\ Gaps(k) \in Int
                       /\ Gaps(k - faults) \in Int /\ Gaps(k - Slack) \in Int
                       /\ Gaps(k - faults) <= Gaps(k - Slack)
                       /\ Gaps(k + 1 - faults) = Gaps(k - faults) + WakeGap
                       /\ restarted => Gaps(k + 1 - faults) = Gaps(k - Slack)
    <3> TAKE k \in Int
    <3>1. faults \in Int /\ Slack \in Int
      BY <2>4
    <3> QED
      BY <2>4, <3>1, GapsLess
  <2>10. \A i \in 1..(n + 1) : Ts(i) \in Nat /\ Ts(i) <= tick.ts
    BY <2>2, <2>3
  <2>11. \A i, j \in 1..(n + 1) : i <= j => Ts(j) - Ts(i) >= Gaps(j - i - faults)
    <3> SUFFICES ASSUME NEW i \in 1..(n + 1), NEW j \in 1..(n + 1), i <= j
                 PROVE  Ts(j) - Ts(i) >= Gaps(j - i - faults)
      OBVIOUS
    <3>1. CASE j <= n
      <4>1. i \in 1..n /\ j \in 1..n /\ j - i \in Int
        BY <2>2, <3>1
      <4>2. journal[j].ts - journal[i].ts >= Gaps(j - i - Slack)
        BY <2>1, <2>2, <4>1 DEF Spaced
      <4>3. Gaps(j - i - Slack) \in Int /\ Gaps(j - i - faults) \in Int
            /\ Gaps(j - i - faults) <= Gaps(j - i - Slack)
        BY <2>9, <4>1
      <4>4. journal[j].ts \in Int /\ journal[i].ts \in Int
            /\ Ts(j) = journal[j].ts /\ Ts(i) = journal[i].ts
        BY <2>2, <4>1
      <4> HIDE DEF Ts
      <4> QED
        BY <4>2, <4>3, <4>4
    <3>2. CASE i = n + 1
      <4>1. j = n + 1 /\ Ts(j) = tick.ts /\ Ts(i) = tick.ts /\ j - i = 0
        BY <2>2, <3>2
      <4>2. Gaps(0 - faults) <= 0 /\ Gaps(0 - faults) \in Int
        <5>1. Gaps(0) = 0
          BY DEF Gaps
        <5>2. PICK m \in Int : m = 0 - faults /\ m <= 0
          BY <2>4
        <5>3. Gaps(m) \in Int /\ Gaps(m) <= Gaps(0)
          BY <5>2, GapsAre
        <5> QED
          BY <5>1, <5>2, <5>3
      <4> HIDE DEF Ts
      <4> QED
        BY <2>3, <4>1, <4>2
    <3>3. CASE i <= n /\ j = n + 1
      <4>1. i \in 1..n /\ n \in 1..n /\ i <= n /\ n > 0 /\ n - i \in Int
            /\ j - i = (n - i) + 1
        BY <2>2, <3>3
      <4>2. journal[n].ts - journal[i].ts >= Gaps(n - i - Slack)
        BY <2>1, <2>2, <4>1 DEF Spaced
      <4>3. /\ journal[n].ts \in Int /\ journal[i].ts \in Int /\ journal[n].ts <= tick.ts
            /\ Ts(i) = journal[i].ts /\ Ts(j) = tick.ts
        BY <2>2, <2>3, <3>3, <4>1
      <4>4. /\ Gaps(n - i - Slack) \in Int
            /\ Gaps(n - i + 1 - faults) = Gaps(n - i - faults) + WakeGap
            /\ restarted => Gaps(n - i + 1 - faults) = Gaps(n - i - Slack)
        BY <2>9, <4>1
      <4>7. Gaps(j - i - faults) = Gaps(n - i + 1 - faults)
        BY <2>4, <4>1
      <4> HIDE DEF Ts
      <4>5. CASE restarted
        BY <2>3, <4>2, <4>3, <4>4, <4>5, <4>7
      <4>6. CASE ~restarted
        <5>1. tick.ts - journal[n].ts >= WakeGap /\ Slack = faults
          BY <2>4, <2>8, <4>1, <4>6
        <5>2. Gaps(n - i - Slack) = Gaps(n - i - faults)
          BY <5>1
        <5> QED
          BY <2>3, <4>2, <4>3, <4>4, <4>7, <5>1, <5>2
      <4> QED
        BY <4>5, <4>6
    <3> QED
      BY <2>2, <3>1, <3>2, <3>3
  <2>12. \A i \in DOMAIN journal' : i + d \in 1..(n + 1) /\ journal'[i].ts = Ts(i + d)
    <3> TAKE i \in DOMAIN journal'
    <3>1. i + d \in 1..(n + 1)
      BY <2>2, <2>6
    <3>2. CASE i + d <= n
      BY <2>2, <2>6, <3>1, <3>2, OlderLine
    <3>3. CASE ~(i + d <= n)
      BY <2>6, <3>1, <3>3 DEF TickLine
    <3> QED
      BY <3>1, <3>2, <3>3
  <2> HIDE DEF Ts
  <2>13. Behind'
    <3> SUFFICES ASSUME NEW i \in DOMAIN journal' PROVE journal'[i].ts <= now
      BY <1>1 DEF Behind, At
    <3> QED
      BY <2>3, <2>10, <2>12
  <2>14. Spaced'
    <3> SUFFICES ASSUME NEW i \in DOMAIN journal', NEW j \in DOMAIN journal', i <= j
                 PROVE  journal'[j].ts - journal'[i].ts >= Gaps(j - i - faults)
      BY <2>4 DEF Spaced, Gaps
    <3>1. i + d \in 1..(n + 1) /\ j + d \in 1..(n + 1)
          /\ journal'[i].ts = Ts(i + d) /\ journal'[j].ts = Ts(j + d)
      BY <2>12
    <3>2. i + d <= j + d /\ (j + d) - (i + d) = j - i
      BY <2>6
    <3>3. Ts(j + d) - Ts(i + d) >= Gaps((j + d) - (i + d) - faults)
      BY <2>11, <3>1, <3>2
    <3> QED
      BY <3>1, <3>2, <3>3
  <2>15. journal' # <<>> /\ Last(journal') = TickLine /\ TickLine.ts = tick.ts
         /\ n + 1 - d \in DOMAIN journal' /\ journal'[n + 1 - d] = TickLine
    <3>1. n + 1 - d \in 1..(n + 1 - d) /\ n + 1 - d # 0 /\ ~(n + 1 - d + d <= n)
      BY <2>2, <2>6
    <3>2. journal'[n + 1 - d] = TickLine
      BY <2>6, <3>1
    <3>3. journal' # <<>>
      BY <2>6, <3>1
    <3> QED
      BY <2>6, <3>1, <3>2, <3>3 DEF Last, TickLine
  <2>16. Traced'
    <3> SUFFICES ASSUME NEW r \in sent
                 PROVE  r.ts <= now /\ (InJournal(r)' \/ Dropped(r)')
      BY <1>1, <2>1 DEF Traced, At
    <3>1. r.ts \in Nat /\ r.ts <= tick.ts /\ (InTick(r) \/ InJournal(r) \/ Dropped(r))
      BY <1>1, <2>1 DEF Traced, At, Request
    <3>6. r.ts <= now
      BY <2>3, <3>1
    <3>2. ASSUME tick.ts - r.ts >= Gaps(Lines - faults)
          PROVE  Dropped(r)'
      <4>1. Last(journal').ts - r.ts >= Gaps(Lines - Slack')
        BY <2>4, <2>15, <3>2
      <4> QED
        BY <2>15, <4>1 DEF Dropped, Gaps
    <3>3. CASE InTick(r)
      <4>1. Says(TickLine, r)
        BY <3>3 DEF InTick, Says, TickLine
      <4>2. \E i \in DOMAIN journal' : Says(journal'[i], r)
        BY <2>15, <4>1
      <4> QED
        BY <3>6, <4>2, Zenon DEF InJournal, Says
    <3>4. CASE InJournal(r)
      <4>1. PICK i \in 1..n : Says(journal[i], r)
        BY <2>2, <3>4 DEF InJournal
      <4>2. CASE i - d \in 1..(n + 1 - d)
        <5>1. i - d \in DOMAIN journal' /\ i - d + d <= n /\ i - d + d = i
          BY <2>2, <2>6, <4>2
        <5>2. journal'[i - d] = Older(journal[i])
          BY <2>6, <5>1
        <5>3. Says(Older(journal[i]), r)
          BY <2>2, <4>1, OlderLine DEF Says
        <5>4. \E k \in DOMAIN journal' : Says(journal'[k], r)
          BY <5>1, <5>2, <5>3
        <5> QED
          BY <3>6, <5>4, Zenon DEF InJournal, Says
      <4>3. CASE ~(i - d \in 1..(n + 1 - d))
        <5>1. i = 1 /\ d = 1 /\ n = Lines /\ n \in Nat
          BY <2>2, <2>6, <4>3
        <5>2. PICK k \in 1..(n + 1) : k = n + 1
          BY <5>1
        <5>3. Ts(k) - Ts(1) >= Gaps(k - 1 - faults)
          <6>1. 1 \in 1..(n + 1) /\ 1 <= k
            BY <5>1
          <6> QED
            BY <2>11, <6>1
        <5>4. Ts(k) = tick.ts /\ Ts(1) = r.ts
          BY <4>1, <5>1, <5>2 DEF Ts, Says
        <5>5. Gaps(k - 1 - faults) = Gaps(Lines - faults)
          BY <2>4, <5>1, <5>2
        <5> QED
          BY <3>2, <3>6, <5>3, <5>4, <5>5
      <4> QED
        BY <4>2, <4>3
    <3>5. CASE Dropped(r)
      <4>1. n > 0
        BY <2>2, <3>5, EmptySeq, <2>1 DEF Dropped, Whole
      <4>2. Last(journal).ts - r.ts >= Gaps(Lines - Slack)
        BY <3>5 DEF Dropped
      <4>3. Last(journal).ts \in Nat /\ Last(journal).ts <= tick.ts
        BY <2>2, <2>3, <4>1
      <4>4. Gaps(Lines - faults) <= Gaps(Lines - Slack)
            /\ Gaps(Lines - faults) \in Int /\ Gaps(Lines - Slack) \in Int
        BY <2>9
      <4> QED
        BY <2>3, <3>1, <3>2, <4>2, <4>3, <4>4
    <3> QED
      BY <2>3, <3>1, <3>3, <3>4, <3>5
  <2>17. ReadBack'
    BY <1>1 DEF ReadBack
  <2> QED
    BY <1>2, <2>7, <2>13, <2>14, <2>16, <2>17 DEF Kept
<1> QED
  BY <1>3, <1>4

(* What was requested since the last line, and the lines behind it, are known
   as the journal says. *)
THEOREM JournalKept == Spec => []Kept
<1>1. ASSUME Inv, Inv', Kept, [Next]_vars PROVE Kept'
  <2>1. Typed /\ Typed' /\ Clock
    BY <1>1 DEF Inv
  <2>2. CASE UNCHANGED vars
    <3>1. /\ journal' = journal /\ sent' = sent /\ torn' = torn /\ restarted' = restarted
          /\ faults' = faults /\ now' = now /\ tick' = tick /\ pc' = pc
      BY <2>2 DEF vars
    <3>2. faults' <= MaxFaults /\ tick'.todo \cap tick.executed = {}
      BY <1>1, <3>1, Constants DEF Kept, Counted
    <3> QED
      BY <1>1, <2>1, <3>1, <3>2, QuietKept
  <2>3. CASE Next
    BY <1>1, <2>1, <2>3, PollKept, IdleKept, CloseKept, EntryKept, FinishKept, CutKept DEF Next
  <2> QED
    BY <1>1, <2>2, <2>3
<1>2. Inv /\ Inv' /\ Kept /\ [Next]_vars => Kept'
  BY <1>1
<1> QED
  BY <1>2, InitKept, Invariance, PTL DEF Spec

(* What was requested in a window that the spare lines cover is in the journal
   the tick has read. *)
LEMMA ReadAgain ==
    ASSUME Inv, Kept, ~torn, pc # "sleep", NEW window \in Nat, Spare(window),
           NEW r \in sent, ~InTick(r), tick.ts - r.ts < window
    PROVE  /\ tick.past = journal
           /\ \E i \in DOMAIN journal : journal[i] \in Line /\ Says(journal[i], r)
<1> USE Constants
<1>1. Whole /\ ReadBack /\ Behind /\ Traced /\ Counted /\ restarted \in BOOLEAN
  BY DEF Kept, Inv, Typed
<1>2. tick.ts \in Nat /\ r.ts \in Nat
  BY <1>1 DEF Inv, Typed, TickSet, Traced, Request
<1>3. ~Dropped(r)
  <2> SUFFICES ASSUME Dropped(r) PROVE FALSE
    OBVIOUS
  <2>1. Last(journal).ts - r.ts >= Gaps(Lines - Slack)
    BY DEF Dropped
  <2>2. Last(journal).ts \in Nat /\ Last(journal).ts <= tick.ts
    <3>1. journal # <<>>
      BY DEF Dropped
    <3>2. Len(journal) \in DOMAIN journal /\ Last(journal) = journal[Len(journal)]
          /\ journal[Len(journal)].ts \in Nat
      BY <1>1, <3>1, LineTimes
    <3> QED
      BY <1>1, <3>2 DEF Behind, At
  <2>3. Slack \in Nat /\ Slack <= MaxFaults
    BY <1>1, SlackIs
  <2>4. Gaps(Lines - MaxFaults) = Gaps(Lines) - Gaps(MaxFaults)
        /\ Gaps(Lines) \in Int /\ Gaps(MaxFaults) \in Int
    <3>1. Lines \in Int /\ MaxFaults \in Int
      OBVIOUS
    <3> QED
      BY <3>1, GapsAre
  <2>5. Gaps(Lines - Slack) \in Int /\ Gaps(Lines - MaxFaults) <= Gaps(Lines - Slack)
    <3>1. Lines \in Int /\ MaxFaults \in Int /\ Slack \in Int
      BY <2>3
    <3> QED
      BY <2>3, <3>1, GapsLess
  <2>6. window + Gaps(MaxFaults) <= Gaps(Lines)
    BY DEF Spare
  <2> QED
    BY <1>2, <2>1, <2>2, <2>4, <2>5, <2>6
<1>4. \E i \in DOMAIN journal : Says(journal[i], r)
  BY <1>1, <1>3 DEF Traced, InJournal
<1>5. \A i \in DOMAIN journal : journal[i] \in Line
  BY <1>1, LineTimes
<1> QED
  BY <1>1, <1>4, <1>5 DEF ReadBack

LEMMA PositionsAre ==
    /\ IsFiniteSet(Pos) /\ None \notin Pos /\ "P" \notin Pos /\ "C" \notin Pos
    /\ MaxExec \in Nat /\ Hour \in Nat /\ EntryGap \in Nat /\ None \notin {"P", "C"}
BY AdvisorAssumption DEF AdvisorAssumption

(* The entries: at the step that requests one, the others are a gap away. *)
LEMMA EntryFar ==
    ASSUME Inv, Kept, ~torn, Spare(EntryGap), NEW e \in Entries, e # None, RequestEntry(e),
           NEW r \in EntriesSent, tick.ts - r.ts < Day
    PROVE  tick.ts - r.ts >= EntryGap
<1> SUFFICES ASSUME ~(tick.ts - r.ts >= EntryGap) PROVE FALSE
  OBVIOUS
<1>1. pc = "closes" /\ EntryAllowed(e)
  BY DEF RequestEntry
<1>2. r \in sent /\ r.what \in {"P", "C"} /\ r.ts \in Nat
  BY DEF EntriesSent, Kept, Traced, Request
<1>3. tick.ts \in Nat /\ tick.executed \subseteq Pos
  BY DEF Inv, Typed, TickSet
<1>4. ~InTick(r)
  BY <1>1, <1>2, <1>3, PositionsAre DEF InTick, Kept, Counted
<1>5. tick.ts - r.ts < EntryGap
  BY <1>2, <1>3, PositionsAre
<1>6. tick.past = journal /\ \E i \in DOMAIN journal : journal[i] \in Line /\ Says(journal[i], r)
  BY <1>1, <1>2, <1>4, <1>5, PositionsAre, ReadAgain
<1>7. PICK i \in DOMAIN tick.past : tick.past[i] \in Line /\ Says(tick.past[i], r)
  BY <1>6
<1>8. tick.past[i].entry \in {"P", "C"} /\ tick.past[i].ts = r.ts
  <2>1. tick.past[i].executed \subseteq Pos
    BY <1>7 DEF Line
  <2> QED
    BY <1>2, <1>7, <2>1, PositionsAre DEF Says
<1>9. i \in EntryTimes({"P", "C"})
  BY <1>7, <1>8 DEF EntryTimes, Since
<1>10. ~Since(tick.past[i].ts, EntryGap)
  BY <1>1, <1>9 DEF EntryAllowed
<1> QED
  BY <1>5, <1>8, <1>10 DEF Since

(* Two entries are a gap apart, though the advisor knows of the earlier ones
   only what the last lines of its journal say (decide_entry), as long as no tick
   that requested something was cut short before its line and no more failures
   come than there are lines to spare. *)
THEOREM EntriesApart ==
    ASSUME Spare(EntryGap)
    PROVE  Spec => []EntriesKeepGap
<1> DEFINE Apart(r, q) == r = q \/ r.ts - q.ts >= EntryGap \/ q.ts - r.ts >= EntryGap
<1>1. Init => EntriesKeepGap
  BY DEF Init, EntriesKeepGap, EntriesSent
<1>2. ASSUME Inv, Kept, EntriesKeepGap, [Next]_vars PROVE EntriesKeepGap'
  <2> SUFFICES ASSUME ~torn', NEW r \in EntriesSent', NEW q \in EntriesSent'
               PROVE  Apart(r, q)
    BY DEF EntriesKeepGap
  <2>1. ~torn
    BY <1>2 DEF Next, Poll, history, Elapse, CandlesUnread, Toggle, Answer, RequestClose,
             RequestEntry, FinishTick, Fail, Restart, CutShort, vars
  <2>2. \A x, y \in EntriesSent : Apart(x, y)
    BY <1>2, <2>1 DEF EntriesKeepGap
  <2>3. CASE sent' = sent
    BY <2>2, <2>3 DEF EntriesSent
  <2>4. ASSUME NEW p \in Pos, RequestClose(p)
        PROVE  Apart(r, q)
    <3>1. IsFiniteSet(sent) /\ Remember(p)
      BY <1>2, <2>1, <2>4 DEF Kept, Traced, RequestClose
    <3>2. \A x \in sent' : x \in sent \/ x.what = p
      BY <1>2, <3>1, Remembered DEF Inv
    <3>3. EntriesSent' \subseteq EntriesSent
      BY <3>2, PositionsAre DEF EntriesSent
    <3> QED
      BY <2>2, <3>3
  <2>5. ASSUME NEW e \in Entries, RequestEntry(e), ~(sent' = sent)
        PROVE  Apart(r, q)
    <3>1. IsFiniteSet(sent) /\ Remember(e) /\ e # None
      BY <1>2, <2>1, <2>5 DEF Kept, Traced, RequestEntry
    <3>2. \A x \in sent' : \/ x \in sent /\ tick.ts - x.ts < Day
                           \/ x = [ts |-> tick.ts, what |-> e]
      <4>1. e \in Pos \cup {"P", "C"}
        BY <3>1 DEF Entries
      <4> QED
        BY <1>2, <3>1, <4>1, Remembered DEF Inv
    <3>3. \A x \in EntriesSent' :
             \/ x \in EntriesSent /\ tick.ts - x.ts >= EntryGap
             \/ x = [ts |-> tick.ts, what |-> e]
      <4> TAKE x \in EntriesSent'
      <4>1. CASE x \in sent /\ tick.ts - x.ts < Day
        <5>1. x \in EntriesSent
          BY <4>1 DEF EntriesSent
        <5> QED
          BY <1>2, <2>1, <2>5, <3>1, <4>1, <5>1, EntryFar
      <4> QED
        BY <3>2, <4>1 DEF EntriesSent
    <3> QED
      BY <2>2, <3>3
  <2>6. \/ sent' = sent
        \/ \E p \in Pos : RequestClose(p)
        \/ \E e \in Entries : RequestEntry(e)
    BY <1>2 DEF Next, Poll, history, Elapse, CandlesUnread, Toggle, Answer,
             FinishTick, Fail, Restart, vars
  <2> QED
    BY <2>3, <2>4, <2>5, <2>6
<1>3. Inv /\ Kept /\ EntriesKeepGap /\ [Next]_vars => EntriesKeepGap'
  BY <1>2
<1> QED
  BY <1>1, <1>3, Invariance, JournalKept, PTL DEF Spec

-----------------------------------------------------------------------------
(* The closes of an hour. *)

Window(r) == {q \in ClosesSent : q.ts <= r.ts /\ r.ts - q.ts < Hour}
Budgeted == ClosesPerHour /\ (~torn => WithinBudget)

(* What the tick counts in the journal is at least what was requested. *)
LEMMA LateIsCounted ==
    ASSUME Inv, Kept, ~torn, pc = "ask", Spare(Hour)
    PROVE  /\ IsFiniteSet(Late) /\ Cardinality(Late) \in Nat /\ Budget \in Int
           /\ Cardinality(Late) + Budget <= MaxExec
<1> DEFINE D == DOMAIN tick.past
           C == {c \in D \X Pos : Since(tick.past[c[1]].ts, Hour) /\ c[2] \in Executed(c[1])}
           f == [c \in C |-> [ts |-> tick.past[c[1]].ts, what |-> c[2]]]
           T == {f[c] : c \in C}
<1>1. Whole /\ ReadBack /\ Traced
  BY DEF Kept
<1>2. tick.past = journal
  BY <1>1 DEF ReadBack
<1>3. IsFiniteSet(C)
  <2>1. IsFiniteSet(D)
    <3>1. D = 1..Len(journal) /\ Len(journal) \in Nat
      BY <1>1, <1>2, LineTimes
    <3> QED
      BY <3>1, FS_Interval
  <2>2. IsFiniteSet(D \X Pos)
    BY <2>1, PositionsAre, FS_Product
  <2> QED
    BY <2>2, FS_Subset
<1>4. f \in Surjection(C, T)
  BY DEF Surjection
<1>5. IsFiniteSet(T) /\ Cardinality(T) <= Cardinality(C)
  BY <1>3, <1>4, FS_Surjection
<1>6. Late \subseteq T
  <2> SUFFICES ASSUME NEW q \in Late PROVE \E c \in C : q = f[c]
    OBVIOUS
  <2>1. q \in sent /\ q.what \in Pos /\ tick.ts - q.ts < Hour
    BY DEF Late, ClosesSent
  <2>2. q = [ts |-> q.ts, what |-> q.what]
    BY <1>1, <2>1 DEF Traced, Request
  <2>3. ~InTick(q)
    BY DEF InTick, Kept, Counted
  <2>4. PICK i \in D : tick.past[i] \in Line /\ Says(tick.past[i], q)
    BY <2>1, <2>3, PositionsAre, ReadAgain
  <2>5. q.what \in tick.past[i].executed /\ tick.past[i].ts = q.ts
    <3>1. tick.past[i].entry \in {None, "P", "C"}
      BY <2>4 DEF Line, Entries
    <3> QED
      BY <2>1, <2>4, <3>1, PositionsAre DEF Says
  <2>6. <<i, q.what>> \in C
    BY <2>1, <2>5 DEF Executed, Since
  <2>7. f[<<i, q.what>>] = q
    BY <2>2, <2>5, <2>6
  <2> QED
    BY <2>6, <2>7
<1>7. IsFiniteSet(Late) /\ Cardinality(Late) <= Cardinality(T)
  BY <1>5, <1>6, FS_Subset
<1>8. Cardinality(Late) \in Nat /\ Cardinality(T) \in Nat /\ Cardinality(C) \in Nat
  BY <1>3, <1>5, <1>7, FS_CardinalityType
<1>9. Budget = MaxExec - Cardinality(C)
  BY DEF Budget
<1> HIDE DEF C, T
<1> QED
  BY <1>5, <1>7, <1>8, <1>9, PositionsAre

(* No new close: the windows can only lose. *)
LEMMA FewerCloses ==
    ASSUME ClosesPerHour, ~torn' => ~torn, ~torn => IsFiniteSet(sent),
           ~torn' => ClosesSent' \subseteq ClosesSent
    PROVE  ClosesPerHour'
<1> SUFFICES ASSUME ~torn', NEW r \in ClosesSent'
             PROVE  Cardinality(Window(r)') <= MaxExec
  BY DEF ClosesPerHour, Window
<1>1. ~torn /\ r \in ClosesSent /\ Cardinality(Window(r)) <= MaxExec
  BY DEF ClosesPerHour, Window
<1>2. IsFiniteSet(Window(r)) /\ Window(r)' \subseteq Window(r)
  <2>1. Window(r) \subseteq sent /\ Window(r)' \subseteq Window(r)
    BY DEF Window, ClosesSent
  <2> QED
    BY <1>1, <2>1, FS_Subset
<1>3. IsFiniteSet(Window(r)') /\ Cardinality(Window(r)') <= Cardinality(Window(r))
  BY <1>2, FS_Subset
<1>4. Cardinality(Window(r)) \in Nat /\ Cardinality(Window(r)') \in Nat
  BY <1>2, <1>3, FS_CardinalityType
<1> QED
  BY <1>1, <1>3, <1>4, PositionsAre

LEMMA AnswerBudget ==
    ASSUME Inv, Kept, Spare(Hour), Answer, ~torn
    PROVE  WithinBudget'
<1>1. /\ pc = "ask" /\ sent' = sent
      /\ \E closes \in SUBSET Pos, urgent \in BOOLEAN :
            \E S \in Executions(closes, urgent) :
               tick' = [tick EXCEPT !.closes = closes, !.urgent = urgent, !.todo = S]
  BY DEF Answer
<1>2. PICK closes \in SUBSET Pos, urgent \in BOOLEAN :
            \E S \in Executions(closes, urgent) :
               tick' = [tick EXCEPT !.closes = closes, !.urgent = urgent, !.todo = S]
  BY <1>1
<1>3. PICK S \in Executions(closes, urgent) :
         tick' = [tick EXCEPT !.closes = closes, !.urgent = urgent, !.todo = S]
  BY <1>2
<1>4. tick'.todo = S /\ tick'.ts = tick.ts
  BY <1>3 DEF Inv, Typed, TickSet
<1>5. Late' = Late
  BY <1>1, <1>4 DEF Late, ClosesSent
<1>6. S # {} => Cardinality(S) <= Budget
  BY DEF Executions
<1>7. IsFiniteSet(S)
  <2>1. S \subseteq Pos
    BY DEF Executions, Eligible
  <2> QED
    BY <2>1, PositionsAre, FS_Subset
<1>8. Cardinality(S) \in Nat
  BY <1>7, FS_CardinalityType
<1>9. Cardinality(Late) \in Nat /\ Budget \in Int /\ Cardinality(Late) + Budget <= MaxExec
  BY <1>1, LateIsCounted
<1>10. S # {} => Cardinality(Late) + Cardinality(S) <= MaxExec
  BY <1>6, <1>8, <1>9, PositionsAre
<1> QED
  BY <1>4, <1>5, <1>10 DEF WithinBudget

LEMMA CloseBudget ==
    ASSUME Inv, Kept, Budgeted, NEW p \in Pos, RequestClose(p), ~torn
    PROVE  ClosesPerHour' /\ WithinBudget'
<1> DEFINE new == [ts |-> tick.ts, what |-> p]
<1>1. /\ pc = "closes" /\ p \in tick.todo /\ Remember(p) /\ torn' = torn
  BY DEF RequestClose
<1>2. tick'.ts = tick.ts /\ tick'.todo = tick.todo \ {p} /\ tick.todo \subseteq Pos
      /\ tick.ts \in Nat
  BY DEF RequestClose, Inv, Typed, TickSet
<1>3. /\ IsFiniteSet(sent) /\ \A q \in sent : q.ts \in Nat /\ q.ts <= tick.ts
  BY <1>1 DEF Kept, Traced, Request, At
<1>4. IsFiniteSet(sent') /\ sent' \subseteq sent \cup {new}
  <2>1. IsFiniteSet(sent') /\ \A r \in sent' : r \in sent \/ r = new
    BY <1>1, <1>3, Remembered DEF Inv
  <2> QED
    BY <2>1
<1>5. IsFiniteSet(Late) /\ IsFiniteSet(tick.todo)
  BY <1>2, <1>3, PositionsAre, FS_Subset DEF Late, ClosesSent
<1>6. Cardinality(Late) + Cardinality(tick.todo) <= MaxExec
  BY <1>1 DEF Budgeted, WithinBudget
<1>7. Late' \subseteq Late \cup {new}
  BY <1>2, <1>4 DEF Late, ClosesSent
<1>8. IsFiniteSet(Late \cup {new}) /\ Cardinality(Late \cup {new}) <= Cardinality(Late) + 1
      /\ Cardinality(Late) \in Nat
  <2>1. Cardinality(Late) \in Nat
    BY <1>5, FS_CardinalityType
  <2>2. IsFiniteSet(Late \cup {new})
        /\ Cardinality(Late \cup {new}) =
              IF new \in Late THEN Cardinality(Late) ELSE Cardinality(Late) + 1
    BY <1>5, FS_AddElement
  <2> HIDE DEF new
  <2> QED
    BY <2>1, <2>2
<1>9. IsFiniteSet(Late') /\ Cardinality(Late') <= Cardinality(Late \cup {new})
      /\ Cardinality(Late') \in Nat /\ Cardinality(Late \cup {new}) \in Nat
  <2>1. IsFiniteSet(Late') /\ Cardinality(Late') <= Cardinality(Late \cup {new})
    BY <1>7, <1>8, FS_Subset
  <2> QED
    BY <1>8, <2>1, FS_CardinalityType
<1>10. /\ Cardinality(tick'.todo) = Cardinality(tick.todo) - 1
       /\ Cardinality(tick'.todo) \in Nat /\ Cardinality(tick.todo) \in Nat
  <2>1. IsFiniteSet(tick.todo \ {p})
        /\ Cardinality(tick.todo \ {p}) = Cardinality(tick.todo) - 1
    BY <1>1, <1>5, FS_RemoveElement
  <2> QED
    BY <1>2, <1>5, <2>1, FS_CardinalityType
<1>11. Cardinality(Late') + Cardinality(tick'.todo) <= MaxExec
  BY <1>6, <1>8, <1>9, <1>10, PositionsAre
<1>12. ClosesPerHour'
  <2> SUFFICES ASSUME NEW r \in ClosesSent'
               PROVE  Cardinality(Window(r)') <= MaxExec
    BY DEF ClosesPerHour, Window
  <2>1. r \in sent \cup {new} /\ r.ts \in Nat /\ r.ts <= tick.ts
    BY <1>2, <1>3, <1>4 DEF ClosesSent
  <2>2. CASE r.ts = tick.ts
    <3>1. Window(r)' \subseteq Late'
      BY <1>2, <2>2 DEF Window, Late
    <3>2. IsFiniteSet(Window(r)') /\ Cardinality(Window(r)') <= Cardinality(Late')
      BY <1>9, <3>1, FS_Subset
    <3>3. Cardinality(Window(r)') \in Nat
      BY <3>2, FS_CardinalityType
    <3> QED
      BY <1>9, <1>10, <1>11, <3>2, <3>3, PositionsAre
  <2>3. CASE r.ts < tick.ts
    <3>1. r \in ClosesSent
      BY <1>2, <2>1, <2>3 DEF ClosesSent
    <3>2. Window(r)' \subseteq Window(r)
      <4> SUFFICES ASSUME NEW q \in ClosesSent', q.ts <= r.ts, r.ts - q.ts < Hour
                   PROVE  q \in Window(r)
        BY DEF Window
      <4>1. q \in sent \cup {new} /\ q # new
        BY <1>2, <1>4, <2>1, <2>3 DEF ClosesSent
      <4> QED
        BY <4>1 DEF Window, ClosesSent
    <3>3. Cardinality(Window(r)) <= MaxExec
      BY <3>1 DEF Budgeted, ClosesPerHour, Window
    <3>4. IsFiniteSet(Window(r))
      BY <1>3, FS_Subset DEF Window, ClosesSent
    <3>5. IsFiniteSet(Window(r)') /\ Cardinality(Window(r)') <= Cardinality(Window(r))
      BY <3>2, <3>4, FS_Subset
    <3>6. Cardinality(Window(r)) \in Nat /\ Cardinality(Window(r)') \in Nat
      BY <3>4, <3>5, FS_CardinalityType
    <3> QED
      BY <3>3, <3>5, <3>6, PositionsAre
  <2> QED
    BY <1>2, <2>1, <2>2, <2>3
<1> QED
  BY <1>11, <1>12 DEF WithinBudget

(* In any hour no more closes are requested than decide_executions allows, across
   failed ticks, retries and restarts, as long as no tick that requested
   something was cut short before its line and no more failures come than there
   are lines to spare. *)
THEOREM ClosesLimited ==
    ASSUME Spare(Hour)
    PROVE  Spec => []ClosesPerHour
<1>1. Init => Budgeted
  BY DEF Init, Budgeted, ClosesPerHour, ClosesSent, WithinBudget
<1>2. ASSUME Inv, Kept, Budgeted, [Next]_vars PROVE Budgeted'
  <2>1. ~torn' => ~torn
    BY <1>2 DEF Next, Poll, history, Elapse, CandlesUnread, Toggle, Answer, RequestClose,
             RequestEntry, FinishTick, Fail, Restart, CutShort, vars
  <2>2. ~torn => IsFiniteSet(sent)
    BY <1>2 DEF Kept, Traced
  <2>3. CASE \E p \in Pos : RequestClose(p)
    <3>1. CASE torn
      BY <2>1, <3>1 DEF Budgeted, ClosesPerHour
    <3>2. CASE ~torn
      BY <1>2, <2>3, <3>2, CloseBudget DEF Budgeted
    <3> QED
      BY <3>1, <3>2
  <2>4. CASE ~\E p \in Pos : RequestClose(p)
    <3>1. ~torn' => ClosesSent' \subseteq ClosesSent
      <4>1. CASE \E e \in Entries : RequestEntry(e)
        <5> SUFFICES ASSUME ~torn', NEW x \in ClosesSent' PROVE x \in ClosesSent
          OBVIOUS
        <5>1. PICK e \in Entries : RequestEntry(e)
          BY <4>1
        <5>2. CASE sent' = sent
          BY <5>2 DEF ClosesSent
        <5>3. CASE ~(sent' = sent)
          <6>1. Remember(e) /\ e \in {"P", "C"}
            BY <5>1, <5>3 DEF RequestEntry, Entries
          <6>2. \A y \in sent' : y \in sent \/ y.what = e
            BY <1>2, <2>1, <2>2, <6>1, Remembered DEF Inv
          <6> QED
            BY <6>1, <6>2, PositionsAre DEF ClosesSent
        <5> QED
          BY <5>2, <5>3
      <4>2. CASE ~\E e \in Entries : RequestEntry(e)
        <5>1. sent' = sent
          BY <1>2, <2>4, <4>2 DEF Next, Poll, history, Elapse, CandlesUnread, Toggle, Answer,
                   FinishTick, Fail, Restart, vars
        <5> QED
          BY <5>1 DEF ClosesSent
      <4> QED
        BY <4>1, <4>2
    <3>2. ClosesPerHour'
      BY <1>2, <2>1, <2>2, <3>1, FewerCloses DEF Budgeted
    <3>3. ~torn' => WithinBudget'
      <4>1. CASE Answer
        BY <1>2, <2>1, <4>1, AnswerBudget
      <4>2. CASE UNCHANGED vars
        BY <1>2, <4>2 DEF vars, Budgeted, WithinBudget, Late, ClosesSent
      <4>3. CASE Next /\ ~Answer
        <5>1. pc' # "closes"
          BY <2>4, <4>3 DEF Next, Poll, StartTick, Elapse, CandlesUnread, Toggle,
                   RequestEntry, FinishTick, Fail, Restart, CutShort
        <5> QED
          BY <5>1 DEF WithinBudget
      <4> QED
        BY <1>2, <4>1, <4>2, <4>3
    <3> QED
      BY <3>2, <3>3 DEF Budgeted
  <2> QED
    BY <2>3, <2>4
<1>3. Inv /\ Kept /\ Budgeted /\ [Next]_vars => Budgeted'
  BY <1>2
<1>4. Budgeted => ClosesPerHour
  BY DEF Budgeted
<1> QED
  BY <1>1, <1>3, <1>4, Invariance, JournalKept, PTL DEF Spec
-----------------------------------------------------------------------------
(* A tick that lacks an input. *)

(* The inputs of a tick by what they decide. *)
SameAnswer(w, d) == d.raw = w.raw /\ d.posture = w.posture /\ d.backend = w.backend
                    /\ d.token = w.token /\ d.ended = w.ended
SameBook(w, d) == d.book = w.book /\ d.now = w.now /\ d.silence = w.silence

(* How the call ends, for any outcome of its attempts. *)
Ends(w) ==
    IF w.backend = "cli" /\ w.ended[1] \in {"rc", "unparsed"} THEN w.ended[2] ELSE w.ended[1]
Fails(w) == Ends(w) # "ok" \/ (w.backend = "cli" /\ ~w.token)

LEMMA AdviceOf ==
    ASSUME NEW w, w.backend \in {"cli", "api"}, w.token \in BOOLEAN
    PROVE  /\ Fails(w) => Advice(w) = Raised
           /\ ~Fails(w) => Advice(w) = normalize_advice(w.raw, w.posture)
<1> DEFINE attempts == [k \in 1..2 |-> [ended |-> w.ended[k], raw |-> w.raw]]
<1>1. Advice(w) = Answered(w)
  BY DEF Advice, Asked
<1>2. Answered(w) = call_claude(w.backend, w.token, attempts, w.posture)
  BY DEF Answered
<1>3. /\ attempts[1].ended = w.ended[1] /\ attempts[1].raw = w.raw
      /\ attempts[2].ended = w.ended[2] /\ attempts[2].raw = w.raw
  OBVIOUS
<1> HIDE DEF attempts
<1>4. CASE w.backend = "cli"
  <2>1. Answered(w) = call_claude_cli(w.token, attempts, w.posture)
    BY <1>2, <1>4 DEF call_claude
  <2>2. CASE w.ended[1] \in {"rc", "unparsed"}
    <3>1. Answered(w) = IF w.token /\ attempts[2].ended = "ok"
                        THEN normalize_advice(attempts[2].raw, w.posture) ELSE Raised
      BY <1>3, <2>1, <2>2 DEF call_claude_cli
    <3>2. Fails(w) <=> ~ (w.token /\ w.ended[2] = "ok")
      BY <1>4, <2>2 DEF Fails, Ends
    <3> QED
      BY <1>1, <1>3, <3>1, <3>2
  <2>3. CASE w.ended[1] \notin {"rc", "unparsed"}
    <3>1. Answered(w) = IF w.token /\ attempts[1].ended = "ok"
                        THEN normalize_advice(attempts[1].raw, w.posture) ELSE Raised
      BY <1>3, <2>1, <2>3 DEF call_claude_cli
    <3>2. Fails(w) <=> ~ (w.token /\ w.ended[1] = "ok")
      BY <1>4, <2>3 DEF Fails, Ends
    <3> QED
      BY <1>1, <1>3, <3>1, <3>2
  <2> QED
    BY <2>2, <2>3
<1>5. CASE w.backend = "api"
  <2>1. Answered(w) = call_claude_api(attempts[1], w.posture)
    BY <1>2, <1>5 DEF call_claude
  <2>2. Answered(w) = IF attempts[1].ended = "ok" THEN normalize_advice(attempts[1].raw, w.posture) ELSE Raised
    BY <2>1 DEF call_claude_api
  <2>3. Fails(w) <=> w.ended[1] # "ok"
    BY <1>5 DEF Fails, Ends
  <2> QED
    BY <1>1, <1>3, <2>2, <2>3
<1> QED
  BY <1>4, <1>5

LEMMA NothingOfRaised ==
    ASSUME NEW w, NEW d, Advice(d) = Raised
    PROVE  Confined(w, d)
BY DEF Confined, ClosesNoMore, Enters, Closing, Commands

(* What the repair makes of an answer. *)
Sound(raw) == {i \in DOMAIN raw.positions : WellFormed(raw.positions[i])}

LEMMA RepairFields ==
    ASSUME NEW raw \in RawAnswer, NEW posture
    PROVE  LET a == normalize_advice(raw, posture) IN
           raw # Garbage =>
           /\ a.market_risk = raw.market_risk
           /\ a.risk_posture = IF raw.risk_posture \in Postures THEN raw.risk_posture
                               ELSE IF posture \in Postures THEN posture ELSE "normal"
           /\ a.positions = Sift(raw.positions, Sound(raw))
           /\ a.entry_proposal = IF Proposes(raw.entry_proposal) THEN raw.entry_proposal ELSE None
           /\ a = [market_risk |-> a.market_risk, risk_posture |-> a.risk_posture,
                   positions |-> a.positions, entry_proposal |-> a.entry_proposal]
BY DEF normalize_advice, RawAnswer, Sound

-----------------------------------------------------------------------------
(* Entries. *)

LEMMA SameKeys ==
    ASSUME NEW w, NEW d, d.book = w.book
    PROVE  enabled_free_keys(Rows(d)) = enabled_free_keys(Rows(w))
<1>1. ASSUME NEW x
      PROVE  {<<r.coin, r.side>> : r \in Rows(x)} = {<<p.coin, p.side>> : p \in x.book}
  <2>1. \A p : /\ positions_block(p, x.quote, x.now).coin = p.coin
               /\ positions_block(p, x.quote, x.now).side = p.side
    BY DEF positions_block
  <2>2. \A r \in Rows(x) : \E p \in x.book : <<r.coin, r.side>> = <<p.coin, p.side>>
    BY <2>1 DEF Rows
  <2>3. \A p \in x.book : \E r \in Rows(x) : <<r.coin, r.side>> = <<p.coin, p.side>>
    <3> TAKE p \in x.book
    <3>1. positions_block(p, x.quote, x.now) \in Rows(x)
      BY DEF Rows
    <3> QED
      BY <2>1, <3>1
  <2> QED
    BY <2>2, <2>3
<1> QED
  BY <1>1 DEF enabled_free_keys

(* What an entry needs of the tick. *)
LEMMA EntersBy ==
    ASSUME NEW w
    PROVE  Enters(w) <=>
           /\ Advice(w) # Raised
           /\ decide_entry(Advice(w), Market(w), Rows(w), w.silence, Gate(w), Score(w))
BY DEF Enters, Market, Gate, Score

LEMMA EntryNeeds ==
    ASSUME NEW w, Enters(w)
    PROVE  /\ Advice(w) # Raised /\ Advice(w).entry_proposal # None
           /\ Market(w).iv_minus_rv24 # None /\ ~Gate(w).stale
BY EntersBy DEF decide_entry

(* A tick that decides on the same proposal, and whose guards let through no more
   than those of another, enters no more. *)
LEMMA EntryPasses ==
    ASSUME NEW w, NEW d, Advice(w) # Raised, d.book = w.book, d.silence = w.silence,
           Advice(d).entry_proposal = Advice(w).entry_proposal,
           Advice(d).risk_posture = Advice(w).risk_posture,
           Advice(d).market_risk = Advice(w).market_risk,
           PremiumAllows(d) => PremiumAllows(w),
           ~Market(d).vol_accelerating => ~Market(w).vol_accelerating,
           SellsCall(w) /\ call_guard(Advice(w).entry_proposal, Market(d), Score(d))
             => call_guard(Advice(w).entry_proposal, Market(w), Score(w)),
           ~Gate(d).stale => ~Gate(w).stale,
           InTrendWindow(Advice(w).entry_proposal.side, Gate(d), Market(d))
             => InTrendWindow(Advice(w).entry_proposal.side, Gate(w), Market(w)),
           Enters(d)
    PROVE  Enters(w)
<1>1. decide_entry(Advice(d), Market(d), Rows(d), d.silence, Gate(d), Score(d))
  BY EntersBy
<1>2. PremiumAllows(w)
  BY <1>1 DEF decide_entry, PremiumAllows
<1>3. decide_entry(Advice(w), Market(w), Rows(w), w.silence, Gate(w), Score(w))
  BY <1>1, <1>2, SameKeys DEF decide_entry, PremiumAllows, SellsCall
<1> QED
  BY <1>3, EntersBy

LEMMA EntryConfined ==
    ASSUME NEW w, NEW d, Advice(w) # Raised, d.book = w.book, d.silence = w.silence,
           Advice(d).entry_proposal = Advice(w).entry_proposal,
           Advice(d).risk_posture = Advice(w).risk_posture,
           Advice(d).market_risk = Advice(w).market_risk,
           Market(d).iv_minus_rv24 = Market(w).iv_minus_rv24,
           Market(d).vol_accelerating = Market(w).vol_accelerating,
           Market(d).chg_24h = Market(w).chg_24h, Market(d).dist_high = Market(w).dist_high,
           Gate(d) = Gate(w),
           SellsCall(w) /\ call_guard(Advice(w).entry_proposal, Market(d), Score(d))
             => call_guard(Advice(w).entry_proposal, Market(w), Score(w)),
           Enters(d)
    PROVE  Enters(w)
<1>1. InTrendWindow(Advice(w).entry_proposal.side, Gate(d), Market(d))
        => InTrendWindow(Advice(w).entry_proposal.side, Gate(w), Market(w))
  BY DEF InTrendWindow
<1>2. PremiumAllows(d) => PremiumAllows(w)
  BY DEF PremiumAllows
<1> QED
  BY <1>1, <1>2, EntryPasses

LEMMA StaleGates ==
    ASSUME NEW d, NEW at \in Int, d.now = at,
           d.status.checked = None \/ d.status.checked = at - GatesStale - 1
    PROVE  ~Enters(d)
<1>1. GatesStale \in Nat
  BY AdvisorRulesAssumption DEF AdvisorRulesAssumption
<1>2. d.status.checked # None => d.now - d.status.checked > GatesStale
  BY <1>1
<1>3. Gate(d).stale = (d.status.checked = None \/ d.now - d.status.checked > GatesStale)
  BY DEF Gate, mechanical_gates_block
<1> QED
  BY <1>2, <1>3, EntryNeeds

LEMMA NoPremium ==
    ASSUME NEW d, Len(d.closes) < WeekBars \/ d.ivs = <<>>
    PROVE  ~Enters(d)
<1>1. d.ivs = <<>> => Premium(d.ivs, d.closes) = None
  <2>1. DOMAIN <<>> = {}
    OBVIOUS
  <2>2. d.ivs = <<>> => Cardinality(DOMAIN d.ivs) = 0
    BY <2>1, FS_EmptySet
  <2> QED
    BY <2>2 DEF Premium
<1>2. Market(d).iv_minus_rv24 = None
  BY <1>1 DEF Market, market_block, NoRow
<1> QED
  BY <1>2, EntryNeeds

-----------------------------------------------------------------------------
(* Closes, and what the human is told. *)

Row(w, p) == positions_block(p, w.quote, w.now)
Allowed(w, p) == close_policy_allows(Row(w, p))
Fit(w, p) ==
    /\ Row(w, p).unrealized # None
    /\ Mode = "profit_only" => Row(w, p).unrealized > 0
    /\ Allowed(w, p)
OneRow(w) == \A p, q \in w.book : p.id = q.id => p = q

LEMMA RowFields ==
    ASSUME NEW w, NEW p
    PROVE  /\ Row(w, p).id = p.id
           /\ Row(w, p).unrealized = IF w.quote.mark \notin {None, 0} THEN (p.credit - w.quote.mark) * p.qty ELSE None
           /\ Row(w, p).profit_pct = IF w.quote.mark \notin {None, 0}
                                     THEN (100 * (p.credit - w.quote.mark)) \div p.credit ELSE None
           /\ Row(w, p).age = w.now - p.opened /\ Row(w, p).hold = p.hold
           /\ Row(w, p).buffer = strike_risk(p.side, w.quote, p.strike, p.expiry - w.now)
BY DEF Row, positions_block

(* The quote of the tick may only lose something. *)
Less(q, r) == /\ q.mark \in {r.mark, None} /\ q.iv \in {r.iv, None} /\ q.spot \in {r.spot, None}

LEMMA FewerFit ==
    ASSUME NEW w, NEW d, NEW p, d.now = w.now, Less(d.quote, w.quote)
    PROVE  /\ Allowed(d, p) => Allowed(w, p)
           /\ Fit(d, p) => Fit(w, p)
<1>1. Row(d, p).unrealized \in {Row(w, p).unrealized, None}
      /\ Row(d, p).profit_pct \in {Row(w, p).profit_pct, None}
  BY RowFields DEF Less
<1>2. Row(d, p).age = Row(w, p).age /\ Row(d, p).hold = Row(w, p).hold
  BY RowFields
<1>3. Row(d, p).buffer \in {Row(w, p).buffer, None}
  <2>1. strike_risk(p.side, d.quote, p.strike, p.expiry - w.now)
          \in {strike_risk(p.side, w.quote, p.strike, p.expiry - w.now), None}
    <3>1. CASE d.quote.spot = None \/ d.quote.iv = None
      BY <3>1 DEF strike_risk
    <3>2. CASE d.quote.spot # None /\ d.quote.iv # None
      <4>1. d.quote.spot = w.quote.spot /\ d.quote.iv = w.quote.iv
        BY <3>2 DEF Less
      <4> QED
        BY <4>1 DEF strike_risk
    <3> QED
      BY <3>1, <3>2
  <2> QED
    BY <2>1, RowFields
<1>4. Allowed(d, p) => Allowed(w, p)
  BY <1>1, <1>2, <1>3 DEF Allowed, close_policy_allows
<1> QED
  BY <1>1, <1>4 DEF Fit

LEMMA RowsOf ==
    ASSUME NEW w
    PROVE  Rows(w) = {Row(w, p) : p \in w.book}
BY DEF Rows, Row

LEMMA TheRow ==
    ASSUME NEW w, OneRow(w), NEW p \in w.book
    PROVE  Known(Rows(w), p.id) /\ RowOf(Rows(w), p.id) = Row(w, p)
<1>1. Row(w, p) \in Rows(w) /\ Row(w, p).id = p.id
  BY RowsOf, RowFields
<1>2. \A r \in Rows(w) : r.id = p.id => r = Row(w, p)
  <2> SUFFICES ASSUME NEW q \in w.book, Row(w, q).id = p.id PROVE Row(w, q) = Row(w, p)
    BY RowsOf
  <2> QED
    BY RowFields DEF OneRow
<1> QED
  BY <1>1, <1>2 DEF Known, RowOf

(* Which rows of the answer decide_executions may carry out. *)
LEMMA ExecutesBy ==
    ASSUME NEW w, OneRow(w), NEW rec, NEW advice, NEW previous
    PROVE  Executes(rec, advice, Rows(w), previous) <=>
           /\ Mode # "off" /\ rec.action = "CLOSE"
           /\ \E p \in w.book : p.id = rec.id /\ Fit(w, p)
           /\ \/ advice.risk_posture = "lockdown"
              \/ previous # None /\ LastWord(previous, rec.id) = "CLOSE"
<1>1. CASE \E p \in w.book : p.id = rec.id
  <2>1. PICK p \in w.book : p.id = rec.id
    BY <1>1
  <2>2. Known(Rows(w), rec.id) /\ RowOf(Rows(w), rec.id) = Row(w, p)
    BY <2>1, TheRow
  <2>3. \A q \in w.book : q.id = rec.id => q = p
    BY <2>1 DEF OneRow
  <2> QED
    BY <2>1, <2>2, <2>3 DEF Executes, Fit, Allowed
<1>2. CASE ~ \E p \in w.book : p.id = rec.id
  <2>1. ~ Known(Rows(w), rec.id)
    BY <1>2, RowsOf, RowFields DEF Known
  <2> QED
    BY <1>2, <2>1 DEF Executes
<1> QED
  BY <1>1, <1>2

LEMMA LesserIs ==
    ASSUME NEW a \in Int, NEW b \in Int
    PROVE  Min({a, b}) = IF a <= b THEN a ELSE b
<1>1. \E x \in {a, b} : \A y \in {a, b} : x <= y
  OBVIOUS
<1> QED
  BY <1>1 DEF Min

LEMMA ExecutedAre ==
    ASSUME NEW S, NEW advice, advice.positions \in Seq(S), NEW rows, NEW previous,
           NEW id \in ToSet(decide_executions(advice, rows, previous, 1))
    PROVE  \E i \in DOMAIN advice.positions :
              /\ advice.positions[i].id = id
              /\ Executes(advice.positions[i], advice, rows, previous)
<1> DEFINE told == advice.positions
           places == {i \in DOMAIN told : Executes(told[i], advice, rows, previous)}
           may == Sift(told, places)
           ids == [i \in DOMAIN may |-> may[i].id]
           V == {told[i] : i \in places}
<1>1. id \in ToSet(SubSeq(ids, 1, Min({1, Len(ids)})))
  BY DEF decide_executions
<1>2. may \in Seq(V)
  <2>1. places \subseteq DOMAIN told /\ \A i \in places : told[i] \in V
    OBVIOUS
  <2>2. told \in Seq(S)
    OBVIOUS
  <2> HIDE DEF told, places, V
  <2> QED
    BY <2>1, <2>2, SiftHolds
<1> HIDE DEF may
<1>3. Len(may) \in Nat /\ DOMAIN may = 1..Len(may) /\ \A i \in 1..Len(may) : may[i] \in V
  BY <1>2, LenProperties, ElementOfSeq
<1>4. Len(ids) = Len(may) /\ \A i \in 1..Len(may) : ids[i] = may[i].id
  <2>1. ids \in Seq({may[i].id : i \in 1..Len(may)})
    BY <1>3
  <2> QED
    BY <1>3, <2>1, LenProperties
<1> HIDE DEF ids
<1>5. PICK n : n = Min({1, Len(ids)})
  OBVIOUS
<1>6. n \in Nat /\ n <= Len(ids)
  BY <1>3, <1>4, <1>5, LesserIs
<1>7. SubSeq(ids, 1, n) = [i \in 1..n |-> ids[i]]
  BY <1>6
<1>8. PICK i \in 1..n : id = ids[i]
  BY <1>1, <1>5, <1>7 DEF ToSet
<1>9. i \in 1..Len(may) /\ id = may[i].id /\ may[i] \in V
  BY <1>3, <1>4, <1>6, <1>8
<1> QED
  BY <1>9

(* One answer says one thing of a position. *)
Consistent(told) ==
    \A i, j \in DOMAIN told : told[i].id = told[j].id => told[i].action = told[j].action
Dropping(w, told, c) ==
    /\ \E i \in DOMAIN told : told[i].id = c /\ told[i].action = "CLOSE"
    /\ \A p \in w.book : p.id = c => Allowed(w, p)

LEMMA VetoedBy ==
    ASSUME NEW w, NEW advice, NEW i \in DOMAIN advice.positions, advice.positions[i].action = "CLOSE"
    PROVE  advice.positions[i].id \notin vetoed(advice, Rows(w))
           <=> \A p \in w.book : p.id = advice.positions[i].id => Allowed(w, p)
<1> DEFINE c == advice.positions[i].id
<1>1. c \in vetoed(advice, Rows(w)) <=>
        \E r \in Rows(w) : r.id = c /\ ~close_policy_allows(r)
                           /\ \E j \in DOMAIN advice.positions :
                                 advice.positions[j].id = r.id /\ advice.positions[j].action = "CLOSE"
  BY DEF vetoed
<1>2. c \in vetoed(advice, Rows(w)) <=> \E r \in Rows(w) : r.id = c /\ ~close_policy_allows(r)
  BY <1>1
<1> HIDE DEF c
<1>3. c \in vetoed(advice, Rows(w)) <=> \E p \in w.book : Row(w, p).id = c /\ ~close_policy_allows(Row(w, p))
  BY <1>2, RowsOf
<1> QED
  BY <1>3, RowFields DEF Allowed, c

(* What the human is told to close is what the answer names and no policy
   rejects, whether the advisor closes it or not. *)
LEMMA CommandsBy ==
    ASSUME NEW w, NEW S, NEW c, OneRow(w), Advice(w) # Raised,
           Advice(w).positions \in Seq(S), Consistent(Advice(w).positions)
    PROVE  c \in Commands(w) <=> Dropping(w, Advice(w).positions, c)
<1> DEFINE advice == Advice(w)
           told == advice.positions
           executed == decide_executions(advice, Rows(w), w.previous, 1)
           held == vetoed(advice, Rows(w))
           first == {i \in DOMAIN told : \A j \in 1..(i - 1) : told[j].id # told[i].id}
           hint(i) == IF Known(Rows(w), told[i].id) THEN mech_hint(RowOf(Rows(w), told[i].id)) ELSE None
           line(i) == [id |-> told[i].id, says |-> Told(told[i], executed, held), hint |-> hint(i)]
           Closes(x) == x \in {"closed", "close it yourself"}
<1>1. c \in Commands(w) <=> \E i \in first : told[i].id = c /\ Closes(Told(told[i], executed, held))
  <2>1. format_tg(advice, Rows(w), executed) = {line(i) : i \in first}
    BY DEF format_tg
  <2> HIDE DEF hint
  <2>2. \A i : line(i).id = told[i].id /\ line(i).says = Told(told[i], executed, held)
    OBVIOUS
  <2>3. Commands(w) = {t.id : t \in {x \in {line(i) : i \in first} : Closes(x.says)}}
    BY <2>1 DEF Commands
  <2> HIDE DEF advice, told, executed, held, first, line, Closes
  <2> QED
    BY <2>2, <2>3
<1>2. DOMAIN told = 1..Len(told) /\ Len(told) \in Nat
  BY LenProperties
<1>3. \A i \in DOMAIN told : told[i].action = "CLOSE" =>
        (told[i].id \notin held <=> \A p \in w.book : p.id = told[i].id => Allowed(w, p))
  BY VetoedBy
<1>4. \A x \in ToSet(executed) :
        \E i \in DOMAIN told : told[i].id = x /\ Executes(told[i], advice, Rows(w), w.previous)
  BY ExecutedAre
<1>5. \A i \in DOMAIN told : Executes(told[i], advice, Rows(w), w.previous) =>
        told[i].action = "CLOSE" /\ \A p \in w.book : p.id = told[i].id => Allowed(w, p)
  <2> SUFFICES ASSUME NEW i \in DOMAIN told, Executes(told[i], advice, Rows(w), w.previous)
               PROVE  told[i].action = "CLOSE" /\ \A p \in w.book : p.id = told[i].id => Allowed(w, p)
    OBVIOUS
  <2>1. told[i].action = "CLOSE" /\ \E p \in w.book : p.id = told[i].id /\ Fit(w, p)
    BY ExecutesBy
  <2> QED
    BY <2>1 DEF Fit, OneRow
<1>6. Consistent(told)
  OBVIOUS
<1> HIDE DEF advice, told, executed, held
<1>7. ASSUME NEW i \in first, told[i].id = c, Closes(Told(told[i], executed, held))
      PROVE  Dropping(w, told, c)
  <2>1. i \in DOMAIN told
    OBVIOUS
  <2>2. CASE told[i].id \in ToSet(executed)
    BY <1>4, <1>5, <1>7, <2>2 DEF Dropping
  <2>3. CASE told[i].id \notin ToSet(executed)
    <3>1. told[i].action = "CLOSE" /\ told[i].id \notin held
      BY <1>7, <2>3 DEF Told
    <3> QED
      BY <1>3, <1>7, <2>1, <3>1 DEF Dropping
  <2> QED
    BY <2>2, <2>3
<1>8. ASSUME Dropping(w, told, c)
      PROVE  \E i \in first : told[i].id = c /\ Closes(Told(told[i], executed, held))
  <2>1. PICK j \in DOMAIN told : told[j].id = c /\ told[j].action = "CLOSE"
    BY <1>8 DEF Dropping
  <2> DEFINE N == {k \in DOMAIN told : told[k].id = c}
  <2>2. N \subseteq Nat /\ N # {}
    BY <1>2, <2>1
  <2>3. PICK i \in N : \A y \in N : i <= y
    <3> HIDE DEF N
    <3>1. PICK m \in N : \A y \in N : ~ (<<y, m>> \in OpToRel(<, Nat))
      BY <2>2, NatLessThanWellFounded, WFMin
    <3>2. ASSUME NEW y \in N, ~ (m <= y)
          PROVE  FALSE
      <4>1. m \in Nat /\ y \in Nat /\ y < m
        BY <2>2, <3>2
      <4> QED
        BY <3>1, <4>1 DEF OpToRel
    <3> QED
      BY <3>2
  <2>4. i \in first /\ told[i].id = c
    BY <1>2, <2>3
  <2>5. told[i].action = "CLOSE"
    BY <1>6, <2>1, <2>4 DEF Consistent
  <2>6. told[i].id \notin held
    BY <1>3, <1>8, <2>4, <2>5 DEF Dropping
  <2>7. Told(told[i], executed, held) \in {"closed", "close it yourself"}
    BY <2>5, <2>6 DEF Told
  <2> QED
    BY <2>4, <2>7
<1> QED
  BY <1>1, <1>7, <1>8 DEF advice, told

(* Without the confirmation, or with a quote that lost something, no more closes. *)
LEMMA ClosesConfined ==
    ASSUME NEW w, NEW d, NEW S, OneRow(w), d.book = w.book, d.now = w.now,
           Less(d.quote, w.quote), d.previous \in {w.previous, None},
           Advice(w) # Raised, Advice(d) # Raised, Advice(d).positions = Advice(w).positions,
           Advice(d).risk_posture = Advice(w).risk_posture,
           Advice(w).positions \in Seq(S), Consistent(Advice(w).positions)
    PROVE  Closing(d) \subseteq Closing(w) /\ Commands(d) \subseteq Commands(w)
<1>0. OneRow(d)
  BY DEF OneRow
<1>1. \A rec : Executes(rec, Advice(d), Rows(d), d.previous) => Executes(rec, Advice(w), Rows(w), w.previous)
  <2> TAKE rec
  <2> SUFFICES ASSUME Executes(rec, Advice(d), Rows(d), d.previous)
               PROVE  Executes(rec, Advice(w), Rows(w), w.previous)
    OBVIOUS
  <2>1. /\ Mode # "off" /\ rec.action = "CLOSE"
        /\ \E p \in d.book : p.id = rec.id /\ Fit(d, p)
        /\ \/ Advice(d).risk_posture = "lockdown"
           \/ d.previous # None /\ LastWord(d.previous, rec.id) = "CLOSE"
    BY <1>0, ExecutesBy
  <2>2. \E p \in w.book : p.id = rec.id /\ Fit(w, p)
    BY <2>1, FewerFit
  <2>3. \/ Advice(w).risk_posture = "lockdown"
        \/ w.previous # None /\ LastWord(w.previous, rec.id) = "CLOSE"
    <3>1. d.previous # None => d.previous = w.previous
      OBVIOUS
    <3> QED
      BY <2>1, <3>1
  <2> QED
    BY <2>1, <2>2, <2>3, ExecutesBy
<1>2. Closing(d) \subseteq Closing(w)
  BY <1>1 DEF Closing
<1>3. ASSUME NEW c \in Commands(d)
      PROVE  c \in Commands(w)
  <2>0. Advice(d).positions \in Seq(S) /\ Consistent(Advice(d).positions)
    OBVIOUS
  <2>1. Dropping(d, Advice(d).positions, c)
    BY <1>0, <1>3, <2>0, CommandsBy
  <2>2. Dropping(w, Advice(w).positions, c)
    <3>1. \A p \in w.book : Allowed(d, p) => Allowed(w, p)
      BY FewerFit
    <3> QED
      BY <2>1, <3>1 DEF Dropping
  <2> QED
    BY <2>2, CommandsBy
<1> QED
  BY <1>2, <1>3

(* An answer without rows closes nothing. *)
LEMMA NoRowsNoCloses ==
    ASSUME NEW d, Advice(d).positions = <<>>
    PROVE  Closing(d) = {} /\ Commands(d) = {}
<1>1. DOMAIN Advice(d).positions = {} /\ ToSet(Advice(d).positions) = {}
  BY DEF ToSet
<1> QED
  BY <1>1 DEF Closing, Commands, format_tg

-----------------------------------------------------------------------------
(* The complete tick. *)

LEMMA RepairType ==
    ASSUME NEW raw \in RawAnswer, NEW posture \in Postures
    PROVE  /\ normalize_advice(raw, posture) \in Normalized
           /\ normalize_advice(raw, posture) # Raised
           /\ raw # Garbage
<1> DEFINE a == normalize_advice(raw, posture)
<1>1. raw # Garbage /\ Garbage \notin Normalized
  BY WorldsAssumption DEF WorldsAssumption
<1>2. a.positions \in Seq(Mention)
  <2>1. Sound(raw) \subseteq DOMAIN raw.positions
    BY DEF Sound
  <2>2. raw.positions \in Seq(Mention \cup {Garbage})
    BY DEF RawAnswer
  <2>3. \A i \in Sound(raw) : raw.positions[i] \in Mention
    <3> TAKE i \in Sound(raw)
    <3>1. raw.positions[i] \in Mention \cup {Garbage} /\ raw.positions[i] # Garbage
      BY <2>2, LenProperties, ElementOfSeq DEF Sound, WellFormed
    <3> QED
      BY <3>1
  <2>4. a.positions = Sift(raw.positions, Sound(raw))
    BY <1>1, RepairFields
  <2> QED
    BY <2>1, <2>2, <2>3, <2>4, SiftHolds
<1>3. a.market_risk \in STRING /\ a.risk_posture \in Postures
  <2>1. raw.market_risk \in STRING
    BY DEF RawAnswer
  <2> QED
    BY <1>1, <2>1, RepairFields
<1>4. a.entry_proposal \in OrNone(Proposal)
  <2>1. raw.entry_proposal \in Proposal \cup {None, Garbage}
    BY DEF RawAnswer
  <2>2. Proposes(raw.entry_proposal) => raw.entry_proposal \in Proposal
    BY <2>1 DEF Proposes
  <2> QED
    BY <1>1, <2>2, RepairFields DEF OrNone
<1>5. a = [market_risk |-> a.market_risk, risk_posture |-> a.risk_posture,
           positions |-> a.positions, entry_proposal |-> a.entry_proposal]
  BY <1>1, RepairFields
<1> HIDE DEF a
<1>6. a \in Normalized
  BY <1>2, <1>3, <1>4, <1>5 DEF Normalized
<1> QED
  BY <1>1, <1>6 DEF Raised, a

LEMMA CompleteAnswer ==
    ASSUME NEW w, Complete(w)
    PROVE  /\ w \in World /\ OneRow(w)
           /\ Advice(w) = normalize_advice(w.raw, w.posture)
           /\ w.raw \in RawAnswer /\ w.posture \in Postures
           /\ Advice(w) # Raised /\ Advice(w) \in Normalized /\ Consistent(Advice(w).positions)
<1>1. w \in World /\ OneRow(w)
  BY DEF Complete, OneRow
<1>2. w.raw \in RawAnswer /\ w.posture \in Postures
  BY <1>1 DEF World
<1>3. Advice(w) = normalize_advice(w.raw, w.posture)
  <2>1. w.backend = "cli" /\ w.token /\ w.ended = <<"ok", "ok">>
    BY DEF Complete
  <2>2. w.token \in BOOLEAN /\ w.backend \in {"cli", "api"}
    BY <1>1 DEF World
  <2>3. w.ended[1] = "ok"
    BY <2>1
  <2>4. Ends(w) = "ok"
    BY <2>3 DEF Ends
  <2>5. ~Fails(w)
    BY <2>1, <2>4, Zenon DEF Fails
  <2> QED
    BY <2>2, <2>5, AdviceOf
<1>4. Advice(w) # Raised /\ Advice(w) \in Normalized /\ w.raw # Garbage
  BY <1>2, <1>3, RepairType
<1>5. Consistent(Advice(w).positions)
  <2> DEFINE told == w.raw.positions
             V == {told[i] : i \in Sound(w.raw)}
  <2>1. Advice(w).positions = Sift(told, Sound(w.raw))
    BY <1>2, <1>3, <1>4, RepairFields
  <2>2. told \in Seq(Mention \cup {Garbage})
    BY <1>2 DEF RawAnswer
  <2>3. Sound(w.raw) \subseteq DOMAIN told /\ \A i \in Sound(w.raw) : told[i] \in V
    BY DEF Sound
  <2>4. \A a, b \in V : a.id = b.id => a.action = b.action
    BY DEF Complete, Sound
  <2> HIDE DEF told, V
  <2>5. Advice(w).positions \in Seq(V)
    BY <2>1, <2>2, <2>3, SiftHolds
  <2>6. \A i \in DOMAIN Advice(w).positions : Advice(w).positions[i] \in V
    BY <2>5, LenProperties, ElementOfSeq
  <2> QED
    BY <2>4, <2>6 DEF Consistent
<1> QED
  BY <1>1, <1>2, <1>3, <1>4, <1>5

LEMMA SameAdvice ==
    ASSUME NEW w, Complete(w), NEW d, SameAnswer(w, d)
    PROVE  Advice(d) = Advice(w)
<1>1. w.backend \in {"cli", "api"} /\ w.token \in BOOLEAN
  BY CompleteAnswer DEF World
<1>2. Advice(w) = normalize_advice(w.raw, w.posture) /\ ~Fails(w)
  BY <1>1, CompleteAnswer, AdviceOf
<1>3. ~Fails(d)
  BY <1>2 DEF SameAnswer, Fails, Ends
<1>4. d.backend \in {"cli", "api"} /\ d.token \in BOOLEAN
  BY <1>1 DEF SameAnswer
<1>5. Advice(d) = normalize_advice(d.raw, d.posture)
  BY <1>3, <1>4, AdviceOf
<1> QED
  BY <1>2, <1>5 DEF SameAnswer

(* The same answer on less. *)
LEMMA LessClosed ==
    ASSUME NEW w, Complete(w), NEW d, Advice(d) = Advice(w),
           d.book = w.book, d.now = w.now, Less(d.quote, w.quote),
           d.previous \in {w.previous, None}
    PROVE  ClosesNoMore(w, d)
<1>1. Advice(w).positions \in Seq(Mention)
  BY CompleteAnswer DEF Normalized
<1> QED
  BY <1>1, CompleteAnswer, ClosesConfined DEF ClosesNoMore

LEMMA LessRead ==
    ASSUME NEW w, Complete(w), NEW d, Advice(d) = Advice(w),
           d.book = w.book, d.now = w.now, Less(d.quote, w.quote),
           d.previous \in {w.previous, None}, Enters(d) => Enters(w)
    PROVE  Confined(w, d)
BY LessClosed DEF Confined

(* The market of the same candles and volatilities on another ticker. *)
LEMMA OtherRate ==
    ASSUME NEW w, NEW d, d.closes = w.closes, d.ivs = w.ivs
    PROVE  /\ Market(d).iv_minus_rv24 = Market(w).iv_minus_rv24
           /\ Market(d).vol_accelerating = Market(w).vol_accelerating
           /\ Market(d).chg_24h = Market(w).chg_24h /\ Market(d).dist_high = Market(w).dist_high
           /\ Market(d).chg_1h = Market(w).chg_1h /\ Market(d).chg_7d = Market(w).chg_7d
           /\ d.ticker \in {w.ticker, None} => Market(d).funding \in {Market(w).funding, None}
<1>1. d.ticker \in {w.ticker, None} => Funding(d.ticker) \in {Funding(w.ticker), None}
  BY DEF Funding
<1> QED
  BY <1>1 DEF Market, market_block, NoRow

LEMMA EntryOnRest ==
    ASSUME NEW w, Complete(w), NEW d, Advice(d) = Advice(w), SameBook(w, d),
           d.status = w.status, d.closes = w.closes, d.ivs = w.ivs,
           d.journal = w.journal, d.closed = w.closed,
           d.ticker \in {w.ticker, None}, d.up \in {w.up, FALSE}
    PROVE  Enters(d) => Enters(w)
<1> SUFFICES ASSUME Enters(d) PROVE Enters(w)
  OBVIOUS
<1>1. /\ Market(d).iv_minus_rv24 = Market(w).iv_minus_rv24
      /\ Market(d).vol_accelerating = Market(w).vol_accelerating
      /\ Market(d).chg_24h = Market(w).chg_24h /\ Market(d).dist_high = Market(w).dist_high
      /\ Market(d).chg_1h = Market(w).chg_1h /\ Market(d).chg_7d = Market(w).chg_7d
      /\ Market(d).funding \in {Market(w).funding, None}
  BY OtherRate
<1>2. Gate(d) = Gate(w)
  BY DEF Gate, SameBook
<1>3. Score(d) \in {Score(w), None}
  BY DEF Score, track_record_block
<1>4. ASSUME NEW prop, call_guard(prop, Market(d), Score(d))
      PROVE  call_guard(prop, Market(w), Score(w))
  BY <1>1, <1>3, <1>4 DEF call_guard
<1>5. Advice(w) # Raised
  BY CompleteAnswer
<1> QED
  BY <1>1, <1>2, <1>4, <1>5, EntryConfined DEF SameBook

(* The same tick with one input of another value. *)
SameRest(w, d) == /\ SameBook(w, d) /\ d.status = w.status /\ d.closes = w.closes /\ d.ivs = w.ivs
                  /\ d.journal = w.journal /\ d.closed = w.closed
Reads(w, d) == d.ticker = w.ticker /\ d.up = w.up
Asks(w, d) == d.quote = w.quote /\ d.previous = w.previous

LEMMA OtherCloses ==
    ASSUME NEW w \in World, NEW x, NEW d, d = [w EXCEPT !.closes = x]
    PROVE  SameAnswer(w, d) /\ SameBook(w, d) /\ Asks(w, d) /\ d.closes = x
BY DEF World, SameAnswer, SameBook, SameRest, Reads, Asks

LEMMA OtherIvs ==
    ASSUME NEW w \in World, NEW x, NEW d, d = [w EXCEPT !.ivs = x]
    PROVE  /\ SameAnswer(w, d) /\ SameBook(w, d) /\ Reads(w, d) /\ Asks(w, d) /\ d.ivs = x
           /\ d.closes = w.closes /\ d.status = w.status /\ d.journal = w.journal /\ d.closed = w.closed
BY DEF World, SameAnswer, SameBook, SameRest, Reads, Asks

LEMMA OtherChecked ==
    ASSUME NEW w \in World, NEW x, NEW d, d = [w EXCEPT !.status.checked = x]
    PROVE  SameAnswer(w, d) /\ SameBook(w, d) /\ Asks(w, d) /\ d.status.checked = x
BY DEF World, SameAnswer, SameBook, SameRest, Reads, Asks

LEMMA OtherTicker ==
    ASSUME NEW w \in World, NEW x, NEW d, d = [w EXCEPT !.ticker = x]
    PROVE  SameAnswer(w, d) /\ SameRest(w, d) /\ Asks(w, d) /\ d.ticker = x /\ d.up = w.up
BY DEF World, SameAnswer, SameBook, SameRest, Reads, Asks

LEMMA OtherUp ==
    ASSUME NEW w \in World, NEW x, NEW d, d = [w EXCEPT !.up = x]
    PROVE  SameAnswer(w, d) /\ SameRest(w, d) /\ Asks(w, d) /\ d.ticker = w.ticker /\ d.up = x
BY DEF World, SameAnswer, SameBook, SameRest, Reads, Asks

LEMMA OtherQuote ==
    ASSUME NEW w \in World, NEW x, NEW d, d = [w EXCEPT !.quote = x]
    PROVE  SameAnswer(w, d) /\ SameRest(w, d) /\ Reads(w, d) /\ d.quote = x /\ d.previous = w.previous
BY DEF World, SameAnswer, SameBook, SameRest, Reads, Asks

LEMMA OtherPrevious ==
    ASSUME NEW w \in World, NEW x, NEW d, d = [w EXCEPT !.previous = x]
    PROVE  SameAnswer(w, d) /\ SameRest(w, d) /\ Reads(w, d) /\ d.quote = w.quote /\ d.previous = x
BY DEF World, SameAnswer, SameBook, SameRest, Reads, Asks

LEMMA OtherRaw ==
    ASSUME NEW w \in World, NEW x, NEW d, d = [w EXCEPT !.raw = x]
    PROVE  /\ SameRest(w, d) /\ Reads(w, d) /\ Asks(w, d) /\ d.raw = x /\ d.posture = w.posture
           /\ d.backend = w.backend /\ d.token = w.token /\ d.ended = w.ended
BY DEF World, SameAnswer, SameBook, SameRest, Reads, Asks

LEMMA OtherEnd ==
    ASSUME NEW w \in World, NEW x, NEW d, d = [w EXCEPT !.ended = x]
    PROVE  /\ SameRest(w, d) /\ Reads(w, d) /\ Asks(w, d) /\ d.raw = w.raw /\ d.posture = w.posture
           /\ d.backend = w.backend /\ d.token = w.token /\ d.ended = x
BY DEF World, SameAnswer, SameBook, SameRest, Reads, Asks

LEMMA OtherToken ==
    ASSUME NEW w \in World, NEW x, NEW d, d = [w EXCEPT !.token = x]
    PROVE  d.token = x /\ d.backend = w.backend
BY DEF World

LEMMA OtherReply ==
    ASSUME NEW w \in World, NEW d, d = [w EXCEPT !.backend = "api", !.ended[1] = "no_tool"]
    PROVE  d.token = w.token /\ d.backend = "api" /\ d.ended = [w.ended EXCEPT ![1] = "no_tool"]
BY DEF World

LEMMA OtherBackend ==
    ASSUME NEW w \in World, NEW x, NEW d, d = [w EXCEPT !.backend = x]
    PROVE  /\ SameRest(w, d) /\ Reads(w, d) /\ Asks(w, d) /\ d.raw = w.raw /\ d.posture = w.posture
           /\ d.backend = x /\ d.token = w.token /\ d.ended = w.ended
BY DEF World, SameAnswer, SameBook, SameRest, Reads, Asks

(* An input whose lack is noticed confines the tick. *)
LEMMA NoticedConfined ==
    ASSUME NEW w, Complete(w), NEW d \in Noticed(w)
    PROVE  Confined(w, d)
<1>0. /\ w \in World /\ w.now \in Int /\ w.raw \in RawAnswer /\ w.posture \in Postures
      /\ w.backend = "cli" /\ w.backend \in {"cli", "api"} /\ w.token \in BOOLEAN /\ w.token /\ w.ended = <<"ok", "ok">>
  BY CompleteAnswer DEF Complete, World
<1>w. w \in World
  BY <1>0
<1>a. Advice(w) = normalize_advice(w.raw, w.posture) /\ Advice(w) # Raised
  BY CompleteAnswer
<1>u. ~Fails(w)
  <2>1. w.backend \in {"cli", "api"} /\ w.token \in BOOLEAN
    BY <1>0
  <2> QED
    BY <1>a, <2>1, AdviceOf
<1>b. ASSUME NEW x, SameAnswer(w, x)
      PROVE  Advice(x) = Advice(w)
  BY <1>b, SameAdvice
<1>c. ASSUME NEW q PROVE Less(q, q)
  BY DEF Less
<1>d. ASSUME NEW x, SameAnswer(w, x), SameBook(w, x), Asks(w, x), ~Enters(x)
      PROVE  Confined(w, x)
  BY <1>b, <1>c, <1>d, LessRead DEF SameBook, Asks
<1>e. ASSUME NEW x, Advice(x) = Advice(w), SameRest(w, x), x.ticker \in {w.ticker, None}, x.up \in {w.up, FALSE},
             Less(x.quote, w.quote), x.previous \in {w.previous, None}
      PROVE  Confined(w, x)
  BY <1>e, EntryOnRest, LessRead DEF SameRest, SameBook
<1>1. CASE d = [w EXCEPT !.closes = Tail(@)]
  <2>1. SameAnswer(w, d) /\ SameBook(w, d) /\ Asks(w, d) /\ d.closes = Tail(w.closes)
    <3>1. d = [w EXCEPT !.closes = Tail(w.closes)]
      BY <1>1
    <3> QED
      BY <1>0, <3>1, OtherCloses
  <2>2. Len(d.closes) < WeekBars
    <3>1. w.closes \in Seq(Nat \ {0}) /\ Len(w.closes) \in 1..WeekBars /\ WeekBars \in Nat
      BY <1>0, AdvisorRulesAssumption DEF World, Complete, AdvisorRulesAssumption
    <3>2. w.closes # <<>>
      BY <3>1, EmptySeq
    <3>3. Len(Tail(w.closes)) = Len(w.closes) - 1
      BY <3>1, <3>2, HeadTailProperties
    <3> QED
      BY <2>1, <3>1, <3>3
  <2> QED
    BY <1>d, <2>1, <2>2, NoPremium
<1>2. CASE d = [w EXCEPT !.ticker = None]
  <2>1. SameAnswer(w, d) /\ SameRest(w, d) /\ Asks(w, d) /\ d.ticker = None /\ d.up = w.up
    BY <1>0, <1>2, OtherTicker
  <2> QED
    BY <1>b, <1>c, <1>e, <2>1 DEF Asks
<1>3. CASE d = [w EXCEPT !.ivs = <<>>]
  BY <1>0, <1>3, <1>d, OtherIvs, NoPremium
<1>4. CASE \E q : d = [w EXCEPT !.quote = q] /\ Less(q, w.quote)
  <2>1. PICK q : d = [w EXCEPT !.quote = q] /\ Less(q, w.quote)
    BY <1>4
  <2>2. SameAnswer(w, d) /\ SameRest(w, d) /\ Reads(w, d) /\ d.quote = q /\ d.previous = w.previous
    BY <1>0, <2>1, OtherQuote
  <2> QED
    BY <1>b, <1>e, <2>1, <2>2 DEF Reads
<1>5. CASE d = [w EXCEPT !.status.checked = None] \/ d = [w EXCEPT !.status.checked = w.now - GatesStale - 1]
  <2>1. PICK x : x \in {None, w.now - GatesStale - 1} /\ d = [w EXCEPT !.status.checked = x]
    BY <1>5
  <2>2. SameAnswer(w, d) /\ SameBook(w, d) /\ Asks(w, d) /\ d.status.checked = x
    BY <1>0, <2>1, OtherChecked
  <2>3. ~Enters(d)
    BY <1>0, <2>1, <2>2, StaleGates DEF SameBook
  <2> QED
    BY <1>d, <2>2, <2>3
<1>6. CASE d = [w EXCEPT !.up = FALSE]
  <2>1. SameAnswer(w, d) /\ SameRest(w, d) /\ Asks(w, d) /\ d.ticker = w.ticker /\ d.up = FALSE
    BY <1>0, <1>6, OtherUp
  <2> QED
    BY <1>b, <1>c, <1>e, <2>1 DEF Asks
<1>7. CASE d = [w EXCEPT !.previous = None]
  <2>1. SameAnswer(w, d) /\ SameRest(w, d) /\ Reads(w, d) /\ d.quote = w.quote /\ d.previous = None
    BY <1>0, <1>7, OtherPrevious
  <2> QED
    BY <1>b, <1>c, <1>e, <2>1 DEF Reads

<1>f. ASSUME NEW x, x.raw \in RawAnswer, x.posture = w.posture, x.backend = w.backend, x.token = w.token,
             x.ended = w.ended
      PROVE  Advice(x) = normalize_advice(x.raw, x.posture) /\ Advice(x) # Raised
  <2>1. ~Fails(x)
    BY <1>f, <1>u DEF Fails, Ends
  <2>2. x.backend \in {"cli", "api"} /\ x.token \in BOOLEAN
    BY <1>0, <1>f
  <2>3. Advice(x) = normalize_advice(x.raw, x.posture)
    BY <2>1, <2>2, AdviceOf
  <2>4. x.posture \in Postures
    BY <1>0, <1>f
  <2> QED
    BY <1>f, <2>3, <2>4, RepairType
<1>8. CASE d = [w EXCEPT !.raw = Garbage]
  <2>1. d.raw = Garbage /\ d.posture = w.posture /\ d.backend = w.backend /\ d.token = w.token /\ d.ended = w.ended
    BY <1>w, <1>8, OtherRaw
  <2>2. ~Fails(d)
    BY <1>u, <2>1 DEF Fails, Ends
  <2>3. d.backend \in {"cli", "api"} /\ d.token \in BOOLEAN
    BY <1>0, <2>1
  <2>4. Advice(d) = normalize_advice(d.raw, d.posture)
    BY <2>2, <2>3, AdviceOf
  <2>5. Advice(d).positions = <<>> /\ Advice(d).entry_proposal = None
    BY <2>1, <2>4 DEF normalize_advice
  <2> QED
    BY <2>5, EntryNeeds, NoRowsNoCloses DEF Confined, ClosesNoMore
<1>9. CASE d = [w EXCEPT !.raw.positions = <<Garbage>>]
  <2> DEFINE raw == [w.raw EXCEPT !.positions = <<Garbage>>]
  <2>0. <<Garbage>> \in Seq(Mention \cup {Garbage})
    OBVIOUS
  <2>1. raw \in RawAnswer /\ raw.positions = <<Garbage>> /\ raw.entry_proposal = w.raw.entry_proposal
        /\ raw.risk_posture = w.raw.risk_posture /\ raw.market_risk = w.raw.market_risk
    <3> DEFINE M == Seq(Mention \cup {Garbage})
               g == <<Garbage>>
    <3>1. g \in M
      BY <2>0
    <3>2. RawAnswer = [market_risk : STRING, risk_posture : STRING \cup {None, Garbage},
                       positions : M, entry_proposal : Proposal \cup {None, Garbage}]
      BY DEF RawAnswer
    <3>3. raw = [w.raw EXCEPT !.positions = g]
      OBVIOUS
    <3> HIDE DEF raw, M, g
    <3>4. raw \in RawAnswer /\ raw.positions = g /\ raw.entry_proposal = w.raw.entry_proposal
          /\ raw.risk_posture = w.raw.risk_posture /\ raw.market_risk = w.raw.market_risk
      BY <1>0, <3>1, <3>2, <3>3
    <3> QED
      BY <3>4 DEF g
  <2>2. d = [w EXCEPT !.raw = raw]
    BY <1>9
  <2> HIDE DEF raw
  <2>3. SameRest(w, d) /\ Reads(w, d) /\ d.raw = raw /\ d.posture = w.posture
        /\ d.backend = w.backend /\ d.token = w.token /\ d.ended = w.ended
    BY <1>w, <2>2, OtherRaw
  <2>4. Advice(d) = normalize_advice(raw, w.posture)
    BY <1>f, <2>1, <2>3
  <2>5. Advice(d).positions = <<>>
    <3>1. Sound(raw) = {}
      BY <2>1 DEF Sound, WellFormed
    <3>2. <<Garbage>> \in Seq({Garbage})
      OBVIOUS
    <3>3. Advice(d).positions = Sift(raw.positions, Sound(raw))
      BY <1>0, <2>1, <2>4, RepairFields, RepairType
    <3> QED
      BY <2>1, <3>1, <3>2, <3>3, SiftNothing
  <2>6. Advice(d).entry_proposal = Advice(w).entry_proposal
        /\ Advice(d).risk_posture = Advice(w).risk_posture
        /\ Advice(d).market_risk = Advice(w).market_risk
    BY <1>0, <1>a, <2>1, <2>4, RepairFields, RepairType
  <2>7. Enters(d) => Enters(w)
    BY <1>a, <2>3, <2>6, EntryConfined DEF SameRest, SameBook, Reads, Market, Gate, Score
  <2> QED
    BY <2>5, <2>7, NoRowsNoCloses DEF Confined, ClosesNoMore
<1>10. CASE d = [w EXCEPT !.raw.entry_proposal = Garbage]
  <2> DEFINE raw == [w.raw EXCEPT !.entry_proposal = Garbage]
  <2>1. raw \in RawAnswer /\ raw.positions = w.raw.positions /\ raw.entry_proposal = Garbage
        /\ raw.risk_posture = w.raw.risk_posture /\ raw.market_risk = w.raw.market_risk
    BY <1>0 DEF RawAnswer
  <2>2. d = [w EXCEPT !.raw = raw]
    BY <1>10
  <2> HIDE DEF raw
  <2>3. SameRest(w, d) /\ Reads(w, d) /\ Asks(w, d) /\ d.raw = raw /\ d.posture = w.posture
        /\ d.backend = w.backend /\ d.token = w.token /\ d.ended = w.ended
    BY <1>w, <2>2, OtherRaw
  <2>4. Advice(d) = normalize_advice(raw, w.posture)
    BY <1>f, <2>1, <2>3
  <2>5. Advice(d).entry_proposal = None
    BY <1>0, <2>1, <2>4, RepairFields, RepairType DEF Proposes
  <2>6. ~Enters(d)
    BY <2>5, EntryNeeds
  <2>7. Advice(d) # Raised /\ Advice(d).positions = Advice(w).positions
        /\ Advice(d).risk_posture = Advice(w).risk_posture
    <3>1. Advice(d) # Raised
      BY <1>f, <2>1, <2>3
    <3>2. Sound(raw) = Sound(w.raw)
      BY <2>1 DEF Sound
    <3> QED
      BY <1>0, <1>a, <2>1, <2>4, <3>1, <3>2, RepairFields, RepairType
  <2>8. Closing(d) \subseteq Closing(w) /\ Commands(d) \subseteq Commands(w)
    <3>1. d.book = w.book /\ d.now = w.now /\ d.quote = w.quote /\ d.previous = w.previous
      BY <2>3 DEF SameRest, SameBook, Asks
    <3>2. Less(d.quote, w.quote)
      BY <1>c, <3>1
    <3>3. OneRow(w) /\ Advice(w) # Raised /\ Consistent(Advice(w).positions)
          /\ Advice(w).positions \in Seq(Mention)
      BY CompleteAnswer DEF Normalized
    <3> QED
      BY <2>7, <3>1, <3>2, <3>3, ClosesConfined
  <2> QED
    BY <2>6, <2>8 DEF Confined, ClosesNoMore
<1>11. CASE d = [w EXCEPT !.token = FALSE]
  <2>1. d.backend = w.backend /\ d.token = FALSE
    BY <1>w, <1>11, OtherToken
  <2>2. Fails(d)
    BY <1>0, <2>1 DEF Fails
  <2>3. d.backend \in {"cli", "api"} /\ d.token \in BOOLEAN
    BY <1>0, <2>1
  <2> QED
    BY <2>2, <2>3, AdviceOf, NothingOfRaised
<1>12. CASE d = [w EXCEPT !.backend = "api", !.ended[1] = "no_tool"]
  <2>1. d.backend = "api" /\ d.token = w.token /\ d.ended = [w.ended EXCEPT ![1] = "no_tool"]
    BY <1>w, <1>12, OtherReply
  <2>2. d.ended[1] = "no_tool"
    BY <1>0, <2>1
  <2>3. Fails(d)
    BY <2>1, <2>2 DEF Fails, Ends
  <2>4. d.backend \in {"cli", "api"} /\ d.token \in BOOLEAN
    BY <1>0, <2>1
  <2> QED
    BY <2>3, <2>4, AdviceOf, NothingOfRaised
<1>13. CASE d = [w EXCEPT !.ended[1] = "timeout"] \/ d = [w EXCEPT !.ended = <<"rc", "unparsed">>]
  <2>1. PICK e : d = [w EXCEPT !.ended = e] /\ e \in {[w.ended EXCEPT ![1] = "timeout"], <<"rc", "unparsed">>}
    BY <1>13
  <2>2. d.backend = w.backend /\ d.token = w.token /\ d.ended = e
    BY <1>w, <2>1, OtherEnd
  <2>3. e[1] = "timeout" \/ (e[1] = "rc" /\ e[2] = "unparsed")
    BY <1>0, <2>1
  <2>4. Fails(d)
    BY <2>2, <2>3 DEF Fails, Ends
  <2>5. d.backend \in {"cli", "api"} /\ d.token \in BOOLEAN
    BY <1>0, <2>2
  <2> QED
    BY <2>4, <2>5, AdviceOf, NothingOfRaised
<1>g. ASSUME NEW x, SameRest(w, x), Reads(w, x), Asks(w, x), x.raw = w.raw, x.posture = w.posture,
             x.backend \in {"cli", "api"}, x.token \in BOOLEAN, ~Fails(x)
      PROVE  Confined(w, x)
  <2>1. Advice(x) = Advice(w)
    BY <1>a, <1>g, AdviceOf
  <2>2. Less(x.quote, w.quote) /\ x.previous = w.previous
    BY <1>c, <1>g DEF Asks
  <2> QED
    BY <1>e, <1>g, <2>1, <2>2 DEF Reads
<1>14. CASE d = [w EXCEPT !.backend = "api"]
  <2>1. SameRest(w, d) /\ Reads(w, d) /\ Asks(w, d) /\ d.raw = w.raw /\ d.posture = w.posture
        /\ d.backend = "api" /\ d.token = w.token /\ d.ended = w.ended
    BY <1>w, <1>14, OtherBackend
  <2>2. w.ended[1] = "ok"
    BY <1>0
  <2>3. ~Fails(d)
    BY <2>1, <2>2 DEF Fails, Ends
  <2>4. d.token \in BOOLEAN
    BY <1>0, <2>1
  <2> QED
    BY <1>g, <2>1, <2>3, <2>4
<1>15. CASE d = [w EXCEPT !.ended[1] = "unparsed"]
  <2>0. PICK e : e = [w.ended EXCEPT ![1] = "unparsed"]
    OBVIOUS
  <2>1. SameRest(w, d) /\ Reads(w, d) /\ Asks(w, d) /\ d.raw = w.raw /\ d.posture = w.posture
        /\ d.backend = w.backend /\ d.token = w.token /\ d.ended = e
    <3>1. d = [w EXCEPT !.ended = e]
      BY <1>15, <2>0
    <3> QED
      BY <1>w, <3>1, OtherEnd
  <2>2. e[1] = "unparsed" /\ e[2] = "ok"
    BY <1>0, <2>0
  <2>3. d.backend = "cli" /\ d.token /\ d.token \in BOOLEAN
    BY <1>0, <2>1
  <2>4. ~Fails(d)
    BY <2>1, <2>2, <2>3 DEF Fails, Ends
  <2> QED
    BY <1>g, <2>1, <2>3, <2>4
<1>16. \A q \in {NoQuote, [w.quote EXCEPT !.iv = None], [w.quote EXCEPT !.mark = None],
                [w.quote EXCEPT !.spot = None]} : Less(q, w.quote)
  <2>1. w.quote \in [mark : OrNone(Int), iv : OrNone(Int), spot : OrNone(Int)]
    BY <1>w DEF World
  <2> QED
    BY <2>1 DEF Less, NoQuote
<1>17. CASE \/ d = [w EXCEPT !.quote = NoQuote] \/ d = [w EXCEPT !.quote.iv = None]
            \/ d = [w EXCEPT !.quote.mark = None] \/ d = [w EXCEPT !.quote.spot = None]
  <2>1. PICK q : d = [w EXCEPT !.quote = q]
                 /\ q \in {NoQuote, [w.quote EXCEPT !.iv = None], [w.quote EXCEPT !.mark = None],
                          [w.quote EXCEPT !.spot = None]}
    BY <1>17
  <2> QED
    BY <1>4, <1>16, <2>1
<1> QED
  BY <1>1, <1>2, <1>3, <1>5, <1>6, <1>7, <1>8, <1>9, <1>10, <1>11, <1>12, <1>13, <1>14, <1>15, <1>17 DEF Noticed

-----------------------------------------------------------------------------
(* The inputs whose lack goes unnoticed. *)

(* No more closes, whatever else such an input changes. *)
LEMMA UnnoticedCloses ==
    ASSUME NEW w, Complete(w), NEW d, SameAnswer(w, d), SameBook(w, d), d.quote = w.quote,
           d.previous \in {w.previous, None}
    PROVE  ClosesNoMore(w, d)
<1>1. Less(d.quote, w.quote)
  BY DEF Less
<1>2. Advice(d) = Advice(w)
  BY SameAdvice
<1> QED
  BY <1>1, <1>2, LessClosed DEF SameBook

(* What such a tick decides with, up to the guards. *)
LEMMA UnnoticedEntry ==
    ASSUME NEW w, Complete(w), NEW d, SameAnswer(w, d), SameBook(w, d),
           PremiumAllows(d) => PremiumAllows(w),
           ~Market(d).vol_accelerating => ~Market(w).vol_accelerating,
           SellsCall(w) /\ call_guard(Advice(w).entry_proposal, Market(d), Score(d))
             => call_guard(Advice(w).entry_proposal, Market(w), Score(w)),
           ~Gate(d).stale => ~Gate(w).stale,
           InTrendWindow(Advice(w).entry_proposal.side, Gate(d), Market(d))
             => InTrendWindow(Advice(w).entry_proposal.side, Gate(w), Market(w)),
           Enters(d)
    PROVE  Enters(w)
<1>1. Advice(d) = Advice(w) /\ Advice(w) # Raised
  BY SameAdvice, CompleteAnswer
<1>2. d.book = w.book /\ d.silence = w.silence
  BY DEF SameBook
<1> QED
  BY <1>1, <1>2, EntryPasses

LEMMA RateUnnoticed ==
    ASSUME NEW w, Complete(w)
    PROVE  Passes(w, [w EXCEPT !.ticker = <<>>], FundingAllows(w))
<1> DEFINE d == [w EXCEPT !.ticker = <<>>]
<1>1. SameAnswer(w, d) /\ SameRest(w, d) /\ Asks(w, d) /\ d.up = w.up
  BY CompleteAnswer, OtherTicker
<1> HIDE DEF d
<1>2. ClosesNoMore(w, d)
  BY <1>1, UnnoticedCloses DEF SameRest, Asks
<1>3. ASSUME Enters(d), FundingAllows(w)
      PROVE  Enters(w)
  <2>1. /\ Market(d).iv_minus_rv24 = Market(w).iv_minus_rv24
        /\ Market(d).vol_accelerating = Market(w).vol_accelerating
        /\ Market(d).chg_24h = Market(w).chg_24h /\ Market(d).dist_high = Market(w).dist_high
        /\ Market(d).chg_1h = Market(w).chg_1h /\ Market(d).chg_7d = Market(w).chg_7d
    BY <1>1, OtherRate DEF SameRest
  <2>2. Gate(d) = Gate(w) /\ Score(d) = Score(w)
    BY <1>1 DEF Gate, Score, SameRest, SameBook
  <2>3. SellsCall(w) /\ call_guard(Advice(w).entry_proposal, Market(d), Score(d))
          => call_guard(Advice(w).entry_proposal, Market(w), Score(w))
    BY <1>3, <2>1, <2>2 DEF call_guard, FundingAllows
  <2>4. InTrendWindow(Advice(w).entry_proposal.side, Gate(d), Market(d))
          => InTrendWindow(Advice(w).entry_proposal.side, Gate(w), Market(w))
    BY <2>1, <2>2 DEF InTrendWindow
  <2>5. PremiumAllows(d) => PremiumAllows(w)
    BY <2>1 DEF PremiumAllows
  <2>6. SameBook(w, d)
    BY <1>1 DEF SameRest
  <2> QED
    BY <1>1, <1>3, <2>1, <2>2, <2>3, <2>4, <2>5, <2>6, UnnoticedEntry
<1> QED
  BY <1>2, <1>3 DEF Passes, d

LEMMA ReturnUnnoticed ==
    ASSUME NEW w, Complete(w)
    PROVE  Passes(w, [w EXCEPT !.status.ret_7d = None], TrendAllows(w))
<1> DEFINE d == [w EXCEPT !.status.ret_7d = None]
<1>0. w \in World
  BY CompleteAnswer
<1>1. /\ SameAnswer(w, d) /\ SameBook(w, d) /\ Asks(w, d) /\ Reads(w, d) /\ d.closes = w.closes
      /\ d.ivs = w.ivs /\ d.journal = w.journal /\ d.closed = w.closed
      /\ d.status.checked = w.status.checked /\ d.status.ret_7d = None
  BY <1>0 DEF World, SameAnswer, SameBook, Asks, Reads
<1> HIDE DEF d
<1>2. ClosesNoMore(w, d)
  BY <1>1, UnnoticedCloses DEF Asks
<1>3. ASSUME Enters(d), TrendAllows(w)
      PROVE  Enters(w)
  <2>1. Market(d) = Market(w) /\ Score(d) = Score(w)
    BY <1>1 DEF Market, Score, Reads
  <2>2. Gate(d).stale = Gate(w).stale /\ Gate(d).ret_7d = None
    BY <1>1 DEF Gate, mechanical_gates_block, SameBook
  <2>3. InTrendWindow(Advice(w).entry_proposal.side, Gate(d), Market(d))
          => InTrendWindow(Advice(w).entry_proposal.side, Gate(w), Market(w))
    BY <1>3, <2>2 DEF InTrendWindow, TrendAllows, SellsCall
  <2>4. PremiumAllows(d) => PremiumAllows(w)
    BY <2>1 DEF PremiumAllows
  <2> QED
    BY <1>1, <1>3, <2>1, <2>2, <2>3, <2>4, UnnoticedEntry
<1> QED
  BY <1>2, <1>3 DEF Passes, d

LEMMA RecordUnnoticed ==
    ASSUME NEW w, Complete(w)
    PROVE  Passes(w, [w EXCEPT !.journal = FALSE, !.previous = None], RecordAllows(w))
<1> DEFINE d == [w EXCEPT !.journal = FALSE, !.previous = None]
<1>0. w \in World
  BY CompleteAnswer
<1>1. /\ SameAnswer(w, d) /\ SameBook(w, d) /\ Reads(w, d) /\ d.closes = w.closes /\ d.ivs = w.ivs
      /\ d.status = w.status /\ d.quote = w.quote /\ d.previous = None
  BY <1>0 DEF World, SameAnswer, SameBook, Reads
<1> HIDE DEF d
<1>2. ClosesNoMore(w, d)
  BY <1>1, UnnoticedCloses
<1>3. ASSUME Enters(d), RecordAllows(w)
      PROVE  Enters(w)
  <2>1. Market(d) = Market(w) /\ Gate(d) = Gate(w)
    BY <1>1 DEF Market, Gate, Reads, SameBook
  <2>2. SellsCall(w) /\ call_guard(Advice(w).entry_proposal, Market(d), Score(d))
          => call_guard(Advice(w).entry_proposal, Market(w), Score(w))
    BY <1>3, <2>1 DEF call_guard, RecordAllows
  <2>3. PremiumAllows(d) => PremiumAllows(w)
    BY <2>1 DEF PremiumAllows
  <2> QED
    BY <1>1, <1>3, <2>1, <2>2, <2>3, UnnoticedEntry
<1> QED
  BY <1>2, <1>3 DEF Passes, d

LEMMA VarianceType ==
    ASSUME NEW closes \in Seq(Nat \ {0}), Len(closes) >= WeekBars
    PROVE  Variance(closes, 0) \in Int
<1> DEFINE ret(i) == (1000 * (closes[i] - closes[i - 1])) \div closes[i - 1]
           last == Len(closes) - 0
           day == (last - DayBars + 1)..last
           square == [i \in day |-> ret(i) * ret(i)]
<1>1. Variance(closes, 0) = SumFunctionOnSet(square, day)
  BY DEF Variance
<1>2. /\ Len(closes) \in Nat /\ DayBars \in Nat \ {0} /\ WeekBars \in Nat /\ 2 * DayBars < WeekBars
  BY AdvisorRulesAssumption, LenProperties DEF AdvisorRulesAssumption
<1>3. last \in Int /\ last - DayBars + 1 \in Int
  BY <1>2
<1>4. IsFiniteSet(day)
  BY <1>3, FS_Interval
<1>5. ASSUME NEW i \in day
      PROVE  ret(i) * ret(i) \in Int
  <2>1. i \in 1..Len(closes) /\ i - 1 \in 1..Len(closes)
    BY <1>2
  <2>2. closes[i] \in Nat \ {0} /\ closes[i - 1] \in Nat \ {0}
    BY <2>1, ElementOfSeq
  <2>3. 1000 * (closes[i] - closes[i - 1]) \in Int
    BY <2>2
  <2>4. ret(i) \in Int
    BY <2>2, <2>3
  <2> HIDE DEF ret
  <2> QED
    BY <2>4
<1> HIDE DEF ret, day
<1>6. \A i \in day : square[i] \in Int
  BY <1>5
<1> HIDE DEF square
<1>7. SumFunctionOnSet(square, day) \in Int
  BY <1>4, <1>6, SumType
<1> QED
  BY <1>1, <1>7

(* A pair whose cheaper side is rich enough alone is rich enough. *)
LEMMA PairIsRicher ==
    ASSUME NEW a \in Nat, NEW b \in Nat, NEW v \in Int, a <= b, a * a - 365 * v > 0
    PROVE  (a + b) * (a + b) - 4 * (365 * v) > 0
<1>1. (a + b) * (a + b) >= (2 * a) * (2 * a)
  <2>1. \E c \in Nat : b = a + c
    <3>1. b - a \in Nat /\ b = a + (b - a)
      OBVIOUS
    <3> QED
      BY <3>1
  <2>2. PICK c \in Nat : b = a + c
    BY <2>1
  <2>3. (a + b) * (a + b) = (2 * a) * (2 * a) + 4 * (a * c) + c * c
    BY <2>2
  <2>4. a * c >= 0 /\ c * c >= 0 /\ a * c \in Int /\ c * c \in Int /\ (2 * a) * (2 * a) \in Int
    BY <2>2
  <2> QED
    BY <2>3, <2>4
<1>2. (2 * a) * (2 * a) = 4 * (a * a)
  OBVIOUS
<1>3. a * a \in Int /\ (a + b) * (a + b) \in Int
  OBVIOUS
<1> QED
  BY <1>1, <1>2, <1>3

LEMMA LonePremium ==
    ASSUME NEW w, Complete(w), NEW side \in DOMAIN w.ivs, Cheapest(w, side), NEW d,
           d.closes = w.closes, d.ivs = [s \in {side} |-> w.ivs[s]], PremiumAllows(d)
    PROVE  PremiumAllows(w)
<1> DEFINE v == Variance(w.closes, 0)
<1>1. /\ w.closes \in Seq(Nat \ {0})
      /\ w.ivs \in [{"P", "C"} -> Nat] \cup [{"P"} -> Nat] \cup [{"C"} -> Nat] \cup [{} -> Nat]
  BY CompleteAnswer DEF World
<1>2. Len(w.closes) >= WeekBars /\ v \in Int
  <2>1. Len(w.closes) \in Nat /\ WeekBars \in Nat
    BY <1>1, LenProperties, AdvisorRulesAssumption DEF AdvisorRulesAssumption
  <2>2. ~ (Len(w.closes) < WeekBars)
    BY DEF PremiumAllows, Market, market_block, NoRow
  <2> QED
    BY <1>1, <2>1, <2>2, VarianceType
<1> HIDE DEF v
<1>3. Market(w).iv_minus_rv24 = Premium(w.ivs, w.closes) /\ Market(d).iv_minus_rv24 = Premium(d.ivs, w.closes)
  <2>1. ~ (Len(w.closes) < WeekBars)
    BY DEF PremiumAllows, Market, market_block, NoRow
  <2> QED
    BY <2>1 DEF Market, market_block
<1>4. CASE w.ivs \in [{"P"} -> Nat] \cup [{"C"} -> Nat]
  <2>1. d.ivs = w.ivs
    BY <1>4
  <2> QED
    BY <1>3, <2>1 DEF PremiumAllows
<1>5. CASE w.ivs \in [{"P", "C"} -> Nat]
  <2>1. PICK other \in {"P", "C"} : other # side /\ {"P", "C"} = {side} \cup {other}
    BY <1>5
  <2> DEFINE a == w.ivs[side]
             b == w.ivs[other]
  <2>2. a \in Nat /\ b \in Nat /\ a <= b /\ DOMAIN w.ivs = {side} \cup {other}
    BY <1>5, <2>1 DEF Cheapest
  <2>3. d.ivs[side] = a /\ DOMAIN d.ivs = {side}
    OBVIOUS
  <2> HIDE DEF a, b
  <2>4. Cardinality({side}) = 1 /\ Cardinality({side} \cup {other}) = 2 /\ IsFiniteSet({side})
    <3>1. Cardinality({side}) = 1 /\ IsFiniteSet({side})
      BY FS_Singleton
    <3>2. Cardinality({side} \cup {other}) = Cardinality({side}) + 1
      BY <2>1, <3>1, FS_AddElement
    <3> QED
      BY <3>1, <3>2
  <2>5. SumFunctionOnSet(d.ivs, {side}) = a
    BY <2>2, <2>3, SumSingleton
  <2>6. SumFunctionOnSet(w.ivs, {side} \cup {other}) = b + a
    <3>1. w.ivs[side] = a /\ w.ivs[other] = b /\ \A y \in {side} \cup {other} : w.ivs[y] \in Int
      BY <2>2 DEF a, b
    <3>2. SumFunctionOnSet(w.ivs, {side}) = a
      BY <2>2, <3>1, SumSingleton
    <3>3. other \notin {side}
      BY <2>1
    <3> QED
      BY <2>4, <3>1, <3>2, <3>3, SumAdd
  <2>7. Premium(d.ivs, w.closes) = a * a - 1 * 1 * 365 * v
    BY <2>3, <2>4, <2>5 DEF Premium, v
  <2>8. Premium(w.ivs, w.closes) = (b + a) * (b + a) - 2 * 2 * 365 * v
    BY <2>2, <2>4, <2>6 DEF Premium, v
  <2>9. a * a - 365 * v > 0
    <3>1. a * a - 1 * 1 * 365 * v > 0
      BY <1>3, <2>7 DEF PremiumAllows
    <3>2. a * a \in Int
      BY <2>2
    <3> QED
      BY <1>2, <3>1, <3>2
  <2>10. (a + b) * (a + b) - 4 * (365 * v) > 0
    BY <1>2, <2>2, <2>9, PairIsRicher
  <2>11. Premium(w.ivs, w.closes) \in Int /\ Premium(w.ivs, w.closes) > 0
    <3>1. b + a = a + b /\ (a + b) * (a + b) \in Int
      BY <2>2
    <3> DEFINE q == (a + b) * (a + b)
    <3>2. Premium(w.ivs, w.closes) = q - 2 * 2 * 365 * v
      BY <2>8, <3>1
    <3>3. q \in Int /\ q - 4 * (365 * v) > 0
      BY <2>10, <3>1
    <3> HIDE DEF q
    <3> QED
      BY <1>2, <3>2, <3>3
  <2>12. None \notin Int
    BY WorldsAssumption DEF WorldsAssumption
  <2> QED
    BY <1>3, <2>11, <2>12 DEF PremiumAllows
<1> QED
  BY <1>1, <1>4, <1>5

LEMMA VolatilityUnnoticed ==
    ASSUME NEW w, Complete(w), NEW side \in DOMAIN w.ivs
    PROVE  Passes(w, [w EXCEPT !.ivs = [s \in {side} |-> @[s]]], PremiumAllows(w) \/ Cheapest(w, side))
<1> DEFINE x == [s \in {side} |-> w.ivs[s]]
           d == [w EXCEPT !.ivs = x]
<1> HIDE DEF x
<1>1. /\ SameAnswer(w, d) /\ SameBook(w, d) /\ Reads(w, d) /\ Asks(w, d) /\ d.ivs = x
      /\ d.closes = w.closes /\ d.status = w.status /\ d.journal = w.journal /\ d.closed = w.closed
  BY CompleteAnswer, OtherIvs
<1> HIDE DEF d
<1>2. ClosesNoMore(w, d)
  BY <1>1, UnnoticedCloses DEF Asks
<1>3. ASSUME Enters(d), PremiumAllows(w) \/ Cheapest(w, side)
      PROVE  Enters(w)
  <2>1. PremiumAllows(d) => PremiumAllows(w)
    BY <1>1, <1>3, LonePremium DEF x
  <2>2. /\ Market(d).vol_accelerating = Market(w).vol_accelerating
        /\ Market(d).chg_24h = Market(w).chg_24h /\ Market(d).dist_high = Market(w).dist_high
        /\ Market(d).chg_1h = Market(w).chg_1h /\ Market(d).chg_7d = Market(w).chg_7d
        /\ Market(d).funding = Market(w).funding
    BY <1>1 DEF Market, market_block, NoRow, Reads
  <2>3. Gate(d) = Gate(w) /\ Score(d) = Score(w)
    BY <1>1 DEF Gate, Score, SameBook, Reads
  <2>4. SellsCall(w) /\ call_guard(Advice(w).entry_proposal, Market(d), Score(d))
          => call_guard(Advice(w).entry_proposal, Market(w), Score(w))
    BY <2>2, <2>3 DEF call_guard
  <2>5. InTrendWindow(Advice(w).entry_proposal.side, Gate(d), Market(d))
          => InTrendWindow(Advice(w).entry_proposal.side, Gate(w), Market(w))
    BY <2>2, <2>3 DEF InTrendWindow
  <2> QED
    BY <1>1, <1>3, <2>1, <2>2, <2>3, <2>4, <2>5, UnnoticedEntry
<1>4. d = [w EXCEPT !.ivs = [s \in {side} |-> @[s]]]
  BY DEF d, x
<1> QED
  BY <1>2, <1>3, <1>4 DEF Passes

LEMMA UnnoticedHolds ==
    ASSUME NEW w, Complete(w)
    PROVE  UnnoticedPasses(w)
BY RateUnnoticed, VolatilityUnnoticed, ReturnUnnoticed, RecordUnnoticed, Zenon DEF UnnoticedPasses

(* An answer without a posture keeps the one in force. *)
LEMMA PostureKept ==
    ASSUME NEW w, Complete(w)
    PROVE  KeepsPosture(w)
<1>0. /\ w.raw \in RawAnswer /\ w.posture \in Postures /\ w.backend \in {"cli", "api"}
      /\ w.token \in BOOLEAN /\ Garbage \notin Postures
  BY CompleteAnswer, WorldsAssumption DEF Complete, World, WorldsAssumption
<1>w. w \in World
  BY CompleteAnswer
<1>1. ~Fails(w)
  BY <1>0, CompleteAnswer, AdviceOf
<1>2. ASSUME NEW x, NEW d, d = [w EXCEPT !.raw = x]
      PROVE  Advice(d) = normalize_advice(x, w.posture)
  <2>1. d.raw = x /\ d.posture = w.posture /\ d.backend = w.backend /\ d.token = w.token /\ d.ended = w.ended
    BY <1>w, <1>2, OtherRaw
  <2>2. ~Fails(d)
    BY <1>1, <2>1 DEF Fails, Ends
  <2>3. d.backend \in {"cli", "api"} /\ d.token \in BOOLEAN
    BY <1>0, <2>1
  <2> QED
    BY <2>1, <2>2, <2>3, AdviceOf
<1>3. Advice([w EXCEPT !.raw = Garbage]).risk_posture = w.posture
  <2>1. Advice([w EXCEPT !.raw = Garbage]) = normalize_advice(Garbage, w.posture)
    BY <1>2
  <2>2. normalize_advice(Garbage, w.posture).risk_posture = w.posture
    BY <1>0 DEF normalize_advice
  <2> QED
    BY <2>1, <2>2
<1>4. Advice([w EXCEPT !.raw.risk_posture = Garbage]).risk_posture = w.posture
  <2> DEFINE raw == [w.raw EXCEPT !.risk_posture = Garbage]
  <2>1. raw \in RawAnswer /\ raw.risk_posture = Garbage
    BY <1>0 DEF RawAnswer
  <2>2. [w EXCEPT !.raw.risk_posture = Garbage] = [w EXCEPT !.raw = raw]
    OBVIOUS
  <2> HIDE DEF raw
  <2>3. Advice([w EXCEPT !.raw.risk_posture = Garbage]) = normalize_advice(raw, w.posture)
    BY <1>2, <2>2
  <2>4. raw # Garbage
    BY <2>1, WorldsAssumption DEF WorldsAssumption
  <2>5. normalize_advice(raw, w.posture).risk_posture = w.posture
    BY <1>0, <2>1, <2>4, RepairFields
  <2> QED
    BY <2>3, <2>5
<1> QED
  BY <1>3, <1>4 DEF KeepsPosture

(* MissingInputs: of a tick with a complete answer, an input that could not be
   read, was too old or came out malformed leads to no close and no command to
   close that the complete tick does not have, and, when a guard or the repair of
   the answer notices, to no entry either; an answer without a posture leaves the
   one in force.  Four inputs go unnoticed: the rate of the ticker, the volatility
   of one side, the return of the week, and the journal.  Without one of them an
   entry can pass that is refused with it, but only where the guard that reads it
   refuses, and only a call; without one volatility it may be a put too, but not
   when the side left is the cheaper one (advisor.py: market_block,
   positions_block, _normalize_advice, call_claude, decide_executions,
   decide_entry, format_tg; api.py: advice_score). *)
THEOREM MissingInputsHolds == Spec => []MissingInputs
<1>1. Surprises = {}
  <2> SUFFICES ASSUME NEW w \in Worlds
               PROVE  /\ KeepsPosture(w) /\ UnnoticedPasses(w)
                      /\ \A d \in Noticed(w) : Confined(w, d)
    BY DEF Surprises
  <2>1. Complete(w)
    BY WorldsAssumption DEF WorldsAssumption
  <2> QED
    BY <2>1, PostureKept, NoticedConfined, UnnoticedHolds
<1>2. MissingInputs
  BY <1>1 DEF MissingInputs
<1> QED
  BY <1>2, PTL
=============================================================================
