------------------------------- MODULE Advisor -------------------------------
(***************************************************************************)
(* The advisor process (advisor.py): when it asks the model, what of the   *)
(* answer it carries out, and the journal (advice.jsonl) from which the    *)
(* next tick reads its confirmations and its limits.  A tick reads, asks,  *)
(* writes the posture, requests closes and an entry, and appends a line;   *)
(* any of these calls may fail and the process may restart between them.   *)
(* Prices, P&L and the market guards (AdvisorRules) are left to the        *)
(* environment: they may veto any close and any entry.                     *)
(***************************************************************************)
EXTENDS AdvisorRules

CONSTANTS
    Pos,           \* positions the model is asked about
    Trig,          \* wake triggers (a coin moved, a strike is near)
    Interval,      \* ADVISOR_INTERVAL_MIN
    Retry,         \* the five minutes after a failure
    WakeGap,       \* ADVISOR_WAKE_MIN_GAP_MIN
    WakeCool,      \* ADVISOR_WAKE_REASON_COOLDOWN_MIN
    CallTime,      \* the longest a call of the model takes
    Hour, Day,     \* the windows of the limits
    EntryGap,      \* ADVISOR_ENTRY_MIN_GAP_H
    Lines,         \* journal lines _load_history reads
    MaxExec, MaxEntries, MaxCalls,   \* closes per hour, entries and calls per day
    MaxNow,        \* bound: the clock
    MaxFaults      \* bound: failures and restarts

ASSUME AdvisorAssumption ==
    /\ {Interval, Retry, WakeGap, WakeCool, Hour, Day, EntryGap, Lines} \subseteq Nat \ {0}
    /\ {CallTime, MaxExec, MaxEntries, MaxCalls, MaxNow, MaxFaults} \subseteq Nat
    /\ CallTime <= WakeGap /\ WakeGap <= WakeCool /\ WakeGap + Retry <= Interval
    /\ IsFiniteSet(Pos)
    /\ None \notin {"P", "C"} /\ Pos \cap {None, "P", "C"} = {}
    \* 80 lines of at least ten minutes are more than an hour and an entry gap
    /\ Hour <= Lines * WakeGap /\ EntryGap <= Lines * WakeGap

VARIABLES
    now,        \* the clock
    lastLlm,    \* main: last_llm_ms
    wakeLast,   \* _wake_last: time of the last wake-up by trigger
    active,     \* triggers the candles and strikes show (external)
    pc, tick,   \* the step of the tick in hand, and its locals
    journal,    \* advice.jsonl, its last Lines lines
    failures,   \* fail_streak
    faults,
    freshAt,    \* history: time of the last posture written, or of the start
    waited,     \* history: how long a trigger is active and unanswered
    sent,       \* history: closes and entries requested, with the tick's time
    restarted,  \* history: has the process restarted since the last journal line?
    torn        \* history: has a tick that requested something left no readable line?

vars == <<now, lastLlm, wakeLast, active, pc, tick, journal, failures, faults,
          freshAt, waited, sent, restarted, torn>>

Entries == {None, "P", "C"}
Line == [kind : {"line"}, ts : Nat, closes : SUBSET Pos, executed : SUBSET Pos, entry : Entries]
\* What a write cut short leaves: a last line without its end, and the line it
\* makes of the next one.
Cut == [kind |-> "cut"]
Garbled == [kind |-> "garbled"]

Readable(l) == l.kind = "line"

(* ts, past, prev: now_ms and what _load_history gave; closes, urgent: the
   answer; todo, executed: exec_ids not yet and already requested. *)
NoTick == [ts |-> 0, due |-> FALSE, past |-> <<>>, prev |-> {},
           closes |-> {}, urgent |-> FALSE, todo |-> {}, executed |-> {}, entry |-> None,
           seen |-> {}]   \* for the properties: the triggers the model was asked under

TypeOK ==
    /\ now \in 0..MaxNow /\ lastLlm \in (-Interval)..MaxNow
    /\ wakeLast \in [Trig -> (-WakeCool)..MaxNow] /\ active \subseteq Trig
    /\ pc \in {"sleep", "ask", "closes", "journal"}
    /\ tick.todo \subseteq tick.closes /\ tick.executed \subseteq tick.closes
    /\ tick.todo \cap tick.executed = {}
    /\ Len(journal) <= Lines
    /\ \A i \in DOMAIN journal : Readable(journal[i]) => journal[i] \in Line
    /\ \A i \in DOMAIN journal : journal[i] = Cut => i = Len(journal)
    /\ failures \in 0..MaxFaults /\ faults \in 0..MaxFaults
    /\ freshAt \in 0..MaxNow /\ waited \in [Trig -> 0..MaxNow]
    /\ restarted \in BOOLEAN /\ torn \in BOOLEAN

\* The clock is far from 0 when the process starts, so the first poll is due.
Init ==
    /\ now = Interval /\ lastLlm = 0
    /\ wakeLast = [t \in Trig |-> -WakeCool] /\ active = {}
    /\ pc = "sleep" /\ tick = NoTick
    /\ journal = <<>> /\ failures = 0 /\ faults = 0
    /\ freshAt = now /\ waited = [t \in Trig |-> 0] /\ sent = {}
    /\ restarted = FALSE /\ torn = FALSE

history == <<freshAt, waited, sent, restarted, torn>>

-----------------------------------------------------------------------------
(* The journal. *)

\* The line is appended behind a cut one, which has no end, and is lost with it.
Appended(j, l) ==
    IF j = <<>> \/ Last(j) # Cut THEN Append(j, l) ELSE Append(Front(j), Garbled)
(* Of a line that is not the last no one reads the advice. *)
Older(l) == IF Readable(l) THEN [l EXCEPT !.closes = {}] ELSE l

LastLines(j) == IF Len(j) > Lines THEN Tail(j) ELSE j

(* _load_history: nothing if the last line cannot be read, else the lines up to
   the first that cannot. *)
History(j) ==
    IF j = <<>> \/ ~Readable(Last(j)) THEN <<>>
    ELSE LET bad == SelectInSeq(j, LAMBDA l : ~Readable(l))
         IN  IF bad = 0 THEN j ELSE SubSeq(j, 1, bad - 1)

(* The closes the previous advice named. *)
Previous(j) == IF j = <<>> \/ ~Readable(Last(j)) THEN {} ELSE Last(j).closes

-----------------------------------------------------------------------------
(* When the model is asked. *)

Due == now - lastLlm >= Interval

(* Mutants, here and below: a definition named Bug... is a form of the one
   after it that a plausible mistake would give; no specification uses it. *)
BugWakesOnce(t) == wakeLast[t] < 0
(* pick_wake: is there a trigger out of its cooldown? *)
OutOfCooldown(t) == now - wakeLast[t] >= WakeCool

WakeDue ==
    /\ ~Due /\ now - lastLlm >= WakeGap
    /\ \E t \in active : OutOfCooldown(t)

Stamped(trigs, at) == [t \in Trig |-> IF t \in trigs THEN at ELSE wakeLast[t]]

StartTick(due) ==
    /\ pc' = "ask"
    /\ tick' = [NoTick EXCEPT !.ts = now, !.due = due, !.seen = active,
                              !.past = History(journal), !.prev = Previous(journal)]

(* A poll of main that finds a reason to ask; a wake-up puts every active
   trigger into its cooldown before the model is called. *)
Poll ==
    /\ pc = "sleep"
    /\ \/ Due /\ StartTick(TRUE) /\ UNCHANGED wakeLast
       \/ WakeDue /\ StartTick(FALSE) /\ wakeLast' = Stamped(active, now)
    /\ UNCHANGED <<now, lastLlm, active, journal, failures, faults, history>>

(* Polls come every minute: while nothing is to be done, and while the model is
   called, time passes. *)
Aged(trigs) == [t \in Trig |-> IF t \in trigs THEN waited[t] + 1 ELSE waited[t]]
Elapse ==
    /\ now < MaxNow
    /\ \/ pc = "sleep" /\ ~Due /\ ~WakeDue
       \/ pc = "ask" /\ now < tick.ts + CallTime
    /\ now' = now + 1 /\ waited' = Aged(active)
    /\ UNCHANGED <<lastLlm, wakeLast, active, pc, tick, journal, failures, faults,
                   freshAt, sent, restarted, torn>>

(* check_wake cannot read the candles: its trigger waits, and that time is not
   counted. *)
CandlesUnread ==
    /\ now < MaxNow /\ faults < MaxFaults
    /\ pc = "sleep" /\ WakeDue
    /\ now' = now + 1 /\ faults' = faults + 1
    /\ UNCHANGED <<lastLlm, wakeLast, active, pc, tick, journal, failures, history>>

(* The market moves: a trigger appears or goes, between two ticks or during the
   call; the other steps take no time that counts. *)
Toggle(t) ==
    /\ pc \in {"sleep", "ask"}
    /\ active' = IF t \in active THEN active \ {t} ELSE active \cup {t}
    /\ waited' = [waited EXCEPT ![t] = 0]
    /\ tick' = [tick EXCEPT !.seen = @ \ {t}]
    /\ UNCHANGED <<now, lastLlm, wakeLast, pc, journal, failures, faults,
                   freshAt, sent, restarted, torn>>

-----------------------------------------------------------------------------
(* The tick. *)

Since(ts, window) == tick.ts - ts < window

Executed(i) == tick.past[i].executed
BugPerTick == MaxExec
(* The closes still allowed this hour. *)
Budget ==
    MaxExec - Cardinality({c \in (DOMAIN tick.past) \X Pos :
                             Since(tick.past[c[1]].ts, Hour) /\ c[2] \in Executed(c[1])})

(* decide_executions: closes the answer names for the second time, or in
   lockdown; the policy and the P&L may veto any of them. *)
BugConfirmsItself(closes, urgent) == closes
Eligible(closes, urgent) == {p \in closes : urgent \/ p \in tick.prev}
Executions(closes, urgent) ==
    {S \in SUBSET Eligible(closes, urgent) : S = {} \/ Cardinality(S) <= Budget}

EntryTimes(sides) ==
    {i \in DOMAIN tick.past : tick.past[i].entry \in sides /\ Since(tick.past[i].ts, Day)}

(* call_guard, of which the limit of the day is kept here *)
CallAllowed == Cardinality(EntryTimes({"C"})) < MaxCalls

BugNoGap(e) ==
    /\ ~tick.urgent /\ (e = "C" => CallAllowed)
    /\ Cardinality(EntryTimes({"P", "C"})) < MaxEntries
(* decide_entry; posture, limits and gap. *)
EntryAllowed(e) ==
    /\ ~tick.urgent /\ (e = "C" => CallAllowed)
    /\ Cardinality(EntryTimes({"P", "C"})) < MaxEntries
    /\ \A i \in EntryTimes({"P", "C"}) : ~Since(tick.past[i].ts, EntryGap)

(* call_claude returns advice and the posture is written: a failure between the
   two is one of the call. *)
Answer ==
    /\ pc = "ask" /\ pc' = "closes"
    /\ \E closes \in SUBSET Pos, urgent \in BOOLEAN :
          \E S \in Executions(closes, urgent) :
             tick' = [tick EXCEPT !.closes = closes, !.urgent = urgent, !.todo = S]
    /\ freshAt' = tick.ts
    /\ UNCHANGED <<now, lastLlm, wakeLast, active, journal, failures, faults,
                   waited, sent, restarted, torn>>

(* What is requested, remembered for a day. *)
Remember(what) ==
    sent' = {r \in sent : tick.ts - r.ts < Day} \cup {[ts |-> tick.ts, what |-> what]}

RequestClose(p) ==
    /\ pc = "closes" /\ p \in tick.todo
    /\ tick' = [tick EXCEPT !.todo = @ \ {p}, !.executed = @ \cup {p}]
    /\ Remember(p)
    /\ UNCHANGED <<now, lastLlm, wakeLast, active, pc, journal, failures, faults,
                   freshAt, waited, restarted, torn>>

(* The market guards may veto the entry the answer proposes. *)
RequestEntry(e) ==
    /\ pc = "closes" /\ tick.todo = {}
    /\ \/ e = None /\ UNCHANGED sent
       \/ e # None /\ EntryAllowed(e) /\ Remember(e)
    /\ tick' = [tick EXCEPT !.entry = e]
    /\ pc' = "journal"
    /\ UNCHANGED <<now, lastLlm, wakeLast, active, journal, failures, faults,
                   freshAt, waited, restarted, torn>>

TickLine == [kind |-> "line", ts |-> tick.ts, closes |-> tick.closes,
             executed |-> tick.executed, entry |-> tick.entry]

BugFromItsEnd == now
NextCall == tick.ts

(* The journal is written and main goes on: after a scheduled tick the active
   triggers are put into their cooldown, if the candles can be read. *)
FinishTick ==
    /\ pc = "journal" /\ pc' = "sleep" /\ tick' = NoTick
    /\ journal' = LastLines(Appended([i \in DOMAIN journal |-> Older(journal[i])], TickLine))
    /\ lastLlm' = NextCall /\ failures' = 0
    /\ \/ tick.due /\ wakeLast' = Stamped(active, tick.ts)
       \/ UNCHANGED wakeLast
    /\ waited' = [t \in Trig |-> IF t \in tick.seen THEN 0 ELSE waited[t]]
    /\ restarted' = FALSE
    /\ UNCHANGED <<now, active, faults, freshAt, sent, torn>>

-----------------------------------------------------------------------------
(* Failures. *)

(* A tick ends early.  If it was writing its line, a part of it may stay. *)
CutShort ==
    /\ pc' = "sleep" /\ tick' = NoTick
    /\ faults < MaxFaults /\ faults' = faults + 1
    /\ \/ /\ UNCHANGED journal
          /\ torn' = (torn \/ tick.executed # {} \/ tick.entry # None)
       \/ /\ pc = "journal" /\ torn' = TRUE
          /\ journal' = IF journal # <<>> /\ Last(journal) = Cut THEN journal
                        ELSE LastLines(Append(journal, Cut))

RetryAt == now - (Interval - Retry)
(* An exception reaches main: the next call is due in five minutes. *)
Fail ==
    /\ pc \in {"ask", "closes", "journal"}
    /\ CutShort
    /\ lastLlm' = RetryAt /\ failures' = failures + 1
    /\ UNCHANGED <<now, wakeLast, active, freshAt, waited, sent, restarted>>

Restart ==
    /\ CutShort
    /\ lastLlm' = 0 /\ wakeLast' = [t \in Trig |-> -WakeCool] /\ failures' = 0
    /\ freshAt' = now /\ waited' = [t \in Trig |-> 0] /\ restarted' = TRUE
    /\ UNCHANGED <<now, active, sent>>

Next ==
    \/ Poll \/ Elapse \/ CandlesUnread
    \/ \E t \in Trig : Toggle(t)
    \/ Answer
    \/ \E p \in Pos : RequestClose(p)
    \/ \E e \in Entries : RequestEntry(e)
    \/ FinishTick
    \/ Fail \/ Restart

Spec == Init /\ [][Next]_vars
-----------------------------------------------------------------------------
(* Properties. *)

ClosesSent == {r \in sent : r.what \in Pos}
EntriesSent == {r \in sent : r.what \in {"P", "C"}}

(* In any hour at most MaxExec closes are requested (decide_executions), counting
   what was requested and not what was written down: across failed ticks,
   retries and restarts, as long as no tick that requested something was cut
   short before its line, and no more failures come than the journal has lines
   to spare: a line that a restart lets follow at once pushes out an older one. *)
ClosesPerHour ==
    ~torn => \A r \in ClosesSent :
        Cardinality({q \in ClosesSent : q.ts <= r.ts /\ r.ts - q.ts < Hour}) <= MaxExec

(* Two entries are at least EntryGap apart (decide_entry), under the same two
   provisos, though only the last lines of the journal are read. *)
EntriesKeepGap ==
    ~torn => \A r, q \in EntriesSent :
        r = q \/ r.ts - q.ts >= EntryGap \/ q.ts - r.ts >= EntryGap

(* Outside of lockdown a close is requested on the word of two answers, of which
   the earlier is the last line of the journal and at least WakeGap old, unless
   the process was started in between (decide_executions, main). *)
ConfirmationsApart ==
    [][\A p \in tick'.executed \ tick.executed :
         \/ tick.urgent
         \/ /\ journal # <<>> /\ Readable(Last(journal))
            /\ p \in Last(journal).closes
            /\ restarted \/ tick.ts - Last(journal).ts >= WakeGap]_vars

(* The posture in bot_control is as old as an interval and a call at most, and a
   retry and a call more for each failure since: a lockdown does not decay while
   the advisor answers (tick, main; portfolio.effective_posture). *)
PostureConfirmed ==
    now - freshAt <= Interval + CallTime + failures * (Retry + CallTime)

(* A trigger that stays active is put to the model within a cooldown and a call,
   and a retry and a call more for each failure, though a tick it did not reach
   may have put it into its cooldown (pick_wake, check_wake). *)
TriggersAreSeen ==
    \A t \in Trig : waited[t] <= WakeCool + CallTime + failures * (Retry + CallTime)

(* When one input of a tick is missing, stale or malformed, the tick closes
   nothing and tells the human to close nothing that the complete tick would not,
   and an answer without a posture keeps the one in force.  Without an input of
   Noticed it opens nothing more either.  Without one of the four others an entry
   gets past the one guard that reads the input and past no other: a call, or, of
   a lone volatility, an entry whose missing side is the cheaper one (market_block,
   positions_block, mechanical_gates_block, track_record_block, normalize_advice,
   decide_entry). *)
MissingInputs == pc = "ask" => Surprises = {}

(* What decide_entry says of itself: at most MaxEntries entries in 24 hours. *)
EntriesPerDay ==
    \A r \in EntriesSent :
        Cardinality({q \in EntriesSent : q.ts <= r.ts /\ r.ts - q.ts < Day}) <= MaxEntries
=============================================================================
