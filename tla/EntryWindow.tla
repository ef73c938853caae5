----------------------------- MODULE EntryWindow -----------------------------
(***************************************************************************)
(* The five-minute entry window of one coin: the gate check once per       *)
(* minute, the tolerance of one failed check, the fire near the close of   *)
(* the last minute, and the cooldown that survives restarts (loop.main,    *)
(* strategy.window_fail_step, the start of loop.try_fire), and the gauge   *)
(* the API computes from the row that each check leaves in the database    *)
(* (core/proximity.py).  The tracker is in memory only.  A tick that is    *)
(* paused, late or ends in an exception may leave a minute without a check.*)
(***************************************************************************)
EXTENDS Naturals, FiniteSets

CONSTANTS
    Minutes,       \* FIVE_MIN
    Tolerance,     \* FLICKER_TOLERANCE
    StaleMinutes,  \* minutes that WINDOW_STATUS_STALE_MS may reach back
    Cooldown,      \* cooldown of a (coin, side), in windows
    Sides,         \* sides the coin trades
    None,          \* Python None, and the side of a check that is not ready
    LastWindow,    \* bound: windows in a behaviour
    MaxRestarts,   \* bound: restarts of the process
    MaxRaised      \* bound: ticks that end in an exception

ASSUME EntryWindowAssumption ==
    /\ Minutes \in Nat \ {0} /\ StaleMinutes \in Nat /\ Tolerance \in Nat /\ Cooldown \in Nat \ {0}
    /\ None \notin Sides /\ None \notin Nat
    /\ LastWindow \in Nat \ {0} /\ MaxRestarts \in Nat /\ MaxRaised \in Nat

VARIABLES
    wid, minute, late,  \* the clock: window, minute in it, second >= ENTRY_FIRE_SECOND?
    paused,             \* bot_control.paused
    win,                \* the coin's tracker in loop.main
    row,                \* the coin's row of window_status, or None
    lastFired,          \* bot_state.last_fired_json: window of the last fire by side
    failed, forgotten,  \* history: minutes of this window whose check failed, and
                        \* those of them that were before the last restart
    entered,            \* history: window of the last submission by side
    raised, restarts

windowVars == <<wid, minute, late, paused, win, row, lastFired, failed, forgotten, entered, raised, restarts>>

Never == 0     \* windows are counted from 1: no window yet

(* ev is None or the result of a check: its side and, for the properties, the
   window it was made in. *)
NewTracker == [wid |-> Never, fails |-> 0, disq |-> FALSE, fired |-> FALSE,
               last |-> None, ev |-> None]

WindowTypeOK ==
    /\ wid \in 1..LastWindow /\ minute \in 0..(Minutes - 1) /\ late \in BOOLEAN
    /\ paused \in BOOLEAN
    /\ win \in [wid : 0..LastWindow, fails : Nat, disq : BOOLEAN, fired : BOOLEAN,
                last : {None} \cup (0..(Minutes - 1)),
                ev : {None} \cup [side : Sides \cup {None}, wid : 1..LastWindow]]
    /\ row \in {None} \cup [wid : 1..LastWindow, minute : 0..(Minutes - 1), disq : BOOLEAN,
                            side : Sides \cup {None}, run : 0..MaxRestarts]
    /\ lastFired \in [Sides -> 0..LastWindow] /\ entered \in [Sides -> 0..LastWindow]
    /\ failed \subseteq 0..(Minutes - 1) /\ forgotten \subseteq failed
    /\ raised \in 0..MaxRaised /\ restarts \in 0..MaxRestarts

WindowInit ==
    /\ wid = 1 /\ minute = 0 /\ late = FALSE /\ paused = FALSE
    /\ win = NewTracker /\ row = None
    /\ lastFired = [s \in Sides |-> Never] /\ entered = [s \in Sides |-> Never]
    /\ failed = {} /\ forgotten = {} /\ raised = 0 /\ restarts = 0

-----------------------------------------------------------------------------
(* The tick of the loop, for the coin. *)

(* Mutants, here and below: a definition named Bug... is a form of the one
   after it that a plausible mistake would give; no specification uses it. *)
BugKeepsSignal ==
    IF win.wid = wid THEN win
    ELSE [win EXCEPT !.wid = wid, !.fails = 0, !.disq = FALSE, !.fired = FALSE, !.last = None]
(* A new window starts with a new tracker. *)
Tracker == IF win.wid = wid THEN win ELSE [NewTracker EXCEPT !.wid = wid]

(* window_fail_step *)
BugForgivesLast(w, ready) == IF ready THEN 0 ELSE w.fails + 1
FailStep(w, ready) == IF ready THEN w.fails ELSE w.fails + 1

(* The minute's check, with its result: the side that is ready, or None. *)
Checked(w, side) ==
    LET n == FailStep(w, side # None)
    IN  [w EXCEPT !.last = minute, !.ev = [side |-> side, wid |-> wid],
                  !.fails = n, !.disq = n > Tolerance]

(* upsert_window_status, and for the properties the process that wrote it. *)
Status(w) == [wid |-> wid, minute |-> minute, disq |-> w.disq, side |-> w.ev.side, run |-> restarts]

NoteFailure(side) == failed' = IF side = None THEN failed \cup {minute} ELSE failed

Due(w) == w.last # minute
FireDue(w) ==
    minute = Minutes - 1 /\ late /\ ~w.fired /\ ~w.disq /\ w.ev # None

(* The cooldown is counted in ms between two fires: after as many windows as it
   lasts it may be over or not, depending on the second of either fire. *)
CooledDown(s) == lastFired[s] = Never \/ wid - lastFired[s] >= Cooldown
StillCooling(s) == lastFired[s] # Never /\ wid - lastFired[s] <= Cooldown

(* try_fire: the cooldown is consumed before the other gates, which may block. *)
TryFire(w) ==
    LET s == w.ev.side IN
    /\ win' = [w EXCEPT !.fired = TRUE]
    /\ \/ /\ s # None /\ CooledDown(s)
          /\ lastFired' = [lastFired EXCEPT ![s] = wid]
          /\ entered' \in {entered, [entered EXCEPT ![s] = wid]}
       \/ /\ s # None => StillCooling(s)
          /\ UNCHANGED <<lastFired, entered>>

Act(w) ==
    IF FireDue(w) THEN TryFire(w) ELSE win' = w /\ UNCHANGED <<lastFired, entered>>

Running == ~paused /\ UNCHANGED <<wid, minute, late, paused, forgotten, restarts>>

(* A tick in a minute that has had its check. *)
QuietTick ==
    /\ Running /\ ~Due(Tracker)
    /\ Act(Tracker)
    /\ UNCHANGED <<row, failed, raised>>

(* A tick that makes the check of its minute. *)
CheckTick(side) ==
    /\ Running /\ Due(Tracker)
    /\ Act(Checked(Tracker, side))
    /\ row' = Status(Checked(Tracker, side))
    /\ NoteFailure(side)
    /\ UNCHANGED raised

(* The check raises before it has a result, or while the result is written for
   the dashboard: the minute counts as checked and the tick is over. *)
RaisingTick ==
    /\ Running /\ Due(Tracker)
    /\ raised < MaxRaised /\ raised' = raised + 1
    /\ \/ win' = [Tracker EXCEPT !.last = minute] /\ UNCHANGED <<row, failed>>
       \/ \E side \in Sides \cup {None} :
             /\ win' = Checked(Tracker, side) /\ NoteFailure(side)
             /\ row' \in {row, Status(win')}
    /\ UNCHANGED <<lastFired, entered>>

Restart ==
    /\ restarts < MaxRestarts /\ restarts' = restarts + 1
    /\ win' = NewTracker
    /\ forgotten' = failed
    /\ UNCHANGED <<wid, minute, late, paused, row, lastFired, failed, entered, raised>>

-----------------------------------------------------------------------------
(* The operator and the clock. *)

SetPaused ==
    /\ paused' = ~paused
    /\ UNCHANGED <<wid, minute, late, win, row, lastFired, failed, forgotten, entered, raised, restarts>>

TimePasses ==
    /\ \/ ~late /\ late' = TRUE /\ UNCHANGED <<minute, wid, failed, forgotten>>
       \/ late /\ minute < Minutes - 1
          /\ minute' = minute + 1 /\ late' = FALSE /\ UNCHANGED <<wid, failed, forgotten>>
       \/ late /\ minute = Minutes - 1 /\ wid < LastWindow
          /\ wid' = wid + 1 /\ minute' = 0 /\ late' = FALSE
          /\ failed' = {} /\ forgotten' = {}
    /\ UNCHANGED <<paused, win, row, lastFired, entered, raised, restarts>>

WindowNext ==
    \/ QuietTick \/ RaisingTick \/ Restart \/ SetPaused \/ TimePasses
    \/ \E side \in Sides \cup {None} : CheckTick(side)

WindowSpec == WindowInit /\ [][WindowNext]_windowVars

-----------------------------------------------------------------------------
(* GET /proximity.  All but the full gauge is at most 99 percent. *)

Age(r) == (wid * Minutes + minute) - (r.wid * Minutes + r.minute)
MayBeFresh(r) == Age(r) <= StaleMinutes

BugSameWindow(r) == TRUE
SameWindow(r) == r.wid = wid

(* 100 percent. *)
entry_proximity(r) ==
    /\ MayBeFresh(r) /\ SameWindow(r)
    /\ r.side # None /\ ~r.disq /\ r.minute = Minutes - 1
proximity == row # None /\ entry_proximity(row)

-----------------------------------------------------------------------------
(* Properties. *)

Enters == entered' # entered

(***************************************************************************)
(* Whatever minutes were paused, cut short or restarted, an entry is made  *)
(* on a signal of its own window, never on one a check left behind in an   *)
(* earlier window, and of a side that check found ready.                   *)
(***************************************************************************)
EntersOnOwnSignal ==
    [][ Enters => win'.ev.wid = wid /\ win'.ev.side \in Sides ]_windowVars

(***************************************************************************)
(* Two entries of a side are at least a cooldown apart, restarts included. *)
(***************************************************************************)
EntriesApart ==
    [][ \A s \in Sides : entered'[s] # entered[s] /\ entered[s] # Never =>
            entered'[s] - entered[s] >= Cooldown ]_windowVars

(***************************************************************************)
(* No entry is made in a window more than FLICKER_TOLERANCE of whose       *)
(* checks failed before the eyes of the process that enters, whichever     *)
(* minutes were paused, cut short or not checked at all.                   *)
(***************************************************************************)
WatchedSurvive ==
    [][ Enters => Cardinality(failed' \ forgotten') <= Tolerance ]_windowVars

(***************************************************************************)
(* A full gauge speaks of what the process that wrote it is about to do:   *)
(* no check of the window is still to come that could disqualify it, and   *)
(* the loop holds the very signal the gauge shows ("all gates pass AND     *)
(* debounce window confirmed", proximity.py:96).                           *)
(***************************************************************************)
GaugeHonest ==
    proximity /\ row.run = restarts =>
        /\ win.wid = wid /\ win.last = Minutes - 1
        /\ ~win.disq /\ win.ev = [side |-> row.side, wid |-> wid]

=============================================================================
