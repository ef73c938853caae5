--------------------------- MODULE OperatorControl ---------------------------
(***************************************************************************)
(* How the operator (api.py) and the advisor steer the loop: three         *)
(* processes that share bot_control, close_requests and entry_requests.    *)
(* One tick of loop.main, step by step where it reads or writes what the   *)
(* others write: exits, close-all, single closes, the pause check, advisor *)
(* entries, window entries.  What an order does once it is sent is         *)
(* OrderExec's; here a close is out or not, and an entry is submitted once *)
(* it has passed the gates of try_fire.                                    *)
(***************************************************************************)
EXTENDS Naturals

CONSTANTS
    Pos,          \* positions open at the start
    Key,          \* (coin, side) pairs
    Req,          \* ids of the advisor's entry requests, in order
    None,         \* Python None
    CloseMax,     \* CLOSE_MAX_ATTEMPTS
    Postures,     \* bound: postures set, "fresh" for lockdown, "no" for any other
    MaxCrash,     \* bound: exceptions that end a tick, and restarts
    MaxButtons,   \* bound: calls of the API
    MaxOutages    \* bound: times a quote goes missing

ASSUME OperatorControlAssumption ==
    /\ Req \subseteq Nat \ {0} /\ None \notin Key /\ Postures \subseteq {"no", "fresh"}
    /\ CloseMax \in Nat \ {0} /\ MaxCrash \in Nat /\ MaxButtons \in Nat /\ MaxOutages \in Nat

VARIABLES
    paused, closeAll,      \* bot_control.paused, close_all_requested
    lockdown,              \* risk_posture: "no", "fresh" or "stale" lockdown
    halt,                  \* bot_control.exec_halt and the class of its reason
    closeReqs,             \* table close_requests
    entry,                 \* table entry_requests, with what became of each row
    book,                  \* positions: "open", "closing" or "closed"
    attempts,              \* positions.close_attempts, saturated at CloseMax
    cooling,               \* keys in their cooldown (bot_state.last_fired_json)
    pc, batch, fire, late, \* volatile: step of the tick, rows in hand, the entry
                           \* being decided, requests over their TTL at its start
    unhalting,             \* api process: POST /exec/unhalt between its commits
    quoted,                \* external: positions that have a quote now
    asked, owed,           \* history: accepted close requests nobody acted on,
                           \* unless lost with the tick or between the two
                           \* statements; what close-all owes each position
    fired, sent,           \* history: submissions per request; per key since its
                           \* cooldown began
    held,                  \* history: controls in force without a break since the
                           \* exits of the tick were done
    crashes, buttons, outages

control == <<paused, closeAll, lockdown, halt, closeReqs, entry>>
account == <<book, attempts, cooling>>
volatile == <<pc, batch, fire, late>>
history == <<asked, owed, fired, sent, held>>
bounds == <<crashes, buttons, outages>>
vars == <<control, account, volatile, unhalting, quoted, history, bounds>>

NoFire == [key |-> None, req |-> 0]

TypeOK ==
    /\ paused \in BOOLEAN /\ closeAll \in BOOLEAN /\ unhalting \in BOOLEAN
    /\ lockdown \in {"no", "fresh", "stale"}
    /\ halt \in {"no", "reconcile", "manual"}
    /\ closeReqs \subseteq Pos /\ quoted \subseteq Pos /\ asked \subseteq Pos
    /\ entry \in [Req -> [st : {"unsent", "queued", "gone"}, key : Key \cup {None}, old : BOOLEAN]]
    /\ book \in [Pos -> {"open", "closing", "closed"}]
    /\ attempts \in [Pos -> 0..CloseMax]
    /\ cooling \subseteq Key
    /\ pc \in {"top", "orders", "exits", "popall", "closeall", "selclose", "delclose", "close",
               "pausecheck", "selentry", "delentry", "entries", "gate", "submit", "windows"}
    /\ batch \subseteq Pos \/ batch \subseteq Req
    /\ fire \in [key : Key \cup {None}, req : Req \cup {0}] /\ late \subseteq Req
    /\ owed \in [Pos -> {"nothing", "owed", "dropped"}]
    /\ fired \in [Req -> Nat] /\ sent \in [Key -> Nat]
    /\ held \subseteq {"paused", "lockdown", "halt"}
    /\ crashes \in 0..MaxCrash /\ buttons \in 0..MaxButtons
    /\ outages \in 0..MaxOutages

Init ==
    /\ paused = FALSE /\ closeAll = FALSE /\ lockdown = "no" /\ halt = "no"
    /\ closeReqs = {}
    /\ entry = [r \in Req |-> [st |-> "unsent", key |-> None, old |-> FALSE]]
    /\ book = [p \in Pos |-> "open"] /\ attempts = [p \in Pos |-> 0] /\ cooling = {}
    /\ pc = "top" /\ batch = {} /\ fire = NoFire /\ late = {}
    /\ unhalting = FALSE /\ quoted = Pos
    /\ asked = {} /\ owed = [p \in Pos |-> "nothing"]
    /\ fired = [r \in Req |-> 0] /\ sent = [k \in Key |-> 0]
    /\ held = {} /\ crashes = 0 /\ buttons = 0 /\ outages = 0

get_exec_halt == halt # "no"
set_exec_halt(h) == halt' = h

Queued == {r \in Req : entry[r].st = "queued"}
Controls == (IF paused THEN {"paused"} ELSE {})
            \cup (IF lockdown = "fresh" THEN {"lockdown"} ELSE {})
            \cup (IF get_exec_halt THEN {"halt"} ELSE {})

At(step) == pc = step
To(step) == pc' = step

(* execution._halt: a reconcile reason never masks a manual-recovery halt. *)
HaltFor(reason) ==
    IF halt = "manual" /\ reason = "reconcile" THEN halt ELSE reason

-----------------------------------------------------------------------------
(* The tick: orders, reconcile and exits. *)

(* now_ms is read once: ages are judged against it for the whole tick. *)
BeginTick ==
    /\ At("top") /\ To("orders")
    /\ late' = {r \in Req : entry[r].old}
    /\ batch' = {p \in Pos : book[p] = "closing"}
    /\ UNCHANGED <<control, account, fire, unhalting, quoted, history, bounds>>

(* process_orders: a close order stays out or ends, filled or not. *)
AdvanceOrder(p) ==
    /\ At("orders") /\ p \in batch
    /\ batch' = batch \ {p}
    /\ \E s \in {"open", "closing", "closed"} : book' = [book EXCEPT ![p] = s]
    /\ UNCHANGED <<control, attempts, cooling, pc, fire, late, unhalting, quoted, history,
                   bounds>>

(* reconcile, when it is due: halts on a mismatch, lifts only its own halt. *)
Reconcile ==
    /\ At("orders") /\ batch = {} /\ To("exits")
    /\ \E h \in {halt, HaltFor("reconcile"), IF halt = "reconcile" THEN "no" ELSE halt} :
         set_exec_halt(h)
    /\ batch' \in {{}, {p \in Pos : book[p] = "open"}}    \* exits once a minute
    /\ UNCHANGED <<paused, closeAll, lockdown, closeReqs, entry, account, fire, late,
                   unhalting, quoted, history, bounds>>

CountAttempt(p) == attempts' = [attempts EXCEPT ![p] = IF @ < CloseMax THEN @ + 1 ELSE @]

(* _request_close: the attempts are used up; or the order goes out, stays out,
   is rejected or fills at once; or the exchange has less than the book, which
   halts, unless it is flat and the operator asked. *)
RequestClose(p, manual) ==
    \/ /\ ~manual /\ attempts[p] = CloseMax
       /\ set_exec_halt(HaltFor("manual"))
       /\ UNCHANGED <<book, attempts>>
    \/ /\ manual \/ attempts[p] < CloseMax
       /\ \/ /\ \E s \in {"open", "closing", "closed"} : book' = [book EXCEPT ![p] = s]
             /\ CountAttempt(p)
             /\ UNCHANGED halt
          \/ /\ manual
             /\ book' = [book EXCEPT ![p] = "closed"]
             /\ UNCHANGED <<attempts, halt>>
          \/ /\ set_exec_halt(HaltFor("manual"))
             /\ IF manual THEN UNCHANGED attempts ELSE CountAttempt(p)
             /\ UNCHANGED book

(* manage_exits: the exit of a position with a quote may be due. *)
Exit(p) ==
    /\ At("exits") /\ p \in batch
    /\ batch' = batch \ {p}
    /\ \/ p \in quoted /\ RequestClose(p, FALSE)
       \/ UNCHANGED <<book, attempts, halt>>
    /\ UNCHANGED <<paused, closeAll, lockdown, closeReqs, entry, cooling, pc, fire, late,
                   unhalting, quoted, history, bounds>>

EndExits ==
    /\ At("exits") /\ batch = {} /\ To("popall")
    /\ held' = Controls
    /\ UNCHANGED <<control, account, batch, fire, late, unhalting, quoted, asked, owed, fired,
                   sent, bounds>>

-----------------------------------------------------------------------------
(* The tick: the operator's closes. *)

(* pop_close_all clears the flag before anything is bought back; it is not
   subject to the pause that the same button sets. *)
(* Mutants, here and below: a definition named Bug... is a form of the one
   after it that a plausible mistake would give; no specification uses it. *)
BugFlagIfRunning == closeAll /\ ~paused
CloseAllFlagged == closeAll

PopCloseAll ==
    /\ At("popall")
    /\ IF CloseAllFlagged
         THEN /\ closeAll' = FALSE
              /\ batch' = {p \in Pos : book[p] # "closed"}
              /\ To("closeall")
         ELSE /\ To("selclose")
              /\ UNCHANGED <<closeAll, batch>>
    /\ UNCHANGED <<paused, lockdown, halt, closeReqs, entry, account, fire, late,
                   unhalting, quoted, history, bounds>>

(* close_all_now: a position without a quote, or with a close in flight, is
   passed over. *)
CloseAllNow(p) ==
    /\ At("closeall") /\ p \in batch
    /\ batch' = batch \ {p}
    /\ IF p \in quoted /\ book[p] = "open"
         THEN /\ RequestClose(p, TRUE)
              /\ owed' = [owed EXCEPT ![p] = "nothing"]
         ELSE /\ owed' = [owed EXCEPT ![p] = IF p \in quoted THEN "nothing" ELSE "dropped"]
              /\ UNCHANGED <<book, attempts, halt>>
    /\ UNCHANGED <<paused, closeAll, lockdown, closeReqs, entry, cooling, pc, fire, late,
                   unhalting, quoted, asked, fired, sent, held, bounds>>

EndCloseAll ==
    /\ At("closeall") /\ batch = {} /\ To("selclose")
    /\ UNCHANGED <<control, account, batch, fire, late, unhalting, quoted, history, bounds>>

(* pop_close_requests: SELECT, then, if there was a row, DELETE of all rows. *)
BugOneRow == IF closeReqs = {} THEN {} ELSE {CHOOSE p \in closeReqs : TRUE}
RowsRead == closeReqs

SelectCloses ==
    /\ At("selclose")
    /\ batch' = RowsRead
    /\ To(IF closeReqs = {} THEN "pausecheck" ELSE "delclose")
    /\ UNCHANGED <<control, account, fire, late, unhalting, quoted, history, bounds>>

DeleteCloses ==
    /\ At("delclose") /\ To("close")
    /\ closeReqs' = {}
    /\ UNCHANGED <<paused, closeAll, lockdown, halt, entry, account, batch, fire, late,
                   unhalting, quoted, history, bounds>>

(* close_position_now: nothing to do, no quote, already closing, or a close;
   the operator is told in each case. *)
ClosePositionNow(p) ==
    /\ At("close") /\ p \in batch
    /\ batch' = batch \ {p}
    /\ asked' = asked \ ({p} \ closeReqs)
    /\ IF book[p] = "open" /\ p \in quoted THEN RequestClose(p, TRUE)
       ELSE UNCHANGED <<book, attempts, halt>>
    /\ UNCHANGED <<paused, closeAll, lockdown, closeReqs, entry, cooling, pc, fire, late,
                   unhalting, quoted, owed, fired, sent, held, bounds>>

EndCloses ==
    /\ At("close") /\ batch = {} /\ To("pausecheck")
    /\ UNCHANGED <<control, account, batch, fire, late, unhalting, quoted, history, bounds>>

-----------------------------------------------------------------------------
(* The tick: entries. *)

BugEntriesAnyway == TRUE
EntriesAllowed == ~paused

PauseCheck ==
    /\ At("pausecheck") /\ To(IF EntriesAllowed THEN "selentry" ELSE "top")
    /\ UNCHANGED <<control, account, batch, fire, late, unhalting, quoted, history, bounds>>

(* pop_entry_requests: SELECT, then, if there was a row, DELETE of all rows. *)
SelectEntries ==
    /\ At("selentry")
    /\ batch' = Queued
    /\ To(IF Queued = {} THEN "windows" ELSE "delentry")
    /\ UNCHANGED <<control, account, fire, late, unhalting, quoted, history, bounds>>

BugKeepRows == entry
WithoutRows == [r \in Req |-> IF r \in Queued THEN [entry[r] EXCEPT !.st = "gone"] ELSE entry[r]]

DeleteEntries ==
    /\ At("delentry") /\ To("entries")
    /\ entry' = WithoutRows
    /\ UNCHANGED <<paused, closeAll, lockdown, halt, closeReqs, account, batch, fire, late,
                   unhalting, quoted, history, bounds>>

(* process_entry_requests: the next row, unless it is over its TTL, the posture
   is lockdown, or there is no spot price. *)
Admit ==
    /\ At("entries")
    /\ \E r \in batch :
         /\ \A q \in batch : r <= q
         /\ batch' = batch \ {r}
         /\ \/ UNCHANGED <<pc, fire>>
            \/ /\ r \notin late /\ lockdown # "fresh" /\ To("gate")
               /\ fire' = [key |-> entry[r].key, req |-> r]
    /\ UNCHANGED <<control, account, late, unhalting, quoted, history, bounds>>

EndEntries ==
    /\ At("entries") /\ batch = {} /\ To("windows")
    /\ UNCHANGED <<control, account, batch, fire, late, unhalting, quoted, history, bounds>>

(* A window that survived its five minutes fires. *)
WindowFires(k) ==
    /\ At("windows") /\ To("gate")
    /\ fire' = [key |-> k, req |-> 0]
    /\ UNCHANGED <<control, account, batch, late, unhalting, quoted, history, bounds>>

EndTick ==
    /\ At("windows") /\ To("top")
    /\ UNCHANGED <<control, account, batch, fire, late, unhalting, quoted, history, bounds>>

(* try_fire: the cooldown is consumed and committed before the posture, caps
   and halt are looked at; the chain is fetched after them. *)
BugConsumeNothing == cooling
Consumed == cooling \cup {fire.key}
Return == To(IF fire.req = 0 THEN "windows" ELSE "entries") /\ fire' = NoFire

Gate ==
    /\ At("gate")
    /\ \/ Return /\ UNCHANGED cooling         \* no signal, circuit breaker, cooldown
       \/ /\ fire.key \notin cooling
          /\ cooling' = Consumed
          /\ \/ Return                        \* breaker, caps, posture or halt
             \/ lockdown # "fresh" /\ ~get_exec_halt /\ To("submit") /\ UNCHANGED fire
    /\ UNCHANGED <<control, book, attempts, batch, late, unhalting, quoted, history, bounds>>

Submit ==
    /\ At("submit") /\ Return
    /\ \/ /\ sent' = [sent EXCEPT ![fire.key] = @ + 1]
          /\ fired' = [r \in Req |-> IF r = fire.req THEN fired[r] + 1 ELSE fired[r]]
       \/ UNCHANGED <<sent, fired>>           \* no contract, no quote, no margin
    /\ UNCHANGED <<control, account, batch, late, unhalting, quoted, asked, owed, held,
                   bounds>>

(* The tick ends in an exception, or the process is restarted: what it had
   taken out of the tables and not yet acted on is gone. *)
Crash ==
    /\ crashes < MaxCrash /\ crashes' = crashes + 1
    /\ To("top") /\ batch' = {} /\ fire' = NoFire /\ late' = {}
    /\ asked' = IF At("close") THEN asked \ (batch \ closeReqs) ELSE asked
    /\ owed' = [p \in Pos |-> IF At("closeall") /\ p \in batch /\ ~closeAll
                                THEN "dropped" ELSE owed[p]]
    /\ UNCHANGED <<control, account, unhalting, quoted, fired, sent, held, buttons, outages>>

-----------------------------------------------------------------------------
(* The API and the advisor. *)

Press == buttons < MaxButtons /\ buttons' = buttons + 1

SetPaused(b) ==
    /\ Press /\ paused' = b
    /\ held' = IF b THEN held ELSE held \ {"paused"}
    /\ UNCHANGED <<closeAll, lockdown, halt, closeReqs, entry, account, volatile,
                   unhalting, quoted, asked, owed, fired, sent, crashes, outages>>

RequestCloseAll ==
    /\ Press /\ closeAll' = TRUE /\ paused' = TRUE
    /\ owed' = [p \in Pos |-> IF book[p] = "closed" THEN owed[p] ELSE "owed"]
    /\ UNCHANGED <<lockdown, halt, closeReqs, entry, account, volatile, unhalting, quoted,
                   asked, fired, sent, held, crashes, outages>>

(* INSERT OR IGNORE.  A row that comes between SELECT and DELETE is deleted
   unread; one that was read already is acted on all the same. *)
WithRequest(p) == closeReqs \cup {p}

RequestClosePosition(p) ==
    /\ Press /\ book[p] # "closed"
    /\ closeReqs' = WithRequest(p)
    /\ asked' = IF At("delclose") THEN asked ELSE asked \cup {p}
    /\ UNCHANGED <<paused, closeAll, lockdown, halt, entry, account, volatile, unhalting,
                   quoted, owed, fired, sent, held, crashes, outages>>

(* POST /exec/unhalt: two commits. *)
Unhalt ==
    /\ Press /\ ~unhalting /\ unhalting' = TRUE
    /\ set_exec_halt("no") /\ held' = held \ {"halt"}
    /\ UNCHANGED <<paused, closeAll, lockdown, closeReqs, entry, account, volatile, quoted,
                   asked, owed, fired, sent, crashes, outages>>

ResetCloseAttempts ==
    /\ unhalting /\ unhalting' = FALSE
    /\ attempts' = [p \in Pos |-> IF book[p] = "closed" THEN attempts[p] ELSE 0]
    /\ UNCHANGED <<control, book, cooling, volatile, quoted, history, bounds>>

SetPosture(s) ==
    /\ Press /\ lockdown' = s
    /\ held' = IF s = "fresh" THEN held ELSE held \ {"lockdown"}
    /\ UNCHANGED <<paused, closeAll, halt, closeReqs, entry, account, volatile, unhalting,
                   quoted, asked, owed, fired, sent, crashes, outages>>

RequestEntry(r, k) ==
    /\ entry[r].st = "unsent" /\ \A q \in Req : q < r => entry[q].st # "unsent"
    /\ entry' = [entry EXCEPT ![r] = [st |-> "queued", key |-> k, old |-> FALSE]]
    /\ UNCHANGED <<paused, closeAll, lockdown, halt, closeReqs, account, volatile,
                   unhalting, quoted, history, bounds>>

-----------------------------------------------------------------------------
(* External: the clock and the option market. *)

PassTTL(r) ==
    /\ entry[r].st # "unsent" /\ ~entry[r].old
    /\ entry' = [entry EXCEPT ![r].old = TRUE]
    /\ UNCHANGED <<paused, closeAll, lockdown, halt, closeReqs, account, volatile,
                   unhalting, quoted, history, bounds>>

LockdownGoesStale ==
    /\ lockdown = "fresh" /\ lockdown' = "stale"
    /\ held' = held \ {"lockdown"}
    /\ UNCHANGED <<paused, closeAll, halt, closeReqs, entry, account, volatile, unhalting,
                   quoted, asked, owed, fired, sent, bounds>>

(* A cooldown lasts far longer than a tick. *)
CooldownEnds(k) ==
    /\ k \in cooling /\ fire.key # k
    /\ cooling' = cooling \ {k}
    /\ sent' = [sent EXCEPT ![k] = 0]
    /\ UNCHANGED <<control, book, attempts, volatile, unhalting, quoted, asked, owed, fired,
                   held, bounds>>

LoseQuote(p) ==
    /\ p \in quoted /\ quoted' = quoted \ {p}
    /\ outages < MaxOutages /\ outages' = outages + 1
    /\ UNCHANGED <<control, account, volatile, unhalting, history, crashes, buttons>>
FindQuote(p) ==
    /\ p \notin quoted /\ quoted' = quoted \cup {p}
    /\ UNCHANGED <<control, account, volatile, unhalting, history, bounds>>

-----------------------------------------------------------------------------
Advance ==
    \/ BeginTick \/ Reconcile \/ EndExits \/ PopCloseAll \/ EndCloseAll
    \/ SelectCloses \/ DeleteCloses \/ EndCloses \/ PauseCheck
    \/ SelectEntries \/ DeleteEntries \/ Admit \/ EndEntries
    \/ Gate \/ Submit \/ EndTick
    \/ \E p \in Pos : AdvanceOrder(p) \/ Exit(p) \/ CloseAllNow(p) \/ ClosePositionNow(p)

Loop == Advance \/ Crash \/ \E k \in Key : WindowFires(k)

Others ==
    \/ \E b \in BOOLEAN : SetPaused(b)
    \/ \E s \in Postures : SetPosture(s)
    \/ RequestCloseAll \/ Unhalt \/ ResetCloseAttempts
    \/ \E p \in Pos : RequestClosePosition(p)
    \/ \E r \in Req, k \in Key : RequestEntry(r, k)

Outside ==
    \/ LockdownGoesStale
    \/ \E r \in Req : PassTTL(r)
    \/ \E k \in Key : CooldownEnds(k)
    \/ \E p \in Pos : LoseQuote(p) \/ FindQuote(p)

Next == Loop \/ Others \/ Outside

Spec == Init /\ [][Next]_vars

(* The loop goes on from step to step, a call of the API ends, and a quote that
   is missing comes back. *)
FairSpec ==
    /\ Spec
    /\ WF_vars(Advance)
    /\ WF_vars(ResetCloseAttempts)
    /\ \A p \in Pos : WF_vars(FindQuote(p))

-----------------------------------------------------------------------------
(* Properties. *)

(***************************************************************************)
(* An entry request is submitted at most once, whenever the loop dies; and *)
(* on one key at most one entry, of the advisor or of a window, is         *)
(* submitted in a cooldown.                                                *)
(***************************************************************************)
EntryOnce == \A r \in Req : fired[r] <= 1
OncePerCooldown == \A k \in Key : sent[k] <= 1

(***************************************************************************)
(* Nothing is submitted while a pause, a fresh lockdown or an execution    *)
(* halt has been in force since the exits of the tick, and no request that *)
(* was over its TTL when the tick began.                                   *)
(***************************************************************************)
NoEntryAgainstControl ==
    [][ sent' # sent /\ At("submit") => held = {} /\ fire.req \notin late ]_vars

(***************************************************************************)
(* Close-all reaches every position that was open when the button was      *)
(* pressed, although the button pauses the bot, and although the loop dies *)
(* before it took the flag: each has a close sent or in flight, is closed  *)
(* by then, was found without a quote, or was still in hand when the loop  *)
(* died while it closed.                                                   *)
(***************************************************************************)
CloseAllReaches == \A p \in Pos : owed[p] = "owed" ~> owed[p] # "owed" \/ book[p] = "closed"

(***************************************************************************)
(* "loop will buy back this position on next tick" (api.py:241): an        *)
(* accepted request is acted on, paused or not, unless it came between the *)
(* two statements of pop_close_requests, which lose it, or the loop died   *)
(* with it in hand.                                                        *)
(***************************************************************************)
ClosesAreServed == \A p \in Pos : p \in asked ~> p \notin asked

=============================================================================
