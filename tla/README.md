# Jony: a TLA+ model of the option-selling bot

Jony sells short-dated options on Bybit and buys them back. This directory
holds its specification: TLA+ modules written from the source, TLC
configurations that check them on small instances, and proofs about every module
that has a state. File names without a directory are the repository's
(`loop.py`, `services/execution.py`, `db/repo.py`, ...).

1. [The system](#1-the-system)
2. [The modules](#2-the-modules)
3. [The runs](#3-the-runs)
4. [Fairness](#4-fairness)
5. [What the runs refute](#5-what-the-runs-refute)
6. [The proofs](#6-the-proofs)
7. [Abstractions and what is not modelled](#7-abstractions-and-what-is-not-modelled)
8. [Plan](#8-plan)

## 1. The system

Three processes share one SQLite database; only the database survives a
restart.

* The **loop** (`loop.py`, `services/execution.py`) is single-threaded and does
  everything that trades. A tick advances every active order, reconciles with
  the exchange, looks for exits once a minute, serves close-all and single
  closes, and - unless paused - serves the advisor's entry requests and then
  the entry windows.
* The **API** (`api.py`) is what the operator presses: pause, resume, posture,
  close-all, close one position, lift an execution halt. It only writes control
  rows; the loop reads them.
* The **advisor** (`advisor.py`) wakes on market or account events, asks a
  model, and writes a risk posture, close requests and entry requests.

The **exchange** moves by itself between any two calls of the loop: orders
fill, die, arrive late, and positions expire or are settled.

| Component | State it keeps | Operations | What makes it hard | What makes it correct |
|---|---|---|---|---|
| Order execution (`services/execution.py`) | table `orders`; `bot_control.exec_halt` | submit, advance, finalize, retire, reconcile, halt | unknown outcomes, absent answers, crashes between any two calls, fills racing cancels, expiry | one close at a time per position; a row is closed only when its order is over and exactly its fills are booked; patient orders end |
| Price rules (same file, `bybit_client.round_to_tick`, `loop._quote_px`) | `orders.price`, `ceiling`, `stage` | quote, retreat, chase, round | one-sided books, missing marks, coarse ticks | the spread guard; the chase rises only within ask and ceiling and gets there |
| Loop (`loop.py`) | `positions`, `bot_state`, in-memory windows and timers | tick, try_fire, manage_exits, close-all, close requests, entry requests | other processes write between its steps; exceptions end a tick; restarts forget memory | controls are obeyed; no entry twice; close-all reaches every position |
| Exit pass (`loop.manage_exits`, `_close`) | `positions.status`, peak, attempts; `bot_state` equity and breakers; the deferral timers | choose a reason, put off, request, settle, book | six reasons with priorities, three postures, abnormal books, a booking that raises half way | harvests follow the close policy; a deferral ends; equity and breakers are those of the closed rows |
| Entry windows (`loop.main`, `window_fail_step`) | in-memory tracker per coin; `last_fired_json`; the status row | check a minute, disqualify, fire | skipped minutes, exceptions, restarts | an entry uses a signal of its own window; only surviving windows enter; entries of a side stay a cooldown apart |
| Database access (`db/repo.py`, `db/schema.sql`) | all tables | queries and one-commit updates | SELECT-then-DELETE pops; multi-commit updates | each transaction is all or nothing |
| HTTP API (`api.py`) | none | write control rows; score the advice | two commits in one call | an accepted request is acted on |
| Advisor (`advisor.py`) | journal, posture, its memory of proposals | wake, read context, decide, write | stale when dead; repeats after a crash; inputs missing or malformed | closes confirmed over two ticks; bounded proposals; a missing input allows nothing |
| Portfolio rules (`services/portfolio.py`) | none (pure) | sizing, caps, breaker, effective posture, trail | stale posture, boundary values | margin and caps bound the exposure; a silent advisor means tight |
| Close policy (`core/close_policy.py`) | none (pure) | two predicates | every channel that closes has to ask it | no channel harvests young profit |
| Bybit client (`services/bybit_client.py`) | instrument cache | place, amend, cancel, get_order, positions, klines, choice of a contract | two endpoints, pagination, retries | a failed call is never read as an answer |
| Gates, indicators (`core/*.py`) | none (pure) | evaluate_conditions | warm-up, missing values, candles in progress | the backtest's copies decide alike |
| Proximity gauge (`core/proximity.py`) | none; reads the status row | entry_proximity | the row is another process's, and may be old | it says "ready" only of what the loop is about to do |
| Backtest (`research/jony_engine.py`, `jony_core.py`, `replay_account_v2.py`) | a series, an account | gates bar by bar, simulated exits, replay | look-ahead; three copies of the rules | no decision knows a later bar or a trade that is not over |
| Second leg (`research/leg2/h1` to `h7`) | a series | seven simulators | look-ahead, indices, train and holdout | as the backtest; two loops over one trade agree |
| Notifications, sweeps, downloads, reports | none that trades | text | - | - |

## 2. The modules

| Module | Stands for | Uses |
|---|---|---|
| `PositionLedger` | abstract: what the execution layer promises of a key | - |
| `OrderExec` | the live executor with the submission and booking code of the loop | refines `PositionLedger` |
| `PriceLadder` | the price of one order from quote to last chase step | - |
| `BybitClient` | the calls of the client, as functions of what their attempts bring | - |
| `OperatorControl` | the tick of the loop against API and advisor | - |
| `EntryWindow` | the five-minute entry window of a coin, and the gauge that shows it | - |
| `Account` | the rules of the account and the close policy, as functions | - |
| `Exits` | the exit pass of the loop with settlement and booking | `Account` |
| `AdvisorRules` | the advisor's snapshots, repairs, guards and decisions, as functions | - |
| `Advisor` | the advisor process: wake-ups, ticks, journal, retries | `AdvisorRules` |
| `Gates` | indicators and entry gates: of the loop, the engine and the core | - |
| `Replay` | the replayed account, two versions | `Account` |
| `Backtest` | the backtest from prices to accounts, bar by bar | `Gates`, `Replay` |
| `Legs` | the simulators of the second leg | - |
| `...Proofs` | theorems about `OrderExec` (with `PositionLedger`), `OperatorControl`, `Exits`, `Advisor`, `Backtest`, `Legs`; `EntryProofs` about `EntryWindow` and `PriceLadder` (with `BybitClient`) | the module of that name, or its `MC...` module where that states the property; TLAPS |
| `Lists` | the list comprehension of the code, as a recursive function | used by `AdvisorRules`, `Gates` |
| `Sums` | lemmas: sums over and extremes of finite sets, functions that are recursive over an interval, comprehensions | TLAPS, `Lists`; used by all proofs but those of `OperatorControl` |
| `MC...` | constants and symmetry for TLC | the module of that name; `MCPriceLadder` also `BybitClient` |

In every module a definition named `Bug...` is the form a plausible mistake
would give to the definition after it. No specification uses it: each is there
to show that a property notices (`mutants` in PROJECT.json).

### OrderExec and PositionLedger

The durable state is `orders`, `pos` (table `positions`) and `halt`
(`bot_control.exec_halt`, reduced to the class of its reason). `pc`, `cur` and
`ans` are what the loop holds in memory between two calls: which step of
submit/advance it is in, on which order, with which answer. `exch`, `size` and
`expired` belong to the exchange and the clock. A key is a (coin, side) pair;
since `PER_KEY_CAP` is 1 it also stands for the contract the key holds. A
position carries the id of the order that opened it.

| Action | Code |
|---|---|
| `SubmitOpen` | `try_fire` with the caps, halt and in-flight checks, and the first commit of `submit` |
| `SubmitClose`, `ExitBlocked`, `CloseShort` | the outcomes of `_request_close`: reserve and insert in one commit; attempts used up; the exchange holds less than the book |
| `Place`, `RecordPlace` | `ex.place`, then the second commit of `submit` |
| `PollUnreachable`, `PollAbsent`, `PollSeen` | the three kinds of answer at the head of `advance` |
| `RetireAbsent` | `_retire_absent` |
| `HoldFill`, `Finalize` | a terminal answer: booking raised or price missing, or `_finalize` with `_on_open_fill` / `_on_close_fill` in one transaction |
| `CancelAgain`, `GiveUp`, `Retreat`, `Chase`, `StillWaiting` | what `advance` does with an order that is live |
| `SettleExpired` | `_settle_expired_live` |
| `Reconcile` | `reconcile` |
| `Unhalt`, `ResetCloseAttempts` | the two commits of `POST /exec/unhalt` |
| `Crash` | the process dies anywhere and restarts with what is committed |
| `Arrive`, `Lose`, `Fill`, `Kill`, `Expire`, `LeaveExchange`, `Elapse` | the exchange and the clock |

Between `PollSeen` and the action that uses the answer the exchange may do
anything, so the order can fill or die after it was seen live.

`PositionLedger` has no orders, calls or failures: per key a phase, the lots
held, and the lots executed for the order that is out. `OrderExec!Ledger` maps
the tables to it; each thing the loop or the exchange does is one ledger step or
none.

### PriceLadder and BybitClient

`PriceLadder` is one order, with a quote that may change or go missing at any time. Prices are
integers in 1/10000 of a quote unit so that the percentages are exact. The row
keeps the wanted, unrounded price at submission and the sent price after an
amendment, as the code does (`submit` stores `price`; `advance` stores what
`amend` returned); the exchange only has whole ticks.

`BybitClient` has no state. A call is given the outcome of each of its attempts
(answered, rejected, failed) and the world as a function of time, since the
exchange moves between two attempts, two pages and two endpoints; it returns
what the function in the code returns. `get_order` against an order that rests
for a while and then is history, and `get_klines` against a series that grows
while its pages are read, are looked at for every such script in the same run as
PriceLadder, at its initial states.

### OperatorControl

`pc` walks through one tick of `loop.main`, with a step of its own wherever the
loop reads or writes what another process writes: `batch` is what a SELECT left
in memory. Each `repo.pop_*` that is two statements is two actions. The API's
and the advisor's calls happen between any two steps. What an order does once it
is out belongs to `OrderExec`; here a close is only out or not.

`held` is the set of controls (pause, fresh lockdown, halt) that have been in
force without a break since the exits of the current tick were done; it turns
"the control was set before the entry was decided" into a state predicate. The
halt gate is looked at in the same step as the cooldown and the posture, and the
chain is fetched after it, so a control set later than the gate does not stop
that entry; the property says so by asking only for controls in force since the
exits.

### EntryWindow

The tracker `win` of one coin, the clock as (window, minute, "second >= 50"),
pause, exceptions and restarts, and the durable `last_fired_json`. The result of
a check is a free choice among the sides and "not ready". `failed` and
`forgotten` are history: the minutes of this window whose check failed, and
those of them before the last restart. A restart forgets the tracker: a window
that was already disqualified starts again with a clean count, so what holds is
`WatchedSurvive`, about the checks the entering process has seen itself.

`status` is the row the loop writes for the status page, which the API's
`entry_proximity` turns into a gauge in another process at any time. `proximity`
is when that can be 100 %: a row of this window (`SameWindow`), not disqualified,
of its last minute, at most `StaleMinutes` old (`MayBeFresh`). `GaugeHonest` relates it to the tracker in the
memory of the process that wrote the row.

### Account and Exits

`Account` is `services/portfolio.py` and `core/close_policy.py` over integers:
profits in thousandths of the credit, percentages kept as products, so that a
comparison is exact where the code's is a float. It has no state.

`Exits` is one minute after the other of `manage_exits` over the open positions. The
clock goes in ticks, `MinuteTicks` to the minute, and `second` is where in its minute
it is: the first tick of a minute leaves its pass due (`last_exit_min`), which the
loop may make at any tick of that minute or later, while the timer of an exit that was
put off compares times to the tick (`_exit_deferred_since`). A pass takes a posture
and a copy of the account when it begins (`mode`, `copy`) and goes through the
positions in the order of their ids; between two of them the advisor may write, an
order may fill and the process may die.

| Action | Code |
|---|---|
| `BeginPass`, `EndPass` | the head of `manage_exits` with `effective_posture` and `account_breaker`; its end |
| `InFlight`, `NoQuote`, `Quoted` | a position with a close out; one without a mark; one with a profit, which keeps its peak, finds its reason, puts it off or requests it |
| `SettleFrom`, `SettleLater` | after expiry: `_settle_expired_live` from the delivery record or the spot, or not yet |
| `BeginBooking`, `Absorb`, `BookingRaises` | the writes of `_close`, its commit with the order's or alone, and the rollback |
| `PollFills`, `PollNoFill` | the order that is out ends, seen by `process_orders` |
| `PassRaises`, `Crash` | an exception in the middle of the list; the process dies |
| `Tick`, `SetPosture`, `Unhalt` | the clock, the advisor, the operator |

In paper mode (`live` is false) a close fills at once, as `PaperExecutor` does.
`lag` and `delay` are history: how far the peak in the table is below the highest
profit a pass has seen, and how many passes of this process have put off an
overdue exit.

### Advisor

The clock `now` is the only one, in units the constants are scaled to; polls are
much more frequent than the unit, so in `sleep` time passes only while no poll
would act. `pc` and `tick` are the tick in hand. The journal is cut to the lines
`_load_history` reads, and of older lines only what it reads of them is kept. A
line cut short by a crash or a full disk (`Cut`) has no line end, so the next
append runs into it (`Garbled`), and reading stops at either.

| Action | Code |
|---|---|
| `Poll` | a round of `main` that is due or wakes (`check_wake`, `pick_wake`), and what `tick` reads before the call |
| `Elapse`, `Toggle` | time between polls and during the call; the market |
| `CandlesUnread` | `check_wake` caught an exception |
| `Answer` | `call_claude` (with its one repetition) returns, `set_risk_posture`, `decide_executions` |
| `RequestClose`, `RequestEntry` | one request each; `decide_entry` |
| `FinishTick` | the journal line, and the rest of the round in `main` with `stamp_only` |
| `Fail`, `Restart` | an exception in any of these calls; the process dies |

`sent`, `waited`, `freshAt`, `restarted` and `torn` are history. What the answer
says is free, and so is every veto that depends on prices, P&L, confidence,
the last loss or the gates; the limits, the gap, the confirmation, lockdown and
the times are the code's.

Those vetoes are `AdvisorRules`: the market and position blocks with what they show
when an input is missing, the score of the own advice, `normalize_advice` on answers
that are malformed, `decide_executions`, `decide_entry` with `call_guard`, and what
the human is told. A tick is a function of a *world*, the set of its inputs;
`MissingInputs` compares each world of the configuration with every world that lacks
one of its inputs or has it stale or malformed: those in which a guard or the repair
of the answer notices (`Noticed`), and the four in which nothing does
(`UnnoticedPasses`). In a behaviour the worlds are not chosen: the property is looked
at where a tick asks.

### Gates, Replay, Backtest

`Gates` writes the entry decision down three times, as the code does: the loop's
(`core/strategy.evaluate_conditions` over candles it has fetched), the engine's
(`build_coin_base`, `evaluate_gates`, vectorised over a whole series) and
`jony_core`'s port. Averages, RSI, ADX and realised volatility are computed in
integers times `Scale`; a candle of a quarter or an hour is made of bars, the
last one possibly in progress. `Replay` is the account that trades candidates
whose outcome is known: `replay_account` books it when it is entered, version 2
when its exit has come, with an option to behave like the former (its own self
check). `Backtest` lets bars arrive one by one: `NextBar` computes the gates,
`Candidate` takes a side whose gates are open with one of the outcomes
`simulate_option_exit` allows and runs the three accounts, and `Finish` settles
what is still open.

### Legs

`Legs` keeps the hourly bars and what each simulator reports on all of them; the
only action is the next hour, any candle the exchange can send (positive prices,
open and close inside the range). The simulators are functions: a signal on a closed
bar, a fill, an exit by stop, target, condition or cap, a fee; a pair trade on the
ratio of two prices and its rolling mean and deviation; a grid in cycles and the
same grid marked to the market; the choice of a configuration by its trades on the
first part.

## 3. The runs

| Run | Question | Properties | Distinct states |
|---|---|---|---|
| OrderExecFaults | Do booking, reservation, caps and refinement survive a failed call or crash anywhere, and contracts that expire? | Reserved, ClosedRowsAreSettled, BookMatchesExchange, OneExposure, ImplementsLedger | 275 538 |
| OrderExecLive | Do patient orders end and are fills booked in the end? | PatientEnds, FillsAreBooked | 33 435 |
| PriceLadder | Does the price stay inside the guards on a coarse tick, and does the chase arrive? Do the client's calls say what was? | SpreadGuard, ChaseBounded, ChaseReachesAsk, AbsentWasNotThere, KlinesConsecutive | 20 940 |
| ControlEntries | Is an entry ever made twice, twice in a cooldown, or against a control? | EntryOnce, OncePerCooldown, NoEntryAgainstControl | 800 732 |
| ControlCloses | Does close-all reach everything on the bot it has paused, and is every single close served? | CloseAllReaches, ClosesAreServed | 437 938 |
| EntryWindowChecks | On which signals, after how many failed checks are entries made, and does the gauge tell? | EntersOnOwnSignal, WatchedSurvive, GaugeHonest | 1 495 898 |
| Exits | What is closed, for which reason, how late, and is it in the account? | BookedTogether, HarvestsByPolicy, OverdueWaits, PeakKept, SilenceTightens | 2 248 800 |
| AdvisorTicks | Do limits, gaps and confirmations hold over what was requested, does nothing wait too long, and what does a missing input let through? | ClosesPerHour, EntriesKeepGap, ConfirmationsApart, PostureConfirmed, TriggersAreSeen, MissingInputs | 3 139 695 |
| Backtest | Does the backtest know the future, and is it the strategy that trades? | CausalGates, GateParity, SelfCheck, CausalBook, MarginWithinCap | 12 554 |
| Legs | The same of the second leg | CausalLegs, TrainUnmoved, LoopsAgree, CalmBeforeReentry | 19 531 |
| OrderExecParked, AdvisorDaily | section 5 | ExpiredIsBooked; EntriesPerDay | violated |

The type invariants of OrderExec, OperatorControl, EntryWindow and Exits are
theorems (section 6); the runs do not repeat them.

**Bounds.** OrderExec: three orders on one key are an open, a close that fails or
fills in part, and the close that follows it; `MaxQty = 2` is the smallest quantity
with a partial fill. `MaxAbsent = 2` with `Lag = 1` is the smallest pair in which an
order is absent once and arrives, and is retired after it was absent too often.
`CloseMax = 2` reaches the exhausted attempts with the two closes. One fault may be
spent anywhere; two are spent in OrderExecLive, where nothing expires. Positions
that leave the exchange without the bot (`OutsideCloses`) are off in the runs and
covered by the proofs of the safety properties and of the refinement, which hold
with them. One key is enough for the booking properties: keys share only the loop, which
has one order in hand at a time, and the halt, which only ever blocks an open.

PriceLadder: the quotes are all combinations of a missing, narrow or wide book
with three marks, the tick is a quarter of the mark, two changes of the quote
let a mark go missing and come back, one amendment is refused. BybitClient: two
attempts per call, orders that rest and end at any of ten times, pages of two
candles for requests of up to five.

OperatorControl: ControlEntries has no positions and ControlCloses no keys: entries
and closes share only `paused` and the halt, and the instances keep both free. Two
requests and three button presses allow set - lift - set in a tick; in ControlCloses
two presses are a close-all beside a single close, or one request after another.

EntryWindow: three windows and a cooldown of two, so that one side can fire twice;
one exception and two restarts are what a fire between restarts needs.

Exits: a position that is young and one that is past its expiry but for the wait
for the record; five marks that reach every reason and one that is none; a take
profit that may be put off for a minute; a breaker after two losses. A minute has
two ticks, so that a pass can come early or late in it and two passes be one tick or
three apart: `OverdueWaits` is reached with its bound, two passes that put an exit
off for a limit of one minute. The other times are scaled to `Hold = 2`, `Life = 6`
ticks, which keeps hold before expiry and the advisor's limit before the lockdown's.

Advisor: the times (60, 5, 10 and 30 minutes, calls up to 3 minutes, an hour, a
day, 4 hours, 80 lines) are scaled to 4, 1, 2, 3, 1, 4, 8, 3 and 3 lines, which
keeps their order where a property depends on it; six units of time hold four
ticks and let a close and an entry of the first leave the hour and the gap. One
failure or restart may come at any step; two positions against one close per hour
exhaust the budget inside a tick. A container that restarts in a loop could push
the last hour out of the lines that are read; the bound excludes it. AdvisorDaily
lets ticks come one unit apart, so that three lines are less than a day, as 80
lines of ten minutes are. The worlds of `MissingInputs` vary everything an
entry depends on with one quote, and everything a close depends on with one market.
Among their candles and volatilities are a day without change and a side that is rich
enough alone but not with the other, and among their rates and records a rate too
high and a record that stops the calls: each of the four inputs whose lack goes
unnoticed is one that some world does not enter with and does without.

Backtest: two histories of 24 bars, chosen so that gates of both sides open, and
all continuations by five bars of two prices; periods of one and two bars. Legs:
three bars and all continuations by six, of five kinds (fall, rise, gap either
way, calm), configurations coarse enough that each of them stops, takes profit
and times out. Both enumerate series and not paths, so the bound on the length is
the bound on what a simulator can remember; the averages are short for it.

Symmetry is used only in runs without liveness properties. Deadlock is checked
except in PriceLadder, where the life of the one order ends, and in Backtest and
Legs, where the series does.

**What the properties say.**
* `Reserved`: an active close and the position it closes name each other. It
  is what makes a second close impossible, and it shows that the stale markers
  `manage_exits` heals never occur.
* `ClosedRowsAreSettled`: no row is closed while its order can still trade, and
  what it traded is booked once.
* `BookMatchesExchange`: exchange size and book differ by the unbooked fills,
  unless the position left without the bot.
* `OneExposure`: `PER_KEY_CAP` holds on the exchange, not only in the book.
* `SpreadGuard`, `ChaseBounded`, `ChaseReachesAsk`: the price rules after
  rounding.
* `AbsentWasNotThere`, `KlinesConsecutive`: an answer put together from several
  requests is one the exchange could have given at once: an order that moves from
  the open orders to the history between two requests is not called absent (on
  which retirement rests), and candles of several pages have no hole inside.
* `EntryOnce`, `OncePerCooldown`, `NoEntryAgainstControl`: control rows against a
  running tick.
* `CloseAllReaches`, `ClosesAreServed`: what the operator was promised happens,
  with the exceptions the code has, which the properties name (section 5).
* `EntersOnOwnSignal`, `WatchedSurvive`, `GaugeHonest`: the window's memory, and
  the gauge in another process that shows it.
* `BookedTogether`: equity and breakers are those of the closed rows whatever is
  raised, rolled back or lost while a close is booked.
* `HarvestsByPolicy`, `OverdueWaits`, `PeakKept`, `SilenceTightens`: what a pass
  closes and for which reason; how long an abnormal book can put off an exit that is
  due (`Defer` minutes on the clock are `Defer` + 1 passes, when the first comes late
  in its minute and the others early); that the trail's peak is not lost to a posture
  or a restart; and that no posture outlives a dead advisor (if its limits are
  switched on).
* `ClosesPerHour`, `EntriesKeepGap`: the limits over requests, not over lines. A
  tick that dies between a request and its line is excepted (`torn`): the
  journal is written last and the next tick cannot know of that request. After such
  a crash the code keeps neither limit, so the properties say nothing of it; they
  cover the failures and restarts between two ticks.
* `ConfirmationsApart`: two answers that confirm a close are not the same look
  at the market, except across a restart, which asks again at once.
* `PostureConfirmed`, `TriggersAreSeen`: bounds on the age of the posture and on
  the wait of a trigger, with what each failure may add. The second covers that
  `stamp_only` puts a trigger into its cooldown that appeared during the call and
  that no call has seen.
* `MissingInputs`: taking one input away from a tick, or making it stale or
  malformed, never makes it close more or tell the human to close more. Nor does it
  make the tick enter more, but for four inputs, whose lack the code takes for calm:
  the `fundingRate` of the ticker (read as 0, `advisor.py:227`), the volatility of one
  side (the mean is that of the other, `advisor.py:240-241`), the return of the week in
  a fresh gate row (`advisor.py:689-693`) and `advice.jsonl` (an empty score,
  `api.py:346-347`, so that the kill switch is off). There the property says how far
  it goes: an entry passes only where the guard that reads the input refuses, every
  other guard having let it through, and only a call; of a lone volatility also a
  put, but not when the side that is left is the cheaper one.
* `CausalGates`, `CausalBook`: with lagged features the backtest decides on what
  was known; version 2 of the account also books so. `MarginWithinCap`: the two
  margin caps, applied one after the other, bound what is open in total in the
  replay, which sizes with the research copy; `LiveSizeFits` is about the live one.
* `GateParity`: the three copies of the gates agree where they should (the
  preconditions are where they do not, section 7). `SelfCheck`: version 2 in the
  order of version 1 is version 1.
* `CausalLegs`, `TrainUnmoved`, `LoopsAgree`, `CalmBeforeReentry`: no simulator of
  the second leg looks ahead, chooses on its holdout, disagrees with a second loop
  over the same trade, or re-enters a pair that never calmed down.

## 4. Fairness

* `OrderExec!FairSpec`. The loop is one process that finishes a step it began
  (weak fairness of `FinishStep`) and polls every active order each tick
  (`process_orders`; strong fairness of `Poll`, since other steps of the loop
  disable it for a while). `SettleExpired` is tried at every exit check, hence
  strong fairness too. Time passes (`Elapse`). A placement of unknown outcome
  arrives or is lost. Fills, kills, expiry, the operator and failures are never
  assumed; failures are finite because they are bounded.
* `PriceLadder!FairSpec`: `process_orders` runs the chase every tick.
* `OperatorControl!FairSpec`: the loop goes on from step to step, an API call
  that began ends, a missing quote comes back. Button presses are never assumed.

The other modules need none: what must not take too long is stated there as a
bound on a clock or a count (`OverdueWaits`, `PostureConfirmed`,
`TriggersAreSeen`), which needs no fairness and says more.

## 5. What the runs refute

Each of these runs checks a sentence of the repository that the code does not
keep.

* **OrderExecParked** (`ExpiredIsBooked`). `loop.py:164-165`: the result of an
  expired option is booked "once the position has left the exchange book". If a
  close of unknown outcome is active when the contract settles,
  `_retire_absent` compares exchange and book, finds that the position moved -
  it was settled - halts and leaves the row active; `manage_exits` skips a
  position with an active close before it looks at expiry. The position stays
  open in the book until someone edits the database.
* **AdvisorDaily** (`EntriesPerDay`). `decide_entry` says "<= MAX_ENTRIES_PER_DAY
  / rolling 24h". `_load_history` counts over the last 80 lines; ticks may be ten
  minutes apart, so these can span 13 hours, and the comment at
  `advisor.py:497-498` reports 110 ticks in a day. No failure is needed. The
  limit of calls per day is counted over the same lines. The hour of the closes
  and the gap of the entries are shorter than 80 lines and hold.

Other sentences hold only in a weaker form, which the passing runs state:

* `execution.py:15-16` has the chase "never above the CEILING", but `amend` rounds
  up after the cap; `ChaseBounded` bounds it by less than a tick above.
* `loop.py:5-6` has "a surviving window" fire, which after a restart means one
  that survived since (`WatchedSurvive`).
* `api.py:241` answers a single close with "loop will buy back this position on
  next tick", but `pop_close_requests` (`repo.py:204-207`) reads the ids and then
  deletes all rows, so a request that arrives in between is lost. `ClosesAreServed`
  excepts such requests, and those in hand when the loop dies.
* `loop.py:296-298`: close-all logs "skipped (retry next tick)" for a position
  without a quote, but its flag is already cleared. `CloseAllReaches` counts that
  position as dropped.
* `loop.py:747-754` says of the advisor's entries that "they run ONLY in posture
  'normal'"; the code below it (767-776) stops them in lockdown only. The model
  does what the code does.
* `jony_engine.py:273-275` says the window of the volatility rank "matches" the
  loop's, but that of the loop is at most the 216 readings its candles give and
  the engine's is 240; `GateParity` asks for agreement where both rank alike. By
  default (`feature_lag=False`) the engine also knows the close of the hour and the
  quarter it is in; `CausalGates` is about `feature_lag=True`.

## 6. The proofs

The theorems hold for every value of the constants the assumptions admit, so for
every number of keys, orders, positions, requests, windows, failures and so on.

| Module | Theorem | Statement |
|---|---|---|
| OrderExecProofs | `TypeCorrect` | `[]TypeOK` |
| | `ReservationHolds` | `[]Reserved` |
| | `AnswersHold` | `[]SettlementInv`: the answer in hand stays true |
| | `SettlementHolds` | `[]ClosedRowsAreSettled` |
| | `ExposureHolds` | `[]OneExposure` |
| | `LedgerHolds` | `[]BookMatchesExchange` |
| | `LedgerImplemented` | `ImplementsLedger`: OrderExec implements PositionLedger |
| EntryProofs | `GuardHolds` | `SpreadGuard` |
| | `ChaseIsBounded` | `ChaseBounded` |
| | `AbsentIsRight` | `[]AbsentWasNotThere` |
| | `KlinesAreConsecutive` | `[]KlinesConsecutive` |
| OperatorControlProofs | `TypeCorrect` | `[]TypeOK` |
| | `RequestsFireOnce` | `[]EntryOnce` |
| | `CooldownHolds` | `[]OncePerCooldown` |
| | `ControlsBind` | `NoEntryAgainstControl` |
| EntryProofs | `WindowTypeCorrect` | `[]WindowTypeOK` |
| | `OwnSignal`, `SurvivesWatched` | `EntersOnOwnSignal`, `WatchedSurvive` |
| | `CooldownHolds` | `EntriesApart`: entries of a side are a cooldown apart |
| | `GaugeIsHonest` | `[]GaugeHonest` |
| ExitsProofs | `TypeCorrect` | `[]TypeOK` |
| | `OverdueWaitsHolds`, `PeakIsKept` | `[]OverdueWaits`, `[]PeakKept` |
| | `SilenceIsTight` | `[]SilenceTightens` |
| | `BreakersByLosses` | `[]ArmedByLosses`, the breaker half of `BookedTogether` |
| | `BookedTogetherHolds` | `[]BookedTogether` |
| | `HarvestsAreAllowed` | `HarvestsByPolicy` |
| | `LiveSizeFits` | a live size stays within its share of the equity and within the free margin (`size_position`) |
| | `StopIsCapped` | a stop costs at most `SL_EQUITY_CAP_PCT` of the equity (`sl_pct_effective`) |
| | `LossKeepsBreaker` | no further loss releases the account breaker (`account_breaker`) |
| AdvisorProofs | `PostureIsFresh` | `[]PostureConfirmed` |
| | `TriggersSeen` | `[]TriggersAreSeen` |
| | `ClosesConfirmedApart` | `ConfirmationsApart` |
| | `JournalKept` | `[]Kept`: what was requested is in the lines that are read, or older than they reach |
| | `EntriesApart` | `[]EntriesKeepGap`, with lines to spare |
| | `ClosesLimited` | `[]ClosesPerHour`, with lines to spare |
| | `MissingInputsHolds` | `[]MissingInputs`, for every complete tick |
| BacktestProofs | `GatesAreCausal` | `[]CausalGates` |
| | `SelfCheckHolds` | `[]SelfCheck` |
| | `BookIsCausal` | `[]CausalBook` |
| | `MarginHolds` | `MarginWithinCap` |
| | `ParityHolds` | `[]GateParity`, with the backtest's volatility guard off |
| LegsProofs | `CalmReentry` | `[]CalmBeforeReentry` |
| | `TrainStays` | `TrainUnmoved` |
| | `LoopsTwice` | `[]LoopsAgree` |
| | `LegsLookBack` | `[]CausalLegs` |

**OrderExec.** The assumption that matters is `Lag < MaxAbsent`: the exchange does
not deny an order it has, or will still receive, `EXEC_MAX_ATTEMPTS` times in a
row. The code cannot check this; it is the only fact about the exchange that
retirement rests on, and with `Lag >= MaxAbsent` it would fail.

*Reservation.* `Reserved` is not inductive alone. That a new reservation finds
its position free needs the way back from a position to an active close order of
that position (the second half of `Reserved`); that `_on_open_fill` does not
overwrite a position needs that an order not yet booked has none
(`NotYetBooked`); that an error row of an open releases nothing needs that opens
name no position (`OpensAreUnlinked`); and every step after a poll needs that
the order in hand is still active (`WorksOnActive`). Their conjunction with the
type invariant is `ReservationInv`; there is one lemma per action of the loop,
and the exchange's steps leave the tables alone.

*Settlement.* `SettlementInv` adds what the loop knows of the exchange:
nothing is out for an order that was not placed, an order absent more often than
`Lag` never arrived, and a terminal answer stays true while the loop acts on it
(`AnswerStillHolds`). The interesting steps are `RetireAbsent` (the row may be
dropped because the order is nowhere) and `Finalize` (the cumulative quantity
read is the final one because a terminal order no longer fills).

*Exposure.* `OneExposure` counts orders and positions and bounds a size. The
invariant behind it, `Exposure`, neither counts nor sums: two opens or positions of
a key are the same (`Alone`), a close is of its position's key (`Linked`), and what
is short on a key is at most what its open has executed, or its position less what
its close has executed; with neither nothing is short (`Covered`). Each step moves
the same lots on both sides of that inequality, or, when the position leaves the
exchange by itself, only lowers the size. It rests on the settlement invariant: a
retired order has executed nothing, so dropping its row loses no cover.

*Ledger.* `BookMatchesExchange` and the refinement speak of sums over the rows of a
key. With `Exposure` each of these sets has one element at most, and the lemmas of
`Sums` reduce a sum to it; so the ledger of a key is what its one open, its one
position and that position's one close say. A lemma per action shows that it moves
one key by one action of `PositionLedger` or none: the key of the order in hand,
or, when a position expires or leaves by itself, the key of that position; every
other key stands still because the action touches no row of it.

**PriceLadder.** `RoundBounds` says what rounding to the tick does to a price: it
stays within a tick and on its side. The invariant adds to the types that an
urgent order is a close that rests no higher than the wanted price. Assumed: bids
and asks are on the tick, and the urgent slip is not below the first.

*The client.* That an order called absent was absent rests on the order of the two
questions: an answer of the history that does not know the order is younger than
the answer of the open orders, so an order that was there for the first has
neither ended nor can it have been missed. For the candles the invariant over the
pages (`CollectedInv`) is that what has been collected is a run of bars up to the
newest of the first answer, and the next page ends right before it; a page that is
empty, short or fails ends the loop. The induction is over the pages. Assumed: the
mark for "no answer" is no candle, number or list.

**OperatorControl.** `Phase` ties what the tick has in hand to its step. `Rows`
is the argument for `EntryOnce`: a row is deleted before it is acted on and let go
of before it is submitted, so what is still in the table or in hand was never
submitted. `Cooldowns` has the cooldown consumed before the submission. `InForce`
has every control that was in force since the exits seen by one of the looks the
tick takes before the submission.

**EntryWindow.** `Consistent` ties the tracker to the clock: its signal is of its
window, its last check not later than now, and it is disqualified if it failed too
often. `CountsFailures` compares the tracker's count with the history since the
restart, `RowBehind` the row with the tracker that wrote it, `EnteredFired` the
entries with the durable record of the last fire.

**Exits.** `PassInv`: a pass works on open positions one at a time, a booking is about
one it has left behind, and its copy of the account is still the account, which is why
the final write of `_close` loses nothing. `TimerInv` bounds the passes that put a
position off by its timer (`Paced`): n of them take place in n minutes, and
the n - 2 minutes between the first and the last lie whole on the timer, which is below
`Defer` minutes when the last puts the exit off, so that n is `Defer` + 1 at most.
Assumed: the lockdown's limit is not below the advisor's. The equity half of `BookedTogether` adds a closed row's profit to the
sum in the step that adds it to the equity; no other step touches a closed row, and a
rollback leaves both as they were.

*Rules.* `LossKeepsBreaker` is about any two books that differ in one loss. The sums
of the day and the week only fall (`LossLowersSum`). For the streak, the order of
the book gives every trade a rank, and n trades of a book of at least n have fewer
than n behind them (`TailCount`); the last trades of the longer book are then last
trades of the shorter one, or the loss.

**Advisor.** `Clock` bounds a tick by a call. `Fresh` and `Heard` carry the two
bounds from poll to poll with the cost of the failures so far; they need that
`CallTime <= WakeGap <= WakeCool` and `WakeGap + Retry <= Interval`, as the
configured times are. `Confirmed` has the last line of the journal either written
at the last call or a gap old, and what a tick has read of it still true when it
asks for a close.

*The journal.* The hour of the closes and the gap of the entries are kept in memory
nowhere: a tick reads them off the last `Lines` lines. `Kept` says why that is
enough. Lines are a wake-up gap apart but for those a restart lets follow at once
(`Spaced`, `Slack`); every request is of the tick in hand, in a line that is still
read, or was in one that has dropped out (`Traced`), and then it is older than the
lines behind it, less a gap for each failure. So a request inside a window is
visible if `Spare(window)`: the lines cover the window and a gap for each failure.
Without it the two properties are false - TLC shows a close forgotten when one
line is read, the hour is a gap long and the process restarts twice - and the
theorems assume it. With the configured times (80 lines, gaps of 10 minutes) it
leaves 74 failures for the hour and 56 for the four hours between entries; they
are counted over a whole behaviour, which is more than the code needs. The ticks
that requested something and left no line (`torn`) are excepted, as in the
properties. With the journal read, `decide_executions` leaves no more closes than
the budget minus the closes of the last hour (`WithinBudget`), which the requests
of the tick use up one by one.

*A tick that lacks an input.* `MissingInputs` compares two runs of a tick, so the proof
is about the functions of `AdvisorRules` and not about steps. A degraded tick has
the answer of the complete one or none (`AdviceOf`): a call that fails is asked
again or loses everything. What it decides then is compared guard by guard. An
entry needs a premium, a fresh gate row, and for a call a funding and a score, and
each missing input makes one of these fail or leaves it (`EntryConfined`); a row of
the book keeps its profit and its buffer or loses them, so fewer closes pass the
policy (`FewerFit`); what the human is told to close is what the answer names and
no policy rejects (`CommandsBy`), which a missing confirmation or a used-up budget
does not change. `NoticedConfined` goes through the ways that are noticed one by one.
For the four others a lemma each shows that every guard but one decides as before
(`RateUnnoticed`, `VolatilityUnnoticed`, `ReturnUnnoticed`, `RecordUnnoticed`); with
the cheaper side alone the premium is no more than with both, since the mean of two
is no less than the smaller (`PairIsRicher`).
Assumed of a complete tick (`Complete`): its inputs have their types, the answer
came at the first attempt and does not say two things of one position, ids of the
book are unique, and there are at most the `WeekBars` candles `get_klines` is asked
for. Without the second the claim is false. Let the answer name one position with
HOLD and later with CLOSE, beside another CLOSE, and let the budget be one: the
complete tick closes the other position and the push says to hold the first; when
the other loses its volatility, the advisor closes the first. Nothing in
`_normalize_advice` prevents such an answer. `Sift`, the list comprehension of the
code, is a recursive function, so that what it keeps can be shown by induction.

**Backtest.** `GatesLookBack`: with lagged features the gates of a bar read
the prices up to it and only hours and quarters that were over when it began, so
appending bars changes none of them; periods, thresholds and series are arbitrary.
For `SelfCheck`, booking a trade at its entry and arming its breaker there are
two updates that commute, so that the second account told to do both is field by
field the first. For `CausalBook` the account is described by the trades entered
so far (`Book`): those that are over are in the equity, in the number of profits
it sizes by and in the breakers, the others are pending. `settle` books them in
the order of their exits, so that the breaker that remains of a side is that of
its last loss; this is an induction over the number of trades that are ripe.
`MarginHolds` is arithmetic about the size the two caps leave.

*Parity.* The loop and the engine compute an entry from the same candles but for two
readings of a market that stands still: the engine's RSI is 100 where the loop's is
50, and its ADX has no value where the loop counts no candle. `DirectionSame` and
`AdxSame` show that neither matters. A Wilder average of movements is 0 only if
every movement was (`WilderNone`); then the price is constant, both averages of it
are that price (`EmaOfSame`), and whatever the RSI the direction is neutral. A sum
of true ranges is 0 only if all were (`ForgettingNone`), so the loop counts too few
candles for an ADX as well. `DecisionIs` then writes the loop's decision in the
engine's features, for candles that end together and series no longer than `Hist`.
Assumed: the periods of RSI and ADX are at least 2, and the engine's `vol_guard`,
which the loop does not have, is off. The port of the core follows because a higher
threshold asks for more (`LowerThreshold`).

**Legs.** The invariant is `LegsInv`: the bars are well-formed hours (`Hourly`), and
what is reported is `Reports` of them. The rest is about functions of a series, so
the theorems hold for all configurations and lengths and need no more of a bar than
positive prices and an open and a close inside its range.

*Before the last bar.* `CausalLegs` compares the reports on a series with those on
one bar more, and those on two series that differ in the last bar. `Causal` states
both for one simulator, and every simulator has its lemma. H1, H3, H6 and H7 hold
one trade at a time: if two series share the bars up to h, their signals are the
same before h, and a trade either ends before h in both, alike, or in neither
(`SameTrade`); then the lists of trades agree up to the one that is open. Below it
are lemmas that a score, an average, an event and a funding rank at bar i read the
bars up to i. The loops of H2, H4 and H5 carry a state: on shared bars the states
are equal (`PairStatesSame`, `RatioStatesSame`), and one bar more adds at most one
trade, so that what must be shown is what the last bar of a series, where an open
position is closed by force, does differently.

*Training.* The state after bar `Split` + 1 is computed from the bars up to there;
the one place that reads further is the bar an order is filled on, and `FillBar`
keeps it inside. `choose_ratio` is a function of the trades alone.

*Two loops.* The grid and the grid marked to the market run in step (`Booked`): the
same grid while it is open (a close that was decided outlives the grid only in the
second), realised profit equal to that of the cycles, a peak no lower and a drawdown
no smaller than those of their book: at the bar a cycle ends both have the same
equity, and the second has marked all the bars between. A rebound trade and the
trade of H1's mirror end on the same bar, since a bar that opens beyond a level also
reaches it with its low or high; there H1 fills at such an open and H7 at the level,
and at a stop the difference is the gap that H7 notes (`ReboundAgrees`).

*Calm.* After each bar of `run_pair` the last trade, if it blocked its direction,
blocks it still or the score was calm since it ended (`CalmInv`).

**Induction.** The library's induction theorems take an operator as a parameter,
which the installed provers cannot instantiate. Where a proof needs induction over
data - a sum over a finite set, the trades to settle, the pages to read, the rows
of an answer - it is by the least counterexample: the set of numbers for which the claim fails, a definition of
its own, has a least member if it has any. `Sums` does this for sums
(`SumAdd`: a new element adds its value), once for all modules.

**Only model-checked.**
* Liveness (`PatientEnds`, `FillsAreBooked`, `ChaseReachesAsk`, `CloseAllReaches`,
  `ClosesAreServed`): the installed provers know neither fairness nor `ENABLED`.
* The two documented claims the runs refute (section 5).

Every other property of a run is a theorem: every invariant and every action
property.

## 7. Abstractions and what is not modelled

* An order's age is `fresh`, `due` (its stage wait is over) or `overdue` (its
  deadline is over) instead of milliseconds; `Elapse` may move it at any time.
  An urgent order has no deadline. The clock of a closed row is reset.
* `orders.urgent` is the stage `urgent` of an active row: the code sets both
  together and no urgent row ever changes stage while active.
* "Positions unavailable" answers, failed polls, failed cancels and crashes
  spend one shared budget, `MaxFaults`.
* `GiveUp` cancels and records in one action. A crash between the two is the
  same as the exchange ending the order by itself (`Kill`).
* In OrderExec profit, fees and margin are left out; they are in Account, Exits and
  Replay. A "known order missing" answer only pages the operator and is a stutter.
* `sweep_unlinked` finds nothing: every row has a link id from its insertion.
* PaperExecutor answers every call at once with a complete fill: in Exits that is
  `live = FALSE`; its histories in OrderExec are those without faults.
* Whether a cooldown of n windows is over exactly n windows after a fire depends
  on the seconds of both fires, so in EntryWindow both can happen there.
* In Advisor a tick has one time, where the code reads the clock in `main` and
  again in `tick`; a call that fails in the model or in the database is one kind
  of failure; `--once` beside the running process is left out.
* Prices, averages and profits are integers times a scale; a mean rounds down
  where the code's is a float, that of a movement up, since a float that has
  forgotten most of a movement is small and not 0. Volatility is compared as its square, returns as
  products. Ratios in Legs stand for their logarithm, fees are one number, and a
  quantity bought rounds up, so that a fill is never of nothing.

**Facts of the code the properties leave room for.**

*Advisor.* The four inputs whose lack lets an entry through are part of
`MissingInputs` (section 4). The kill switch is not sticky. When the budget is used up
by other closes, a degraded tick closes something else than the complete one, so
eligibility is what is compared. `format_tg` tells the human to close profitable
positions that are unconfirmed, and ids that are not in the book. The closed results
that the loss guard looks at exclude those closed by trail or by hand. `chg_24h or 99`
treats a change of exactly 0 as a rise.

*Client and status.* `get_open_orders_all` sees at most 50 orders. The chart cache
ignores the number of candles asked for.

*Gates.* The engine counts missing readings in its warm-up, and with exactly seven
days of bars the loop takes a 7-day return of 0 where the engine has none. The RSI
of a flat market is 50 live and 100 in the engine; the ADX is undefined there if
the range is 0. `jony_core` uses ETH's gates for BTC's puts and scales a size after
the minimum with the free margin, the loop before it. Live looks at the breaker and
then consumes the cooldown, the backtest the other way round.

*Legs.* In H6 and H7 a stop fills at its price even through a gap. The scores on
the training part of H1, H3, H5, H6 and H7 can see bars of the holdout through the
one trade that straddles the border, although the output says "sweep on TRAIN only";
`TrainUnmoved` is about H2 and H4. H3's exit at the middle ignores a stop on the
next bar. H2 drops a position opened on the signal of the last bar.

**Not modelled.** The alert about a stale advisor and the chart cache of the loop;
`live_preflight`, which runs before the loop; the read-only endpoints of the API
and the reporting queries; notifications, prompts and the wording of every message
(they keep no state and nothing reads them); the diagnostics ladder of the status
page and the weights of the gauge below 100 %; parsing of the exchange's answers;
sweeps, downloads and reports around the simulators, H3b (the engine of H3) and
the choice of a plateau in H3b, H5 and H7.

## 8. Plan

Written, in this order: OrderExec with PositionLedger (the core: money is lost
here first), its proofs, PriceLadder, OperatorControl, EntryWindow, Advisor;
Account and Exits, the functions of the advisor, the client, the gates and the
simulators; the proofs of PriceLadder, OperatorControl, EntryWindow, Exits,
Advisor, of the ledger refinement, of Backtest, of the client and of Legs.

What is left:

1. **Account** - theorems about the rest of its rules: caps that shrink with what
   is open, a trail that never gives back more than its share.
2. **OrderExec with controls** - pause and close-all while an open is in flight:
   the order fills afterwards and the paused bot holds a new position
   (`api.py:217`).
3. **Advisor and OperatorControl** composed: requests the loop has not served
   when the next tick decides.
