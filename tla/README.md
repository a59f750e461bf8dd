# TouchPadel: a TLA+ model of the till, the courts and the money

TouchPadel runs a padel club: guests book courts from a phone and pay deposits
online, the desk sells, seats and settles from an Electron till, the kitchen
cooks from a display, and one Postgres database (Supabase) holds all of it. Most
state changes are single `app.*` database functions, called over HTTP and
serialised by row locks. What is hard is what lies around and between them: the
till must keep selling with no network, so every sale is first written to a
local queue and *replayed* later by a process that may be killed at any
statement; a guest's money is taken by a bank whose answers come late, twice or
never; and a clerk settles a tab while another closes the day.

Four specifications model this, one for each of those places:

* `WritePath`: a write from the till's queue to the database and back;
* `OfflineTabs`: what the cashier sees of it, a tab opened and paid offline;
* `CourtBooking`: courts, holds and online deposits;
* `TabMoney`: tabs, settlement, refunds, till shifts and the close of a day.

TLC checks each on a small instance, and TLAPS proves what they claim for every
instance, liveness excepted. They meet only through the calls one makes to another:
`WritePath` says what becomes of an RPC that is sent again, `TabMoney` and
`CourtBooking` what an RPC does beside others.

Paths below are relative to the repository root (`apps/...`, `packages/...`).

## 1. The system's parts

**Till outbox** (`apps/operator-shell/src/main/queue.ts`). State: the SQLite
table `mutation_queue`, a row per write with its `seq`, `idempotency_key`,
encrypted payload and `state` (`pending`, `inflight`, `acked`, `conflict`,
`failed`, `resolved`). Operations: `enqueue`, `peekNext` (which also parks rows
that no longer decrypt), `markInflight`, `releaseToPending`, `markConflict`,
`markFailed`, `ack`, `resolveRow`. Each is one committed statement (WAL,
`synchronous = FULL`). Hard: all but `resolveRow` select by key alone, so what
keeps a done row done is the control flow of the caller. Correct when no row is
lost, done rows are final, and rows go out strictly by `seq`.

**Sync worker and staff session** (`sync-worker.ts`, `auth-state.ts`, the IPC
handlers of `index.ts`). State, all of it in memory: the session last pushed by
the renderer, the token replay refused, the running drain, the awaited POST, the
backoff, the failure count, the 401 pause, the "upload blocked" flag.
Operations: a 3 s tick, kicks on enqueue and on a new session, the drain loop,
one branch per class of answer, `stop()`, boot. Hard: session pushes, kicks and
answers cross at the one `await` of the loop; the process dies anywhere. Correct
when a queued write is always judged in the end, a refused session is visible,
and no failure starts a storm of retries.

**Replay edge function** (`packages/db/supabase/functions/replay/index.ts` with
`_shared/http.ts`). No state of its own; per request it reads the caller, the
staff rows, `sync_replays`, a referenced tab or order, the station, a manager
PIN, then calls one RPC as the caller, inserts the outcome into `sync_replays`
and answers. Hard: requests for one key overlap when the till has given up on
the first; the isolate can die between the commit and the record; an error
before the record and one after it look alike. Correct when an answer is the
truth about the database and the order of the till is kept.

**RPC idempotency** (`app.claim_replay`/`finish_replay`, `app.queued_rpc`, unique
keys, "already there" tests, status guards). Different RPCs recognise a repeat
in different ways, two kinds of them not at all, and one only until somebody takes
the first attempt back; see *Kinds of RPC* below.

**Renderer write path** (`apps/operator/src/lib/mutate.ts`, `queueResults.ts`,
`offlineTabs.ts`, `features/till/OfflineTabPanel.tsx`). State: a waiter, for eight
seconds, per call; the entries of tabs opened offline, in `localStorage`.
Operations: `mutate()` enqueues and waits; an answer in the wait goes to the
caller, a later one to the entry that carries its key; a refused payment comes
back to be taken again, or is set aside by a manager. Hard: an answer arrives as
the wait ends; the open of a tab is answered while its payment waits; the
renderer's process dies and a result, sent once, is gone. Correct when a payment
the cashier took is in sight until it is answered, and the guest pays once.

**Court booking** (`hold_slot`, `confirm_booking`, `release_hold`,
`expire_stale_holds`, staff create, move, extend, cancel and mark). State: the
`reservations` table under an exclusion constraint, the gender hours a trigger
guards it by, and the clock. Hard: a hold
lapses by the clock between a sweep, a confirm and a competing hold, each judging
it by the `now()` of a transaction that then waited for a lock. Correct when no
two live reservations overlap, and a booking once confirmed never lapses.

**Online deposits** (`deposit_prepare`, `deposit_apply`, `deposit_settle_success`,
the sweeps, refund RPCs, and the edge functions that talk to Qi, the bank's
gateway). State: `booking_payments`, and at Qi what the guest did there. Hard:
webhook, poll and reconciler apply answers late, repeatedly and in any order; an
attempt written off here is paid there; a refund request is sent and nobody hears
what became of it. Correct when money Qi took is a booking's deposit or on its way
back, and goes back once.

**Tabs and money** (`open_tab`, `till_add_items`, `settle_tab`, `refund`,
`void_after_send`, `apply_discount`, `merge_tabs`, till shifts, `close_day`).
State: days, shifts, tabs, lines, discounts, payments, refunds. Hard: each reads
sums the others change, under row locks taken one after another; `close_day` looks
for open tabs and adds up payments it has not locked. Correct when closed figures
stay true, no tab is overpaid, and no calls wait for each other.

**Manager PIN grants** (`verify_manager_pin`, `consume_pin_grant`): a PIN buys one
act. Hard: two calls look for the same grant; an act fails after it took one.

**Heartbeat and degraded mode**, **LAN kitchen display** (`lan-kds-server.ts`: ring,
snapshot, acks, bumps over a reconnecting socket), **the realtime channel**
(`packages/core/src/net/resilientChannel.ts`), **open matches**, **tournaments**,
**coaching**, **loyalty**, **stock**: not modelled; their interactions are named in
`PROJECT.json`.

**Screens** (operator, mobile, web), UI library, 3D court, i18n, printing,
updater, assistant and analytics: presentation or calls to outside services;
not modelled, and not planned.

How they meet: renderer -IPC-> outbox <-statements- worker -HTTP-> replay
function -RPC-> database; the renderer pushes the session to the worker; the
worker reports results and the blocked flag back; the heartbeat reports the
queue depth to the database, which day close and booking read. Guests and desk
call the booking RPCs directly; cron calls the sweeps; Qi calls the deposit
webhook and is asked by the poll and the reconciler.

## 2. Modules

| Module | Models | State |
|---|---|---|
| `WriteIds` | the names both sides share: writes (by `seq`, standing for the key as well), access tokens and whom they sign in | constants only |
| `TillQueue` | `queue.ts`, one operator per SQL statement | `row`, `readable` |
| `SyncWorker` | `sync-worker.ts`, `auth-state.ts` and the IPC handlers that reach them; also a specification by itself, with *any* answer at any time | `up`, `current`, `rejected`, `draining`, `post`, `postToken`, `backingOff`, `failures`, `pausedOnAuth`, `unreachable` |
| `ReplayServer` | the replay function as interleaved handlers, and how its RPCs recognise a repeat | `pc`, `key`, `token`, `out`; `replays`, `holder`, `effects`, `after`; `expired`, `recalled` |
| `WritePath` | the three composed: an HTTP request joins a drain to a handler | all of the above and `conn` |
| `DurableWrites` | the promise: five actions over what the till shows of a write and how often it took effect | `state`, `times` |
| `OfflineTabs` | the renderer's calls, waits and results, and the entry of one offline tab | `row`, `call`, `inbox`, `entry`, `pane`, `loaded`; history `crashes`, `heard`, `left` |
| `CourtRows` | the reservations table, its overlaps, lapsed holds, gender hours, the clock | `clock`, `res`, `ruled` |
| `OnlineDeposits` | `booking_payments`, the deposit functions, and Qi | `pay`, `bank`, `wire`, `back`, `cash` |
| `CourtBooking` | the booking RPCs and sweeps, with the deposits | all of the above |
| `DepositPromise` | the promise: where a guest's money is, and whether it bought a booking | `money`, `booked` |
| `TillRows` | days, shifts, tabs, lines, discounts, payments, refunds, grants, and the sums over them | a variable per table |
| `TabMoney` | the RPCs on them, lock by lock | the rows, `tx`, `locks` |
| `SyncWorkerProofs`, `WritePathProofs`, `OfflineTabsProofs`, `CourtBookingProofs`, `TabMoneyProofs` | the proofs about each | |
| `SumTheorems` | what a sum over a finite set is, for every function and set | |
| `TabBillProofs`, `TabLockProofs` | the proofs about the bills of `TabMoney`, and about its locks | |
| `MCSyncWorker`, `MCWritePath`, `MCOfflineTabs`, `MCCourtBooking`, `MCTabMoney` | values for the constants | |

### The write path

**Steps.** A till action is one handler of the single-threaded process, up to
the next `await`. Between the start of a drain and its POST nothing else is
scheduled, which `InDrain` (draining, no POST awaited) expresses: no `Handler` is
enabled then, but `PowerCut` is, after every statement. A server action is the
stretch between two awaited reads or writes of one handler; an RPC is one
transaction, hence one step, except `settle_tab`, whose key is read before the
tab is locked (`ReadKey`, `RunLocked`).

**Code to action.** `peekNext` loops over unreadable heads: `ParkHead` is one
turn, `Send` the turn that returns a row. `Hear*` are the branches of
`replayOne` after the `await`, each with every state change of its branch: the
health counters, the refused token, the row. `HearRetry` with `conn` cleared is
also the deadline and the network error. `Stop` releases the row of the aborted
POST, `PowerCut` leaves it `inflight`; `peekNext` selects both states, which is
the crash recovery. `Boot` sets nothing else because `loseMemory` has cleared it.
In `ReplayServer` a handler goes `sent` -> `known` (caller accepted) -> `new` (no
stored result, parent present) -> `cleared` (station and PIN) -> `recording` (the
RPC returned or refused) -> `answered`; any step may instead answer, as the early
returns do. `Record` is the `sync_replays` insert with its 23505 branch, and
`AnswersFor` is `mapPgError`: a refusal may be a 409, another 4xx, or a 500 that
was nevertheless recorded.

**Kinds of RPC.** `claimed`: the key is settled inside the transaction (most
RPCs). `checked`: the key is read before the lock (`settle_tab`,
`staff_create_reservation`, `open_tab` with a reservation; the runs have
`settle_tab`). `stated`: the target already being there answers *duplicate*, and
nobody takes it back (a ticket set to preparing or ready, waiter calls,
`void_after_send`). `recallable`: the same, but a cook may take it back: a ticket
set to completed, which `recall_ticket` sets to ready again (`Recall`). `guarded`: a
second attempt is refused (cancel, mark). `absolute`: the target is written again
(move, extend). Keys belong to the session that claimed them (`holder`).

**Abstracted.** Payloads and their mapping to RPC arguments; what an RPC decides
from the rest of the database (a taken slot, a closed tab, a wrong PIN) is a free
choice of committing or refusing; the key is identified with the `seq` (the
column is UNIQUE); backoff durations are one flag with an expiry action; the
failure count saturates at 2, the only threshold read; `effects` saturates at 2;
a conflict and a failure stay apart only where the code treats them apart.
`after` is a history variable: the writes already in effect when one first took
effect.

### The offline tab

The renderer runs one task at a time, and what a promise continues with runs at
the end of the task that resolved it. So hearing a message, or the timer of a
wait, is one step together with everything behind it: both subscribers of the
result (`dispatchResult`, then the retirement of entries, in the order `main.tsx`
mounts them), the caller of `mutate()`, and the screen's call on the registry.

`enqueue(w)` is the call as main sees it: the row is on disk and the reply is on
its way, while the renderer still waits for it (`asked`). `HearQueued` sets the
waiter, `TimeOut` ends it: only then is the tab added, the lines appended or the
payment marked. `HearOpen`, `HearLines` and `HearSettle` are a result, in the wait
or later. `inbox` is the ordered channel from main; the verdicts come from `Judge`,
which stands for the whole of `WritePath`: any verdict on the head of the queue
that the server can give (`MayAck`: nothing lands on a tab that is not there, no
second payment on a settled tab). `Crash` is the renderer's process alone: main
reloads the page, `localStorage` and the queue survive, waiters and messages do
not. A crash of the whole station is one in which, in addition, verdicts do not
come until `Boot`; nothing here depends on when they come.

The tab's entries never touch each other, so there is one. `Payable`, `Retryable`
and `Busy` are the conditions under which the panel's buttons can be pressed.
`StartPay` opens the payment pane (the confirmation of unsent lines before it is part
of it), `SettleOffline` confirms it without another look at the entry, and it stays
open when the payment is refused in its wait; it closes with `CancelPay`, with a
payment that is queued or acked, and with the panel when the entry goes. No pane is
closed over a running call, and nothing behind it can be pressed. Two history variables name
the cases the properties except: `left`, the payments whose tab left the registry
under them, and the call state `cut`, a payment enqueued but not yet marked when
the process died.

### Courts and deposits

`now()` is the time a transaction started. One that waited for the court's lock
works with a time already past; `Began` is the set of times the next transaction
to run may have started at. Once it has its locks, an RPC is one step. The clock
is even, what the server adds to it (the ends of holds and deadlines) is odd, so
no instant is on a deadline.

A lapsed hold stays `pending` until somebody expires it: the sweep
(`CronSweep`), or an RPC that needs the slot, each with its own `now()`.
`reservations_gender_guard` is a trigger on inserts and on changes of place, guest
or kind, not of status. `ruled` is the set of places the gender hours now keep from
the guests of the instance, who share one gender; `Manage` saves a card of `Cards`.
Where the row of a guest comes to be a hold or a booking, `~Barred` is a guard of the
action: the raise undoes the whole call, in `ApplySuccess` also everything else
`deposit_apply` had done.

`CronSweep` also takes the set of payments its snapshot did not see. `MaxRows + p`
is the row a late payment `p` may book its slot again with.

`bank[p]` is the set of answers Qi could give about payment `p`; `ApplySuccess`,
`ApplyFailed` and the others apply one of them, at any later time, any number of
times, whichever of webhook, poll and reconciler heard it. `QiCreates` without
`MarkCreated` is the create call that died half-way. `wire`, `back` and `cash`
follow a refund: the request Qi may still act on, those it has paid out, and what
a manager handed over at the desk.

### Tabs and money

An RPC that holds a lock while it waits for another, or reads what it has not
locked, is a *call*: a clerk's session asks for its locks in the order of `Plan`,
keeps them to its end, reads the rest unlocked in between (one READ COMMITTED
snapshot a statement), and writes when it commits. These are `settle_tab`,
`refund`, `void_after_send`, `merge_tabs` and `close_day`. The others take all their
locks and then write (two-phase), so one step at the moment they commit is
equivalent; they need their rows free. `open_tab` and `till_add_items` hold the
day FOR SHARE before the tab, which can close no cycle: only `close_day` asks for
the day exclusively, and it holds nothing before.

In `settle_tab` the lock on the day comes last and unasked for: it is the FOR KEY
SHARE that the foreign key `payments.day_session_id` takes when the row is
inserted (`key`), and it waits for a `close_day` that holds the day.
`ClosePlan` is day, look for open tabs, shifts, sums: the order between the look
and the shifts is what keeps `close_day` and `settle_tab` from waiting for each
other. `Stamp` is the total written on a settled tab; `Sum` keeps sums as the sets
of rows they add up, `took` and `gave`.

A grant is taken FOR UPDATE SKIP LOCKED (`Newest`), spent at the commit and
returned by a rollback. One station and one manager are modelled: shifts of
different stations and grants of different managers do not meet.

## 3. Properties

Of the worker alone, under any answer:

* `InflightIsHead`: an inflight row is the lowest open row, also one a crash left
  behind, and the awaited POST's row is inflight.
* `DoneStaysDone`: no UPDATE, although it selects by key alone, changes a row
  that is acked or resolved, or takes a refused one anywhere but to resolved.
* `RefusedSessionReadsBlocked`: while the session at hand is the one replay
  refused, the till shows uploads as blocked.
* `NoDrainWhileBackingOff`: no row is sent inside the backoff window, although a
  kick clears the window while a POST is out.
* `EveryWriteJudged` (liveness): every queued write ends acked, refused or
  dismissed.

Of the whole path:

* `AckTruthful`, `AckAgreesWithRecord`: an acked write is in effect, and the
  server's record says so.
* `AppliedAtMostOnce`: no retry, overlap or restart applies a write twice, the bump
  of a ticket that a cook brought back since excepted (section 6).
* `AckedInOrder`: an acked write took effect before every later one.
* `OrphanIsCascade`: a write is refused for a missing parent only when the
  parent's own row was refused.
* `RefusalTruthful`: with one attempt at a time, a refused row never took effect.
* `OnlyExpiredTokensRefused`: only an expired token is given up, also when its 401
  comes after a newer one was pushed.
* `ImplementsDurableWrites`, `ImplementsTruthfully`: the path refines
  `DurableWrites`, with the till's row states mapped by `Shown` and `effects` as
  `times`. `Truthful = FALSE` allows a write to take effect after its refusal,
  `TRUE` does not.
* `ResendIsSafe`, `SuccessClearsBlocked`: what comments and tests say and the
  code does not do; section 6.

Of the offline tab:

* `PaymentIsKept`: a payment the cashier was told is queued, and has no answer
  for, is on the plan under its key, or its entry waits behind the server's tab.
* `RefusedPaymentReturns`: when it is refused, the step that hears so puts the tab
  back on the plan with that refusal, under that key.
* `GuestPaysOnce`: over all retries, refusals and restarts, one payment of a tab
  at most is not refused.
* `PaymentComesToRest` (liveness): no payment waits on the plan for ever, unless
  its answer was lost with the renderer.

Each of them excepts a case in which the code does otherwise than its comments
say: section 6.

Of courts and deposits:

* `NoOverlap`: no two live reservations of a court overlap.
* `ConfirmedStays`: a confirmed booking never lapses, whichever sweep judged it
  while it was a hold.
* `SlotIsWaitedFor`: no hold is expired before the deadline of its open attempt.
* `HoldCap`: no guest has more unpaid live holds than the cap, though it is counted
  at a `now()` already past.
* `PaidIsBooked`, `PaidOnce`: a deposit counts as paid only if Qi took it and its
  guest has the booking, and one attempt per booking at most is kept.
* `ReturnedOnce`: over the gateway and by hand, a deposit goes back once at most,
  and the books say refunded only when it did.
* `KeepsItsPromise`: booking and deposits refine `DepositPromise`: money moves only
  from the guest to the bank, to the venue with a booking, to owed, to returned.
* `PaidIsSettled` (liveness): money Qi took becomes a deposit, is given back, or is
  put before the manager, if no gender rule stands in its way for ever (`HeldUp`,
  section 6).
* `SlotComesBack` (liveness): no slot is held for ever.

Of tabs and money:

* `NothingOpenOnClosedDay`: no unpaid tab or open shift on a closed day, though
  `close_day` looks for open tabs without locking them.
* `ClosedDayBalances`, `ClosedShiftBalances`: the figures a closed day and a closed
  shift keep are the payments and refunds that carry their mark, for good.
* `NeverOverpaid`: no tab has more money on it than its bill, and no payment more
  refunded than it took.
* `SettledIsPaid`: the total stamped on a settled tab is its bill for good, and was
  paid.
* `OneGrantOneAct`: one PIN stands behind one act at most.
* `NoWaitCycle`: no calls wait for each other.

Each specification has one type invariant besides. That of `OfflineTabs`,
`OfflineTypeOK`, is proved (`OfflineTyped`) and is in no run.

## 4. Runs and bounds

| Run | Instance | Shows |
|---|---|---|
| `worker` | 3 rows, 2 tokens, any answers | the five worker properties |
| `path_serial` | 2 rows (a guarded tab opener, an absolute write that names it), 2 cashiers, 1 handler, token expiry, lost requests and answers, deadlines, crashes | with one attempt at a time, refusals are true and every write is judged, even for RPCs with no key |
| `path_order` | 2 unrelated rows (claimed, stated), 2 handlers, failing records, dying isolates | order and the abstract promise while attempts overlap |
| `path_cascade` | 2 rows, a claimed order and the bump of its ticket (recallable), which names it by key, 2 handlers, dying isolates, lost OS key, a cook who recalls | an orphan is always the end of a cascade |
| `path_race` | 1 checked row, 2 handlers, 2 cashiers, expiry, auth outage, deactivated staff, retired station, dying isolates | the race of two attempts at one settlement |
| `offline_tabs` | 3 payments, 2 deaths of the renderer | the four properties of the offline tab (112,467 states) |
| `booking` | 1 guest and the desk, 3 overlapping places on a court, 2 reservations and 2 payments, 3 time units, gender hours on two of the places | the eleven properties of courts and deposits (354,734 states, three minutes) |
| `tab_money` | 2 sessions, 2 days, 2 tabs, one shift, one line, one discount, 2 payments, one refund, one grant | the eight properties of tabs and money (393,983 states) |
| `worker_late_401`, `path_colleague`, `path_overlap`, `path_reapplied` | the smallest instance that shows each finding | section 6 |

**The write path.** `MaxRows`, `Handlers`, `Tokens` and `Faults` are the only
bounds; nothing else is cut. Three rows let a parked row stand before and behind an open one; two are
enough for any property that relates an earlier write with a later one, since
the queue treats a row only by its place relative to the head. Two handlers are
one zombie and its successor; a third is another zombie of the same or of an
earlier row and meets the same record. Two tokens are the one being refused and
its replacement (`Expire` keeps one good, standing for the endless supply of
refreshed ones). `Faults` turns off, per run, failures the property does not
survive by design, and each is on in some run. Symmetry over `Handlers` is used
only in runs of safety properties, and no property names a handler.

**The offline tab.** `MaxPays = 3`: one payment refused, one taken again and one
more, so that an answer to an older payment can meet the mark of a newer one.
`MaxCrashes = 2`: one before and one after a retry.

**Courts and deposits.** Three places, (3,5), (5,7) and (3,7) on one court, so that
some clash and some touch. Two payments on one hold are two attempts at one
deposit; with row `MaxRows + p` each can book again what it lost. Times are the
smallest that keep the order of the real ones: `Ttl = 1`, `Window = 1`, `Grace = 2`
(ten minutes after a deadline), `Lag = 2` (a wait outlives a hold),
`CancelWindow = 2`, `MaxClock = 6`. `MaxAttempts = 3`, `MaxHolds = 1`;
`MaxCancels = 1` and `MaxTries = 2` replace 3 and 10: each counts unheard answers
before a state change, and one before and one at the limit are enough. `LastStart`,
`MaxStarts`, `Followed` and `PaidRows` keep the instance small: rows and payments
begin by time 2, three together; one payment meets trouble or a refund; the
deposit is for the first row. `Cards` has one card besides none: it keeps the first
slot and the long one from the guest and leaves the second, so a hold may be caught
by a rule, moved out of it or into it. The second payment still races the first up to
SUCCESS. The desk's own bookings stand for a second guest's, whom the first guest's
slot can only be taken by.

**Tabs and money.** Two sessions are a cycle's least number, and the locks of a call
meet one other call's at a time; the property quantifies over sets of sessions, and
`NoWaitCycle` fails already at two for each swapped order. Two days let a refund and
a late payment cross a close; one shift, of either day, is enough for one to close
under a stamp (the theorems about shifts hold of any number); two tabs are a merge's; one line and one discount,
with a price of 2, let a void, a discount and a part payment each take a tab below
what was paid. `Clerks` and the shifts' station are symmetric and no property names
one.

Deadlock is checked in the runs of the write path; the other instances stop when
their clock or their rows are used up. The till can always be started, stopped or
signed in (`Boot`, `Stop`, `PushAuth`), so a state without a successor would be an
error of the model; that rows cannot be stuck is `EveryWriteJudged`.

## 5. Fairness

`WorkerFairness`: weak fairness of the timer, of the passing of the backoff, of
the POST's settling (its 20 s deadline guarantees it) and of starting the till
again. Strong fairness of the environment's good will: the renderer does sign in
again when replay has no session (supabase-js refreshes), a drain is not cut by
a power failure every time, the server does not answer 5xx for ever.

`PathFairness` replaces the last of these by the server itself: handlers run on
(weak fairness of `Serve`), awaited answers arrive or time out, and from some
moment on there is no `Trouble`: no lost request, unjudged error, dying isolate,
failing record, auth outage, premature deadline or till crash. That is an
assumption about the environment, not the code; the code's part is that nothing
it did *before* that moment can block a row afterwards.

`FairOfflineSpec`: the worker judges every write (`EveryWriteJudged` of the worker),
the renderer handles its messages, and the page is loaded again. The cashier is
free to do nothing, and the timers need no fairness.

`FairBookingSpec`: the clock goes on; cron runs the sweep (every minute), somebody
repeats a SUCCESS until it is taken (the webhook, the guest's poll, and the
reconciler for an attempt not yet written off; the call need not have waited or find
the venue degraded: neither a stale `now()` nor the refund of an offline venue is what
settles it), and the refund job sends what it owes and Qi does not call a refund
pending for ever. Guests, desk, manager and whatever
goes wrong are under no obligation. That nobody hands out cash for a refund Qi still
holds is the manager's check of Qi's dashboard, which the RPC's own note asks for.

`TabMoney` claims no liveness.

## 6. Findings

* **A late 401 leaves the till "blocked"** (`sync-worker.ts:291`). The fresh token
  is pushed while the POST with the old one is out; the 401 then sets the pause,
  and no later success lifts it. The queue drains, the screen says it does not.
  `sync-worker.test.ts:483` says otherwise.
* **A colleague's resend is refused** (`20260827000049_replay_idempotency.sql:87`).
  The write committed, its record did not, another cashier signs in:
  IDEMPOTENCY_CONFLICT is recorded as a permanent conflict.
* **Overlapping settlements** (`20261001000281_lesson_money.sql:897`). Two attempts
  miss the key; the second waits for the lock and is refused because the first
  one worked, and its refusal may be what is recorded.
* **Move and extend are written again** (`20261001000280_lesson_reservation_guards.sql:1593`)
  when the first attempt's record failed and its answer was lost:
  `replay/index.ts:595` relies on a key these two do not have.

Met while reading the write path, without a run of their own: cancel and mark refuse their own
repeat (the `guarded` kind; harmless while attempts are serial, as `path_serial`
shows). The early 400 and 403 answers of the replay function are final for the
till although nothing is recorded, where its header says every terminal outcome
is. A bump to completed is recognised by the ticket's status
(`20260903000061_kds_item_ready.sql:121`, "idempotent replay of a bump"): when its
record failed and its answer was lost, and a cook has brought the ticket back with
`recall_ticket` (`20261101000396_kds_recall_and_seen.sql:142`) before it is sent again,
the ticket is completed, and the order served, a second time, although
`replay/index.ts:219` calls `set_ticket_status` "transition-idempotent". This is the
exception in `AppliedAtMostOnce`; `path_reapplied` shows the same way for move. `getCallerUserId` returns null for any auth failure, so an auth outage makes
the till give up a good token (the fault `auth_unreachable`). The kitchen
server's `onResult` looks for `ticket_id` in the result body, not in its `echo`,
so it never finds one.

In the offline tab, where the properties except what the code does otherwise:

* *The open is answered while the payment waits* (`offlineTabs.ts:262`, the set
  `left`). The network returns as the guest pays; the ack of `tab.open` comes within
  the eight seconds the settle waits, when the entry is not yet marked, and removes
  it. A settle refused in its wait is then thrown to a panel no longer on the
  screen, and one that outlives it marks an entry that is gone: the payment is on no
  plan and its refusal reaches nobody but day close, which is what
  `offlineTabs.ts:31-36` says no longer happens.
* *The renderer dies between the enqueue and the mark* (`OfflineTabPanel.tsx:84`, the
  call state `cut`). The page comes back with a tab that is payable, and a second
  payment is queued. The server refuses it, since the first settled the tab; but the
  comment at line 210 says a settled tab is never offered Card or Cash again.
* *An answer is lost with the renderer* (`index.ts:1004`, `Lost`). Results are sent
  once. A settled entry whose ack was lost is on the plan for good: it has no button.
* *A refused open is paid* (`OfflineTabPanel.tsx:264`). The pane is drawn from its own
  state: one that was open when the refusal of the `tab.open` is heard can still be
  confirmed, and a payment is queued on a tab the server does not have, although the
  comment at line 212 says a refused open cannot be paid here. That payment is
  refused in turn, so nothing is counted twice.
* *A refusal set aside at Day close* leaves the entry of the till in its failure:
  `resolveRow` finds nothing to resolve any more, so the till's own button answers
  that the row cannot be resolved, and only another payment is left to press.

In courts and deposits: a gender rule can hold up money Qi took. The guest holds a
slot and pays; meanwhile a manager saves a rule that keeps the slot from the guest.
`deposit_settle_success` then turns the hold into a booking
(`20260929000258_match_tables.sql:773`), or books the slot again (`:793`), and
`reservations_gender_guard` (`20261019000353_court_gender_rules.sql:180`) raises; only an
exclusion violation is handled (`:804`). Every repeat of the SUCCESS aborts alike, so
the payment is neither a deposit nor refunded, nor put before the manager, until the
rule is lifted or the slot is over (then a repeat refunds it as `slot_lost`). The
reconciler repeats no attempt that was written off, so there it takes another webhook
or poll. `docs/design/payments/qi-deposit-plan-2026-09-20.md:11` promises "no dead
ends". This is `HeldUp`; without it `PaidIsSettled` does not hold. Also: a refund marked failed may have been paid out by Qi, and the
manager who pays cash must look there first. A move or an extension of a hold that
has lapsed expires the row itself and answers success. A second late SUCCESS on a
swept hold books the slot again although the guest cancelled the booking the first
one made. A `deposit_prepare` that waited for its locks can revive a lapsed hold. The
first loop of `deposits_due_for_reconcile`, its net for paid deposits whose booking is
gone, never has work, as `PaidIsBooked` shows.

In tabs and money: a refund, outside any till shift, of a payment of an earlier day
is dated by `close_day` to that day (`20261001000281_lesson_money.sql:1448`), which
is closed and keeps its figures; so no close ever counts it.
`docs/design/coaching/build-contracts-2026-10-01.md:76` says a refund is counted on
the day it is made. `CountedOn` is what the code does, and `ClosedDayBalances` says
of it that what a day does count is complete.

## 7. Proofs

`SyncWorkerProofs` proves about `WorkerSpec`, for every number of rows and every
set of tokens, from `MaxRowsAssumption` and `TokenAssumption` alone:

* `TypeCorrect`: `WorkerTypeOK`;
* `SentInOrder`: `InflightIsHead`;
* `RefusalIsVisible`: `RefusedSessionReadsBlocked`;
* `BackoffHolds`: `NoDrainWhileBackingOff`;
* `DoneIsFinal`: the action property `DoneStaysDone`.

The inductive invariant is `WorkerInv`: the type, `QueueInv` and `MemoryInv`.
`InflightIsHead` is not inductive by itself. An enqueued row is pending and must
not become a head in front of the inflight one, so rows must be handed out
without gaps (`Contiguous`); and a 401 gives up `postToken`, so the refused token
is a real one, and the pause holds, only if an awaited POST carries a token
(`MemoryInv`). `RefusedSessionReadsBlocked` rests on two facts no single handler
shows: a refused token implies the pause, because the listener lifts the pause
only for a push that clears the refusal, and the flag always equals the
condition it reports. `HeadCloses` and `OneHead` carry the queue argument;
`DoneIsFinal` follows because every key the loop writes to is the head or the
awaited row. Each lemma has one step per action.

`WritePathProofs` proves about `PathSpec`, for any writes, handlers, tokens and
staff, for every set of faults, every choice of `Parent` and `PinGated`, from the
two assumptions above and `ServerAssumption`:

* `PathTypeCorrect`: `PathTypeOK`;
* `PathImplementsWorker`: `PathSpec => WorkerSpec`, by which the five theorems
  above hold of the composed till too;
* `AckIsTrue`: `AckTruthful`, for every kind of RPC;
* `AppliedOnce`: `AppliedAtMostOnce`, assuming that no write is `absolute` (the run
  `path_reapplied` shows the assumption is needed); a recalled bump is excepted in the
  property itself, so the assumption does not exclude `recallable`;
* `AcksInOrder`: `AckedInOrder`, for every kind;
* `OrphansCascade`: `OrphanIsCascade`, for every kind;
* `AckedIsOnRecord`: `AckAgreesWithRecord`, assuming that recording does not fail
  (`"record_fails" \notin Faults`; where it fails, the till acks what only the
  write itself remembers, which is the way to `path_reapplied`);
* `KeepsThePromise`: the path implements `DurableWrites`, assuming that no write is
  `absolute` or `recallable`: `DurableWrites` lets no write take effect twice, and a
  recalled bump may;
* `OnlyExpiredAreRefused`: `OnlyExpiredTokensRefused`, assuming that the auth server
  can be reached (`"auth_unreachable" \notin Faults`: `getCallerUserId` answers null
  either way);
* `RefusalIsTrue` (`RefusalTruthful`), `ResendsAreSafe` (`ResendIsSafe`),
  `SerialAppliesOnce` (`AppliedAtMostOnce`) and `KeepsTheStrongPromise`
  (`ImplementsTruthfully`), for every kind of RPC, assuming `Serial`.

`Serial` is: no two attempts overlap (one handler), none is cut off between the
commit and its record (`die`, `record_fails`), the author or caller is not
deactivated under the queue (`staff_inactive` answers before the record is read),
and no row becomes unreadable (`KeyMayBeLost`). It is what the run `path_serial` sets,
and allows for expired tokens, an unreachable auth server, retired stations, wrong
PINs, lost requests and answers, deadlines and crashes of the till. The runs
`path_overlap`, `path_colleague` and `path_reapplied` violate each of these
properties without it. So the findings of section 6 are all there is between the
till's words and the strong promise.

The invariant is built in layers. `RequestInv` says what a request is: a handler
at work has a token, a verdict or an answer fits its step, and the handler the
till awaits carries the awaited row (`ConnOK`; without it an "ok" could ack another
row than the one applied). It is inductive by itself and makes every step of the
path a step of the worker, so the worker's invariant comes for free. `TruthInv`
follows the word "applied" from the RPC through the verdict, the record, the
answer and the row; the weak link would be the record, where the loser of a
23505 answers what the *other* attempt stored, hence the clause on `replays`.
`OrderInv` says that a request is sent, and a write is in effect, only behind
judged rows (`Behind`); it is what `AckedInOrder` lacks to be inductive, because a
zombie may commit when the till has long gone on, and it needs the worker's
`DoneStaysDone` argument: what was judged when the request left is still judged
when it lands. `OrphanInv` builds on it: a request is out only behind judged rows, so a
parent that is not in effect was refused, and stays so even when a zombie of its
own commits later. `RecordInv` needs that a record of success is never replaced
(`RecordStays`), which is what the 23505 branch is for. For the refinement, `StoreMoves` reduces every step to a commit,
a record or nothing, a commit is `TakesEffect`, and every other step is read off
what it does to one row. `TokenInv` ties the refused session to the one that was
sent: the handler the till awaits has `postToken`, so a 401 is of that token and of no
newer one, and an answer nobody awaits rejects nothing. `SerialInv` has two halves.
`StoreInv` is about the database: a handler past the look-up works on a write that is
not in effect (`Knows`), and a write in effect is on record or about to be
(`Remembered`), so the next attempt finds the record before any check can refuse it,
which is why even an RPC without a key is safe there. `RowInv` is about the till: an
attempt is made at an open row, also when the till no longer waits for it, so no
commit lands behind a row that was judged. For the strong promise `StepTruthful`
adds to each step of the weak one that no refusal is untrue after it.

`OfflineTabsProofs`, for every number of payments and crashes, from
`TabsAssumption`: `OfflineTyped` (`OfflineTypeOK`), `PaymentsAreKept`
(`PaymentIsKept`), `GuestsPayOnce` (`GuestPaysOnce`), `RefusedPaymentsReturn` (the
action property `RefusedPaymentReturns`). The invariant has two parts besides types.
`Inbox` says what a message on its way tells of the queue and of the call it answers:
the reply to a call precedes its result, and each write is answered once. `Ledger`
says where a payment is: with the call that waits for it (`OneWait`), with the entry
marked with its key (`OwedIsMarked`), or with nobody because the entry is gone
(`PaidIsSomewhere`). None of the properties is inductive alone: that no second
payment can be pressed needs that one in its wait keeps the panel busy, that one owed
is marked on the entry, that a pane is open over none (`PaneOwesNothing`: marking a
payment closes it), and that an answer of main to a manager finds nothing owed
(`ResolvingOwesNothing`).

`CourtBookingProofs`, for all guests, places, rows, payments and times, from
`RowsAssumption`, `DepositAssumption` and `BookingAssumption`: `BookingTyped`,
`CourtsAreExclusive` (`NoOverlap`), `PaidDepositsAreBooked` (`PaidIsBooked`),
`OneDepositKept` (`PaidOnce`), `DepositsReturnOnce` (`ReturnedOnce`),
`BookingsDoNotLapse` (`ConfirmedStays`) and `BookingKeepsItsPromise`
(`KeepsItsPromise`). The actions are first sorted by what they may do to the rows and
to the payments, four kinds in all, and the invariants are proved of the kinds.
`DepositInv` ties a succeeded payment to a booked row of its own guest, and what a
row's payments are to each other. `RefundInv` ties `wire`, `back` and `cash` to the
state of the payment: what is not yet out can go out only once. For the refinement
each step moves the money of one payment along an edge of `DepositPromise` (`Moves`),
or, cancelling, of all payments of a row, of which `OneDepositKept` leaves one.

`TabMoneyProofs`, for any number of sessions and rows, from `RowBounds`: `MoneyTyped`
(`MoneyTypeOK`), `NothingLeftOpen` (`NothingOpenOnClosedDay`), `DaysBalance`
(`ClosedDayBalances`), `ShiftsBalance` (`ClosedShiftBalances`) and `OnePinOneAct`
(`OneGrantOneAct`). The argument is the locks. `LocksFit` says that no two sessions
hold locks that clash; `Held` says what a call has learnt that a lock keeps true: a
`close_day` past its lock on the day (`Closing`) sees no new tab or payment on it
(`HoldsDay`), past its look there is no open tab, hence no call of `settle_tab`
beyond its own tab's lock that could still write; past the shifts none is open
(`HoldsShifts`); past the sums nothing it added up changes (`Added`). A stamp past
its shift has it locked (`HoldsStamp`). `GrantInv` says that a grant is in the hand of
one call, or spent on one act.

`CourtBookingProofs` proves two more, which relate the clocks of several transactions.
`PayersKeepTheSlot` (`SlotIsWaitedFor`) rests on `HoldsWait`: while a payment for a
hold is open, the hold's end is not before the payment's deadline, and as long as that
deadline is still to come the hold has not been expired. `deposit_prepare` stretches
the hold to the deadline and nothing shortens it (`HoldKept`); whoever expires a hold,
the sweep or an RPC that needs the slot, goes by a time that is not ahead of the
clock, or ends the payments open for it in the same step (`HoldLapses`). The proof does not
need the sweep's own wait for open payments: that adds the ten minutes of grace after
the deadline. Every action's effect on a row is sorted into a few fates (`RowFate`,
`EveryRowFate`), and so is its effect on a payment (`PayFate`). `HoldsAreCapped`
(`HoldCap`): what `hold_slot` counts at a `now()` already past includes all that is
live at the clock, and no other step adds an unpaid hold or prolongs one.

`TabBillProofs`, from `RowBounds`: `NoTabOverpaid` (`NeverOverpaid`) and
`SettledTabsPaid` (`SettledIsPaid`). `BillInv` adds to the invariant of
`TabMoneyProofs` that a payment is on a tab that was settled, wholly or in part
(`PaidTabs`), hence on none that is still `open`: a line, which only an open tab takes,
never meets money, while a void or a discount on a tab part paid must leave a bill that
covers the payments. That no refund exceeds its payment (`RefundsFit`)
holds because every refund locks the tab first. Each RPC then changes one bill, or one payment, whose row
it has locked; a merge moves two bills into one. The sums are
`SumFunctionOnSet` of the community modules. `SumTheorems` proves what they need,
first that the recursive definition behind it has a solution on every finite set: the
library's induction theorems take a predicate as an operator, which no prover here can
instantiate, so induction over a finite set is the choice of a smallest counterexample
(`SmallestMember`), from the first-order facts of the library. On it rest that a sum is
what is left and what is taken (`SumTake`), that it grows with the set and with the
function (`SumMonotone`), and that it does not depend on what it does not add
(`SumSame`).

`TabLockProofs`: `NoDeadlock` (`NoWaitCycle`), for any number of sessions. Each step of
a plan has a `Rank`: the day first, then tabs in the order of their numbers (the order
`merge_tabs` sorts its two by), then shifts, then the key lock of a payment on its day;
a call that asks for no lock ranks highest. A call that waits ranks below the one it waits for (`WaitsClimb`),
and of a set of calls one ranks highest (`Largest`): it waits for none of the others.
The one wait that could run down the ranks is `settle_tab`'s for the day that
`close_day` locked first: there it is the look for open tabs that keeps them apart, since a `settle_tab`
that has its tab makes `close_day` give up before it asks for a shift. `LockInv` says which
lock a call has from which step of its plan (`Earned`), and that it keeps its tabs
(`HoldsTabs`).

Only model-checked: the liveness properties `EveryWriteJudged`, `PaidIsSettled`,
`SlotComesBack` and `PaymentComesToRest` (proofs under fairness are beyond the
prover). Every invariant, action property and refinement that a passing run checks is
the statement of a theorem, under the assumptions named above.

## 8. Plan

What is left, in the order it would be worth doing:

1. What one specification takes from another, proved: that the verdicts `OfflineTabs`
   lets the worker give are those `DurableWrites` allows.
2. `LanKitchen`: the ring, snapshot and acks of the kitchen display, whose bumps the
   cloud's status may contradict.
3. `ResilientChannel`: close, resume and the retry timer against the removal of an
   old channel.
4. The heartbeat, composed with `TillQueue` and the guards of day close and booking
   that read it; the lockout of manager PINs and its offline cache.
5. Open matches and lesson enrolment, which share the locks of `CourtBooking`.

## 9. Not modelled

Of the write path: schema migrations and the caches of the till, the day-close
listing, payload validation, `manager_alerts`, request body limits, pruning of
`sync_replays` by age (`20261101000386_prune_jobs.sql:86`: `WritePath` has no clock; a
till off for longer than the retention would apply again what it sends).

Of the offline tab: discounts on it, entries of builds without `settleIdemKey`, the
pending marks of other screens (`pendingResults.ts`), the shop till's own payment step
(the same two functions, from a screen that stays), browser mode.

Of courts and deposits: a SUCCESS of the wrong amount, the strike ladder, prices and
opening hours, holds made at the desk, courts claimed by a match, deposits for lessons
and tickets, leases between the jobs that ask Qi, the sandbox, guests of different genders or of
none on file (the guests of an instance are all meant by a rule or none is) and the
guard on open matches (`matches_gender_guard`), idempotency keys of
guests (a repeated call is a second call here), and the choice of the court locks
themselves: an RPC's locks are taken to be those of the court it ends up on, which
the re-check after the lock ensures.

Of tabs and money: tender, change and the split of cash and card, price overrides,
lessons and tournaments on a tab, orders of guests and of the floor (as
`till_add_items`), the guard on unsynced writes and heartbeats, idempotency keys
(`ReplayServer` has them). The loop of `open_till_shift` that closes shifts left over
from another day is left out: `NothingOpenOnClosedDay` shows it has no work.

Everything else is listed as `not_modelled` in `PROJECT.json` with its reason. The
implementation the modules cover is a small share of the repository: most of it is
screens, translations, generated types and schema history, of which there is nothing
for a state machine to say, and of the state-changing code the modules take the parts
where several actors meet.
