# Raze in TLA+

Raze stands between a merchant and Razorpay. Webhooks are stored before they are
answered and worked off inside the merchant's own transactions; what a webhook
never said is found by asking Razorpay and put right under a fixed policy. These
modules model the parts of that where order, failure and concurrency matter, and
say what is checked of them and what is proved.

Paths below are those of the repository. Postgres (its row locks, READ COMMITTED,
its rollbacks) and Razorpay are external: they appear as far as the code relies on
them.

## 1. The system

| component (source) | state it keeps | operations | talks to | what is hard | modelled in |
|---|---|---|---|---|---|
| Protected runtime (`src/runtime`) | `raze_inbox`, `raze_subject_state`, `raze_expectations` | `middleware`, `expect`, `processOne`, `drain`, `startWorker`, `emit` | Razorpay's deliveries, the merchant's handlers, the outbox | several workers, rollback, redelivery, order of events, death at any step | `Contract`, `Runtime`, `RuntimeProofs` |
| Outbox (`src/outbox`) | `raze_outbox` | `deliverOne`, `drain`, `start` | senders the merchant registers | the claim is committed before the send; lost answers; deaths | `Outbox`, `OutboxProofs` |
| Unattended recovery (`src/loops`) | timers only; the rest is in tables | webhook, poll and reconcile routes, `handleDrift`, `applyThroughHandler` | reconciler, impact, policy, runtime, mapping, action record | three routes reach one payment at once; verdicts go stale between awaits; a payment may be off the page that is listed | `Recovery`, `RecoveryProofs`, `LoopTimers` |
| Policy (`src/policy`) | none | `decide` | called by recovery | order of the rules, text matching of a status | `Recovery` (`Tests`, `Decide`) |
| Action record (`src/actions`) | `raze_actions` | `record`, `acknowledge`, `since` | recovery, console | update-then-insert is not atomic | `Recovery` (`Refresh`, `Insert`, `Recover`, `Acknowledge`) |
| Merchant mapping (`src/mapping`) | the merchant's table | `compile`, `attach` | runs as the runtime's handler | the guard, rows that are not there | `Recovery` (`Writable`, `DrainApply`), `Standalone` |
| Reconciler (`src/reconcile`) | `lastWindowTo` in memory, `raze_reconcile_state`, `raze_reconcile_runs` | `runOnce`, `start`, `status` | Razorpay's lists, the inbox | windows, overlap, restart, partial failure, listing lag | `Reconciler`, `ReconcilerProofs`; what a pass queues also in `Recovery` |
| Expectation ledger (`src/ledger`) | `raze_expectations` | `lookup`, `sweepOnce`, `start` | Razorpay, the runtime's fulfilment | an answer that is old when it is written, or is no answer; a window of rows that never resolve | `Ledger`, `LedgerProofs` |
| Backfill and watch (`src/backfill-command.js`, `src/watch-command.js`) | none; `raze_expectations` | chunks over `runOnce`; one INSERT ... SELECT | reconciler, ledger | a failed chunk; orders that exist before they are watched | `Backfill`, `CommandProofs`, `Ledger` (`Watch`) |
| Impact (`src/impact`) | none | `fromRazorpay` | Razorpay, the merchant's table | one page of 100 payments, not followed by another | `Recovery` (`List`, `Unrecorded`, `LeavePage`) |
| MCP server (`src/mcp`) | plans in memory (`PENDING`) | propose, apply, simulate, health, watch | coding agents, console, inbox | tokens that expire, are taken twice or die; a drain beside the merchant's worker | `Approvals`, `ApprovalsProofs` |
| Web console (`src/web`) | `S`, `CONNECT`, `raze_setup`, `raze_console_state`, the tool client's resolvers | arm, setup by form or by conversation, boot, watchdog, tool calls, webhook | everything above | requests that do not wait for each other; what is kept three times; ids shared by several children | `Arming`, `LoopTimers`, `Onboarding`, `ToolClient`, `ConsoleProofs`; its webhook route in `Recovery` |
| MongoDB variant (`src/mongo`) | the merchant's documents | normalise, compile, attach | runs as the runtime's handler | no transaction spans both databases | `Mongo`, `CommandProofs` |
| Audit and health (`src/audit`, `src/health`) | none of its own | probes, reset, verdicts | the merchant's endpoint and database | wrong verdicts when the merchant is busy or a query fails; waits that give up; the reset | `Audit`, `CommandProofs` |
| Inference (`src/infer`), learning, patterns, explain | — | read rows and source text, score them | — | heuristics over data | `Standalone` (the shapes of mapping that infer derives) |
| Coding agents and tunnel (`src/agent`) | the merchant's file and its backup | repair, understand | models, child processes | a patch that does not help, a run that dies | `Repair`, `CommandProofs`, `Onboarding` (what understand says of the amount) |
| Command line (`src/fix-command.js`, `up-`, `setup-command.js`, ...) | `.env`, `.mcp.json` | fix, up, setup, scan, run, insights | all of them | late secrets, restarts, two names of one payment | `Repair`, `Standalone` |
| Storefront, demo and example merchants | the shop's tables | four ways of taking a webhook | the console, the audit | — | `Audit`, `Arming`, `Recovery` (`RowAppears`) |
| Database plumbing (`src/db.js`) | pool | `withTransaction`, `migrate` | Postgres | rollback | `Runtime` (`Rollback`) |

### How the parts interact

* A delivery reaches `middleware`, which stores one `raze_inbox` row per event id
  and only then answers 200. `processOne` (called by `startWorker`, by `drain`,
  and by every repair) picks a row, and in one transaction with the merchant's
  handler moves `raze_subject_state` and resolves `raze_expectations`.
* The merchant's handler may `emit` into `raze_outbox`, in the same transaction;
  the outbox's own drainers deliver later, outside any transaction.
* `src/loops` learns of captured money by three routes: the console's webhook,
  polling of open orders, and the reconciler followed by `impact`. Each puts a
  payment through `policy.decide`, writes an inbox row, calls `rz.drain()` - which
  takes *every* queued row, not only its own - and reads the merchant's table back
  before it records a recovery in `raze_actions`.
* The reconciler writes inbox rows too (`recon_<payment or refund id>`); the row's
  primary key is what makes overlapping windows and routes harmless.
* The ledger reads and resolves the same `raze_expectations` rows the runtime
  fulfils; `raze watch` adds rows for orders that are there already.
* The MCP server's apply queues a payment and drains the inbox with a runtime of its
  own, beside the merchant's worker. The console talks to the MCP server over one
  child's pipes, and replaces that child when setup rewrites `.mcp.json`.
* `raze up` is all of it in one process: endpoint, reconciler, worker and an
  inferred mapping instead of the merchant's handlers.

So three tables are shared by actors that do not wait for each other: `raze_inbox`
(endpoint, workers, three routes, reconciler), `raze_expectations` (merchant,
workers, sweeps) and the merchant's own table (handlers, the merchant's
application). That is where the properties are.

### What makes each part correct

* Runtime: an event ends in exactly one outcome, and its effect is committed with
  that outcome and never without it; a 200 means the event is durable; the recorded
  rank is the highest processed; nothing is set aside as stale without a reason; no
  deadlock; no event stays queued for ever.
* Outbox: at most `maxAttempts` copies; a delivered row was received, and stays
  delivered; every intent ends.
* Recovery: credit only what policy was shown and allowed; an order's credit is the
  sum of the repairs that changed it; a reported repair landed; a recorded refund
  wins; a captured payment that can be listed ends as a credit or as an open question.
* Ledger: a verdict has evidence; a payment in time is not named as lost, unless the
  answer about it was no answer; an overdue expectation is named.
* Reconciler: the watermark does not pass a settled record in silence.
* MCP server: a payment is credited once, whatever tokens were drawn for it.
* Console: a call gets the answer to it, or fails; what says it is armed has somebody
  on the port; quiet loops come back; loops that cannot check an amount ask.
* Audit: a verdict is right, also the second time and beside the merchant's own
  traffic, and what fails meanwhile is held against an integration, never for it. Repair: what the merchant wrote can be had back. Backfill: exit 0 means
  the span was asked about. `raze up`: a captured payment ends up in the merchant's row,
  where the table has room for it. MongoDB: the
  guard stands in for the transaction.

## 2. Plan

Done, in this order: `Contract`, `Runtime` and the refinement; `Outbox`; `Recovery`;
`Ledger`; `Reconciler`, each with its proofs; then the parts around the protocol,
`Approvals` first, with `MCConsole` to check them; then proofs of every safety
property the runs check (`CommandProofs` and `ConsoleProofs` for the parts in
`MCConsole`).

Open, most important first:

1. The shop's own confirmation route beside the recovery (`Recovery` has the
   merchant's rows appear and be refunded, not be marked paid by the shop).
2. The order of rows inside one drain of `Approvals` and `Recovery`, which is left
   open there (any row may be next).
3. Proofs: `LoopTimers` and `Standalone` have liveness properties only; the safety
   their arguments rest on (who may clear `handle`; which rows `raze up` may still
   write) is not stated yet.
4. `raze_simulate_*` and `raze_propose_mapping` of the MCP server.

Abstract specifications: `Contract` is the one stated. A second one worth having is
"a payment is unrecorded, credited or asked about" over `Recovery`; today it is
`SettledOrTold`.

## 3. Modules and the code

### Contract

`outcome[e]` is what the inbox says of event `e`; `effects[e]` counts committed
runs of the merchant's handler. `Accept`, `Settle`, `Park`: the event is stored;
it is resolved, with its effect if and only if the resolution is `applied`; it is
given up. No workers, locks, retries or crashes.

### Runtime (`src/runtime/index.js`, migrations 001 and 002)

| model | code |
|---|---|
| `wire[d]` | a delivery's request and what was answered |
| `inbox[e]` | `raze_inbox`: `state` is `processed_at` with `resolution`, `attention` is `needs_attention`, `due` is `next_attempt_at <= now()` |
| `subject[s]` | `raze_subject_state`; rank 0 stands for no row |
| `expectation[s]` | the order's `raze_expectations` row |
| `tx[w]` | one `processOne()`: its pc, the event it picked, whether it holds the subject row |
| `effects[e]` | committed handler runs |

`Refuse`, `Store`, `Acknowledge`, `CrashEndpoint` are the request path; `Pick`,
`PassRank` / `IgnoreStale`, `RunHandler` / `HandlerThrows`, `Commit`,
`RecordFailure` are `processOne` cut where another worker can see or block it;
`BreakDeadlock` is Postgres choosing a victim; `BackoffEnds` is time;
`CrashWorker` loses a transaction, or the failure UPDATE that was still owed.
`SELECT ... FOR UPDATE` on a row that is not there locks nothing (`MustLock`), which
is what two workers can slip through. The steps' guards have names (`MayTest`,
`MayHandle`, `MayAbort`, `MayCommit`, `MayRecord`), of which `NoStall` is made.

### Outbox (`src/outbox/index.js`, `emit`)

`row[k]` is the `raze_outbox` row of idempotency key `k`, `drainer[d]` a
`deliverOne()` in flight, `received[k]` what the receiver got. `Claim` commits by
itself, as the code's autocommitted UPDATE does; `Send` has the three ways a sender
ends (received and answered, received and lost, not received); `Confirm`,
`ConfirmFails`, `Postpone`, `NoSender` are the UPDATEs that follow; `Abandon` is a
death or a failed query. The order in which due rows are taken is the code's
`ORDER BY`.

### Recovery (`src/loops`, `src/policy`, `src/mapping`, `src/actions`, parts of `src/reconcile`, `src/impact`, `src/web/server.js`)

`payment` and `paidBy` are Razorpay's; `row` the merchant's table; `inbox` the
`recon_...` rows; `pass[w]` one payment on its way, whose `pc` names the `await` it
is at; `open` and `recovered` the `raze_actions` rows. A repair is about a payment,
or about an order's word that it is paid (`orderpaid_<order id>`): `Refs`. `onPage` is the live comparison's page: it
asks once for 100 payments of the last 72 hours, and a payment that others have pushed
off it, or that is older, is not among what it returns again (`LeavePage`, `Unrecorded`).
`Webhook`, `Poll` and `Enumerate`/`QueueDrifted`/`List` are the routes; `Judge`,
`Queue`, `DrainPick`/`DrainApply`/`HandlerThrows`/`DrainEnd`, `ReadBack`, `Recover`,
`Escalate`, `Refresh`, `Insert` are `handleDrift` and what it calls. `Tests` is
`policy.decide`'s list of rules in its order. `Fresh` are the statuses an unpaid
order may have; `unpaid` is one of them because the policy's `/paid|refunded/i`
takes it for settled, and an order with it can only be told of.

### Ledger (`src/ledger/index.js`)

`expectation[o]` is the row: none, open or its resolution. `deadline[o]` is only the
row's place in the order of deadlines (every order is given the same time), and
`passed` how many of them lie behind. `sweep[s]` is a `sweepOnce()`: the batch it
selected, of which the head is the row it is at, and the verdict it holds.
`Select`; `LeaveOpen`, `Unanswered` or `Ask` (the lookup); `Repair` or
`RepairThrows`; `Resolve` (the UPDATE by id, whatever the row says by then); `Abort`.
`misread` remembers the lookups that were answered and say nothing of the order: a
200 whose body cannot be parsed counts as no payments (`src/ledger/index.js` 44), and so
does a 400 or a 404 (65); `Misread` is both. `Unanswered` is every other error.
`Arm`, `DeadlinePasses`, `Try`, `Decline`, `Capture`, `Fulfil` are the world, and
`Watch` is `raze watch`, whose one statement arms every order still unpaid, late
ones included. `IsBatch` is the SELECT: the due rows, by deadline, up to the limit.

### Reconciler (`src/reconcile/index.js`)

Time is Razorpay's, in seconds, starting at 1 when Raze is installed. `created` and
`settled` are Razorpay's records, `known` what `localOrderIds` and `localRefundIds`
return, `queued` the inbox rows, `lastWindowTo` the variable of that name, `covered`
the column `covered_through`. `pass[i]` is a `runOnce()`: its window and what it has
listed or has still to queue. `Begin` cuts the window, `List`, `Compare`, `Queue` work
through payments and, after `TurnToRefunds`, refunds; `AdvanceWindow` and
`RecordCoverage` are lines 279 and 283-288; `Fail` leaves at any line; `Restart`
forgets `lastWindowTo`. `gap` is a history variable: whether a cold start began later
than the watermark ended.

### Approvals (`src/mcp/server.js`)

`plan[t]` is `PENDING`'s entry of token `t`, `request[c]` one tool call, which reads
Razorpay (`Ask`) and the merchant's row (`Check`) at different times. `Propose` draws
a token; `Take` is `takePlan`, which does not consume it; `Queue`, `Drain` and
`Finish` are apply. `MerchantWorks` is the merchant's worker on the same inbox,
`Reconcile` the reconciler, whose row for a payment has the id apply gives it.
`Restart` is a new child: its tokens are gone.

### ToolClient (`createToolClient` in `src/web/agent.js`)

Children are numbered; `waiting[i]` is the resolver of request `i`, `asked` and
`written` what is in the pipes. Ids, resolvers and the line buffer outlive a child,
and a child's exit is noticed late (`ExitNoticed` clears `child`, whichever it is now).
`promise[n]` is the handshake that `ready` keeps.

### Arming (`armMode` and its callers in `src/web/server.js`)

`arming[a]` is one call: a request's, a restart's timer or the one after a reboot,
with `pc` at its await (settling, polling the port, remembering the mode).
`merchants[a]` is the child it spawned; killed, dead and noticed are three things.
`Die`, `Exit` with the restart budget, `Reboot` with `restoreArmed`.

### LoopTimers (`start`, `stop` in `src/loops`; watchdog and reset of the console)

`start[s]` is a `start()` at the pass it awaits, or the intervals it armed; `handle` the
intervals the object knows, `running` its flag. A pass completes, throws or hangs.

### Onboarding (setup in `src/web/server.js`, `ray.js`; boot in `src/web-command.js`)

What decides whether the loops repair unattended is kept three times: `row`
(`raze_setup`), `connect` (`CONNECT`, whose pool is known by who opened it) and what
`loops` were started with. `setup[s]` is one running `/api/ray/setup` at its step; it
answers at once and goes on by itself, so several run at a time. Everything else may
come between any two of its steps, in any order: `ConnectRequest`, `ActMapping`,
`ManualMapping`, the `Answers`, `BackfillRequest`, `Reset` and `Boot`. `ray.js` tells
the page which step is next; no route looks at it. `Replace` ends the pool that was
`CONNECT`'s, which is the console's own one after a boot without `merchant_db`
(`ownOpen`; nothing is saved then until the next boot). `Understood` is what a model, or
the schema, says of the expected-amount column: the answer may differ each time.

### Audit (`src/audit`, `src/health`, the demo merchant)

`kind` is the integration on the port: broken, correct, or behind the runtime.
`script` is what the check still has to do, `note` what it read, `report` its verdicts.
`Traffic` and `Worker` are the merchant's own life meanwhile. `Settle` waits for
nothing, because the code's wait ends after 600 ms without a change, or 4 s; `trouble`
remembers that it ended while fixtures were waiting, that a query of a probe threw
(`Throw`: the probe counts as failed) or that a delivery was lost (`SendFails`). After
`GiveUp`, the last reset's failure, there is no report.

### Repair (`src/fix-command.js`, `src/agent/index.js`)

`file` and `backup` are versions; `fix` is the run with the version it found and its
round. Every call may throw, and a run that is killed leaves its target on the port
(`orphan`), which then answers the next run's probes.

### Standalone (`src/up-command.js`, `src/setup-command.js`, `src/infer`, `src/mapping`)

The secret is in three places (`hook`, `env`, `up`). `entry[i]` is the inbox row of a
delivery or of the reconciler, which names the same payment otherwise; `standing` is
`raze_subject_state`, `shop` the row the mapping writes under its guard. `schema` is the
orders table and what was derived from it (`Tables`): a status, an amount or a counter
and whether its name says so, which columns are NULL when not written, which mappings
may insert, which of them another table's mapping of the same event has replaced, and
the options of the command. `Tested` and `Known` are `localOrderIds`: without a
status and a counter it knows every order that exists. `Park` is a mapping's statement
that failed too often.

### Backfill (`src/backfill-command.js`)

`cursor` is the run: the chunk's end, to which the clock is pinned, the reconciler's
`lastWindowTo`, the failed chunks. `Covered` and `Failed` are a pass that ends or throws.

### Mongo (`src/mongo`)

`docs` are the documents with the order's key; `Filter` is the guard the update itself
carries (the event is not in `applied`, the status allows it). `Match` and `NoMatch` are the
update, with the upsert's insert or its duplicate-key error; `Commit` is Postgres'
half, which `Crash` loses. `locked` says which transactions hold the order's state: none
does that picked its event before there was a state to lock.

### MCConsole

The parts above share no state in one behaviour of the code's, so one specification
runs one of them (`part`, chosen at the start) and leaves the others alone.
`Approvals` is extended, the others are instances. Their fairness is stated again
for the part that runs.

## 4. Runs

| run | instance | what it asks |
|---|---|---|
| `runtime` | one order, three events (authorized, captured, refunded), the capture delivered twice, two workers, one crash, one attempt | exclusion, durability, rank bookkeeping, no stall, the contract |
| `runtime_serial` | one worker, a refund without handler, an event about no order, a forged delivery, several attempts | never regress, parked is unprocessed, the contract with its liveness |
| `outbox` | three effects of which one has no sender, two drainers, two attempts, two faults | copies, delivery, liveness |
| `recovery` | one order, two captured payments of which one has the right amount, two passes, one fault | vetting, sum, read-back, refunds |
| `recovery_serial` | two orders, one whose row appears late, first status `created` or `unpaid`, one pass; one of the two payments may leave the listed page | once, and settled or told |
| `recovery_twice` | two passes, no fault | violated, see below |
| `ledger` | two orders, armed by the application or by `raze watch`, two sweeps, a batch that holds both, a repair path, lookups that are misread, one fault | evidence, repair, absence is named |
| `reconciler` | a payment captured up to two ticks late and its refund, two passes, windows of one tick's overlap, one fault, restarts | coverage of payments and of refunds |
| `console` | the ten parts, one per behaviour | see below |
| `health_reads`, `mongo_retry`, `tools_drain` | one part each of `console` | violated, see below |

What `console` asks of each part, and with what:

| part | instance | property |
|---|---|---|
| approvals | two payments of one order, one token, two calls, restarts, expiry | `RecoveryCreditsOnce`: a payment is credited once |
| tools | two calls, one crash, one stop | `AnswerIsOwn`: an answer comes from the child that was asked; `EveryCallSettles` |
| arming | one mode, three armings, one restart before giving up, one death, one reboot | `ClaimIsBacked`: armed means somebody on the port, or coming |
| timers | three starts under way or armed, two bad passes | `WatchdogRevives` |
| onboarding | one database, one setup beside requests, answers, resets and boots; keys in the environment, no expected column there | `UnverifiableIsAsked` |
| audit | three kinds of merchant, with and without a secret, two checks, one kind of failure in each beside waits that end early | `VerdictsAreRight` |
| repair | three versions of which one is good, two rounds, two runs | `NothingIsLost` |
| standalone | a table with status and counter, `--orders`, no `--url`; one with an amount only whose mappings may not insert, no `--orders`, `--url`; one outage, one secret, one parked row | `CapturedIsSettled` |
| backfill | two payments, a span of eight in chunks of three, cold start three, overlap and settle time one, two failures | `BackfillCovers` |
| mongo | a failure, a capture and a refund, with and without upsert and unique index, one death | `GuardedIsOnce` |

Why the bounds are enough. Every hazard here is between *two* actors at one row, so
two workers, drainers, passes or sweeps show it; a third only repeats the second.
One order through its whole life meets every pair of ranks. One crash or fault at
any point reaches every partial state; two would reach those again after a retry,
which is where the attempts bound takes over. In `reconciler`, `CaptureTime = 2` is
`SettleTime + Overlap`, the largest value for which the property holds (with 3 TLC
finds a payment that settles after every window that could list it), and four ticks
hold two windows and their overlap. Passes, workers and drainers that run the same
code are symmetric.

In `console` one crash beside one stop gives the tool client up to four children, so
that a late answer and a late exit can each meet a successor; three armings let a
restart's timer, a request and a reboot overlap; the setup's steps meet every request,
of which the conversation's and the older routes write all that a second setup would
(the theorem has any number of them); the second health check runs over what the first
one left; the last chunk of the backfill is shorter than the others, and its
chunk and settle time exactly fill cold start and overlap.

Bounds that are not the code's: `MaxCrashes`, `MaxFaults`, `MaxTime`, the number
of passes, the payments in `Leaving`, that one row of `Standalone` is parked,
and in `console` every `Max...` but `MaxRestarts`, which is 5 in the code and
1 here (the budget is used up either way). The constraint `NoGap` cuts what the two reconciler properties do not speak of.
A fault bound below the attempt bound also means that `HandlerThrows` in `Recovery`
never parks a row; parking is `Runtime`'s subject.

Each property has a variant of the code that violates it (the definitions named
`X_...` in the modules, each a small plausible bug), so none holds by the shape of
the model.

## What the code does against its comments

Four runs show a comment's claim violated:

* `recovery_twice`. *"a payment arriving twice ... lands once"*
  (`src/web/server.js` 380-382). The poll may name by order what the webhook named by
  payment; the inbox key differs, and both verdicts were reached before either
  write. One pass at a time is not enough either: a pass that fails between its
  INSERT and its drain leaves a row that the next one drains beside its own, and so
  does an order whose row appears only after the reconciler has queued its payment.
  `recovery_serial` checks that an order is credited once where none of the three
  happens to an order that may be credited.
* `health_reads`. *"Read tools only. The absence of the others is the safety
  property."* (`src/web/agent.js` 37). `raze_health` is among them, and its auditor
  begins each probe by truncating every table (`src/audit/index.js` 153): a payment
  the merchant has acknowledged is gone.
* `mongo_retry`. *"the event is retried, the filter does not match, the effect is not
  repeated"* (`src/mongo/mapping.js` 24-26). The update is an upsert by default
  (line 73): what does not match is inserted, unless the key has a unique
  index. With the index, or without upsert, it holds (`GuardedIsOnce`).
* `tools_drain`. *"Drain it through the runtime the merchant already runs, so the
  mapping, the state machine and the guards all apply."* (`src/mcp/server.js`
  620-621). The runtime is a new one with a single handler: a refund waiting in the
  inbox is resolved `no_handler`.

The models show these as well; each is where a property stops short of a comment, and
no run of its own checks it:

* *"mark it processed and move on. Never regress state"* (`src/runtime/index.js`
  194-195). While an order has no `raze_subject_state` row, `FOR UPDATE` locks nothing,
  two workers both pass the rank test, and the lower event may commit last. The rank
  stays right (`RankIsHighest`), the merchant's row does not. `NeverRegress` is checked
  and proved with one worker.
* *"several drainers can run without delivering the same effect twice"*
  (`src/outbox/index.js` 23-24). The claim's lock ends with the claim, before the
  sender, and the row stays due. What holds is `CopiesAreCounted`.
* *"If the verdict is escalate, nothing is written"* (`src/loops/index.js` 16-17). A row
  the reconciler queued for an order unknown then waits in the inbox; when the order's
  row has appeared, the next drain applies it without a verdict. `CreditIsVetted` is
  therefore proved for `Late = {}`.
* *"Reconciliation still recovers every payment, so nothing is lost"*
  (`src/up-command.js` 142-146). With `--orders` and a table of which only an amount, or a
  counter whose name does not match `/count/i`, was derived, `localOrderIds` tests
  nothing, every existing order is known, and its payment is skipped; the note meant for
  that case (250-256) is not printed, because `settled` is an object of two nulls. A
  status that is NULL until written fails every guard, a mapping without
  `insertIfMissing` has no row to update, and another table's mapping of `payment.captured`
  takes the place of the orders table's. `Sufficient` and the escapes in
  `CapturedIsSettled` say where the claim holds.
* `Standalone`: the reconciler's row and a late webhook name one payment twice, and the
  mapping's counter goes to 2 (`src/up-command.js` 308 says otherwise). An `order.paid`
  that comes first sets the status, so the capture's guard never adds to the counter.
  `raze up` without a secret throws in `raze.create` (line 107), before the step that
  would generate one (148-153).
* *"A verdict we cannot justify is worse than no verdict"* (`src/ledger/index.js`
  102-103). A 200 whose body cannot be parsed (line 44), a 400 and a 404 (65) give
  `abandoned`, also for an order that was paid in time. `PaidInTimeIsNotLost` says that
  these answers are the only way to it.
* The live comparison: `src/impact/index.js` 117-118 asks for one page of 100 payments of
  the last 72 hours. A payment off that page, on an order the poll does not ask about, is
  neither repaired nor told of; `SettledOrTold` speaks of the others.
* `Backfill`: a chunk longer than the cold start reaches leaves a hole although the
  command exits with 0 (the premise of `BackfillCovers`).
* `Approvals`: an approved plan dies with the child that issued it, and the console
  replaces that child whenever setup rewrites `.mcp.json`.
* `Arming`: a restart that fails leaves the console saying it is armed; there is only a
  warning (`warned`).
* `LoopTimers`: a reset during `start()` leaves intervals that nobody can stop.
* *"Point the tools at the merchant Raze is actually watching ... Written on every
  successful setup and again on restart"* (`src/web/server.js` 998-1010). A boot from a
  row without `merchant_db` (a conversation or an answer that confirmed a mapping with
  nothing connected) starts loops on the console's own pool and leaves the tools' file
  as it was; it says so in its log (`src/web-command.js` 139-143). Two setups at once, or
  a setup beside a conversation, take the mapping in `CONNECT.chosen` from one and the
  database from the other. So no property claims that tools and loops are about one
  merchant.
* `Onboarding`: after such a boot `CONNECT.merchantPool` is the console's own pool, and the
  next connection ends it (`src/web/server.js` 1448, 1792; the reset at 1342 alone spares
  it), so that nothing can be saved until a restart. An answer reaches the row only: loops
  that run keep their `escalateOnly` until the next boot. *"I will never repair an order
  on my own"* (`src/web/ray.js` 83-84) is overwritten by what `/api/ray/setup` decides. A
  conversation alone never starts the loops; a boot does so only with keys in the
  environment. The secret of a webhook made in the conversation is in `CONNECT` only
  (`src/web/server.js` 1837-1844), so a reboot forgets it, against the comment at 1172-1176.
* `Repair`: a target an earlier run left on the port answers for the patched file
  (`src/fix-command.js` 79-81), and each run overwrites the backup of the one before.
* *"Auditing a correct integration must produce zero findings, every time"*
  (`src/audit/index.js` 13-16). A worker slower than the wait of 600 ms, or a query that
  throws in the middle of a probe (328-331), is a finding against it.
* `Audit`: two audits at a time would interleave, since `/api/audit` takes no lock (one is
  modelled). The reset also loses `raze_reconcile_state`, and with
  `raze_expectations` emptied a second check does not find anything watched, so it
  cannot say protected.

Read in the code, not modelled: the shop's `/api/confirm` may mark an order
paid between verdict and write, which the guard lets through; `learn.attach` writes
through the pool from inside a handler's transaction; `raze_watch_orders`
(`src/mcp/server.js` 862-902) selects first and inserts row by row.

## 5. Fairness

* `Runtime`: weak fairness of each worker's `processOne` and of backoffs. The worker
  loop re-arms itself after every call, and `next_attempt_at` is a time. Nobody owes
  a delivery or a crash.
* `Outbox`: weak fairness of each drainer (the interval) and of backoffs. A sender's
  promise settles; that it succeeds is not assumed.
* `Recovery`: weak fairness of a pass that has begun, strong fairness of the
  reconcile route per payment, because a pass slot is not always free but the timer
  comes round for ever and looks at every settled payment on its page. Webhooks
  and polls owe nothing.
* `Ledger`: weak fairness of each sweeper. A repair that throws, an error answer and
  a death are bounded by `MaxFaults`.
* `ToolClient`: weak fairness of each call's next step and of each request's timer:
  promises and `setTimeout` settle. Nobody owes an answer or an exit event, and
  `EveryCallSettles` does not need them.
* `LoopTimers`: weak fairness of a pass's end, of the intervals and of the watchdog, all
  timers. A pass that hangs takes a slot and never ends.
* `Standalone`: weak fairness of the process being started again, of the reconciler's
  interval and of the worker, which handles a row or parks it. Razorpay owes no
  delivery.
* `Reconciler`, `Arming`, `Onboarding`, `Approvals`, `Audit`, `Repair`, `Backfill`, `Mongo`:
  safety only.

## 6. Proofs

`tlapm` proves, for every value of the constants:

* `RuntimeProofs`. `TypeCorrect`; `ExclusiveAlways`: `Exclusive` is inductive as it
  stands, being the conjunction of the four facts that need each other (who holds a
  row, that it is pending, that effects and `applied` go together, that a failure
  owed is owed to a stored row). `ContractImplemented`: every step of `Runtime` is a
  step or a stutter of `Contract`. `RecordFailure` has no guard on the row's state, so
  this needs one more invariant, `ParkedAtLimit` (a parked event has used its
  attempts), to see that a late failure never brings a parked event back to the
  queue.
  For any number of workers also `AcknowledgedIsStored`, `RankIsTheHighest`,
  `StaleWasOutranked`, `FulfilledByItsEvent`. They are inductive together, on top of
  types and exclusion, once a delivery that is stored but not answered counts as
  durable too (`StoredIsDurable`). With `OneWorker` assumed in the theorem:
  `SerialNeverRegresses` and `SerialParkedStays`, from the invariant `SerialInv` (what
  the only worker has picked is still pending, and the rank it read still stands).
  `NobodyStalls`: an order's row is held by one worker (`LockedByOne`), and only past
  the rank test (`LocksAreHeld`). Past it a worker waits for nothing but a handler that
  wrote the merchant's row, and that one commits unless it needs the very row the
  waiting worker holds: a circle of two, which Postgres detects. A handler that may
  throw by itself does not count as progress there.
  Assumption: `RuntimeAssumption`.
* `OutboxProofs`. `TypeCorrect`; `CopiesBounded`, by counting the drainers that have
  claimed and not sent as copies already made: a claim adds one to both sides, a send
  moves one over, a death drops one. It needs that an intent not written yet has no
  attempts (`AbsentIsUnclaimed`). `DeliveryIsReal` needs that a drainer whose sender
  returned has delivered (`AnsweredWasReceived`); `DeliveryIsFinal` needs types only.
  Assumption: `OutboxAssumption` (finitely many drainers).
* `ReconcilerProofs`. `TypeCorrect`; `PaymentsAccounted` and `RefundsAccounted`.
  The properties speak of `covered` only and are not inductive: `covered` is
  set from a pass's window, whose start came from `lastWindowTo` or, after a restart,
  from the clock, while other passes are at work. The inductive invariant `Coverage`
  says of the watermark, of the window in memory and of every pass under way that
  everything settled before it is known or queued, and what the pass has listed is
  accounted for or on its list (`Underway`). That this survives later captures
  (`DoneStays`, `ListedStays`) needs `Clocked`, the marks lie `SettleTime` in the past,
  and `CaptureInWindow`: a payment settles within `SettleTime + Overlap` of its
  creation. The code does not enforce that one; it is what its window
  parameters promise, and `reconciler` shows it cannot be weakened.
  Assumptions: `ReconcilerAssumption`, `CaptureInWindow`.
* `LedgerProofs`. `TypeCorrect`, `VerdictsHaveEvidence`, `RecoveriesWereRepaired`, and
  `PaidIsNeverLost`: an order paid in time is never named failed, and named abandoned only
  after one of its lookups was misread. A verdict is written some steps after its lookup, and a
  batch is worked off some sweeps after its SELECT; the invariant says what both still
  mean then (`Selected`, `Justified`): what is overdue stays overdue, a capture and a
  decline are never taken back. Assumption: `LedgerAssumption`.
* `RecoveryProofs`. `TypeCorrect`; `ReportedHasLanded`; `RefundIsLastWord`;
  `CreditsAreVetted`, for orders that have their rows from the start (`Late = {}`). A
  pass acts on what it read awaits ago: `Working` says that the order it is about is
  paid, `Landing` that a successful read-back stays true (nothing un-lands a credit),
  `Vetting` that every queued row has a verdict that covers it, which a drain's order
  cannot disturb. `CreditsAddUp`, for any number of passes and faults: the pass that
  has picked a row is the only one that holds it, and the row is queued until then
  (`Holding`), so it is credited once; its worth does not change afterwards, because
  the order was paid before the row was written (`PaidFirst`). The sum is the number of
  units of the credited amounts, laid side by side (`Laid`): a union of disjoint sets is
  counted by the library's lemmas, where a fold would need induction. Assumption: `RecoveryAssumption`.
* `ApprovalsProofs`. `TypeCorrect`; `CreditedAtMostOnce`. What excludes a second pending
  row for a credited payment is that a payment's row is the one under its own id,
  whoever queues it (`OneRow`), and that a row leaves `pending` once (`Uncredited`).
  Assumption: `ApprovalsAssumption`.
* `CommandProofs`, about the behaviours of `ConsoleSpec`, where a part changes by its own
  steps only. `FoundVersionSurvives` (`Repair`): the version a run found moves from the
  file to the backup and back (`FoundIsKept` says where it is at each of the run's
  steps). `ExitZeroCovers` (`Backfill`): the property speaks of runs that have ended; the
  invariant says of a run under way that, while no chunk has failed, everything up to
  the reconciler's last window has been asked about, and that the chunk begins there
  (`Contiguous`). `GuardStandsIn` (`Mongo`): a document lists every event it has been
  credited by, a refund included, or shows by its status that the guard is shut
  (`ShowsApplied`, `RefundIsListed`), so that a retry after `Crash` matches nothing; with
  a unique key or without upsert there is never a second document. `VerdictsHold`
  (`Audit`): a verdict rests on what some steps of a script have left in the tables, so
  the invariant (`AuditInv`) says of each place in the script what the fixtures' order
  looks like there (`HonestPlaces`, `BrokenPlaces`), events still in the queue included,
  and of the report what has been judged so far (`VerdictsSoFar`). It says so only while
  nothing went wrong that would matter (`Sound`, `Heard`): nothing at all for an
  integration that dedupes, no lost delivery for the one that does not. What customers send
  and the worker does in between passes the fixtures by (`PassedBy`, `WorkedOff`).
* `ConsoleProofs`, about the same behaviours. `AnswersAreOwn` (`ToolClient`): a resolver
  under an id belongs to the call that asked under it, of the child it wrote to; as ids
  and children are numbers in a range, that a fresh one is always left is proved by
  counting (`ChildrenSuffice`, `NumbersSuffice`). `ArmedIsBacked` (`Arming`): whoever
  is on the port or starting is overseen, by an exit handler or by his arming's polling,
  and an exit that is ignored has an arming behind it that is about to spawn
  (`ArmingInv`).
  `UnverifiableAsks` (`Onboarding`), for any number of setups at once: whatever starts
  loops decides on asking from the same answer about the expected column that it
  starts them with, so the property and the types are inductive together and nothing
  has to be assumed of `row`, of `connect` or of the other setups.
  Assumption of both modules: `ConsoleAssumption`, the conjunction of the parts' own.

Every safety property of the passing runs has a theorem but `CreditedOnce`, which needs
more than the code guarantees (see `recovery_twice`) and is only checked in
`recovery_serial`. Those that hold with one actor only,
or for merchants whose rows are there from the start, say so as hypotheses:
`NeverRegress` and `AttentionIsUnprocessed` (`OneWorker`), `CreditIsVetted`
(`Late = {}`).

Only model-checked: liveness (`ImplementsFairContract`, `EveryIntentEnds`,
`SettledOrTold`, `AbsenceIsNamed`, `EveryCallSettles`, `WatchdogRevives`,
`CapturedIsSettled`), which needs `ENABLED`; the provers do not do that.

## 7. Not modelled, and what that hides

* Data: bodies, signatures (a delivery is genuine or not), amounts beyond equal and
  unequal, field mapping. Which order an event is about is a constant.
* Postgres answers or the transaction is lost. Commits whose answer is lost are in
  `Outbox` (a failed confirmation) but not in `Runtime`.
* `Recovery` hands the loops a confirmed mapping; inferring one is a matter of data.
  The loops supply no `localRefundIds`, so no refund rows arise there. Which queued
  row a drain takes first is left open. A delivered webhook's own inbox row beside a
  `recon_` row of the same payment, both applied by the mapping, is not modelled.
* `Reconciler` gives each payment an order of its own; `known` never forgets (a caller
  that knows less queues more). Pagination is one listing, so a list that shifts
  between two pages is not seen. After a cold start that leaves a gap nothing is
  claimed: the code moves `covered_through` over the gap.
* `Ledger`: `AbsenceIsNamed` needs a batch that holds every due row; `batchSize`
  or more rows that stay `unknown` keep the ones behind them from being asked about.
  No caller in `src/src` passes `repair`, so there `recovered` means that the money was
  found. A fulfilment that arrives during a sweep is overwritten by the sweep's
  verdict; the model does so too, and `PaidInTimeIsNotLost` says what remains true.
* The console's parts: a setup's checks of keys and schema succeed or fail; the
  texts of the conversation, pages, event streams and reading routes are left out.
  `Onboarding` is about whether the loops ask: the columns' names, `CONNECT.chosen` and
  its statement, the tools' `.mcp.json` and the webhook's secret are left out.
* `Audit` knows of each probe only what its verdict rests on. `Repair` takes a model's
  answer as a version or a refusal.
* `Standalone` assumes that a payment is captured within the reconciler's window,
  `CapturedIsSettled` that the table suffices (`Sufficient`); the module
  leaves the order in which waiting rows are taken open.
* Which column is the status, the key or the amount (`infer`, `understand`), what a
  document's pattern looks like (`mongo/infer`), what `learn`, `patterns`,
  `insights` and `explain` score: data, without a state of the protocol.
* `simulate` and `propose_mapping` of the MCP server and its reading tools: they
  compute an answer from one read, and write nothing.
* Process and terminal I/O: providers and prompts of the coding agents, the tunnel,
  embedded Postgres, `scan`, `run`, `insights`, the printing of every command.
* The shop's checkout and confirmation beyond `RowAppears`; the public demo.
