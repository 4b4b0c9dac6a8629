# Formal models of trip-mate-api

trip-mate-api is the HTTP backend of an app for splitting the costs of a trip: members record
expenses in several currencies, an admin finalizes the settlement, and the resulting transfers are
marked as paid. It runs on Bun and Hono over PostgreSQL (Drizzle) and Redis. This directory holds
TLA+ specifications of its core, the TLC configurations that check them on small instances, and
proofs checked by TLAPS. Paths below are relative to `src/` of the repository, that is
`settlements.repo` is `src/modules/settlements/settlements.repo.ts`.

Several replicas may serve requests and every handler is a chain of awaited statements, so any two
requests may interleave between any two statements. What serializes them is PostgreSQL: row locks
(`SELECT ... FOR UPDATE` on the trip row), compare-and-set updates (`WHERE version = ...`), and
unique indexes. Most of what can go wrong here goes wrong in a gap between two statements, and the
models are cut exactly there: **one statement, or one transaction, is one action.**

## 1. Inventory

| Component | State | Operations | Hard behaviour | What makes it correct |
|---|---|---|---|---|
| **Expense and settlement tables** (`modules/expenses`, `modules/settlements`, `modules/trips`) | `trips`, `expenses`, `expense_audit_logs`, `settlements`, `settlement_transfers`, `settlement_transfer_events` | create / update / soft-delete an expense; finalize, unlock; mark paid / unpaid; update / delete the trip | stale versions and reviewed sets; reopening after payments; trip deletion with requests in flight | a snapshot equals what it was computed from; no payment is stranded on an old version; audit entries follow on each other; keys do not duplicate expenses |
| **Settlement engine** (`settlements/domain/compute.ts`) | none (pure) | split, apportion refunds, nets, transfer matching | remainders, negative amounts, partial refunds, simultaneous exhaustion | nothing created or lost, plan settles everybody, few transfers |
| **Members and invitations** (`modules/members`) | `trip_members` | invite, renew, rotate, revoke, accept, deactivate, reactivate, hand over admin | token read before the compare-and-set; a hand-over racing a deactivation; double clicks | one active admin; only invitees join, only with a live token |
| **Expense drafts** (`modules/expense-drafts`) | `expense_drafts`, plus the expense with key `draft:<id>` | list, edit, discard, confirm (claim, create, link, roll back, recover) | a saga over three separately committed statements, with crashes, lost acknowledgements and overlapping confirmations | one expense per draft, of one claim; no hidden expense; interrupted confirmations finish |
| **Idempotency middleware** (`core/idempotency.ts`) | `idempotency_keys` | purge, look up, lock, run, record, release; hourly sweep | leases without owner, crashes between effect and record, retries | single flight; a replay answers its own body; no poisoned key |
| **Request handlers and guards** (`core/guards.ts`, controllers, services before their transactions) | none | reads of session, membership, trip, row; then a transaction; then the answer | everything read before the lock is stale in it, the answer may be of a later state | a stale row takes nobody's edit back; what was shown is what is frozen; answers are coherent |
| **Usage imports** (`modules/usage-imports`, `core/rate-limit.ts`) | Redis quota counters, parser slots, drafts | consent check, quota, parse with an LLM, insert a batch, refund the quota | refund after the window rolled over, retries of a parse | user and trip quota move together; a batch is inserted once |
| **Exchange rates** (`modules/fx`) | Redis table cache, last known rate, trip default rate | resolve through overrides, cache, providers, last known rate, trip default | slow answers overwriting newer ones; mis-keyed tables | the source of a rate is reported honestly |
| **Receipts** (`modules/files`) | object store, `expenses.receipt_object_key` | attach, get, remove | object and key are changed in two steps | a key never points at a deleted object |
| **Consents** | `user_consents` | record a disclosure (in `UsageImport`), list, record versions | repeated inserts | nothing is sent before its consent is stored |
| **Expense list and cursor** (`expenses.repo` listForTrip, `expenses/cursor.ts`) | none: the cursor is the client's | keyset pages, newest first | rows entering, leaving and moving between two pages, ties on `spent_at` | no row skipped, none given twice in one place |
| Authentication, mail, CSRF, config, metrics, currencies, wiring, migrations | – | – | library code, pure output, constants | – |

How they interact. The middleware wraps expense creation, parsing and the other keyed POST routes;
`confirmDraft` calls `expenses.service.createExpense` with the server key `draft:<id>` (a prefix the
middleware refuses from clients, so the two key spaces do not meet) and finds what it made again by
that key; finalize reads the expenses the expense service wrote and hands them to the engine;
trip deletion cascades over every table; deactivation of members and the admin hand-over decide who
may finalize and record payments. All of these meet in the trip row: its lock is what the ledger
models rely on.

The full list of hazards, each at its line and with the properties that would notice it, is in
`PROJECT.json`.

## 2. Modules

| Module | What it is |
|---|---|
| `SettlementCycle` | abstract specification: what a trip promises the people who settle by it |
| `TripLedger` | the tables of one trip, one action per transaction; implements `SettlementCycle` |
| `TripRequests` | the handlers above `TripLedger`: what they read before their transaction, and what they answer after it |
| `TripProofs` | of `TripLedger`: its type invariant, its safety invariants (snapshots, payments and their log, history, audit trail, keys) and the refinement; of `TripRequests`: that it implements `TripLedger`, and its own properties, proved |
| `SettlementCompute` | `compute.ts` as operators |
| `SettlementCases` | inventories grown row by row, and what the engine must make of each |
| `TransferLoop` | the loop of `minTransfers`, a turn per step |
| `SettlementProofs` | nets that cancel, refunds that leave no trace, plans that settle everybody, for any inventory, proved |
| `Members` | invitations and memberships of one trip |
| `MembersProofs` | one admin, live tokens, binding to accounts, proved |
| `ExpenseDrafts` | one draft, the requests that confirm it, and what happens around them |
| `ExpenseDraftsProofs` | one expense of one claim, no hidden expense by requests in turn, proved |
| `Idempotency` | one scope key, its row and the requests that carry it |
| `IdempotencyProofs` | single flight, replays, excused repetitions, proved |
| `UsageImport` | the parse pipeline: two quotas, consent, one parser slot, refunds, batches of drafts |
| `UsageImportProofs` | consent, budget, refunds, slot and batches, proved |
| `FxResolve` | where a rate comes from: cache, providers, last known table, trip default |
| `FxResolveProofs` | days of rates, lifetimes of tables, the race of the last known table, proved |
| `Receipts` | the receipt of one expense: its key in the row, its object in the files server |
| `ExpensePages` | the list of expenses, read page by page while it changes |
| `ReceiptsProofs` | keys have objects, strays have a reason; pages are in order and skip nothing, proved |
| `MC*` | instances for TLC: sizes, concrete bills and rates, symmetry |

`MCSettlement` runs `SettlementCases`, `TransferLoop` and `FxResolve` in one instance, where amounts come
from: its initial states have an empty inventory, or nets to match, or rates to look up. `MCReceipts` does the same with `Receipts` and
`ExpensePages`, two things a client does beside the ledger: its initial states have either an expense
with requests for its receipt and no list, or a list and no request.

`MCTripLedger` composes `TripLedger` with `SettlementCompute`: the ledger takes `computeSettlement`
as a constant operator (`Settle`, and `CanSettle` for "does not throw"), which the proofs leave
arbitrary under `SettleAssumption` and TLC instantiates with the real engine. `TransferLoop` and
`SettlementCases` run the same operators that the ledger run uses, and `ComputedRowsAccepted`
(`SettlementProofs`) shows that the engine meets what `SettleAssumption` asks of the rows: a positive
amount, between two different members of the inventory.

### TripLedger

State: the trip row (status `open`, `finalized`, or `deleted` once it is gone; time zone), the admin,
`expenses` (soft-deleted rows included), the audit entries of each expense, the settlement versions
with their transfers and which of these are paid, and the payment event log.

Every transaction that writes one of these tables takes the trip row `FOR UPDATE` first
(`expenses.repo` create / updateMeta / softDelete, `settlements.service` finalize / unlock /
markPaid / markUnpaid, `trips.repo` delete), so each body is one action (`TxCreate`, `TxUpdate`,
...). What a request read **before** its transaction is a quantified argument: the version it
edits, the zone it computed its local date in, the reviewed set of versions, the role it was let
in with. It may be arbitrarily stale, so what holds of the model holds of overlapping requests.
A `PATCH` of the trip is a plain UPDATE without the lock (`TxUpdateTrip`), in any status. Transactions that throw or
find nothing to do write nothing, and are stuttering steps. Trip deletion empties the tables by
their cascades.

Amounts, rates, currencies, instants, days and participants of an expense are the columns of one
record (`bill`); what they mean for the settlement is up to `Settle`. The two states that do not count are symmetric, so
one is enough. The `version` column of a settlement is its place in the sequence (`max + 1` under
the lock).

The audit log quotes rows, and not all of them (`Quoted`). `updateMeta` and `softDelete` log what `COLS` selects, which
lacks `exchange_rate_date`; `create` writes out a selection of its own, which lacks `spent_at`,
`settlement_amount_source` and the version as well (`CreateCols`, `CreateImage`). `AuditReplays` says what is true of that log: an
entry starts where the one before it ended, in whatever both quote, and the last one agrees with the row in whatever it
quotes. The day of an expense can therefore not be reconstructed from the log at all, nor the instant and the source of an
expense that was never edited, although the comment at `expenses.repo:344` speaks of full snapshots.

Abstract view: `SettlementCycle` has a phase, the bills, a plan and the paid part of it. The mapping
takes the status, the inventory of live included expenses, and, while finalized, the payable
(settlement basis) transfers of the newest version and the paid ones among them. That this is
enough, that is, that nothing observable is left on older versions, is what `ImplementsCycle` says.

### TripRequests

`TripRequests` extends `TripLedger`. There, what a transaction was given is arbitrary; here it is what a handler
has read, in the order the handler reads it. A request is an element of `calls`, whose record
holds what it has read so far.

* **POST expense** reads the status and the zone (`assertTripOpen`), computes the local day of the instant
  in that zone, resolves a rate and converts, and passes all of it to `create`, which checks
  status and zone again under the lock (`BeginCreate`, `CommitCreate`). A card bill is taken as it is, without a rate.
* **PATCH and DELETE** go through the guard, which notes the caller's role (`BeginEdit`), and through
  `authorizeMutation`, which reads creator and payer (`Authorize`). An edit of amount, currency, instant, rate or card bill (`EditsRate`) then reads the row
  (`LoadRow`) and, separately, the trip (`Merge`), refuses a rate for a card bill and a card bill for a converted amount
  (`ChangesSource`), resolves a rate again unless the body brings one, derives the columns, and hands them to `updateMeta`, which
  compares the version and sets only these columns (`CommitEdit`). An edit of other fields goes to
  `updateMeta` directly. The client names a version it has seen. `Erase` is the body that DELETE does not have.
* **precheck and finalize**: the review reads the included rows and their participants in two
  statements outside any transaction (`ReadRows`, `ReadParts`), so it may be torn; `finalize` brings back the versions
  of the rows (`CommitFinalize`) and answers with `getSettlement` in a further transaction (`AnswerFinalize`).
* **Elsewhere** holds the requests that consist of their transaction: unlock, the PATCH of the trip, the
  hand-over, trip deletion. The role these need is checked before, as in `TripLedger`.

A row holds its rate (`fx`): `exchange_rate` and `exchange_rate_source`. `Resolved` is `resolveFx` as its callers see it: the
settlement currency has rate 1, a rate in the body is taken as it is, any other is looked up every time, and
the lookup may give any member of `Found(currency, day)`, or nothing (422). So two rows of one day may have two rates, a rate may be
another one at the next edit, and a row may hold a rate a member typed; how the lookup comes to its answer is `FxResolve`.
`DateIn`, `Found` and `Priced` stand for `localDate`, the lookup and `convert`, and are arbitrary in the proofs. That an
expense was billed to a card is never edited, so where the code decides by the row it read earlier, the model may too.

Fields that neither settlement nor conversion looks at (title, memo, category) are left out: a body that
names only such fields would be a patch with an empty domain, which the proofs cover and the instance omits.

### SettlementCompute, SettlementCases, TransferLoop

`FloorDiv` is built from truncating division as BigInt's is. Sorting by id is counted (`PlaceIn`:
how many members come before) instead of sorted; the fold over refunds, the largest-remainder
apportioning, the nets and the greedy loop are those of the code. `ValidRefunds` and `Settleable`
collect the conditions under which the code throws; sums that the code asserts at the end
(`split sum != amount`, `net sum != 0`) are *not* assumed: `NetsCancel` is the second, and fails if
splits do not add up to their amounts. `Ranked` sorts by place too, the largest amount first and then
the smallest id; `MinTransfers` takes as many turns of the loop as there are members, and stands still
once the loop has ended.

`SettlementCases` adds expenses and refunds in any order. Refunds are generated larger than their
original too, so `Settleable` is sometimes false. `CasesAssumption` says what is true of an expense
before it gets to the engine: it has participants, and only a refund has a negative amount.
`TransferLoop` starts from every vector of nets that cancels.

### Members

A row is named by its normalized address, because `uq_member_email` allows one row per address and a
revived invitation keeps its row. The token's expiry is a Boolean that time clears at any moment.
`acceptInvite` holds no lock, so its look-up by token, its membership check, its compare-and-set and
the second look after a miss are separate actions, of several concurrent calls. `voided` and
`joinedBy` are history variables. Deactivation and hand-over hold the trip lock, and are one action
each; reactivation is one guarded UPDATE.

### ExpenseDrafts

One draft, at most a few expenses under its key (`ledger`), and per request where it is, what it
holds (payload and body) and what it has learned. `confirmDraft` and `createAndLink` are followed
statement by statement: look, claim by compare-and-set, look again after a lost claim, up to two
attempts of creation, the re-read after the commit, the link, and, after two failed attempts, the
proof that nothing was made and the roll-back. `Crash`, `FailAmbiguously` (before or after the
commit) and `ProveBlindly` (the look-up fails and is taken for "none") are the failures, bounded by
`MaxFaults`. `Refused` is always possible: a creation can be refused for reasons outside the model
(no rate, invalid participants). The owner edits or discards the draft, anybody deletes the expense
and the trip is locked and reopened meanwhile.

A payload is the number of edits the draft has had: every edit leaves another content, which is all the
properties tell apart. `bound` (the contents that claims have bound) and `overlap` (two requests were running at
once) are history. Properties of requests that take turns are said with the latter: `overlap \/ ...`.

### Idempotency

The row of one scope key, and where each request is in the middleware. The handler is one commit,
then success; or no effect, then release. The row has no owner in the code: `holder` and `author` are history
fields, used by the properties (and to tell whether an expiring lock's handler is still alive),
never by a statement. Expiry is a flag that time sets. `MaxOverruns` bounds how often a handler may
outlive its lease (300 s by default).

### UsageImport

Requests of both parse routes go through `runParsePipeline`: the dual quota script, the disclosure
consent, the parser, `createMany`, and the refund. Each Redis script, statement, transaction or spawn
is an action. `used` holds the counters as Redis has them; `counted` and `late` are history, they say whose
charge a counter's present window holds and how many refunds of an earlier window landed in it.
`running` is the slot counter in process memory, which a crash resets, whereas the counters survive.
`engine` is the adapter the composition root picked: `codex` takes the slot and launches a process
(`AcquireSlot`, `Launch`), `claude` calls an API (`CallClaude`; the call counts as the start). The
import routes do not use the idempotency middleware: a key only namespaces the batch (`BatchOf`).
The order inside `runGuarded` (the check before the slot is taken, the `finally` that frees it) is
kept, since the slot's properties depend on it.

### FxResolve

One currency, several requests for dates up to the day after the running UTC day (a trip
east of UTC may be there already). A table is a record of the date it is
for, its provider, whether it was fetched after its day was over (`final`), and whether it holds every
currency (`sound`). `began` is the day a request started in, from which the code decides between the
one-hour and the thirty-day lifetime. The comparison in `setLastKnown` and its write are two actions,
as they are two awaited Redis calls; `existing` is what the comparison saw. `Expire` may drop an entry at
any time, and `Spoil` makes the entries the reads defend against.

### Receipts

An object is named by the request that uploaded it, as the code draws a new uuid for each. Look-up,
upload, setting the key, deletion and clearing the key are separate actions of overlapping requests;
calls to the files server and to the database fail before or after they took effect. The receipt queries do not look at `deleted_at`, so a
soft-deleted expense still takes and gives receipts. What the files server answers to the deletion of a
missing object is left open (both answers are possible).

### ExpensePages

A row is in the list while it is live and passes the filters, so that writing, deleting and editing it are `Put`
(into the list, or to another place in it) and `TakeOut`. The server keeps nothing of a reader: all the reader's
memory is `cursor`, the last row of the last page, and a page is what lies beyond it (`Rest`) in the order of
the query (`Sorted`), one row more than asked for being read to learn whether there is another page. `listed` and `behind` are history: what the reader was given, and the rows that were put where it
had already been, which no list can show it. The participants that are
read for a page by a second statement are not modelled.

## 3. What is checked

| Run | Question | Result | Distinct states |
|---|---|---|---|
| `ledger_settlement` | Finalizing, paying, taking back, reopening, refinalizing, with stale edits: snapshot, payments, log and abstract cycle | holds | 192,906 |
| `trip_requests` | Three overlapping requests that create, edit, convert anew, delete, review and finalize from what they read before, while the trip is reopened, moved, handed over or deleted: rows, audit, keys, snapshot and answers | holds | 395,028 |
| `edit_zone` | Is an edited expense filed under its day in the trip's zone? | **violated** | |
| `edit_rate` | Does an edit of the amount alone keep the rate the expense was saved with? | **violated** | |
| `engine_and_rates` | Every inventory of up to 3 expenses and refunds of 3 members in 2 currencies; the matching loop from all nets of 4 members up to 4 units; two resolutions of rates across midnight, with expiring and spoiled caches | holds | 124,400 |
| `members` | Three accounts, one clicking twice, three tokens | holds | 178,669 |
| `drafts` | Two confirmations with different bodies, overlapping or in turn, one failure anywhere: one expense of one claim, none hidden by requests in turn, always recovered | holds | 434,940 |
| `drafts_overlap` | Two overlapping confirmations without failure: can a live expense hide behind a pending draft? | **violated** | |
| `idempotency` | Three requests, two bodies, two failures, handlers within their lease | holds | 1,800 |
| `idempotency_overrun` | The same with one handler outliving its lease | **violated** | |
| `usage_import` | Three parses, two failures, windows that expire: consent, budget, slot, batches | holds | 368,689 |
| `receipts` | Four overlapping requests, two failures, deletions: keys and objects. A changing list read in pages: nothing skipped or out of order | holds | 84,561 |

The type invariants (`TypeOK`) are not among the runs' properties: the proof modules prove them, as part of
the inductive invariants that everything else there rests on.

Every property of a passing run has a mutant of a definition it depends on, which violates it under the
same configuration: the mutants stand next to the definitions they change and are named in
`PROJECT.json`.

### Bounds, and why they are enough

* **Ledger.** Two expenses are the least that can be changed independently of each other between a
  review and its finalize; two settlements are the least in which a version is superseded; three
  payment events give paid, unpaid, paid. Two members
  give one payer and one debtor in both directions. Two bills in two currencies make local transfers
  that must not be payable.
* **Requests.** Three requests let two race and a third create what they race for, or review it and
  finalize. One instant ("night") is the second day in one zone and the first in the other, and the rate found for
  the second day is twice that of the first, so that a wrong day shows in rate and amount; a third rate is
  one a member types. Versions up to 2 give audit
  trails of three entries. The bodies are a
  converted dinner and a taxi billed to a card; the patches change the amount with a rate for it, the instant (whose
  rate is looked up), the participants and the card bill. All expenses are in one foreign currency: edits of the currency, and expenses in the currency of the
  settlement, are left to the proofs. A single settlement is enough here, as several are the ledger run's. There are no
  payment events.
* **Edits of zone and rate.** One expense and two requests: the counterexamples need no more. For the rate, the patch names the amount only, and a lookup
  finds the day's table or the last known one (`MCFoundOrLastKnown`).
* **Engine.** Three members and 2 units leave a remainder in every split; refunds of 1 and 2 against
  2 reach a partial refund, a full one in one or two parts, and one that is too large. Zero amounts
  are included. Rate 2 makes the two axes differ.
* **Loop.** With four members there are up to three creditors or three debtors, so the loop passes on one side, the other and
  both, and the order of remaining balances can change under it (see "What the
  properties concede").
* **Members.** Three tokens: an invitation, its renewal, and a second invitation. Two calls of one
  account are the double click, a third call belongs to another invitee.
* **Drafts.** Two calls suffice for every pairwise race, and each is sent with its own body; one edit (`MaxEdits`) gives two payloads, so
  that mixed contents are seen; two expenses allow deletion and re-creation; one failure (`MaxFaults`) strikes at
  every step once. A second failure breaks `NoPendingOrphanInTurn` (see below).
* **Idempotency.** The first request, a retry with its body, and one with another body; two failures
  let the second attempt fail as well.
* **Usage imports.** Limits of 1 per user and 2 per trip are the least that differ; two users on one
  trip, one of whose windows expires, make a request the user's counter allows and the trip's refuses. Three requests hold the slot, are
  refused it, and fill a window. `MaxDrafts = 1` gives empty and non-empty parses; one roll (`MaxRolls`)
  separates a charge from its refund; with two faults (`MaxFaults`) a failure can strike the refund of
  another failure.
* **Exchange rates.** Two days (`MaxDay = 1`) make one midnight, and three dates; age limit `MaxAge = 1` leaves tables on both
  sides of it; two providers let one fail over to the other; one spoiled entry (`MaxSpoils`) meets two
  requests, which is every race of the two awaited steps.
* **Receipts.** Four requests: an upload, one that replaces it, and two removes or a remove and a get.
* **Pages.** Three rows and three instants give ties and rows between any two others; pages of one and two rows
  give lists of up to three pages, and a last page that is exactly full.

Model values that are interchangeable are declared symmetric in the runs `ledger_settlement`,
`trip_requests`, `engine_and_rates`, `usage_import` and `receipts`; never in a run with a liveness property
(`drafts`, `idempotency`).

`CHECK_DEADLOCK FALSE` stands where the model really stops: a deleted trip (and used-up bounds) in the ledger and
above it, all requests of a key answered.
`Members`, `ExpenseDrafts`, `UsageImport`, `FxResolve`, `Receipts` and `ExpensePages` are checked for
deadlock: `UsageImport`, `FxResolve` and `Receipts` may stutter only once all requests are answered. `MCSettlement`
lets the inventories and the matching loop stand still.

### Fairness

* `ExpenseDrafts!FairSpec`: a running request takes its next statement (an event loop and a database
  that answer), and the owner confirms again while the draft shows as confirmed but unlinked.
  The second is an assumption about people that the code asks for: `listPending` returns exactly
  those rows besides the pending ones so that the client offers the retry. Failures, edits, locking
  and first confirmations are not fair.
* `Idempotency!FairSpec`: running requests go on, time passes (`Expire`) and the sweeper runs
  (`setInterval` in `main.ts`). No client is obliged to retry.

The imports, the rates, the receipts, the lists, the ledger and its requests, the engine and the memberships
promise no progress by themselves, so they are checked for safety only.

### Disagreements found

1. **`drafts_overlap`** – the roll-back in `createAndLink` proves that no expense exists and then
   reverts in a separate statement. A second confirmation, in its recovery path, may create the
   expense in between; its link is then a no-op on the row that is pending again. A live expense
   stands behind a pending draft. A later confirmation repairs it, but only if it is not preceded by
   a discard, after which the expense stays counted with no draft pointing to it. An edit before that
   later confirmation is silently lost.
2. **`idempotency_overrun`** – completion and release address the row by scope key only. A handler
   that outlives its lease writes its response onto the row of its successor, and a retry of the
   successor's body is then answered with the response to another body.

3. **`edit_zone`** – `updateExpense` reads the trip's zone in a statement of its own
   (`expenses.service:364`), derives the day and the converted amount from it, and `updateMeta` re-checks only the status
   under its lock. If the trip changes zone in between, the expense is filed under a day of the old zone.
   `docs/plans/2026-06-30-fx-extension-design.md:38` keeps the verification of the zone under `FOR UPDATE` for
   edits, as creation has it. What remains true of edits is `DerivedFromItsRow`: day, rate and amount fit each other and
   the day is that of some zone the trip may have.

4. **`edit_rate`** – `updateExpense` resolves the rate again whenever a converted expense is edited in its amount,
   currency or instant without a rate in the body (`expenses.service:390-412`), so an edit of `local_amount` alone replaces the
   rate and its source, a rate typed by a member included. `docs/trip-mate-prd.md:802` freezes the rate when the expense is
   saved and forbids a later lookup to overwrite it, and `docs/plans/2026-06-25-fx-pipeline-design.md:69` (also `:31`,
   `:57`) keeps it for just this edit. `docs/plans/2026-06-30-fx-extension-design.md:37` has the lookup run
   again, as the code does: the documents disagree with each other, and the code follows the later one.

### What the properties concede

Some properties are weaker than a reader might expect, because the code is. Each of these was met as a
counterexample of the stronger form.

* `LastKnownStepsBackOnlyInARace`: of two overlapping fetches the one for the earlier day may write last,
  since `setLastKnown` compares and writes in two calls.
* `BudgetKept` counts `late` refunds: a refund decrements whichever window its counter is in by then,
  so a window that takes the refund of an earlier one admits one parse more than its limit.
* `NoWorkNoCharge` exempts a failed write of the scratch directory (`Owed`): `runCodexExec` reports it like
  a failed parse and it is not refunded, although nothing was started.
* `StrayObjectsAreAccountedFor` lists what leaves an object behind that no request can reach: a later upload
  over it, the deletion of the trip, an attach that falls between a remove's two calls (its key is
  cleared with the old one). The product document (`docs/trip-mate-prd.md:2179`) wants images destroyed
  with their expense or trip and each of them deletable.
* `AuditReplays` compares what entries quote, and no entry quotes the day of an expense (see `TripLedger`).
* `DerivedFromItsRow` asks that the rate of a row was found for the row's currency and day or brought by a member, not
  that it is the one the row was created with (`edit_rate`), and that the day is one in some zone, not in the trip's (`edit_zone`).
* `NoPendingOrphanInTurn` is about requests that never overlapped, and one failure. With overlap it fails
  (`drafts_overlap`); with two failures the look-up that proves the absence may itself fail, which the code
  takes for "none".
* `AuthorisedWrite` goes by the role the guard found. A former admin whose request was past the guard at the hand-over
  still writes.
* `ShownIsFrozen` compares payers, bills and participants, all that a settlement depends on. It does not say that the reviewer
  saw one state of the table: a torn review may show rows and participants of two moments, but then
  finalize refuses it, because every change of participants moves the version of its row.
* `AnswerSettlesItsBills` does not say that finalize answers with the settlement it made: after an unlock in
  between, it answers with the computation over an open trip.
* `ListedInOrder` lets a row be given twice if it was moved to an earlier day in between, and `NothingSkipped`
  lets rows be missed that were put where the reader had been already.
* `PlanSettlesEverybody` does not say that each turn matches the largest remaining balances, as the
  product document (§18.4) describes: `minTransfers` sorts once and then walks both lists. The
  transfers proposed may differ from the described ones; how many they are does not exceed the bound.

## 4. What is proved

All proofs are for arbitrary values of the constants, under the `ASSUME`s of the modules
(bounds are naturals, sentinels are not members of the sets they are added to, ids and instants are ordered as
integers are, an expense has participants, `Settle` yields rows the transfer table accepts). TLC
evaluates these on every run.

* **`TripProofs`, the tables.**
  `TypeCorrect`: `Spec => []TypeOK`.
  `CycleInv` is the inductive invariant of the cycle: only the newest version is active; a finalized
  trip has a version, the newest transfers of which are `Settle` of the live inventory; a
  version with payments is the newest of a finalized trip; paid transfers are payable ones of their version. None of the parts is inductive
  alone: unlocking needs "paid is payable" because its guard looks at payable transfers only, and
  refinalizing needs that an open trip has no payments. From it follow `PaymentsNeverStranded`,
  `FinalizedIsLive`, `NewestIsActive`, and, with the step-by-step mapping of every transaction to a
  step or stutter of the cycle, `LedgerImplementsCycle`.
  `AuditIsComplete` shows that the entries of a row follow on each other and end in the row, in what they quote of it, through
  edits and deletions that race;
  `RetriesAreHarmless` that one creator and key have one live expense; `LogIsTrue` that a transfer is
  marked paid exactly if the last event about it says so. `HistoryAlwaysKept` needs only the types: finalizing
  touches the status of the active snapshot and a payment the payments of the active one, so that transfers
  never change and a superseded snapshot never does (`Kept`).
* **`TripProofs`, the requests.** The argument is that of optimistic locking: versions of rows only grow; a call is never ahead of the row it
  is about (`Behind`); and as long as the row is at the version the call holds (`Current`), what the call read of
  it still stands, since any write would have moved the version. So an edit that passes the compare-and-set was derived from the row
  it overwrites (`FromRow`), although it was read earlier and outside the transaction, and a precheck whose
  versions still match showed the rows that are frozen, although it was torn.
  `RequestsImplementLedger` (`RequestSpec => Spec`) carries the theorems about the tables over to the handlers; `LedgerHoldsUnderRequests` lists them.
  Then `EditsKeepOthersWork`, `FrozenAsShown`, `AmountsAreDerived`, `CreatedOnTheRightDay`,
  `WritesAreAuthorised` and `AnswersAddUp`, for any number of requests, bodies, zones and rates. `AmountsAreDerived` needs the
  edit lemma for each kind of edit: one that names no input of the conversion leaves all of its results, and one that does
  brings amount, currency, instant, day, rate and converted amount in one piece, from the row it overwrites.
* **`SettlementProofs`.** For inventories of any size and amounts of any size, in four layers.
  *Sums.* `SumFunctionOnSet` is a choice of a function that folds over a set; `SumOneMore` shows that such a
  function exists and that a sum is one term and the sum of the rest. Induction is stated over sets of cases
  (`SubsetInduction`, `SetOfNatInduction`) and comes down to a well-founded order. The laws used later are derived
  from it: sums add, scale, split, can be taken class by class (`SumByClass`) or table-wise (`SumSwap`).
  *Splitting.* Exactly the first `k` members of a sorted list have a place below `k` (`PlacesBelow`), so handing
  out a remainder one by one hands out all of it: `SharesAddUp` and `RefundAddsUp` are the assertions `split sum !=
  amount` and its counterpart for refunds. A refund within its original takes from nobody more than their share,
  although the remainder goes by the largest fraction: whoever gets a unit had a fraction, so their floor was
  below their share. A full refund has no fractions and takes exactly the shares.
  *Axes.* Each original with its refunds is a burden on its participants (`Burden`), shares are sums of burdens
  (`ShareIsBorne`), and both shares and payments add up to the axis (`SharesCoverTheAxis`, `PaidCoversTheAxis`). They
  give `SettleableNetsCancel`, `SettleableSharesPositive` and `FullRefundLeavesNoTrace` for any inventory that is
  well formed, and `NetsAlwaysCancel`, `SharesNeverNegative` and `FullRefundsAlwaysCancel` of `CasesSpec`.
  *Transfers.* `Matched` is the inductive invariant of the loop: rows go from debtors to creditors, what
  a member is still due is their net less what the rows gave them, nothing is due before the positions
  reached, both queues have as much left, no pair met twice, and each row has
  finished a creditor or a debtor, the last one both. Its parts
  need each other: that both queues end together needs the equal remainders, and uniqueness of pairs that
  a pair with a row has been left by one of the positions. It gives `PlanAlwaysSettlesEverybody` for the loop and, turn
  by turn, `MinTransfersSettles`, `SettlementSettles` and `ComputedRowsAccepted` for the operators the ledger run uses.
* **`MembersProofs`.** `MemberInv` ties together the unique joined admin, where tokens are (a live
  token stands in one row, has been drawn, and is not voided) and what calls in flight may hold. It gives
  `AlwaysOneAdmin`, `VoidTokensNeverJoin` and `BoundByAcceptance`.
* **`IdempotencyProofs`.** For `MaxOverruns = 0`, that is, handlers that end within their lease,
  `LockInv`: whoever is being handled holds an unexpired, unfinished lock, and results remember the
  hash of their author. It gives `OneHandlerAtATime`, `ReplaysMatch`, `NoUnexcusedRepetition` and
  `ResultsStopHandlers`. The violating run shows that the assumption is needed.

* **`ExpenseDraftsProofs`.** `ContentInv`: what a request is about to create, or would recover, was bound by a claim
  (`BoundInv`); who links holds an expense that exists (`Holding`); at most one is live. It gives
  `AtMostOneExpense` and `ContentsAreBound`, for any number of requests and failures, overlapping or not.
  `TurnInv` follows a single request at a time (`InTurn`): who rolls back has no live expense behind it, and
  before the first failure an unlinked draft has none but the one its request is about to link. It gives
  `NoOrphanInTurn`, for `MaxFaults <= 1`.
* **`UsageImportProofs`.** Four parts: the parser slot is free with nobody at work, or held by one
  (`SlotInv`); whoever is past the consent check has a stored disclosure (`ConsentInv`); a counter is within
  its limit and, with its late refunds, not below its charges (`BudgetInv`), nor above those that are owed
  (`OwingInv`). They give `ConsentComesFirst`, `QuotaIsKept`, `ChargesAreOwed` and `SlotIsExact`;
  `BatchesAreFilledOnce` follows from the steps alone.
* **`FxResolveProofs`.** A table in flight is of the day that was asked for, and final if that day was over when the
  request began (`Holding`); nobody began after today (`Begun`); who is about to replace the last known table saw
  no later one (`Compared`). They give `RatesKeepTheirDay`, `MonthlyIsFinal` and `OnlyARaceStepsBack`.
* **`ReceiptsProofs`.** A key that is or was in the row belongs to an upload that is over (`KeysAreOld`), so what a
  remove has deleted stays deleted until it clears the key (`Progress`). They give `KeysHaveObjects` and
  `StraysAreExplained`.
  For the pages (`ExpensePages`), `PagesInv`: the cursor is the last row given, the list given is in order, and what lies
  at or above its end was given or put there behind the reader. Beyond the cursor are then exactly rows older than everything
  given (`RestIsOlder`), a page takes the first of them in order, and its last row becomes the new end
  (`PageKeeps`). They give `AlwaysListedInOrder` and `AlwaysNothingSkipped`; `RowsCanBeListed` shows that there always is a page to
  give, so neither holds because a reader is stuck.

Only model-checked: liveness (`Recovered`, `LockEnds`), which is beyond this prover. Every safety property
of a passing run is proved. What the proofs leave to the runs is that the constants have the meaning they are given:
`DateIn`, `Found` and `Priced` are arbitrary in `TripRequests`, and `Settle` is arbitrary in `TripLedger`, the bridge to
`SettlementProofs` being `ComputedRowsAccepted`.

## 5. Not modelled, and the plan

Done: all modules above, in the order ledger, engine, members, drafts, idempotency, imports, rates,
receipts, requests, pages.

What could still be added, in this order:

1. **FxConvert** – the arithmetic of `convert.ts`: rounding half away from zero, cross rates, minor units;
   half-unit error, odd symmetry, monotony. `TripRequests` takes it as an arbitrary function of amount, currency and rate.
2. The field merge of a draft's `PATCH` (`updateDraft`), where two edits of different fields lose one. The
   code promises nothing else; `ExpenseDrafts` counts edits and does not look into them.
3. The preview of a settlement and the batched nets of the trip list (`netsForMemberships`), which read
   what `SnapshotIsLive` and `AnswerSettlesItsBills` are about.
4. The payment routes with their reads before the transaction, as calls of `TripRequests`. In `TripLedger` the
   role they arrive with is arbitrary already.
5. The consents a client posts and lists.

Left out for good: authentication (library wiring), mail (pure output), CSRF, configuration,
metrics, currency tables, migrations, and the wording of answers; display names and categories,
which no property depends on; PostgreSQL and Redis, which are taken as atomic per statement and
serializable under the row lock.
