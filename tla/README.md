# SmrtCash: a TLA+ verification project

SmrtCash is a personal-finance manager: a Fastify API (`server/src`, about
39,000 lines of TypeScript) over PostgreSQL, a React client (`web/src`) and a
handful of schedulers that run inside the API process.  Its hard behaviour is
that of a database application without a coordinator: many short requests and a
few timers change the same rows, most in several statements, some in one
transaction, and every one of them may stop half way.  This directory holds
models of the parts where that matters most, TLC runs over small instances, and
proofs for instances of every size.

Contents: [inventory](#inventory), [how the models are cut](#how-the-models-are-cut),
[what is modelled](#what-is-modelled), [runs](#runs-and-what-they-show),
[findings](#findings), [further disagreements](#further-disagreements),
[proofs](#proofs), [limits](#limits), [plan](#plan).

## Inventory

Paths are below `server/src` unless they say otherwise.

| Component | State | Operations | Talks to | Module |
|---|---|---|---|---|
| Import and dedup (`import/`, `routes/imports.ts`) | `transactions`, `import_batches`; unique `(account_id, dedup_hash)` | `persistBatch`, `assignDedupHashes` | called by uploads, Plaid, OFX-DC; after its commit runs rules, anomaly scan, subscription scan and the bill matcher | `BankIngest` |
| Plaid (`domain/plaid.ts`, `datasource/plaid.ts`, `routes/plaid.ts`) | `plaid_items` (token, `sync_cursor`), `plaid_account_links` | exchange, link account, sync, delete | Plaid; `persistBatch` | `BankIngest`, `Subscriptions` |
| OFX Direct Connect (`domain/ofx-dc.ts`, `routes/ofx-dc.ts`) | `ofx_dc_connections` (`last_sync_at`) | create, patch, delete, test, sync | banks; `persistBatch` | `Subscriptions` (the cap only) |
| Auto-sync (`domain/auto-sync.ts`) | a `running` flag | tick, forced run | Plaid, OFX-DC, prices | `BankIngest` |
| Bill matching (`domain/bill-matcher.ts`, `routes/bills.ts`, `routes/bill-matching.ts`) | `bills`, `bill_periods`, `bill_match_triage` | match, triage, overdue sweep, skip, pause, mark-paid, patch | import hook, insights tick, cards | `BillMatching` |
| Schedule changes (`domain/schedule-changes.ts`) | `recurring_schedule_changes` | create, delete, promote | bills, income | `ScheduleChanges` |
| Transfers (`domain/transfers.ts`) | `transactions.transfer_group_id` | detect, link, unlink | reports | `Transfers` |
| Insights (`domain/insights-*.ts`, `routes/insights.ts`) | `insight_cards` | hourly tick, generate, dismiss | bill sweep | `InsightCards` |
| Recurring review (`routes/recurring.ts`, `routes/subscriptions.ts`) | `recurring_suggestions` | detect, scan with a model, confirm, reject, snooze | bills, income, language model | `RecurringReview` |
| Categorisation (`ai/`, `domain/rules-applier.ts`, `routes/suggestions.ts`) | a transaction's category and status, `normalization_rules`, `category_suggestions` | import hook, apply, AI, resolve, edit | language model | `Categorisation` |
| Attachments, keys, OCR (`attachments/`, `ocr/`, `scripts/rotate-kek.mjs`) | files; `attachments`, `tenant_encryption_keys` | store, read, delete, rotate a tenant's key, rotate the master key, boot sweep | bank credentials, `/settings` | `Attachments` |
| Assistant (`domain/assistant/`) | `assistant_staged_batches` | stage, commit, undo | categories, budgets, goals, bills; the pool | `StagedBatches` |
| Billing and entitlements (`billing/`, `routes/billing.ts`, `auth/entitlements.ts`) | `subscriptions`, `stripe_processed_events`, `usage_counters` | webhook, grants, quota, caps | Stripe | `Subscriptions` |
| Tenants, sessions (`routes/tenants.ts`, `routes/auth.ts`, `auth/`) | `tenants`, `memberships`, `invitations`, `sessions`, tokens | signup, verify, invite, accept, switch, remove, reset, delete | mailer | `Households` |
| Splits and custody (`routes/splits.ts`, `routes/household.ts`) | `transaction_splits`, `account_splits`, `custody_periods` | replace, clear, totals | reports | `CostSharing` |
| Backups (`domain/backup-*.ts`) | `backups`, directories | tick, run, prune, restore | `pg_dump`, attachments | `Backups` |
| Budgets, goals, projections, reports, tax, investments, prices | rows of one tenant | CRUD and arithmetic | price services | - |
| Settings, health, metrics, mail, migrations | settings, counters | recorders; one transaction per migration file | - | parts of the above |
| Web client (`web/src`), `scripts/`, `docs/` | - | - | the API | - |

`PROJECT.json` lists each component with its files and what of it is left out,
the lines every definition stands for, and the hazards line by line with the
properties that cover them.

## How the models are cut

A request is a process with a stage (`pc`) and a record of what it has read
(`job`).  It is cut where the code gives up the floor: at each `await` of a
statement, of a file, of a bank or of a model.  A transaction whose statements
can only be seen together is one action, at its COMMIT; where its first
statement takes a lock or looks at rows others may still change, that statement
is an action of its own (`VerifyLock`, `AcceptLoad`, `Look`, `PutDelete`), and
the lock is a variable.  PostgreSQL runs at READ COMMITTED, as the pool does not
ask for more.

Failures are actions: a statement that fails, a connection that is lost, a
process that stops and another one that starts.  Where all of them leave the
rows alike they are one action (`Fail`, `Crash`, `Abort`).

History variables, named as such in each module, are read by no action.  Most of
them name an *overlap*, which a property then exempts: `mixed` in `CostSharing`
holds the wholes two requests divided at once.  A property with such an
exemption says two things, that nothing else breaks it and which overlap does.

Services that share no rows are put into one specification, since nothing is lost
by giving each its own behaviour: the initial state chooses one (`Start`), and only
it moves (`Step`).  `Services` does so for what is about safety, for any value of all
their constants, and `MCServices` is a small instance of it; `MCRequests` does so for
the services that promise something will happen.  `Services` extends `Households`, which
may begin `Settled` as well as empty, and `MCRequests` extends `Attachments`: these
keep their own names and rest in the others' behaviours.  `v1`, `v2`, ... hold the
variables of any other service, and its properties are guarded by its name (`Of`).
In `Services` the instances are of the modules *with their proofs* (`T == INSTANCE
TransactionsProofs WITH ...`): these say what the services' own modules say, and
bring the theorems along.  A proof module may hold several services; then the
constants and variables of the others are given an empty value there.

## What is modelled

### `BillMatching`

| State | In the code |
|---|---|
| `nextDue`, `active`, `pausedUntil` | columns of `bills`; a due date is the index of its cycle, `DueDay(k)` its day |
| `period`, `matched` | `bill_periods.status`, `matched_txn_id` |
| `triage` | `bill_match_triage`: no row, open, or its resolution |
| `stored`, `category`, `openCard` | `transactions`, `insight_cards` |
| `pc`, `job`, `todo` | the statement a request or the sweep has reached and the values it has read |
| `acked`, `alerted`, `links` | history: cycles the user moved past, cycles a card was raised for, links committed |

The matcher is its eligibility check (`MatchBegin`), its SELECT and scoring
(`MatchScan`) and its COMMIT (`MatchCommit`); acceptance is the locked read and
the COMMIT; the sweep, which has no transaction, is one action per statement
(`SweepList`, `SweepLook`, `SweepFlip`, `SweepCard`, `SweepAdvance`); mark-paid
and skip-period likewise.  The row locks of acceptance, and the deadlock between
two of them that PostgreSQL breaks, are explicit (`Locked`, `DeadlockAbort`).
Dates keep the code's arithmetic on cycles and days; amounts are reduced to what
scoring distinguishes, and a charge whose verdict may vary (drift mode follows
the last payment) takes any verdict in its set.

### `BankIngest` and `FeedLedger`

`FeedLedger` is the promise: the bank announces changes, the ledger learns of
transactions and never forgets one, and the mark it would resume from never
stands beyond a transaction that is neither entered nor *passed*, which only happens to
transactions of accounts that are not open to it.  `BankIngest` is the code:
`persistBatch` with its dedup hashes and its sign normalisation, uploads, and
one Plaid item synchronised by the scheduler's tick and by requests.

| State | In the code |
|---|---|
| `cursor`, `links` | `plaid_items.sync_cursor`, `plaid_account_links` |
| `rows`, `flipped` | `transactions`; a row is a base hash and its occurrence |
| `pc`, `job` | a sync's stage, the cursor and links it read, where its window ends, the accounts it has still to persist |
| `published` | how much of its log of changes the bank has put out |
| `gone`, `unmapped`, `dropped`, `most` | history: deleted rows, keys of no linked account that an answer counted, those a tick passed without a word, the largest number of copies in one batch |

A sync is `SyncRead`, `SyncFetch`, one `SyncPersist` for each account,
`SyncSave`; `Fail` may stop it between any two, between the two accounts of a
window as well.  `SyncSave` passes what belongs to no account the sync had read as linked; a
request's answer counts it, a tick tells nobody (`TellUnlinked`).  The route and the tick run the
same steps without a common lock.  What Plaid does is taken from how the code
uses it and marked external in the map: a window names a transaction at most
once, and a transaction keeps its identifier.

### `Attachments`

Receipts on disk, the data key (DEK) they are under, and the master key (KEK)
that wraps the DEK.  `disk[f]` is the key of the file, `version[f]` the generation
its row claims (1: directly under the KEK), `keyRow` the wrapped DEK; `kekRun` the KEK
the server has read, `kekEnv` and `kekSetting` where it will read it next.  An upload is
`UploadBegin`, `UploadMint`, `UploadReread`, `UploadWrite`, `UploadInsert`,
`UploadOcr`; a rotation of the DEK is `RotateBegin`, `RotateList`, then
`RotateRead` and `RotateWrite` for each file and `RotateCommit`; the KEK script is
`KekList`, `KekCommit`, `KekEnv`, and `PutKek` changes the key of the running server.
`Boot` starts the OCR sweep (`SweepRow`).  A first upload and a rotation wrap their new
DEK at their beginning (`UploadBegin`, `RotateBegin`) and store it later, under whatever
KEK that was: `late` names the rows stored so under a KEK that is not the database's any
more.  `torn` names the files that a rotation left behind and those of version 1 that a new
KEK has closed (`Shut`): nothing rewrites these.

### `StagedBatches`

A plan is a sequence of tool calls; `CreateBatch` stores it; `CommitLoad`, `Connect`,
a `Capture` and an `Execute` for each call, `EndTransaction` and `MarkApplied` or
`MarkFailed` apply it; `UndoLoad`, `UndoConnect`, `Undo` and `UndoMark` walk the stored
inverses backwards.  The tools take connections of their own from the pool, so
`Connections` is a constant and a request may wait for one while it holds another.
Seven write tools are modelled by what they read, write and record as their
inverse; `Chat` and `DeleteTxn` are what else writes those rows.  A goal's name
is stored trimmed and looked for as it was proposed, so a call has a flag for blanks about
it (`padded`); splitting a transaction enters who shares it in `split_participants` first,
on a connection of its own.  The audit log is left out.

### `Households`

`account`, `password`, `verification`, `reset` are a user's rows, `house`,
`member`, `invitation` the tenant's, `session` the session with its household
column; `userLock` and `inviteLock` are the `FOR UPDATE`s.  Signup, verification,
invitation, acceptance, login, switching, removal of a member, password reset,
account deletion and the operator's routes are actions, and `Arrive` and `Gate`
are the hook that decides for which household a request is served.  Removing a member
is two statements, the membership (`RemoveMember`) and the household of the member's
sessions (`Unseat`); a switch or a login that had looked before writes the household
back after it (`strayed`), and the gate refuses what comes with such a session.

### `Subscriptions`

One household.  `Script` is what Stripe sends; `Deliver` claims an event id,
`Handle` writes the row, `Answer` tells Stripe, `HandlerThrows` and `Unclaim`
withdraw the claim.  `HandlerDeclines` is a handler that writes nothing and does not throw:
the event lacks something (`fit`), or Stripe can not be asked for an invoice's customer;
it is answered 200 and its claim stays.  Events arrive in any order, twice, two at once, until they
are answered.  `Entitled` is the plan in force with its grace; `Ask`,
`ReadPeriod`, `Bump`, `Unbump` are the metered feature, whose counter moves with
the period; `LinkLook` and `LinkInsert` the cap on bank connections.

### `Transfers`, `CostSharing`, `ScheduleChanges`

`Transfers`: `Detect` and `Link` look, `Write` writes in a transaction that does not
look again; `Candidates`, `Before` and `Taken` are the pairing (opposite amounts,
other account, same currency, five days) in the order of the code.

`CostSharing`: a *whole* is a transaction over categories or an account over
participants; both are replaced by `PutDelete` and `PutCommit`.  Shares are counted in
0.0001 %: `CostSharingOK` lets in what the handler does, a sum within 0.001 % of 100, and
`Column` rounds each share as `NUMERIC(6,3)` does.  `Lines` is the
view of migration 010; `Counted` is the query of the totals, join by join.

`ScheduleChanges`: `Look` takes the due rows nobody has locked (`SKIP LOCKED`),
`Apply` folds them in by date.  A value is identified with the change that set
it, so the order of two writes shows.

### `Backups`

A run is `Begin`, a `Save` for each part (the dump, then the archive), `Finish` and a
prune that removes directory and row one by one.  A restore is asked for (`AskRestore`),
and `pg_restore` begins whatever has happened since: it brings back the rows
(`RestoreRows`), or fails after replacing some tables (`RestoreFails`), and the files follow
(`RestoreFiles`).  Nothing keeps two restores apart, so each goes by its number;
`excused` names the rows whose files came of another restore.  Uploads and deletions go on
beside both.  `pg_dump` is one snapshot.

### `RecurringReview`

`rows` is `recurring_suggestions` of all households, with the unique index that
they share (`Conflicting`).  A detection is `Detect`, an `Insert` for each key,
`Inserted`; a scan goes on to ask a model, and `Verdicts` are written when it
answers.  `ConfirmRead` and `Confirm` are apart, as the route reads the row
before its transaction and does not look again; rejecting and snoozing are one
UPDATE each.

### `Categorisation`

Every writer of a transaction's category.  Rules (`ReadRules`, one `ApplyRule`
for each, the strongest last), after an import or on request; the AI normaliser
(`AIBegin`, `AIAnswer`, one `AIWrite` and `Capture` for each row); the resolution of
a proposal (`ResolveRead`, `Resolve`); the user's `Edit` and `Rename`; the bill matcher's
fill of an empty category (`MatchFill`); the assistant's tools, directly (`Recategorise`)
or staged, with the undo that brings back what was read before (`StageLook`,
`StageWrite`, `StageUndo`); the deletion of a category, of one or all (`DeleteCategories`).
Only the status `manual` protects a row, and rules and AI must look at it; the matcher
does not, and what the assistant does is at the user's word.
A pattern is the set of transactions it fits; what the model answers is any
choice among the names it was given and some it was not.  The merging of categories of
one name at boot changes nothing here, where a category is its name; the canonical
categories a reset seeds are not among `Cats`.

### `InsightCards`

The hourly tick: the overdue sweep as far as its cards go (the sweep itself is in
`BillMatching`), then one `Scan` for each household whose newest card is old
enough, its inserts one by one; `Regenerate` is the scan on request.  `Signals` are
what the generators would propose: they arise and pass by themselves.

## Runs and what they show

| Run | Properties | Shows |
|---|---|---|
| `bill_ledger` | `TypeOK`, `LedgerComplete`, `AutoLinkIsConfident`, `PastDueIsSwept` | one recurring bill, one charge, a request and the sweep, two user interventions, one abort: every cycle behind the cursor was paid, skipped, reported or passed over by the user; an automatic link is for the cycle that was scored; a bill past its grace is moved on |
| `bill_triage` | `AcceptanceAtomic`, `ResolutionFinal` | two bills ask about one charge and two requests scan and resolve at once, past a deadlock and an abort: acceptance is all or nothing, and the later never rewrites the earlier |
| `ingest` | `TypeOK`, `NothingSkipped`, `CopiesExact`, `ImplementsLedger`, `EventuallyEntered` | a request and the tick sync one item over two accounts, two interventions, one failure: the cursor passes nothing but what had no linked account, rows exist in the right number, `FeedLedger` is implemented, and all of an open account is entered |
| `requests` | `Types`, `FilesHeld`, `SettledStays`, `ReceiptAnswered`, `RequestsEnd`, `SignalSurfaces` | three services under fairness.  Receipts: two uploads race for the first key past two crashes; what the boot sweep lists is answered and no answer is replaced.  Staged batches: a request ends unless the pool is exhausted by commits that wait for one connection more (two requests, two connections: this happens).  Cards: a lasting signal is shown again and again, though a neighbour's scan always fails |
| `services` | `Types`; `OneHousehold`, `SessionsInside`, `AdminRemains`, `OldPasswordOut`, `JoiningConsumes`; `AckedApplied`, `AppliedOnce`, `QuotaHeld`, `CounterExact`, `SlotsHeld`; `PairsWhole`; `DivisionsAddUp`; `FoldedOnce`, `LatestWins`; `FilesHeld`, `KeysFollow`; `RestoredWhole`, `LastGoodKept`; `AnswersStand`; `ManualKept`; `UndoIsInverse` | ten services, two requests at a time: `Households`, `Subscriptions`, `Transfers`, `CostSharing`, `ScheduleChanges`, `Attachments` (rotations), `Backups` (two backups and restores of them that overlap, fail or are cut off, beside an attachment; and what prunes), `RecurringReview`, `Categorisation`, `StagedBatches`.  All of these are also proved, for every instance |
| `bill_first_payment`, `bill_rejected`, `ingest_sign`, `kek_restart`, `staged_atomic`, `custody`, `recurring_tenants` | one each | violations, see [findings](#findings) |

Every property is stated with its reason in its module; each has a mutant of the
code in `PROJECT.json` that breaks it.

**Bounds.**  Two requests are the fewest that overlap; in `services`, whose properties
are all of safety, they are model values under symmetry (`Alike`), as no action
tells one request, caller, rotation or backup from another.  In `bill_ledger` two
cycles and a cursor beyond them let a flow write back an old value and let a sweep
catch up twice; a `CycleDays` of 3 with a `MatchWindow` of 2 gives adjacent windows
that overlap.  In `ingest` a key is announced, and withdrawn two changes later,
between changes on two accounts, and windows of up to two changes give a sync two
accounts to persist, with a failure between them; the file comes with one and with two copies of a key.
`MaxStarts` of 4 lets each of two requests run twice, so that one may be reused
after another overlapped it (`RecurringReview`, `Categorisation` and `Subscriptions`: 3, of two
rejections and a detection, an import, a model and an edit, or a purchase, a metered
request and the end of the period it was counted in).  Two users, two
households and one open invitation are what an admin who leaves, one who joins and
one who is removed need.  The subscription's script is a purchase, a failed renewal
and the end, against quotas of 2 and connections of 1; requests ask for 2 units, which is
the quota, or for 3, which is beyond it, so that one is at the limit and the next
is refused and gives its units back, perhaps after the period has changed.  Three receipts a payment fits, with a fourth transaction
days later, make detection choose.  The backup instances are two because restores need a file, two backups and one day,
which lets either restore's rows meet the other's files, and pruning needs several days
and no files; `LastGoodKept` supposes that the administrator, who may delete there,
does not.  `Gap` of 1 hour stands
for 23: what matters is that a card puts a scan off by more than one tick.
Two shares of 50.0005 and 49.9995 are what the column rounds apart.
The plans of staged batches write the same row
twice, two goals, what has no inverse, what always fails, and a goal with blanks about
its name.  `MaxEdits`, `MaxFailures`, `MaxCrashes`, `MaxDay`, `MaxPeriod`, `MaxTime`, `MaxWindow`,
`MaxDeks`, `MaxKeks`, `MaxGoals`, `MaxRows`, `MaxChanges`, `MaxGroups`, `MaxSuggestions`,
`MaxRestores`, `MaxRemovals` bound counters: they only cap how often something happens.
A category name is made once and never again after its deletion.
`CHECK_DEADLOCK FALSE` is set throughout because a system with no request, no
change and no time left does stop.

**Fairness** (`FairSpec` of each module).  A request or a sweep that has begun takes
its next step: Node runs a resolved promise, PostgreSQL breaks deadlocks, and a
pool hands a free connection to who waits.  The timers fire again and again
(`SweepList(Scheduler)`, `SyncRead(Scheduler)`, `Tick`, the insights tick in
`Continue`), and the clock runs (`Hour`).  A server that died is started again
(`Boot`), as the container's restart policy does, and an OCR call is ended by its
timeout.  Nothing is assumed of users, uploads, banks, or which worker goes first,
and failures are finite but unannounced.  In `MCRequests` one condition serves for
an action of two services; a behaviour is one of one service, so it says of each
what that service's own specification says.

## Findings

- `bill_first_payment`: a second charge in the window of a one-time bill replaces
  the first in its period, where the header of `bill-matcher.ts` says only the
  first links.
- `bill_rejected`: the matcher does not read rejected triage rows; after both
  rows of an ambiguous charge are rejected and one bill's due date is moved, a
  rescan links the rejected pair.
- `ingest_sign`: a sync window with a lone repayment on a credit card is taken
  for a statement of charges and stored with its sign reversed, though it had
  been mapped to the right one.
- `kek_restart`: a master key saved in `/settings` overrides the one the rotation
  script has put into `.env`; the restart the script asks for loads the old key.
- `staged_atomic`: the assistant's tools do not use the transaction they are run
  in, so a failing action leaves those before it applied, in a batch marked failed.
- `custody`: the totals' join yields one row per account split, and a custody
  period turns each into 100% of the transaction for the custodian.
- `recurring_tenants`: the unique index on suggestions leaves the household out,
  so one household's row makes another's detection fail.

## Further disagreements

Met while reading or modelling, without a run of their own.  Those marked (m) are
behaviours of a model here; a history variable names them or no property claims
otherwise.

- (m) Receipts of version 1 are under the KEK itself and nothing re-encrypts them; after a
  new KEK the server can not read them (`Shut`), where `docs/RUNBOOK_KEK_ROTATION.md:75`
  says existing receipts open.
- (m) Two matchers that hold one charge (the import hook and a rescan) both find it
  unmatched; the second reads the bill after the first has moved it on and, if the next
  cycle is in its window, pays it with the same charge.  `bill-matcher.ts:210`: "Already
  matched? Don't re-process."
- (m) A tick passes the transactions of accounts not linked yet (`dropped`) and tells
  nobody, though `auto-sync.ts:31` says it behaves as the request does, which counts
  them in its answer (`unmapped`).
- (m) A failed-payment event whose customer can not be loaded is answered 200 with its
  claim kept (`declined`); the retry that `webhook-handlers.ts:189` counts on never comes.
- (m) Shares may be 0.001 % off and are rounded one by one, so what is stored need not
  add up to 100, which migration 067:78 says the application enforces; `SharesAddUp`
  says how far off it may be.
- (m) The bill matcher fills an empty category also when the user has emptied it by hand
  (`MatchFill`), where `rules-applier.ts:8` says no automatic pass overwrites a
  hand-edit.
- (m) A goal proposed with blanks about its name is stored without them and looked for
  with them (`padded`), so undoing its batch deletes nothing; a bulk change of categories
  has no inverse, although the header of `staging.ts` lists one.
- (m) Each commit holds a connection while its tools ask for another; as many commits as
  the pool has connections wait for ever (`Exhausted`), and everybody behind them, where
  `performance-analyzer.ts:107` calls a waiter "normal sub-millisecond contention".
- (m) `routes/tenants.ts:301` says acceptance "runs its own check too for
  race-safety"; acceptance (425-514) never asks for a seat.
- (m) Two backups may run at once although `backup-scheduler.ts` speaks of
  double-firing; a backup whose directory is gone still reads "success"; a restore
  brings its own row back as "running"; two backups in one second share a
  directory.
- (m) `Subscriptions`: an update delivered after the deletion brings the plan back;
  no document claims an order.
- (m) `StagedBatches`: two confirmations of one batch both pass the look at its
  status, and every action runs twice.
- (m) `domain/schedule-changes.ts:15-22` and `routes/schedule-changes.ts:28` speak of
  promotion on every list or add; adding does not promote, and `effectiveValuesAt`
  is called by nothing.
- (m) Deleting one leg of a transfer leaves the other in its group
  (`routes/transactions.ts:90`).
- (m) Migration 009 says "AI-driven normalization never undoes a learned rule"; mode
  `all`, or a call in flight, does.
- (m) `ai/normalize-service.ts:134` inserts a proposal without `tenant_id` and
  `routes/suggestions.ts:38` looks for one with it, so what the AI proposes can
  not be reviewed; only proposals of before migration 017 can.
- (m) Approving or merging a proposal overwrites rows the user has since edited,
  and the status it looked at is not looked at again.
- (m) A rule that only sets a category forbids deleting that category (the CHECK of
  migration 009 meets ON DELETE SET NULL).
- (m) Migration 061 calls dismissal permanent; the next scan makes the card again.
  "At most once per day" is by the newest card: a household with nothing new is
  scanned every hour, and one whose bills fall due daily is never scanned.
- (m) Migration 007 says a snoozed suggestion surfaces again; nothing does that.
  `subscription-ai.ts:189` leaves what the model did not answer "as-is"; the route
  rejects it.
- Migration 071 re-creates the kinds of a card without `budget_recap`, so the
  INSERT of `budget-recap.ts:316` always fails.
- `performance-scheduler.ts:71` returns without scheduling its next tick.
- `bills.ts:44`: adding a month to the 31st overflows into the month after.
- `dedup.ts:41`: a bank reference that occurs twice in a batch gets one hash.
- `datasource/plaid.ts:104`: "removed" is ignored and "modified" meets ON CONFLICT
  DO NOTHING, so a pending charge that posts under a new id stays beside it;
  at 130, changes that cannot be mapped are dropped by the tick.
- `bill-matcher.ts:417`: a card may say overdue of a cycle paid between two
  statements of the sweep.
- `importer.ts:321`: the matcher runs after the commit, row by row; a crash there
  leaves the rest unmatched until a manual scan.

## Proofs

TLAPS checks these for every value of the constants that satisfies the assumption
the module states about them: `ConstantsOK`, `IngestConstantsOK` and `ServicesOK` as
`ASSUME`s of `BillMatching`, `BankIngest` and `Services`; `SubscriptionsOK`, `StagingOK`,
`TransfersOK` and the like as hypotheses of the theorems about one service, since
`Services` instantiates the modules and discharges each hypothesis from `ServicesOK`.
TLC evaluates `ServicesOK` in every run of `MCServices`.  The assumptions ask for
finite sets where a count is taken, sensible ranges, a value `None` that is no one's
name, files that belong to one account and repeat no key of the feed, and plans that
are non-empty sequences of calls.  Nothing bounds the number of requests, users,
files, keys, plans or events but the counters that `Max...` constants cap at any number.

Each proof has the same layout: what each variable and each job may hold at each
stage, the parts of the invariant with one lemma per action (and one for all
actions that leave a part's variables alone), and a theorem for each property.

`BillMatchingProofs`:

- `TypeCorrect`: `Spec => []TypeOK`.
- `LedgerSafe`: `Spec => []LedgerComplete`.  `LedgerComplete` alone is not
  inductive, since a worker may be about to write a cursor it read long ago.  The
  invariant adds, for each stage, what the worker's value still means: all cycles
  before it are settled, and, where the flow has already written the ledger, the
  cycle itself is.  Settled cycles stay settled under every action, so a stale
  write can move the cursor back or forth but only to a place with nothing lost
  behind it.

On the same typing facts:

- `AutoLinkSafe`: `Spec => []AutoLinkIsConfident`.  The property speaks of links
  already made; the invariant says the same of the decision a matcher carries
  from its `SELECT` to its `COMMIT`, which no later move of the cursor alters.
- `AcceptanceSafe`: `Spec => []AcceptanceAtomic`, and `ResolutionsStay`:
  `Spec => ResolutionFinal`.  Both follow from one invariant: a row held by an
  acceptance is open, has one holder, and belongs to a stored charge, and no link
  of a charge precedes its import.  The lock guards of `AcceptLoad`,
  `AcceptCommit`, `CloseTriage` and `DeleteTxn` are what keeps it.

`BankIngestProofs`:

- `IngestTypeCorrect`: `Spec => []TypeOK`.
- `IngestSafe`: `Spec => []NothingSkipped`.  The invariant says of each sync that
  all before its window is entered or passed, and that in its last stage each transaction
  of the window is entered, unlinked, or on an account still to do.  `SentSplit`
  joins two windows; `SyncSaveOK` is the step that uses it.
- `IngestCopies`: `Spec => []CopiesExact`, through the membership form
  `CopiesIff`.
- `IngestImplements`: `Spec => ImplementsLedger`.  The mark is the cursor; entered are the
  keys with a row (also if deleted since), passed those a sync saved the cursor beyond
  without an account for them, and an account is open when it is linked and no sync in
  progress read it as unlinked.  The added invariant `KnownHeard` says that nothing is
  entered or passed before it is announced.  Saving a cursor maps to `Resume`, publishing to
  `Announce`, all else to `Enter`.

`HouseholdsProofs`, for behaviours that begin with nobody signed up or with households
that are settled (`SettledHolds`):

- `HouseholdTypes`: `Spec => []TypeOK`, the foreign keys included.
- `FoundsOnce`: `Spec => []OneHousehold`.  The invariant `FoundingAlone` says why
  a verification that found no household may found one: it holds its user's row
  lock and the account is still unverified, and every verified account that left
  no household has one.  Without the lock the second verification would too.
- `SessionsStayInside`: `Spec => []SessionsInside`.  Who enters a household's session in is
  a member or the session is in `strayed`; who leaves is in the hands of the request that
  will unseat the sessions, or goes with the household or the account.
- `ResetsEndSessions`: `Spec => []OldPasswordOut`, up to the logins in `early` that
  had passed the old password when the reset came.
- `MembersAreInvited`: `Spec => JoiningConsumes`.  An accepting request holds the
  lock of a live invitation to the household it joins (`LocksHold`).
- `AdminsRemain`: `Spec => AdminRemains`.  In a household that no two departures
  contest, who is about to leave is alone in it and another administrator was
  there when it looked and still is (`LeavesAlone`).

`SubscriptionsProofs`:

- `SubscriptionTypes`: `Spec => []TypeOK`.
- `AcksHold` and `WritesOnce`: `AckedApplied` and `AppliedOnce`.  A claimed event is
  in one request's hands (`ClaimedOnce`); behind a claim there is a write, a request
  still to write, one whose handler declined, or one that died (`ClaimKept`); what is unclaimed, or claimed and
  not yet written, was never written (`WrittenOnce`), except where the reply to a
  write was lost.
- `CounterIsExact` and `QuotaIsHeld`: `CounterExact`, the counter of a period is what
  was granted in it, what refused requests still owe and what leaked, is
  inductive by itself, with the set that owes finite (`OwedFinite`); `QuotaHeld` needs
  in addition that the cap a request compares with was a plan's (`QuotaOfPlan`).
- `SlotsAreHeld`: `SlotsHeld`; a connection nobody overtook still fits (`SlotLeft`).

`SubscriptionsProofs`, second part, about `StagedBatches`:

- `StagedTypes`: `Spec => []TypeOK`.
- `UndoInverts`: `Spec => []UndoIsInverse`, for plans of any length.  While a batch is in
  `clean`, one request at most works on it (`Sole`), and at each stage two things hold
  of the rows (`Holding`): they are what the calls made so far have made of the rows
  before (`Done`), and the inverses in hand, run backwards, would bring those back
  (`Restores`).  `DoneNext` and `RestoresNext` add one call; `BatchHolding` keeps both for
  a batch in nobody's hands, between its application and its undoing.  `Restores` runs
  down a list (`Reversed`), so the lemmas about it are by induction on its length.  The
  induction is the library's theorem that `<` is well-founded on the naturals, applied to
  a set of numbers (`Induct`).

`ScheduledProofs`, about `Backups`:

- `BackupTypes`: `Spec => []TypeOK`.
- `RestoresWhole`: `Spec => []RestoredWhole`.  A restore brings back what the two parts of
  a run saved, so the invariant is of the copies: what the dump's rows name is in the
  archive, or in the store until the archive is made, but for `holes` (`CopyFits`).  While
  a restore is between rows and files, the rows are answered by the archive (`FilesFit`),
  if it is the latest to have brought rows; what any other brings is excused.
  A dump also holds the table of backups as it was, which a restore makes the
  database's; `RowFits` is therefore said of every dump's table as well.
- `LastGoodStays`: `Spec => []LastGoodKept`.  What prunes hold are old successes, and a
  success remains that none of them holds (`Kept`), although two prunes may have read
  the table at different times.

`ScheduledProofs`, about `ScheduleChanges`:

- `ChangeTypes`: `Spec => []TypeOK`.
- `FoldsOnce`: `Spec => []FoldedOnce`, from `LocksHold`: `SKIP LOCKED` gives a row to
  one promotion, and none holds an applied one.
- `LatestIsKept`: `Spec => []LatestWins`.  `InOrder` says that what is yet to be applied
  comes after what is applied or about to be, except within one promotion's own
  rows, between overlapping promotions (`crossed`), and for what was added behind a
  later change (`late`).

`ScheduledProofs`, about `RecurringReview`:

- `ReviewTypes`: `Spec => []TypeOK`.
- `AnswersAreKept`: `Spec => []AnswersStand`.  What a detection found missing is missing
  (`Missing`), and what a confirmation read has no bill (`Unmade`), unless the history
  names another request that found the same.

`TransactionsProofs`, about `Transfers`:

- `TransferTypes`: `Spec => []TypeOK`.
- `PairsStayWhole`: `Spec => []PairsWhole`.  The write does not look again, so the invariant
  says what a look is still worth (`Looked`): its pairs are disjoint and on two
  accounts, each is there yet, and a leg that has been grouped meanwhile is of a group
  the request itself clears; or `parted` names it.

`TransactionsProofs`, about `Categorisation`:

- `CategoryTypes`: `Spec => []TypeOK`.
- `ManualStays`: `Spec => []ManualKept`.  Inductive with the types and the shape of what
  each request has in hand (`CatInv`): rules and AI look at the status again, so none of
  them needs a promise; the bill matcher fills only rows left without a category, and
  what it fills in is what stands from then on.

`TransactionsProofs`, about `CostSharing`:

- `ShareTypesHold`: `Spec => []TypeOK`, with the unique and the foreign key of
  `account_splits`.
- `DivisionsHold`: `Spec => [](LinesAddUp /\ SharesAddUp)`.  Outside `mixed` and `shrunk` a
  whole has no rows or those of one division (`Entire`), and who is between its DELETE
  and its INSERT is alone and has deleted all there is (`Alone`).  What is summed is then a
  division as the route accepted it and the column rounded it (`StoredNear`: by no more than
  5 units a part, which `SumsNear` adds up by induction on the number of rows), the one line of an undivided transaction
  (`SumOfOne`), or nothing (`SumOfNone`).

`AttachmentsProofs`:

- `AttachmentTypes`: `Spec => []TypeOK`.
- `FilesStayHeld`: `Spec => []FilesHeld`.  That a receipt is under the key its row
  points at depends on what everybody has in hand: an upload has an unlisted file
  of its own (`Jobs`) under the tenant's present key unless a rotation overtook it
  (`HandsCurrent`); a rotation's list names rows as they are, each file once, and what
  it has done is under the key to come (`Rotations`).  The overlaps that spoil this are
  those `torn` names, with the version-1 files a new KEK has closed.
- `KeysKeepFollowing`: `Spec => []KeysFollow`.  What the re-wrapping script did not list
  was empty or has been stored behind its back (`Unlisted`); a DEK wrapped early is compared
  with the database's KEK when it is stored (`Astray`).
- `SettledAnswersStay`: `Spec => SettledStays`.  A receipt that an OCR call, the sweep
  or an upload has in hand is pending and in one hand only (`OcrOpen`), so no answer
  that is there is written again.

`ServicesProofs`, for the specification that the run `services` checks:

- A lemma per service (`TransfersOnly`, ...) says that a behaviour of `Services` is one
  of that service's own `Spec` from the start, or never in it.  With it each theorem
  above is carried over by name: `AckedApplied` (`AcksHoldHere`), ..., `UndoIsInverse`
  (`UndoIsInverseHere`), the two action properties of `Households`, and the types of all
  services at once (`TypesHere`).

What proving has changed in the models: a history variable of `Backups` forgot a second
run that was under way beside a restore, which the instance of restores, having one
run, could not show; the plans of `StagedBatches` could have been empty or have named
no transaction; and a household settled from the start had to satisfy the invariants of
the empty one, which `SettledHolds` proves.

## Limits

Only model-checked: the liveness properties (`PastDueIsSwept`, `EventuallyEntered`,
`ReceiptAnswered`, `RequestsEnd`, `SignalSurfaces`), since TLAPS does
not reason about fairness and `ENABLED`; the `Types` of `MCRequests`, whose insight
cards have no other safety property and therefore no proof; and the seven violations.
The library's induction theorems take an operator as a parameter and cannot be used;
where an argument is by induction (a list of inverses, the last change to a field, a sum
over a set of rows) it
is made with sets of numbers and the theorem on well-founded orders.  The modules
with theorems use no `RECURSIVE` operator.

Left out of the modelled parts: creating, deleting and repricing bills; calendar
months (a cycle has a fixed length); file parsing and column mapping; the deletion
of a Plaid item; the gate that spaces syncs; expiry of sessions and tokens, login
throttling, API keys and sign-in by another provider; the per-account permissions
of members; checkout and portal; the text of patterns, what models and OCR read;
the limits of the card generators, snoozed cards and anomaly alerts; the read
tools of the assistant.  Several tenants appear where they share rows
(`Households`, `RecurringReview`, `InsightCards`) and nowhere else.

Not modelled at all: budgets, goals, projections, reports, tax, investments and
prices are sequential arithmetic over one tenant's rows with unit tests of their
own; portability is one transaction; metrics, mail and migrations are recorders
and scripts; the web client keeps no state the server does not.  More than half of
the source is of these kinds, which is why the map covers the concurrent core and
not most lines.

## Plan

Done: the modules above, with a theorem for every safety property of theirs that a run
checks and holds, and for the refinement of `FeedLedger`.

Model extensions that would add most: OFX Direct Connect as a second source of
`BankIngest`; a composition of `BankIngest` and `BillMatching` through the hook after
the commit.
