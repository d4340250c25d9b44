# A verification project for FINVERSE

FINVERSE is a personal-finance service: a NestJS API over PostgreSQL
(`src/apps/api`), a Flutter client (`src/apps/mobile`) and shared type contracts
(`src/packages/contracts`). This directory holds TLA+ models of the parts of the API
whose correctness depends on concurrency, on failure, on time or on two adapters
agreeing, the TLC runs that check them, and TLAPS proofs about them. `PROJECT.json`
lists the components, the runs, the source lines each definition stands for, the
mutants that show each property can fail, the hazards and the proved theorems.

## The system

The API is a modular monolith. Every handler is an async function; between two `await`s
nothing else of the same process runs, at an `await` everything else may. Several
processes may serve the same database. State that outlives a request is in PostgreSQL: one
statement, or one `withUserScope` / `withTransaction` block, is atomic (READ COMMITTED);
a handler that issues several is not. Every store has a second, in-memory adapter, which
the tests and a development server use.

| Component | State | What is hard | What makes it correct |
|---|---|---|---|
| Bank links and sync (`modules/banking`, `infra/banking`) | `institution_links` (status, cursor, `updated_at` as a lease), `transactions` | two syncs of a link, a five-minute lease without an owner, a cursor stored after the last page, a process that dies | never acknowledges what is not stored; shows what the bank shows; no live Item behind a row that says it is gone |
| Webhook queue (`banking.service.ts`, `bank_webhook_jobs`) | jobs | dead and late workers, backoff, a terminal attempt | what is accepted is worked off; a completed job was synchronised |
| Sessions and authentication (`modules/auth`, `infra/auth`) | `users`, `sessions`, one-time tokens | refreshes that race, revocation against uncommitted rotation | one live token a family; ended stays ended; a reset password stays reset |
| Registration, lockout, factors, passkeys, rate limit | `auth_action_tokens`, `auth_events`, `user_mfa`, `webauthn_*`, `rate_limit_buckets` | checks that are read before the write, shared caches and fetches | nobody is let in twice on one proof, or guesses without bound |
| Statement imports (`modules/imports`) | imports, rows, a sealed source, a claim | a claim without an owner, review against approval | one outcome; the ledger has what was reviewed |
| Billing (`modules/billing`) | subscriptions, claimed events | doubled and reordered events, a read that fails | whoever is entitled has what the provider told of that subscription |
| Split groups (`modules/split`) | groups, members, money | stale reads, rounding | consent; nobody leaves with a balance |
| Ledger and categorisation (`modules/ledger`) | transactions, rules | jobs that write what they read before a user's choice | the choice stands |
| Reconciliation, schedules, notifications | their rows | two statements that read what two others write; calendars; races of derivation | a claim is compared with what was posted; the next date is the next; one push |
| CSV imports (`domain/imports`) | batches | formats of dates and amounts, overlapping commits | a row is read as written and imported once |
| Deployment (`config.ts`, `core.module.ts`, `infra/postgres`) | schema, roles, keys | two releases on one database, any step dies | migrations apply once; a server serves under a restricted role with durable keys |

A webhook becomes a job, a job becomes a sync, a sync writes the link, the transactions
and derived flags. Account deletion calls `revokeAll`, then marks the user, then ends the
sessions. Banking asks billing how many links the plan allows.

## Modules

In every module about handlers one action is the code from one `await` on shared state to
the next. A variable such as `req`, `worker`, `handler`, `request`, `reviewer` or `commit`
holds, for each handler in flight, the `await` it is at and the locals it will still use.
`Abort`, `Crash` or a like action is a rejected `await` or the death of the process: what it
had written stays. History variables (their comments say so) are read by no guard.

| Module | Of the code | Shape |
|---|---|---|
| `BankSync` | `exchange`, `sync`, `disconnect`, `revokeAll` and the statements they issue | the provider's opaque cursor is a position in its `feed`; `StartSync` is the conditional UPDATE, `FetchPage`, `UpsertPage`, `RemovePage` a page, `Settle` the acknowledgement, `Fail` the catch block; `aged` the five minutes; `applied`, `lapsed` history |
| `FeedConsumer` | the promise | an at-least-once consumer that acknowledges only what was delivered; `BankSync` implements it (`FeedRefinement`) |
| `WebhookQueue` | `acceptWebhook`, `drainWebhookQueue`, `finverse_claim_bank_webhooks` | a worker keeps the attempt number its claim returned; syncs reduced to lease, last page, end |
| `Sessions` | login, refresh, logout, logout-all, reset, deletion, maintenance | `rotate` is two steps, the UPDATE that locks the row and the INSERT with COMMIT; a revoking UPDATE takes its snapshot (`ScanSessions`) and writes later (`RevokeSessions`) |
| `StatementQueue` | upload, claim with expiry and exhaustion, complete, fail, delete | `stale` and `expired` are the comparisons the SQL makes |
| `StatementReview` | edit, decide, split, merge, `approve`, delete | reads, works out, writes in a later transaction |
| `Factors` | enrolment, enabling, challenges, recovery codes, step-up, disabling | a code is known by the time step of a secret, or by the enabling it came from |
| `Passkeys` | ceremonies, registration, sign-in, counters | signatures are a choice, counters any value |
| `Lockout` | `evaluateLockout`, failed logins | the clock counts units of which the window and the lock are multiples |
| `Throttle` | `PostgresThrottlerStorage` | a transaction of three statements on a row of its own; retention deletes it |
| `Registrations` | screening, its cache and shared fetches, documents in force, the account, the mailed code | one server, which may be deployed again |
| `Billing` | checkout, portal, `applyEvent`, `effectivePlan` | the provider is external and does what Stripe may |
| `SplitGroups` | invitations, members, expenses, settlements, archiving, suggestions | transactions that lock the group are one step; shares and suggestions are computed |
| `Categories` | sync, pairing of transfers, correction with its rule, bulk application and undo | rows of one merchant; `choice` is history |
| `Reconciliations` | claims, posting and voiding against the bank | balance and transactions written and read apart |
| `Schedules` | recurrence, updates checked against an older row | days since 1 January of a leap year |
| `Notifications` | derivation, centre, push, devices | a push that is under way may be lost |
| `TransactionStores`, `BookStores`, `SplitStores`, `StatementStores`, `AccountStores` | both adapters of a port | the same calls go to both; one flag says whether both answered alike |
| `CsvFiles` | `parseCsv`, `suggestMapping`, `reviewImport` | what a bank writes, character by character, and what is read back |
| `CsvImports` | preview, commit, revert | several commits of one file |
| `Deployment` | `config.ts`, `core.module.ts`, `migrate.ts`, `app-role.ts`, health | processes of two releases that die anywhere |

`MCAccess`, `MCMoney` and `MCPlatform` put side by side modules that share no state: a
variable `part` is chosen at the start and only that module moves. So their runs have the
behaviours of each part, not their products. The other MC modules name model values and
symmetry for one module.

The modules about adapters guard out, and say so at the guard, the calls after which the
adapters are known to differ (below), or except in the property what differs. They claim
nothing about those.

## Runs

| Run | What it shows |
|---|---|
| `bank_sync` | one link, two requests out of sync, exchange, disconnect and revokeAll: `CursorCovered`, `ExclusiveSync`, `LedgerExact`, `ItemRemovedFirst`, `FeedRefinement` |
| `webhook_queue` | two processes and a user, a fault: `CompletedIsSynced`, `JobsSettle` |
| `sessions` | three sessions, two handlers: `OneLivePerFamily`, `EndedStaysEnded`, `RotatedStaysRotated` |
| `statement_queue` | two workers, two imports: `OneOutcome`, `SettledStays`, `ImportsSettle` |
| `access` | billing, factors, lockout, passkeys, rate limit, registration, deployment: `EntitledWasGranted`, `CanceledStays`, `FactorOnce`, `CodesOfEnrolment`, `GuessesBounded`, `CeremonyOnce`, `TwoWindowsAtMost`, `ScreenedPassword`, `OneAccount`, `MigratedOnce`, `ServedAsDeployed` |
| `money` | review, split, categories, reconciliation, schedules, notifications: `LedgerIsReviewed`, `ApprovalIsNew`, `ConsentedMembers`, `LeftIsSettled`, `SuggestionsSettle`, `ChoiceStands`, `ReconciledIsPosted`, `NextIsNext`, `PushedOnce` |
| `platform` | five pairs of adapters, CSV files and their commits: `SameAccounts`, `SameLedger`, `SameBooks`, `SameGroup`, `SameStatements`, `ReadAsWritten`, `ImportedOnce` |
| `bank_revoked_stays`, `logout_all_misses`, `rehash_restores`, `lock_lifts`, `csv_commit` | each a *violation* of one statement of the repository; see Findings |

Some properties have a condition, and the condition is the interesting part:

* `ExclusiveSync` and `LedgerExact` hold while no sync of the link lost its lease
  (`lapsed`): the lease has no owner, so a sync that takes longer than five minutes goes on
  beside its successor and may write its own, older position. Without the condition TLC
  refutes both.
* `EndedStaysEnded` excepts a rotation that commits while the revocation runs; without the
  exception it is `LogoutAllEndsEverySession`, which is violated.
* `CompletedIsSynced` is why a conflict with a running sync counts as a failed attempt: that
  sync may have read its last page too early.
* `CanceledStays`: only the payload of a failed read, or a request whose facts another one
  has overtaken, can bring a cancelled subscription back.
* `GuessesBounded`: requests that count together all guess; the bound is the limit plus the
  requests that overlap.
* `LedgerIsReviewed`, `ApprovalIsNew`, `ChoiceStands`, `ImportedOnce` and
  `ReconciledIsPosted` except what came between a handler's read and its write, and say
  exactly that.
* `SameStatements` excepts an import whose source is deleted while its worker is dead, and
  `SameLedger` an application reverted after its row was removed and sent again (`strayed`),
  and the merchant of a row that was last sent again while its category was the user's
  (`renamed`): PostgreSQL keeps the merchant it had, memory takes the provider's.
* `SameGroup` compares balances as the code computes them: who paid is credited with the
  stored amount of the expense, whoever still has a share in it. Once a participant's account
  is deleted the balances of a group no longer sum to zero, and both adapters refuse the
  departure of who paid with `balance_nonzero` until somebody settles with him.
* `EntitledWasGranted` does not say that a period was billed: `effectivePlan` lapses a period
  only if the row has its end, so a subscription reported without one (`NoEnd`) entitles for
  ever, as `test/billing.spec.ts:100` expects. What holds is that the row that entitles says
  what the provider told of that very subscription, its end or missing end included.
* `OneAccount` asks for the evidence of all documents the owner agreed to, of every account;
  a statement that fails between the account and its evidence rolls both back. A code that
  was superseded does not count as shown.

### Bounds

| Run | Bounds, and why they are enough |
|---|---|
| `bank_sync` | one link, two transaction ids, three updates, two requests, two pages, one restart. Every property is about one link and a pair of handlers; three updates give a page that adds and removes an id, an id replaced across pages, and a second page after a failure |
| `webhook_queue` | one job and one piece of news, two processes (one overtaken), one user, two attempts (the second is terminal), one fault |
| `sessions` | three sessions: a token, its successor, and another family; two handlers; one password (`rehash_restores` has two) |
| `statement_queue` | two workers, two imports of two files, two attempts, a batch of two |
| `access` | two handlers, one subscription bought by one of two customers, three events (a purchase sends two, a change one), two billing periods; one challenge, two secrets, two failures; two logins, a limit of three, seven units of time; four ceremonies and one credential; a limit of two hits; two registrants of one address, two passwords, two mailed codes (the second only where no password is published: `CodesOrLeaks`), two days; a period may have no end; about forty environments, two releases, two processes |
| `money` | two requests, one line of an amount of two in up to four rows, two writes; three users, two entries of money (a price of three, which two do not share evenly), two invitations; two transactions, two jobs, one rule applied once; one claim and one posted amount over two days; month ends and leap days over two years; two alerts, one device, one loss |
| `platform` | two holders and two identifiers in eleven chapters, one failure, two hours; one row of the provider and one of a file, one application; three people, two invitations, two entries; two uploads, one try; 54 formats of CSV with two rows; two commits of two rows |

`MaxFeed`, `MaxPages`, `MaxEvents`, `MaxNow`, `MaxHour` and their like bound counters that the code
leaves unbounded, or stand for its constants (100 pages, 3 restarts, 3 claims, 8 failures).
Requests and model values are symmetric in the runs that check no liveness. Deadlock is
not checked: a run ends when its bounds are used up or an account is deleted.

### Fairness

`WebhookQueue` and `StatementQueue` have liveness. Weak fairness of a worker's steps stands
for the timer, which calls `drainWebhookQueue` or the import worker for ever, and for the
event loop, which continues a handler once its `await` is resolved: a call of the provider is
assumed to return or to throw. Weak fairness of `JobDue`, `JobStale`, `LeaseAges` and
`ClaimAges` is the passing of time. Users, providers, webhooks and faults are not fair, and
the faults of `WebhookQueue` are bounded: a process that dies for ever owes nothing.

## Proofs

TLC checks the instances above; the theorems hold for any value of the constants. The
assumptions are those each module names (`BoundsAssumption`, `StatementStoresAssumption`
and so on): that a bound is a number, that a model value for "nothing" is none of the
somethings, that a set of things one request works on is finite, and, where the code
has it as constants, an order between two (the lock is no longer than the window). Every
assumption is evaluated by TLC.

| Proof module | Theorems |
|---|---|
| `BankSyncProofs` | `TypeCorrect`, `AcknowledgedIsApplied`, `RemovedBeforeMarked`, `OneSyncAtATime`, `CursorMovesForward`, `LedgersAreExact`, `SyncImplementsConsumer` |
| `WebhookQueueProofs` | `QueueTypeCorrect`, `CompletedJobsAreSynced` |
| `SessionsProofs` | `SessionsTypeCorrect`, `OneTokenPerFamily`, `EndedFamiliesStayEnded`, `SpentTokensStaySpent` |
| `ImportProofs` | `TypeCorrect`, `OneOutcomeHolds`, `SettledStaysHolds` of the statement queue; `RowsImportedOnce` of CSV imports |
| `BillingProofs` | `BillingTypeCorrect`, `EntitledMeansGranted`, `CancellationsStay` |
| `AccessProofs` | `FactorsTypeCorrect`, `FactorsOnce`, `CodesAreOfEnrolment`, `CeremoniesOnce`, `PasswordsAreScreened`, `AccountsAreOne`, `WindowsHold`, `GuessesAreBounded`, `LockoutTypeCorrect` |
| `MoneyProofs` | `ChoicesStand`, `AlertsPushedOnce`, `LedgersAreReviewed`, `ApprovalsAreNew`, `MembersConsented`, `NobodyLeavesUnsettled`, `GroupsSumToZero`, `SuggestionsSettleAll`, `ReconciledClaimsArePosted` |
| `PlatformProofs` | `MigrationsApplyOnce`, `ServesAsDeployed`, `AccountsAreTheSame`, `GroupsAreTheSame`, `LedgersAreTheSame`, `StatementsAreTheSame` |

The invariants are not inductive by themselves; what has to be added is the argument:

* *Bank sync.* `CursorCovered` needs that the pages a request has behind it were applied
  (`CoverInv`), because `Settle` writes the request's position, not the row's.
  `ExclusiveSync` needs that a request that reads pages holds the lease alone or its loss is
  on record (`LeaseInv`), and that a row is created once (`FreshInv`). `CursorForward` needs
  that a request whose lease holds began at the stored cursor (`OrderInv`). `LedgerExact`
  needs `LedgerInv`: an interrupted sync may have left rows of updates behind the stored
  cursor, so what is known of the rows is bounded by some position at or beyond it, and
  what a request has read since goes as far. `RemovedBeforeMarked` needs `RemovalInv`, the
  refinement `KnownInv`.
* *Webhook queue.* A worker in the middle of a sync syncs the link of its job and, past the
  last page, has delivered what the job announced (`WorkInv`); nothing is announced before
  it is published (`NewsInv`).
* *Sessions.* A rotation that updated its row holds the one good token (`LockInv`); a new
  family is named by nothing (`FamilyInv`); a revocation in progress has every good token of
  the families that are still clean among its targets (`CleanInv`).
* *Statement queue.* What waits or is worked on has not failed yet (`Pending`), and a worker
  that analyses or fails has an import (`Busy`).
* *Billing.* Wherever facts about a subscription are on their way, in the row, at the provider
  or in a handler, an event that was sent told them of it (`GrantedInv`, and `FirstSent`, that
  the events sent are the first ones); a handler that is about to fetch has an event that names
  no other subscription, and no plan yet (`AppliesInv`). `CanceledInv` adds that facts that
  tell of a cancellation tell of one that happened, which the provider never takes back, and
  that a request nobody has overtaken still has the row's status.
* *Factors, passkeys.* A factor that a conditional UPDATE would still take has not been
  accepted (`SpentInv`), a challenge that is not used has signed nobody in (`ChallengeInv`),
  and the codes on file are those of the enabled row (`EnrolmentInv`). A ceremony in the
  hands of a request has no outcome, and no other request has it (`HeldInv`, `EndedInv`);
  the counter of a credential is that of its last outcome (`CountedInv`, `GrowsInv`).
* *Lockout.* `LockoutInv` counts, for each span that is still going on, the guesses recorded and the
  requests at work: one more can be at work only while fewer than the limit are on file.
* *Rate limit.* One transaction has the row (`HolderInv`), and what the row says of its window
  covers all that was let in since (`BucketInv`); so a stretch as long as a window meets two.
* *Registration.* An answer in the cache or in flight names every password that was published
  before it was asked, and is not older than it may be (`CacheInv`, `FetchInv`); a request
  past the screening has a password that was screened and agrees to the documents in force
  (`SignupInv`), so an account has the evidence of just those, and is verified by a code mailed
  to its address that was consumed (`AccountsInv`).
* *Money.* What a job is about to write it has read before the choice, or spares
  (`SparesInv`); an alert that is on its way is in the centre, once, and has not arrived where
  it goes (`AheadInv`); a request that approves holds the rows as they are, unless they were
  changed since (`ReviewersInv`), and nothing is in the ledger while the statement can be
  edited (`UntilApproved`); `AskingInv` says what the locals of a request in a group still
  promise.
* *Balances.* Each entry of a group divides all of its amount between members
  (`EntriesAsked`, `MoneyInv`), so the balances sum to zero (`GroupsSumToZero`), and who is neither
  a member nor named by a late settlement has the balance zero. The loop that suggests settlements is a recursive
  function: the sum of what remains stays what it was, each turn pays one member off, and so
  the payments it returns settle every balance. `PostedInv` says what a claim has read of what
  was posted, and when it was read.
* *CSV imports.* The review of a file is a fold over its rows. What the fold has after each
  row is computed by induction over the rows; with it `CsvImportsInv` says that a fingerprint
  is in the ledger once (`OnceEach`), that a batch counts the rows that stand (`Counted`), and
  that a commit that read the ledger, with nothing written since, has read it (`ReadIsLedger`).
* *Deployment.* The migrations in effect are the first ones, recorded, and what a process has
  left to apply begins no later than after them (`SchemaInv`, `Placed`); `ServeInv` adds what
  a role may do, that a serving process has the stores of its environment (`Configured`), and
  that in production nothing is sealed with a process's own key (`KeysOfEnvironment`).
* *Adapters.* An invariant relates what both hold, item by item: `GroupInv` says the groups
  differ only in the invitations of who has no account; `LedgersInv` that rows, applications
  and what they can take back are parallel except for strayed rows, and `NamesAlike` that so is
  the merchant except for renamed ones; `StatementsInv` that an
  import is the same in all fields unless it is deleted, when only status and tries are, and
  that a stalled one has a source, which is why both claims choose the same. `AccountBooksInv`
  does it for fourteen books at once: a map holds under each key the row of the table
  (`MapOf`); users, links and jobs are alike except in the instants that differ on purpose,
  which agree while something hangs on them (a sync or a job that has not ended); memory may
  keep the mailed codes and ceremonies of who was purged, PostgreSQL the challenges and codes
  of a factor that is not enabled; whoever is due for the purge is due in both.

Only model-checked, and why:

* `JobsSettle` and `ImportsSettle` are liveness under fairness.
* `SameBooks` compares lists that the adapters sort and filter with recursive operators of the
  library (`SetToSortSeq`, `SelectSeq`); sorting would have to be proved correct by an
  induction over lists that the installed provers cannot instantiate. (Where sums and folds
  are proved above, the induction is made by hand: a set of numbers that is not empty has a
  least one, and the least counterexample is not one.)
* `NextIsNext` is arithmetic over calendars with division and a loop; `ReadAsWritten` is a
  parser over characters.
* The refutations are TLC's.

## Findings

1. `bank_revoked_stays`: a comment of `createLinkToken` relies on a revoked link to stay
   revoked; `startSync` takes any row that is not syncing, and the sync writes another
   status over it.
2. `logout_all_misses`: logout-all is one UPDATE under READ COMMITTED and does not see the
   successor of a rotation that commits while it runs.
3. `rehash_restores`: a login that upgrades a hash writes back the password it read before
   a reset.
4. `lock_lifts`: `evaluateLockout` counts the lock from the eighth newest failure and a refused
   attempt is a failure, so each attempt moves the end of the lock.
5. `csv_commit`: the INSERT of a CSV commit leaves out `category_source`, which is NOT NULL:
   no CSV import can be committed on PostgreSQL.

`PROJECT.json` quotes the lines.

## Seen while modelling, without a run

Hazards that no property covers, because the code does nothing about them and promises
nothing: a sync of more than a hundred pages fails before it acknowledges
(`banking.service.ts:286`); the plan's limit is read before the exchange (`:122`) and the
Item is lost if the process dies between the exchange and `links.create` (`:134`);
`revokeAll` lists the links once; two reset tokens issued at the same moment are both good
(`auth-action-stores.ts:59`); a reset is three statements (`auth.service.ts:592`); the parts
of a split are computed from an amount read before (`statement-import.service.ts:273`).

Adapters that differ, guarded out of the models: disabling a second factor leaves its codes
and open challenges in PostgreSQL and drops them in memory; the webhook duplicate window
slides in memory and is a clock hour in PostgreSQL; a claim orders by `availableAt` in memory
and `created_at` in PostgreSQL; in memory a note, an
overriding merchant and an exclusion are lost on resync unless the category is the user's; the
provider's merchant of a row of the user's category is kept on resync in PostgreSQL
(`stores.ts:426`) and replaced in memory (`in-memory-store.ts:217`), which the search
and the matching of refunds read; `finalize` in memory checks neither open reviews nor
duplicates; an import whose source is deleted while its worker is dead is failed in memory
and stays `processing` for ever in PostgreSQL; a second split of a row doubles ids in memory
and fails in PostgreSQL; PostgreSQL accepts an invitation into an archived group; the purge of
an account in memory leaves several kinds of rows that PostgreSQL deletes by cascade, though
`account-deletion-stores.ts:85` says it misses none.

CSV: a column "Value Date" is taken for the amount by a partial match of "value"; "1.234" of
a European file without decimals is read as 1.234; two genuine rows that are equal are
called duplicates; `line` counts records (`review.ts:19`).

Deployment: a boot that fails leaves the process without an exit; a production server does
not check schema or grants at boot; with the owner's URL on an empty database it passes the
check of its role; a development server without `STATEMENT_IMPORT_ENCRYPTION_KEY` seals with a
key of its own process.

## Not modelled, and why

* The analysis of statement PDFs (`analyze.ts`): regular expressions over text; the queue
  takes its outcome as a choice.
* Insights, the health score, analytics, budgets' sums, projections of goals, conversion of
  currencies, exports, reports, the assistant: computations over the ledger that only read.
* Receipts, transports of push and mail, metrics, layout, wording, logging: I/O.
* The event bus: it refreshes what is shown and promises nothing.
* The mobile client: a caller of the API with a cache for reading; its refreshes are the
  requests of `Sessions`.
* Signature checks, ciphers and hashes: a webhook is authentic, a token opens, a key seals.
* Row-level policies table by table: `withUserScope` is the atomicity of the models.

## Plan

Done: all modules above, and the theorems of the table. Left: the part of
`SameBooks` that is not a list, chapter by chapter, with the invariant the other adapters
have; the type invariants of `StatementReview`, `Categories` and `SplitGroups` as theorems of
their own (their proofs are lemmas of `MoneyProofs`); a refinement of `StatementQueue` to a
one-shot job, if the review of statements is to be composed with it.
