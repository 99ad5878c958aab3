# Verification of the Fund Manager API

TLA+ models of the service in `src/` (a FastAPI application over one DynamoDB
table), the TLC runs that check them on small instances, and TLAPS proofs that
hold for every value of the constants. Paths below are relative to `src/`;
`repository.py` stands for
`app/infrastructure/persistence/dynamodb/fund_manager_repository.py`.

## 1. Inventory

| Component | State it keeps | Operations |
|---|---|---|
| Domain (`app/domain`) | none; `Money` is immutable, exact and never negative | compare, add, subtract; entities and errors |
| Subscribe and cancel use cases (`app/application/use_cases`) | the local variables of one call of `execute` | replay, validate, compute, commit, notify |
| DynamoDB repository (`repository.py`, `mappers.py`) | profile, email, fund, subscription, transaction and idempotency items | `get_item`, `query`, `transact_write_items`; TTL deletes idempotency records |
| Registration (`create_client.py`, `save_client`) | profile and email-uniqueness item | two conditional puts in one transaction |
| Login and authorisation (`login.py`, `dependencies/auth.py`, `jwt_service.py`) | none; a token carries id, role and expiry | issue, decode, owner-or-admin check |
| History and listing (`get_transaction_history.py`, `list_funds.py`) | none | newest-first query, query on the index |
| Notifications (`app/infrastructure/notifications`) | none | choose a sender by preference; send; swallow failures |
| HTTP layer (`app/presentation`) | none | header validation, routes, error-to-status map |
| Scripts (`scripts/`) | the table, its TTL setting, the catalog, admins | create table, seed funds, seed admin |

How they interact: an HTTP request runs one use case synchronously in a worker
thread (or a Lambda process). The use case calls the repository several times;
each call is one DynamoDB request, and the table is the only state that
requests share. There is no lock and no version number. After the commit of a
subscribe the use case calls the dispatcher. An exception leaves the use case
and becomes an HTTP error in the exception handlers.

What is hard here:

- **Read, compute, write.** A request reads the balance, then the subscription,
  then writes an absolute balance. Other requests of the same client run in
  between.
- **Idempotency.** A key is looked up before the work and written with the work;
  duplicates, lost answers, reuse of a key for something else, and expiry of the
  record all meet here.
- **Stale reads.** No read asks for `ConsistentRead`.
- **Errors of a cancelled transaction.** One exception stands for several failed
  conditions, and for a conflict with another transaction.
- **Crashes and resends.** A process may stop between commit, notification and
  answer, and boto3 repeats a call whose answer is lost.
- **Order.** The history is ordered by instants taken before the writes, and
  printed as text.
- **Reruns.** The operational scripts are stopped, repeated, and run over a table
  that is still being created.

What makes each component correct: positions, ledger, idempotency records and
balances agree (repository); an answer states what happened (use cases); only a
committed subscribe is notified, and a failed notification undoes nothing
(notifications); one account per email (registration); a token acts only for its
owner or an admin (authorisation); the history lists each committed operation
(history); a rerun completes the catalog and overwrites nothing (scripts). The
hazards, each at its line with the properties that would catch it, are in
`PROJECT.json`.

## 2. Modules

| Module | What it is |
|---|---|
| `FundDomain` | constants (clients, funds, catalog, amounts, keys), commands, records, `Money` operations |
| `FundRepository` | the table and the replica that lags behind it; one operator per DynamoDB call |
| `FundService` | requests as processes over the table: one action per call of `execute`, plus failure, TTL and replication |
| `FundLedger` | abstract: positions open and close once, each with one ledger entry, at most one per remembered key; balances left out |
| `FundAccount` | abstract: opening takes exactly the minimum amount from the balance, closing gives it back |
| `FundServiceSafety` | the properties of `FundService`, the two refinement mappings and the inductive invariant |
| `MCFundService` | the instances for TLC |
| `FundServiceProofs` | the type invariant is inductive |
| `FundServiceInvariantProofs` | the inductive invariants, the safety theorems, the course of a request and its answers |
| `FiniteSums` | induction over finite sets as the choice of a minimal counterexample; sums over finite sets |
| `FundRefinementProofs` | `FundService` implements `FundLedger`, and `FundAccount` when requests about a client do not overlap; money is then conserved |
| `FundApi` | the HTTP surface around `FundService`: header, token, owner-or-admin check, endpoint, status codes, dispatcher |
| `FundApiSafety`, `MCFundApi`, `FundApiProofs` | its properties and inductive invariants; the instances for TLC; the proofs |
| `TransactionHistory` | `FundService` with a clock, the instants its requests take, and readers of the history |
| `TransactionHistorySafety`, `MCTransactionHistory`, `TransactionHistoryProofs` | its properties and inductive invariant; the instances; the proofs |
| `Accounts` | registration, `seed_admin`, login, tokens and the owner-or-admin check as interleaving calls |
| `AccountDirectory` | abstract: one account per mailbox, sessions opened with its secret, actions by owners and admins |
| `AccountsSafety`, `MCAccounts` | its properties, refinement mapping and inductive invariant; the instances for TLC |
| `AccountsProofs` | the inductive invariant, the safety theorems and the refinement |
| `CatalogSeeding` | runs of `create_table` and `seed_funds` over a table being created, and the index `list_funds` queries |
| `CatalogSeedingSafety`, `MCCatalogSeeding`, `CatalogSeedingProofs` | its properties and inductive invariant; the instances; the proofs |

`FundService` composes `FundDomain` and `FundRepository`. `FundApi` and
`TransactionHistory` each extend it, with the layers around it and with the order
of what it writes: every step of theirs is a step of `FundService` or leaves its
variables alone (theorems `ApiRefinesService` and `HistoryRefinesService`), so
what is proved of it holds of them. `Accounts` stands beside it: the two flows
share the profile item, but registration writes it once and `FundService` changes
only its balance, which nothing in `Accounts` reads. `CatalogSeeding` comes
before it: `NeverClobbered` and `DoneMeansComplete` say why `FundService` may take
the catalog as a constant.

### Model and code

State. `profiles[c]` is the balance of the item `CLIENT#c / PROFILE`, or `NoItem`
when there is none; `subscriptions`, `transactions` and `idempotency` are the
other three item kinds the two flows touch. Each `stale...` variable is the copy
of a replica that lags: with `StaleReads = TRUE` a read returns the stored value
or the lagging one, and `Replicate` brings one copy up to date. `pc[r]` names
the call request `r` makes next; `draft[r]` is the balance and amount `execute`
has computed, `found[r]` the idempotency record it read, `reply[r]` what it
returned or raised. `expiries` is a history variable: it counts the records TTL
has deleted.

Actions, in the order of `execute`:

| Action | Code |
|---|---|
| `Arrive` | the endpoint builds the command (`routes/clients.py:33-62`) |
| `GetIdempotencyResult`, `RebuildClient` | fast replay path (`subscribe_to_fund.py:43-46`, `repository.py:107-122`): two reads, and with no client to rebuild the request goes on as if the key were new |
| `GetClientProfile` | `get_client`, 404 when absent |
| `ValidateSubscribe` | `get_fund`, `get_subscription`, balance check, debit (`subscribe_to_fund.py:52-63`). The catalog is written once at deployment and never changes, so `get_fund` needs no step of its own |
| `ValidateCancel` | `get_subscription`, credit (`cancel_subscription.py:33-37`) |
| `CommitSubscribe`, `CommitCancel` | `transact_write_items` succeeds: all items or none |
| `KeyTaken` | it is cancelled and item 0 (the record) failed its condition |
| `WriteRefused` | it is cancelled by the profile or the subscription condition |
| `WriteConflicted` | it is cancelled with `TransactionConflict`; the code reads any reason other than a failed condition on item 0 as an existing, or missing, subscription |
| `ReplayOrConflict`, `RebuildReplay` | `_replay_or_conflict`: read the record back, compare operation and fund, read the client |
| `NotifyClient` | `dispatcher.notify`; the senders swallow every error, so the message may or may not leave |
| `Respond` | `return client` |
| `Die` | an unmapped exception (answered 500), a Lambda timeout, a crash, a lost answer: at any point of a request |
| `Expire` | TTL deletes a record, under a request that still looks it up or has just found it too |
| `CatchUp` | replication |

Simplifications and the assumptions on the environment:

- A transaction id is the request that made it: `new_id` is a fresh uuid.
  Timestamps, names, contact data and categories are left out; no guard reads
  them. Whoever may call the endpoint may name any client id (an admin), so an
  id that was never registered is included. Admin accounts start at balance 0
  and are not modelled as investors.
- `MaxPerClient` bounds how many requests *about one client* the service works
  on at a time. `1` means that the service has stopped working on a request
  before the next about that client starts. That is more than a patient client:
  a client that retries after a time-out overlaps a request that still runs.
- A request that dies at `transact_write` has not committed; one that dies at
  `notify` or `respond` has.
- `WriteConflicted` needs another request that is at its own write, and that
  shares the client or the key: `TransactWriteItems` is cancelled only by a
  concurrent operation on one of its items.
- TTL is a day (`TTL_SECONDS`, `repository.py:39`) and a request lasts seconds.
  So whoever is in flight with the key when a record is deleted arrived when it
  was old and every replica had it: it is about to read the record, or has found
  it and is about to read its client (`repository.py:113-121`), and the deletion
  may fall before either read. A request that goes on without a record, or met
  one at its write, is evidence of a young record, which is not deleted
  meanwhile. A replica may still show a deleted record.
- An idempotency record is looked up by key alone. Clients that choose the same
  key get each other's record; the two-client run includes that.
- In `FundService` registration happens before: the initial table has registered
  clients, some unknown to the lagging replica.

`Accounts`. `profiles[i]` is the profile that call `i` registered (its id is a
fresh uuid), `emailItems[m]` the client named by the uniqueness item of mailbox
`m`; `indexed` and `replicated` say whose profile GSI1 and the lagging replica
show. `tokens[r]` is what login `r` got.

| Action | Code |
|---|---|
| `SaveClient`, `EmailTaken`, `SaveConflicted` | `save_client` commits; is cancelled by the uniqueness item; is cancelled by a conflict (`repository.py:126-154`) |
| `RespondCreated` | the registered client is returned |
| `Login`, `LoginRefused` | `LoginUseCase.execute`: the index query, `verify`, the token. One boto3 call, so one step |
| `DecodeAccessToken`, `GetCurrentClient` | `dependencies/auth.py:35-77`: an absent, unreadable or expired token is refused, then the profile is read and its role and id are compared with the path |
| `ExpireToken`, `CatchUp`, `Die` | token expiry; replication to the index and the replica; failures as above |

`LowerCase` maps spellings of an email to its mailbox, `FirstBytes` a password to
the 72 bytes bcrypt reads; both may map different values to one. A caller can
present any token a login returned. A token with a wrong signature is refused
like an absent one, so forging is not modelled.

`FundApi`. `stage[r]` is how far request `r` has come, `asked[r]` what it asks for
once header and token are valid, `status[r]` its answer, `delivered` what the
senders sent. FastAPI resolves the dependencies in the order of the endpoint's
parameters: a bad `Idempotency-Key` is answered 400 before anything looks at the
token.

| Action | Code |
|---|---|
| `Receive` | `idempotency_key` strips and checks the header; the bearer token decodes or not (401) |
| `Authorize` | `get_current_client` reads the caller's profile (401 without one), `require_owner_or_admin` compares it with the path (403), the endpoint builds the command |
| `Execute` | one call of the use case; when it returns or raises, the route's status code, `_STATUS_MAP` or the catch-all handler gives the status |
| `Notify` | the dispatcher picks the sender by `notify_pref`; boto3 calls SES or SNS, and again when an answer is lost, and each attempt may arrive or not; the sender logs a failure |
| `Fail` | any other exception: 500, or no answer at all |

`KeyOf` maps header values to the key they strip to; several may give one key.
`MaxAtOnce` bounds how many requests are in progress: `1` means that every caller
waits for the answer of the one before. `MaxAttempts` bounds the calls boto3 makes
for one message (`client.py` leaves its default retries on); a message carries the
attempt it came by, so a repeat of the same content counts. The log senders, which
write one line, do a part of what the AWS senders may. A `TransactWriteItems` call
that boto3 sends again commits once, as the SDK gives it a `ClientRequestToken`.

`TransactionHistory`. `stamp[r]` is the `created_at` request `r` took,
`answeredBefore[r]` (a history variable) who had been answered when `r` arrived.

| Action | Code |
|---|---|
| `Create` | `created_at=now_utc()`, once the request is validated (`subscribe_to_fund.py:64`, `cancel_subscription.py:44`) |
| `CommitLater` | the write, at a later instant |
| `Other` | every other step of `FundService` |
| `StartReading`, `ReadClient`, `ListTransactions` | `GET /clients/{id}/transactions`: the client, then the first page of the query, newest first |

An entry's sort key is `TXN#` and `isoformat()`, which leaves the fraction out
when it is zero: `IsoFormat` keeps what the comparison of two such texts depends on, the second,
the character after it (`+` or `.`) and the microseconds. Assumed of the clocks:
they agree to less than the round trip of a write, are not set back, and a write
takes longer than a microsecond. With `StaleReads` a query may miss any entry.

`CatalogSeeding`. `writer[f]` is the run whose put made the item of fund `f`,
`seeded[r]` the funds a run printed as seeded, `setup` and `phase` where the runs
are.

| Action | Code |
|---|---|
| `CreateTable`, `TableInUse`, `WaitUntilExists` | `create_table.py:23-51`; a call whose answer is lost is sent again by boto3 |
| `EnableTtl`, `TtlRefused` | `create_table.py:53-62` |
| `PutFund`, `SkipFund`, `PutFundUnanswered` | the loop of `seed_funds.py:27-36`: put, condition failed, put whose answer is lost |
| `EndSeeding`, `TableNotFound`, `SeedingFails`, `SetupFails` | the end of a run, an exception nothing catches, a process that stops |
| `BecomeActive`, `IndexFund` | DynamoDB: the table becomes active, the index follows |

## 3. Runs

`concurrent`, `stale`, `patient_clients` and the first four violations use
`MCFundService`. Minimum amounts 2, 3 and 4 against an initial
balance of 5 keep the relations of the real catalog (75 000 to 250 000 against
500 000): two funds fit together and exhaust the balance, a third fits only
when neither is held. One key is enough for a key to be shared by every request
of a run, and three requests for each of: an operation, its duplicate, and
another one in between. Symmetry permutes the requests, which differ in nothing
but their name; `stale`, which checks liveness, does not use it.

| Run | Instance | Checks |
|---|---|---|
| `concurrent` | 1 client, 2 funds, 1 key, 3 requests that overlap freely, current reads | type invariant, `HoldingsMatchLedger`, `OneCommitPerKey`, `AnswersMatchLedger`, `ReplayHasOrigin`, `SameKeySameAnswer`, `NotifiedWereCommitted`, refinement of `FundLedger`, `ConflictMeansMismatch` |
| `stale` | 1 client, a fund and an unknown one, 1 key, 2 requests that overlap, a lagging replica, `FairSpec` | the inductive invariants `IInv` and `RepliesInv`, `RequestsAdvance`, `EveryRequestAnswered` |
| `patient_clients` | 2 clients, 2 funds, 1 key, 3 requests, `MaxPerClient = 1` | `PatientInv`, `MoneyConserved`, refinement of `FundAccount`; requests of different clients overlap |
| `api` | `MCFundApi`: a client and an admin, 1 fund, a good and a blank header, 3 requests, `MaxPerClient = 3`, `MaxAtOnce = 1`, `MaxAttempts = 2` | `ApiInv`, `WaitingInv`, `OnlyAuthorizedChange`, `StatusTellsOutcome`, `MessagesMatchOpenings`, `RetryIsNotRefused`, `RefusalIsTrue` |
| `accounts` | `MCAccounts`: 3 calls, 3 spellings of 2 mailboxes, 3 passwords of which 2 agree on 72 bytes, lagging index and replica | `OneAccountPerEmail`, `GrantedToOwnerOrAdmin`, `AnswersMatchAccounts`, `TokenMatchesLogin`, the inductive invariant, refinement of `AccountDirectory`, `RefusedLoginsAreWrong` |
| `history` | `MCTransactionHistory`: 1 client, 1 fund, 3 requests that overlap, 4 instants in 2 seconds, 1 reader, pages of 2 | `HistoryInv`, `ListingRespectsRealTime`, `CancelsFollowAnOpen`, `NewestTellsHoldings` |
| `seeding` | `MCCatalogSeeding`: 2 funds, 2 runs of each script, `FairSpec` | `SeedingInv`, `DoneMeansComplete`, `ReportedOnce`, `NeverClobbered`, `EveryRunEnds`, `CatalogGetsListed` |

In `accounts`, three calls let a registration, a login and an access meet, or two
registrations and a login; an access may name any client id, so a second account
is not needed to be refused. Its symmetry also permutes the two spellings of a
mailbox and the two passwords with one prefix. With `StaleReads = TRUE` every
behaviour of current reads is included, a profile catching up at once.

In `api`, three requests are a request, its retry and another in between; the
admin is the second client, so that asking for somebody else is both allowed and
refused. TLC takes them one after another, which is what `RetryIsNotRefused` and
`RefusalIsTrue` need; that the other properties hold for overlapping requests too
is proved. `MaxPerClient = 3` lets the service overlap all three, so the callers
alone keep them apart. Two attempts are a message and its repeat; the proofs are
for any number. In `history`, three requests of one client are an opening, its
cancellation and another opening, four instants let each take its own, the second
of a new second among them (where the text has no fraction), and a page of two
leaves one out. In `seeding`, two runs of each script are a run and the rerun or
the one it races with; a run may stop before, between and after the two funds.

What the runs of `FundService` say together: the conditions of the transaction
protect everything except the balance. Whatever overlaps, fails or is read late,
a position is never opened or closed twice, the history agrees with the
positions, a key commits at most once per life of its record, errors leave no
trace and every replay repeats the answer of a request that did commit under that
key; while the key's record lives, that is the same answer for everybody. What a
client is told, and how much money it has, is right only when its
requests do not overlap; the violations show how it goes wrong otherwise. The
`accounts` run says that registration and authorisation are sound with stale
reads too; `api` that the layers around the use cases keep what these promise;
`history` that instants taken before the writes still put in order what did not
overlap; `seeding` that reruns of the scripts complete the catalog.

Deadlock is checked in every run but those of `CatalogSeeding`: `AllAnswered` (in
`FundApi`, `Closed`) is the one state in which the service may rest. Scripts end,
and nothing happens when all have.

Bounds. `Requests`, `Clients`, `Funds` and `Keys` are finite sets given by the
configuration; each request arrives once, so every run is finite without a
state constraint (a record can be written, and so expire, at most once per
request). Two requests of one key already reach each duplicate path; the third
makes reuse after expiry and a change by somebody else between two steps
possible. `MaxSecond` ends the clock: requests that have not committed by then
can only fail. `MaxPerClient` and `MaxAtOnce` restrict the environment, as said
above.

Fairness. `FairSpec` assumes weak fairness of `Step(r)` for each request: a
worker thread that has started a request keeps running it, and none of its
steps waits for another request, so weak fairness is all the scheduler owes.
Nothing is assumed of arrivals, failures, TTL and replication. The property
would fail if a path retried: the loop has to be absent from the code, not
excluded by fairness. `CatalogSeeding`'s `FairSpec` assumes that a started run
keeps executing (it is one sequential program), that a table being created
becomes active and that the index catches up, both of which DynamoDB promises. No
run is assumed to start, and a run may die at each of its steps.

### Findings

Five runs check what a comment, a test or a docstring says and find it violated.

- `lost_update` (`MoneyConserved`): the balance is written as an absolute value
  computed from an earlier read and no condition compares it with the stored
  one. A cancel reads the balance, a subscribe of the same client commits its
  debit, the cancel writes its older balance plus the credit: money appears.
  The mirror image loses money.
- `key_reuse` (`ReplayMatchesRequest`): the fast replay path returns the stored
  result without comparing operation and fund. A key reused for another
  operation answers 2xx and does nothing, where the docs promise a 409. Needs no
  overlap.
- `refused_duplicate` (`DuplicateIsReplayed`): a duplicate that overlaps the
  first request can reach the subscription check after the first committed, and
  is refused as already subscribed although its result is stored.
- `refused_balance` (`RefusedWriteTellsWhy`): a failed balance condition is
  reported as an existing subscription.
- `ttl_skipped` (`TtlEnsured`): `create_table` "always ensures TTL is enabled". A
  run that finds the table still being created skips the waiter, and takes the
  refusal of its TTL update for "already enabled": it ends without TTL, and no
  idempotency record expires.

Observations without a run of their own:

- The record that stopped a write is read back with an eventually consistent read
  (`repository.py:177`). From a replica that does not have it yet, a duplicate is
  told that its key was used for something else, where the docstring promises a
  replay. `ConflictMeansMismatch` holds in `concurrent`, with current reads, and
  TLC finds it violated within twelve states when it is added to `stale`.
- `save_client` reports every cancelled transaction as an existing email. After a
  conflict whose winner then fails, nobody has the email (`SaveConflicted`).
- A `TransactionConflict` of subscribe or cancel is reported in the same words as
  an existing subscription, which is why `RefusalIsTrue` needs `MaxAtOnce = 1`.
- A notification is lost when the process stops between commit and send, and is
  repeated when boto3 sends it again after a lost answer; a caller's retry does
  not repeat it (`MessagesMatchOpenings`).
- Login queries an index that is always eventually consistent, so it may refuse a
  client that has just registered; a later login succeeds. It takes the first item
  the query returns; `RefusedLoginsAreWrong` says that this is never another
  account, so an account the index shows is not refused.
- The port says of `list_transactions` "Return the client's transactions, newest
  first"; the query returns its first page only, a megabyte of items.
  `ListingRespectsRealTime` says what may be missing.
- Requests that overlap may be listed in another order than they committed, a
  cancellation above the opening that followed it included;
  `NewestTellsHoldings` is therefore about requests that do not overlap.

## 4. Proofs

The proofs hold for every set of clients, funds, keys and requests, every
`MinAmount` and `InitialBalance`, every `MaxPerClient`, with current or stale
reads; those of `Accounts` for every set of calls, emails and passwords and every
`LowerCase` and `FirstBytes`; those of `FundApi` for every set of admins, every
`KeyOf`, `MaxAtOnce` and `MaxAttempts`; those of `TransactionHistory` for every clock and page
size; those of `CatalogSeeding` for every catalog and any number of runs. They
rest on the named assumptions of these modules only: the catalog is a set of
funds, amounts are naturals, and the absent values differ from the values they
stand in for. Where a theorem needs callers who wait or current reads, it says so
in its statement.

| Theorem | Statement |
|---|---|
| `TypeCorrect` | `Spec => []TypeOK`: no balance computed or stored is negative, no phase misses the record or key it uses |
| `Invariant` | `Spec => []IInv` |
| `HoldingsCorrect`, `KeysCommitOnce`, `AnswersCorrect`, `ReplaysCorrect`, `NotificationsCorrect` | the safety invariants of the runs, one theorem each |
| `RepliesInvariant`, `SameAnswers` | `Spec => []RepliesInv`, `Spec => []SameKeySameAnswer` |
| `RequestsOnlyAdvance` | `Spec => RequestsAdvance` |
| `ConflictsCorrect` | with current reads, `Spec => ConflictMeansMismatch` |
| `LedgerRefinement` | `Spec => ImplementsLedger`, with current or stale reads: the initial states map to initial states and every step to a step of `FundLedger` or a stutter |
| `PatientInvariant`, `AccountRefinement` | with `MaxPerClient = 1` and current reads, `Spec => []PatientInv` and `Spec => ImplementsAccount` |
| `MoneyIsConserved` | with `MaxPerClient = 1` and current reads, `Spec => []MoneyConserved` |
| `ApiRefinesService`, `HistoryRefinesService` | `ApiSpec => Spec`, `HistorySpec => Spec` |
| `ApiInvariant` | `ApiSpec => [](IInv /\ ApiInv)` |
| `ChangesAreAuthorized`, `StatusesTellOutcomes`, `MessagesCorrect` | the safety invariants of run `api` |
| `WaitingInvariant`, `RefusalsAreTrue`, `RetriesAreNotRefused` | with `MaxAtOnce = 1` and current reads, `WaitingInv` and the two action properties |
| `CallersAccountRefinement`, `CallersMoneyIsConserved` | with `MaxAtOnce = 1` and current reads, `ApiSpec => ImplementsAccount` and `ApiSpec => []MoneyConserved`, whatever `MaxPerClient` |
| `HistoryInvariant`, `ListingCorrect`, `CancelsCorrect`, `NewestCorrect` | the inductive invariant and the safety invariants of run `history` |
| `AccountsInvariant` | `Spec => []AccountsInv` |
| `OneAccountPerEmailCorrect`, `TokensCorrect`, `AccessCorrect`, `RegistrationsAnswered` | the safety invariants of run `accounts` |
| `LoginsAreNotMistaken` | `Spec => RefusedLoginsAreWrong` |
| `DirectoryRefinement` | `Spec => ImplementsDirectory` |
| `SeedingInvariant`, `SeedingCompletes`, `SeedingReportsOnce`, `SeedingNeverClobbers` | the inductive invariant, the safety invariants and the action property of run `seeding` |

None of the safety invariants of `FundService` is inductive by itself. `IInv` adds:

- `LedgerFromRequests`: each entry is of a request past its write, agrees with
  that request's command, and no request has two. Without it the step that
  commits could put an entry that exists already and no count would grow.
- `PhasesMatchLedger`: a request past its write is in the ledger, one about to
  notify is a subscribe that has not, and no answer exists before `done`.
  `AnswersMatchLedger` and `NotifiedWereCommitted` need it.
- `RecordsHaveOrigin`: every idempotency record, stored, lagging or read into a
  local variable, has its entry in the ledger with the same client and balance.
  `ReplayHasOrigin` follows because entries and drafts of committed requests do
  not change.
- `AmountsAreMinimums`: an amount held, lagging or about to be written is the
  catalog's minimum. The refinement needs it, since an entry of `FundLedger`
  carries the minimum and a cancel carries the amount it read.

The argument for a step is cut by *who moves*. `OneRequestMoves` says that a
step changes the locals of one request or of none, `StepKinds` that the ledger
changes only in a commit, `CommitEntry` what a commit adds. Each conjunct then
has a lemma (`...Step`) of its own and `NextInvariant` collects them. In the
counting conjuncts the entry added is new by `LedgerFromRequests`, the sets are
finite, and the library's cardinality facts do the rest. TLC checks `IInv` as an
invariant in run `stale`.

`RepliesInv` stands beside `IInv` for what a caller is told. `TakenKeysStay`: a
write cancelled for its key finds the record stored, since a record met at the
write is too young for TTL. `LedgerClientsExist`: the client a record names can be
read. With current reads both together leave a mismatch as the only way to a
conflict (`ConflictsCorrect`). `AnswersAreDrafts`: a fresh answer is what was
written. So an entry under the key stands behind every successful answer, and
`OneCommitPerKey` says that there is one such entry while no record has expired:
`SameKeySameAnswer`, with stale reads too. `RequestsAdvance` is the half of
liveness that can be proved: each call brings a request nearer to its answer, by
the measure `Progression`, so what remains for fairness is that a started request
makes its next call.

`AccountsInv` adds to the properties of `Accounts`: `ProfilesFromCommands`, a
profile is what its own call asked for, and that call is past its write (so a
commit always adds a client, and `role = "ADMIN"` leads back to `seed_admin`);
and `TokensFromLogins`, a token belongs to a login already answered and an
access past decoding has one (so no later step changes what a token or a grant
refers to). Its proof has one lemma per action that writes (`SaveClientStep`,
`LoginStep`, `GrantedStep`, ...) and `QuietStep` for all others. For the
refinement, a commit is `Join`, a login `SignIn`, a grant `Act`, and every other
step a stutter.

`PatientInv` is what makes the balance right, and why overlap breaks it:
`OneRequestPerClient`, no two requests in flight are about one client, and
`DraftsAreCurrent`, the balance and position a request has read are the stored
ones until it writes. The second needs the first, as any other request that
writes these items is about the same client; then a write is never refused by its
conditions and stores the balance `FundAccount` computes. Without current reads
the first read already breaks it.

`MoneyConserved` needs `PatientInv` and sums. A sum over a finite set is the fold of
the community modules, a recursive function picked by `CHOOSE`, and the library's
induction theorems cannot be used. `FiniteSums` goes by minimal counterexample
instead: a family of subsets of a finite set that is not empty has a minimal
member (`MinimalSubset`), because the strict subset ordering is well founded. So
the recursion has exactly one solution, the sum over nothing is 0, and the sum does
not depend on the element taken out first (`SumTakesAny`). A commit then moves
`MinAmount[f]` between the balance and one term of the sum (`SumWithOneMore`). Because the sums must be defined at both ends of a step, the
proof carries that a client's investments can be summed
(`InvestmentsCanBeSummed`). `Funds` may be any set: what a client holds is finite,
as each position has an entry in a finite ledger.

`ApiInv` carries authorisation across the steps: `CommandsAreAuthorized` says
that the command in execution is the one asked for, by a caller who may and who
has a profile, and no step takes a profile away. `StatusMatchesReply`,
`ReplaysHaveKey` and `DeliveredWereNotified` tie statuses and messages to what
`FundService` has as reply and notified, so that its theorems speak about them:
as only a committed subscribe notifies, the one entry under a living key
(`OneEntryPerKey`) makes all messages under it be about one opening
(`MessagesCorrect`).
`WaitingInv` adds, for callers who wait, `RecordsAreCurrent`: a request that goes on to
its write has a free key, and a record found names a client that has a profile, so
that it can be replayed even when TTL deletes it meanwhile; the paths after a taken
key are never entered and a retry never gets as far as a refusal. As callers who wait also keep the requests about a client apart
(`WaitingIsPatient`), `FundAccount` and `MoneyConserved` carry over to the HTTP
layer without any bound in the service.

`HistoryInv` relates instants to commits: `StampsArePast` (an entry's instant is
before now), `StampsFollowRealTime` (who was answered before another arrived took
its instant earlier) and `CancelsWereOpened` (a position seen, stale or not, has
an `OPEN` with an instant already past, so a cancellation stamped later sorts after
it). `NewestTellsHoldings` follows step by step: when the requests of a position did
not overlap, the one that commits was stamped after all entries of the position
(`StampsFollowRealTime`), so its entry is the newest and no other is, and what it
did is what the table now says.

`SeedingInv` adds `LoopLeavesStored`, every fund behind the loop is stored, to the
type invariant and `ReportedOnce`.

Model-checked only: liveness (`EveryRequestAnswered`, `EveryRunEnds`,
`CatalogGetsListed`), which is out of the prover's reach: it needs `ENABLED` for
the fairness conditions. Three properties are proved under hypotheses because they
are false without them: `MoneyConserved` and `ImplementsAccount` fail when requests
about a client overlap (run `lost_update`), `ConflictMeansMismatch` with stale reads.

## 5. Not modelled

Left out for good: password hashing and the signature of tokens (only what they
let through is modelled), settings, wiring and the DynamoDB client
(`settings.py`, `client.py`, `main.py`, `providers.py` but for the choice of
senders), request and response schemas, logging, the text of messages, and the
deployment template. They hold no protocol state. `require_role` is not used by
any route. In `FundService` and `FundApi` a client is registered or not from the
start, and in `FundApi` a token decodes to a caller or does not; `Accounts` covers
how either comes about.

Possible next steps: a counterpart of `RequestsAdvance`
for the scripts, that the loop of `seed_funds` and the waiter of `create_table` only
advance, and theorems about sequences of retries through `FundApi` with overlapping
callers, where `SameKeySameAnswer` says what the answers may be.
