# Formal model of the quote service

TLA+ modules, TLC configurations and TLAPS proofs for the asynchronous currency
quote service of this repository (`plata-test-task`). The service accepts
"refresh this pair" requests over HTTP, stores them in PostgreSQL, works them
off in background passes against a rate-limited upstream, and serves results
and the latest quote from the same two tables. Any number of replicas may run
over one database.

## 1. Inventory

| Component | State | Operations | Talks to |
|---|---|---|---|
| Domain (`internal/domain/quotes`) | none | status machine, error codes, rate validation | everyone |
| Repository (`internal/storage/postgres`) | tables `quote_updates` (queue and result) and `quotes` (append-only journal) | `CreateUpdateRequest`, `ClaimBatch` (queue and reaper in one statement), `CompleteSuccess`, `CompleteSuccessReuse`, `CompleteFailure`; reads | PostgreSQL |
| RateLimiter (`internal/usecase/quotes`) | call history, `blockedUntil` | `Allow`, `CoolDown` | workers of one process |
| Worker | singleflight group | `Process`: `resolve`, `fetch`, `fail`, `backoff` | repository, limiter, provider |
| Dispatcher | locals of a pass, a bounded pool | `ClaimAndDispatch`, `Run` | repository, workers, nudge and tick channels |
| Request handling (`internal/api/http`, `RequestUpdate`) | how far each call is | POST with `Idempotency-Key`, GET update, GET latest | repository, nudge channel |
| Providers (`internal/provider`) | fake: quota window | `GetCurrencyRate`: transport and body errors, classification, `Retry-After` | upstream |
| In-memory repository | maps behind a mutex | same port | tests |
| Process (`cmd/server`, `internal/config`) | none | start, shutdown with a bounded drain, validation of settings | all |

What is hard here:

* **Leases without fencing.** A claim writes `locked_at`; the completing
  `UPDATE` checks only `status = 'in_progress'`. That a late write never lands
  on another replica's claim rests on timeouts alone.
* **Three transactions per request** (claim, journal, completion) and crashes
  or lost answers between them; delivery is at least once.
* **Statements between transactions.** At READ COMMITTED a claim picks its
  candidates from a snapshot and locks them later, a completion may wait for the
  row it updates, and an insert for another's of the same quote.
* **Detached fetches.** A fetch runs on its own context so that one caller's
  deadline cannot cancel it for those coalesced onto it; the outcome is then
  written on the pass's context.
* **Clock reads outside the lock** in the limiter; clocks that differ between
  replicas.
* **Two retry budgets**, one of which (`attempts`) is frozen by reclaims, and
  ways to fail that consult neither.
* **Durations that wrap**: the backoff's product and the seconds of a
  `Retry-After` are multiplied in 64 bits.
* **Two repositories**: the tests run on maps behind a mutex, the service on SQL;
  what the tests show is worth as much as the two agree.

What makes each component correct is the list of properties in section 3.
The full list of hazards, at their lines, is in `PROJECT.json`.

## 2. Modules

| Module | Models | Notes |
|---|---|---|
| `QuoteDomain` | `internal/domain/quotes` | operators only |
| `UpdatePromise` | what clients are promised | abstract specification |
| `QuoteStore` | `postgres/repository.go` and its schema | one action per writing statement; implements `UpdatePromise` |
| `QuoteStoreProofs` | | theorems about `QuoteStore` |
| `Transactions` | the same methods, statement by statement, on several connections | implements `QuoteStore` |
| `TransactionsProofs` | | theorems about `Transactions` |
| `RateLimiter` | `ratelimiter.go` and its call sites in `worker.go` | |
| `RateLimiterProofs` | | theorems about `RateLimiter` |
| `Worker` | `worker.go` | actions of one claimed request; extends `QuoteStore` |
| `Dispatcher` | `dispatcher.go`, several replicas, crashes, time, inserts | composes `Worker` and the tables |
| `DispatcherProofs` | | theorems about `Dispatcher` and `Worker` |
| `ExchangerateDev` | `exchangeratedev/adapter.go` | operators only: what the adapter makes of an answer |
| `RequestLife` | one request: claim, `Worker.fetch` through the adapter, `fail`, `backoff` | over unbounded time, with integers of a width; has liveness |
| `RequestLifeProofs` | | theorems about `RequestLife` and the adapter |
| `MemoryStore` | `memory/repository.go` | implements `QuoteStore` |
| `MemoryStoreProofs` | | theorems about `MemoryStore` |
| `Config` | `config.go` | operators only; the MC modules check with it that their instance is one `Load` accepts |
| `Server` | `request_update.go` and the POST handler, `Dispatcher.Run`, `main.go` | one process over the queue; has liveness |
| `ServerProofs` | | theorems about `Server` |
| `MCQuoteStore`, `MCRateLimiter`, `MCDispatcher`, `MCServer`, `MCMemoryStore`, `MCRequestLife`, `MCTransactions` | | constants for TLC |

### How state and actions correspond to the code

**QuoteStore.** `updates` is the table `quote_updates` (a function from the ids
inserted so far to rows), `quotes` the table `quotes` (a sequence; a row's
position stands for its `BIGSERIAL` id, so ids are in commit order; this only
matters for breaking ties between equal `quoted_at` of different providers).
Columns nothing in the pipeline reads back (`updated_at`, `error_message`,
`fetched_at`, the rate itself, quality and flags) are left out. `NULL`s are
`0`, `NoKey` or `NoError`. Each action is one committed transaction; a failed
transaction changes nothing. `ClaimBatch` has the two limited candidate sets,
the outer limit, the rows `SKIP LOCKED` may pass over (any set), and the
failure of the whole statement when the `INT` column would overflow.
`StoreSpec` lets any caller do anything the repository's port allows, at any
instant of `Times`, so what holds of it holds for every scheduling above it.

**UpdatePromise.** `request`, `answer`, `latest` are what POST, GET update and
GET latest show. `QuoteStore!Promise` is the refinement mapping: a request is
open while its row is pending or in progress; claims, reclaims and retried
failures are stuttering steps.

**Transactions.** `rows` and `journal` are the committed tables, `session[s]` is
what the transaction of connection `s` has done: `ClaimBatch` has taken its
snapshot (`claim`); `upsertQuote` has an insert that did nothing and is about to
look for the winner (`select`); the `UPDATE` of a completion is about to look for its
row (`update`), has found it and wants its lock (`lock`), matched none
(`refused`), or got the lock of a row that had moved on (`overtaken`); every
statement is done (`commit`), and the row locks and writes are
held until `Commit` or `Rollback`. Locks outlive the reason they were taken for: a
claim keeps those of the rows its outer `LIMIT` dropped (`locked`), and any statement
those of rows that failed the second look (`moved`, `overtaken`), so that others
wait for or skip rows nobody is about to write; `ShortClaimDrains` says what that may cost. A lock wait, or an insert waiting for another
transaction's of the same quote or key, is an action that is not enabled. `Rollback` is
enabled in every state: a statement that fails, a context that ends, a connection that is
lost. What is here of PostgreSQL itself (row locks, snapshots, uncommitted
versions, the second look at a row after a wait, the unique indexes) is
marked external in the map. The refinement mapping numbers the journal by the
order of commits (`commits`, history); ids are drawn earlier, so a `BIGSERIAL` need
not grow in that order, which `QuoteStore` uses only to break ties between
providers.

**RateLimiter.** `calls` is the slice (a set of numbered calls, the numbers
giving its order), `blockedUntil` the cooldown. A caller reads the clock
(`ReadClock`), then gets the lock (`Deny` or `Grant`); `ReadLag` bounds the time
between. `FetchFails` and `CoolDown` do the same for a `Retry-After`.
`granted`, `promised` and `serial` are history.

**Worker.** `task[r][u]` is the goroutine of request `u` in replica `r`
(queued for a slot, inside `sf.Do`, or holding its result), `flight[r][p]` the
singleflight call of a pair (before its read, before the limiter, before the
upstream's answer). `Deliver` ends a flight: every coalesced task has its result
and the key is free before anything is written. `Finish` is the write on the
pass's context; `GiveUp` stands for all the ways nothing gets written. A write
may land up to `CommitLag` after its context ended: the server may commit a
statement whose client has stopped waiting. A replica that crashes or gives up
while such a write is under way is, in the model, one that stalls (its goroutine keeps
its result and may still land) beside another replica that carries on, with the same
`Offset`; the theorems hold for any number of replicas. `FetchReuse` reads the journal and the
clock in one step: a clock read later could only find the same row stale more often, and
the time between a judgement and its write is there anyway, between result and write. `Process` reads its `now` somewhere
between the result and the write, so a failure's backoff and budgets use any
instant in between. The limiter's windows are a nondeterministic denial; its
cooldown is exact. `called` is history.

**Dispatcher.** `pass[r]` is the state of `ClaimAndDispatch`. `ClaimLost` is a
claim that committed without its answer arriving, `Crash` a dead process (or a
shutdown that abandoned its pass) that is up again. `Post` inserts; the nudge
and the tick only say when passes start, and here they may start at any time.
All replicas share one `clock`, read with a constant `Offset`.

**Server.** The same pipeline seen from the process. `post[c]` is how far the
handler of POST `c` is; the insert, the lookup of the key's row and the nudge
are separate steps, and `InsertLost` is an insert that committed although the
handler got an error. A client's retry is another POST with the same key. `nudge`
and `tick` are the two channels, each with room for one signal. `loop` is where
`Run` stands: in its select, about to claim, in a pass, or returned. `phase` is
where `main` stands: serving, closing (in `srv.Shutdown`), draining (after
`stopDispatch`), down. `Stop` covers a signal and a failing listener; `Exit`
needs only the drain, because the wait for the loop is bounded; `Crash` may
happen at any point. What a pass does with a row is reduced to its outcome
(`Finish`, `Retry`, `Abandon`), and elapsing backoffs and visibility timeouts
are actions (`Due`, `Overdue`), so that no clock is needed; `Worker` and
`Dispatcher` have those in detail. Rejections before the insert change nothing
and are left out. `passedOver` is history: the rows that only a tick will bring up.

**RequestLife.** One request, so that time can go on for ever: instants are kept
as distances from now (`due`, `locked`, `cooling`, `age`), each capped where the
code stops telling larger values apart, so the state space is finite without a
bound on the clock and liveness means something. `stage` is where the worker is:
before the journal read (`fetch`), waiting for headers (`call`), reading the body
(`body`), holding a result (`resolved`). `Answered` runs every status, header and
body of the instance through `ExchangerateDev!Answer` and the domain's validation.
`Record` is `fail` or the completion in one write; `Unrecorded` is `Process`
returning an error (an unclassified failure while budget is left, or a value the
column `NUMERIC(24,10)` refuses); `Lost` and `Crash` are losses at any stage. `heard` is
history. Durations have `Width` bits and `Second` units to the second, so that
`baseBackoff << (attempts-1)` and `secs * time.Second` wrap in small instances as
they do in 64 bits.

**MemoryStore.** `records`, `idempotencyIndex`, `quotes` and `nextQuoteID` are the
fields; every method is one action, because it holds the mutex. `SQL` is the
refinement mapping to `QuoteStore`: a record's fields are a row's columns, the map
of quotes is the journal. The mapping needs no history. The two disagree in one
place: the SQL picks its stuck candidates by `locked_at` before the outer limit,
the memory sorts all candidates by `nextAttemptAt` (as its comment says the SQL
does). Every memory batch is still one the SQL may select when other transactions
hold the remaining rows, hence the refinement; without such locks it is one as
long as no more rows are stuck than the batch takes (`ClaimMirrors`).

**Config.** A setting is unset, unreadable or a number; `Accepts` is what `Load`
lets through. `InstanceIsLoadable` in the MC modules checks each instance of
`Dispatcher` and `RequestLife` against it (so `worker`, whose visibility timeout
equals the pass timeout, is a configuration that starts), and
`DefaultsComfortable` the arithmetic the comments do on the defaults: about 20
minutes of backoff (1215 s) under an hour of lifetime, 65 s of batch under 90 s of pass.

## 3. Runs

All passing runs but `server` and `life` switch deadlock checking off: the bounded clock,
the bounded ids and the `MaxInt` guard let the bounded system stop.

| Run | Configuration | Shows |
|---|---|---|
| `store` | `MCQuoteStore.cfg` | `ResultLinked`, `ErrorExplains`, `JournalUnique`, `TransitionsLegal` and the refinement `KeepsPromise` of the tables |
| `transactions` | `MCTransactions.cfg` | the refinement `ImplementsTables` and `ShortClaimDrains` of the statements on two connections |
| `limiter` | `MCRateLimiter.cfg` | `MinuteBudget`, `HourBudget`, `DenialWaits`, `CoolDownHolds` |
| `dispatcher` | `MCDispatcher.cfg` | `LeaseHeld`, `LeaseExclusive`, `AttemptsBounded`, `RetriedInLifetime` with two replicas |
| `worker` | `MCDispatcher_worker.cfg` | `WorkerTypeOK`, `ReuseIsFresh` and `ReuseIsRecent` with two coalesced requests |
| `server` | `MCServer.cfg` | `NoLostWakeup`, `RepliesAgree` and, under fairness, `Answered` over shutdowns, crashes and restarts |
| `memory` | `MCMemoryStore.cfg` | `IndexAgrees`, `ClaimMirrors` and the refinement `ImplementsStore` of the in-memory repository |
| `life` | `MCRequestLife.cfg` | `FailureExplained`, `BackoffKept` and, under fairness, `Terminates` for one request over unbounded time |
| `second_fetch` | `MCDispatcher_second.cfg` | violated: `NoSecondFetch` |
| `exhausted_untried` | `MCDispatcher_exhausted.cfg` | violated: `ExhaustedWasTried` |
| `cycling` | `MCRequestLife_cycling.cfg` | violated: `Terminates` without the assumption about the upstream's rates |
| `body_lost` | `MCRequestLife_body.cfg` | violated: `MalformedWasHeard` |

### Bounds, and why they suffice

* `store`: two requests, two pairs, one key, instants 1 and 3 with a visibility
  timeout of 1, a batch of 1, `attempts` up to 2. Two requests can compete for
  the key, for a batch slot and for a duplicate journal row; the two instants
  are far enough apart for a reclaim; two attempts reach the column's limit.
  Ids and pairs are symmetric, and no property names one.
* `transactions`: two connections, two requests, a key and a provider, two instants and a
  visibility timeout of one, a batch of one, one attempt. Each way for two statements to meet
  needs two transactions: two claims of a row, a claim and a completion (of a row that
  is stuck), two completions of one row or of two rows with the same quote, two
  inserts with one key. A third would only queue behind the second. With a
  batch of one a claim that locks a due and a stuck row drops one of them, and the other
  connection's claim can come back short because of it.
* `limiter`: two callers, a minute of two ticks, an hour of six, limits of two
  and three, a lag of one, a clock up to nine: the windows slide past their
  first call, a denial of each kind occurs, and a caller can overtake another.
* `dispatcher`: two replicas whose clocks differ by one, one request, a pass
  timeout of one, a commit lag of one and a visibility timeout of three, the
  sum of the three: the tightest setting in which a lease is safe (with `<=` in
  place of `<` in the reaper's half of the claim it is not). The clock runs to six, so a row can be claimed,
  lost and reclaimed, and `MaxAttempts` and `MaxLifetime` of two are both reached.
  Attempts, crashes and reclaims interleave freely (`Prompt = FALSE`).
* `worker`: one replica, two requests of one pair, a pool of two, quotes dated
  now or two instants ahead with a skew of one allowed (so one kind is rejected),
  stale an instant after their date, a clock up to four and a visibility timeout of one,
  so a reclaim happens. A quote judged fresh in the first instant of a pass goes stale in
  flight and is written at the last instant `ReuseIsRecent` allows.
* `server`: two POSTs (two separate requests, a request and its retry, or two
  clients that use one key for different pairs), a batch of one so that two due
  rows need the immediate re-claim, two attempts so that a row is retried once,
  two starts so that each way of stopping is followed by a restart, and one row
  lost. `MaxLosses` bounds the rows left in progress by errors; the code has no
  such bound, and a row that is lost every time is never answered.
* `memory`: two requests, one pair, one key, one provider, instants 1 and 3 with a
  visibility timeout of 1, a batch of 1, `attempts` up to 2: the two requests compete for
  the key, the batch and a duplicate quote, and either can be stuck while the other is due.
* `life`: five bits (durations from -16 to 15), two units to the second. With a base of 2
  and a cap of 3 the product grows, is capped, wraps to -16 at attempt 4 and to 0 at
  attempt 5; both budgets, six attempts and an age of 11, can be the first to run out.
  `Retry-After` is absent, 14 units (which the jitter pushes out of range), wraps to -12 or
  to 2, or is a date gone by. `ProductTells`, an assumption of the instance, says that a
  wrapped product never falls under the cap again: the sign test of `backoff` cannot see
  that, the default settings do not wrap at all within their ten attempts, and a base of
  minutes with dozens of attempts could. Rates are zero, storable or too large; undated, current or
  too far ahead; every code of the classification table and one it lacks occurs.
* The violation runs of `Dispatcher` use `Prompt = TRUE` (time passes only while the system
  waits for something outside) so that their traces need no arbitrarily slow
  process.

### Fairness

`Server` and `RequestLife` have a liveness property. `Server`'s `Fairness` assumes of the code that the
goroutine of `Run` is scheduled (`WF` of the select and of `EndPass`) and that a
claimed row settles, because every call it makes has a timeout; of Go's ticker
that it keeps firing; of time that backoffs and visibility timeouts elapse; of
`main` that it reaches `stopDispatch` and exits, both within `ShutdownTimeout`;
of the platform that it starts a stopped process again. A claim may fail any
number of times but not for ever (`SF` of `Claim`). The handlers get no fairness:
a handler may stop for good between its insert and its nudge, and the ticker
still finds the row. Crashes, losses and retries are bounded by `MaxStarts`,
`MaxLosses` and `MaxAttempts`; only the last is the code's own.

`RequestLife`'s `LifeFairness` assumes that time passes and the queue is polled (`WF`
of `Tick` and `Claim`), that an upstream call ends (`FetchTimeout` and `ClientTimeout`
stop `Tick` until it does), and that a worker which comes to a stage again and again
is not lost there every time (`SF` of each stage and of `Record`). Nothing bounds losses,
crashes or reclaims. `StorableSpec` adds one assumption about the upstream, that it does
not answer with rates the database refuses for ever; run `cycling` shows that
`Terminates` needs it.

### What the violated properties mean

* `NoSecondFetch`: the key of a flight is free before its quote is committed.
* `ExhaustedWasTried`: the service's own rate limiting spends a request's
  attempts.
* `Terminates` (run `cycling`): `Process` returns the error of `CompleteSuccess`
  without consulting a budget, so a rate that its column cannot hold is fetched again
  for ever, one reclaim at a time.
* `MalformedWasHeard`: after the headers, a broken connection or a timeout is taken for
  an answer that could not be parsed, and ends the request at its first attempt.
  (`docs/design.md:446`, which says that a network failure leaves its row in progress until the
  reaper, predates lines 83-87 of the same document, and the code agrees with those.)

Seen in the models but without a run of its own: Go's select may take a pending nudge
or tick over the cancelled context, so a pass may start during the drain (`Answered`
covers its rows). Detached fetches make a pass last up to one pass timeout per round
of the pool, so a visibility timeout equal to the pass timeout, the smallest `config.Load`
accepts, does not rule out that two replicas work one row; that costs upstream calls
and corrupts nothing (`KeepsPromise`). With a caller overtaken between its clock read and the lock an hour of
the limiter can hold one call more than its limit; the excess is confined to the lag
(`HourBudget`, proved) and vanishes without it (`ExactWithoutLag`, proved).

## 4. Proofs

`tlapm` checks every theorem for all values of the constants that satisfy the named
assumptions of the modules: `StoreAssumption`, `LimiterAssumption`,
`MemoryAssumption`, `WorkerAssumption`, `TransactionAssumption`, `WidthAssumption`,
`LifeAssumption`, `HeadersAssumption` (a header counts any number of seconds or names a
date whose distance a Duration holds) and those of `Server` below. Three more,
`PowersAssumption`, `RangeAssumption` and `GrowthAssumption`, are arithmetic (`2^n` is a
positive natural, `2^w` is twice `2^(w-1)`), spelled out because the provers have no rules
for powers. TLC evaluates all of them on every run. Every invariant that a run checks is
proved; so are all refinements and action properties of the passing runs.

**QuoteStoreProofs.** `StoreInv` is the inductive invariant: the type
invariant, `ResultLinked`, `ErrorExplains` and `JournalUnique`, strengthened by
`ClaimedPaid` (a row that was ever claimed has spent an attempt, without which
`ErrorExplains` does not survive a retried failure) and `LatestExists` (each
pair with a quote has a latest one, which makes the `CHOOSE` of `LatestID` mean
something for a journal of any length). The invariant is taken apart row by row
(`RowOK`), and there is one lemma per action. `TypeCorrect`, `ResultsLinked`,
`ErrorsExplain` and `JournalHasNoDuplicates` follow. `OnlyLegalTransitions` is
the action property. `StoreKeepsPromise` is the refinement: each action
is an abstract action or a stutter; its core is `AppendMovesLatest`, that an append
moves the latest quote of its pair to the later of the two.

**RateLimiterProofs.** The invariant adds to the budgets what the slice has
forgotten: `PrunedIsOld` (a pruned call is at least an hour old by the clock) and
`ReadIsRecent` (a waiting caller read the clock at most `ReadLag` ago).
`NothingYoungPruned` combines them: what `Allow` counts contains every call
less than an hour minus the lag older than its argument. `OneMoreFits` is the
counting step of both windows. The assumption `Minute + ReadLag <= Hour` makes
the minute exact although callers lag. `CoolDownsHold` is the action property.

**ServerProofs.** `AllRepliesAgree` rests on `ReplyInv`: one row per key (the
unique index), an inserted call has its row, a call is answered with a row of its
own key and pair, a reported conflict is real. Most actions are `Quiet` (they
answer nobody and neither insert nor remove a row), which leaves inserts and
answers. `NoWakeupLost` rests on `WakeInv`: besides the property itself, a process
that is down has left every accepted row to the next one's ticker
(`DownPassesAll`), without which the property does not survive a restart. Its core
is `BatchIsAllOrFull`: a claim takes every due row unless its batch is full. The
assumptions used are that the calls are finitely many (`PostsAssumption`) and that
their inputs have keys and pairs (`InputsAssumption`); `BatchAssumption`,
`NoKeyAssumption`, `NoReplyAssumption` and `BoundsAssumption` say what the
constants are.

**MemoryStoreProofs.** `MemoryInv` is the type invariant, `IndexAgrees`, and
`NoDuplicates` (no two quotes of one provider, pair and instant, without which
"the" quote `findOrCreateQuote` returns is not the one the SQL would find).
`MemoryImplements` is the refinement to `QuoteStore`; each method maps to the
action of its name. Its core is `ClaimSelectsBatch`: the ranks of the sorted
candidates are distinct (`BatchFacts`), so the cut takes no more than the limit and
nothing that is later than what it leaves, and what it leaves counts as
locked by others. `QuoteIsUpserted` does the same for the journal. The
assumption is `MemoryAssumption`: instants, bounds and ids are naturals (the ids
because the sort breaks ties by them) and the mark for no key is not a key.

`ClaimsMirror` says more of the batch than the refinement needs: with nothing locked
and no more rows stuck than a batch takes, one sort and one limit select what the three
limits of the SQL may select. It rests on `FirstAreLimited`: the first
`BatchSize` of a finite set, by rank, are all of it or exactly as many as the limit
(the first one left out has at least that many before it, all of them in), and
none of them is due later than one left out.

**DispatcherProofs.** `PipelineInv` holds whatever the timeouts are: `StoreInv`;
the types of the replicas' variables; `PassesTimed` (a pass's deadline is its clock read
plus the pass timeout, by that replica's clock); `TasksOfPasses` (a goroutine works on a
row that exists, with the deadline and the lock instant of the running pass); `ResultsOK` (a
result is of its row's pair, and a quote to be reused is in the journal and was
fresh after the claim); `FlightsLed` (a flight is up exactly as long as a request waits
for it). From it alone follow `WorkerTypesCorrect`, `RetriesInLifetime`, `ReusesRecent` and
`ReplicasUseStore`. `ReusesRecent` is a chain of clocks: only a finished goroutine
answers from the journal (`ReusedByFinish`); its quote was fresh after the pass read its clock
(`ResultsOK`), the pass's context ends a pass timeout later (`PassesTimed`), and nothing
lands more than the commit lag after that (`CanLand`).

`LeaseInv` adds what only a long visibility timeout gives: `LeaseHeld`, `LeaseExclusive`,
`AttemptsBounded` and `ReuseIsFresh`, inductive together relative to `PipelineInv`. The core
is `ClaimSpares`: a claim never takes a row whose outcome may still land, because that
row is in progress and its lock is younger than the visibility timeout on any
replica's clock. `LeasesHold`, `LeasesExclusive`, `AttemptsAreBounded` and `ReuseFresh`
therefore have the hypothesis `LeaseIsLong` (pass timeout, commit lag and clock skew
together fit in the visibility timeout). It is a hypothesis and not an assumption
because `config.Load` does not enforce it: it only asks that the visibility timeout is
not shorter than the pass timeout. The defaults leave it 30 seconds for lag and skew.

`ReplicasUseStore` and `ReplicasKeepPromise` (through `StoreKeepsPromise`: any number of
replicas, crashing anywhere, keep the promise to clients) have the hypothesis `Times = Nat`.
`UsesStore` is proved and not run: an instance with one pair and one provider could not tell a
result that reached the wrong row, whereas the theorem is about any number of pairs and needs
`ResultsOK`.
`Times` is the set of instants the most general caller of `QuoteStore` draws from, cut
down for TLC; a real backoff may name any later instant.

**TransactionsProofs.** `TxInv` says what a transaction may rely on between two of its
statements. `RowsOK` and `JournalOK` are the committed tables, with `commits` an
enumeration of the journal. `StageOK` is one session, by stage: the winner a `select`
looks for is committed; a change still has its row, its quote and its pair (`ChangeOK`);
what waits for its commit is an insert, a claim or a completion whose precondition still
holds of the committed tables (`Inserts`, `Claims`, `Completes`). `Apart` is two sessions:
they hold different rows, open different keys, and insert different quotes under different
ids. `StageOK` survives another's commit because of `Apart`: its locks are disjoint from
the rows that change, and the unique indexes keep keys and quotes apart.
`TxTypesCorrect` follows, and `ShortClaimsDrain`: a claim locks what it writes and no more, or has
a full batch (`StageOK`), so a lock that makes another claim come back short belongs
to a transaction that writes the row, to a claim whose dispatcher claims again at once, or to one that ran
into the row as it moved on. Its other half is `ClaimFacts`: a batch that is not full
contains every candidate that no other transaction holds.

`TransactionsImplement` is the refinement: only `Commit` changes the committed tables.
An insert maps to `Create`; a claim to `Claim` of the rows it wrote, the other candidates counted
as skipped (an empty batch is a stutter); a completion to `Succeed`, `SucceedReuse` or `Fail`.
Ids map to positions in `commits`, which later commits never move (`Position` of a
committed id is stable). `Store` instantiates the theorems about `QuoteStore` at this mapping:
`TransactionsKeepPromise` and `CommittedConsistent` carry the promise, the linked results,
the explained errors and the unique journal over to the statements; `MemoryKeepsPromise`
does the same for the maps.

**RequestLifeProofs.** `LifeInv` is `LifeTypeOK`, `FailureExplained`, and what they need: a
row in progress has paid an attempt (`RowOK`), and a result is one a fetch may have
(`Results`): a retryable failure has a transient code, one that is not has a permanent
code, and both ask for a wait that is a Duration. That the adapter only makes such results
is `AnswerIsResult`, for any status, header and body of the model; that a wait stays
in range through wrap, cap and jitter is `WrapStays`, `DelayInRange` and `JitterSpreads`.
`BackoffIsKept` has the hypothesis `ProductTells`, that no wrapped product falls under the
cap again. The code does not enforce that; the instance satisfies it, and so do the default
settings. Under it `DelayIsWanted` identifies the backoff in integers of a width with the one
in integers without.

Only model-checked: `Answered` and `Terminates`, since liveness under fairness is out of
the prover's reach. The violated properties of section 3 are counterexamples of TLC.

## 5. Plan

1. *Done*: tables and promise with proofs, limiter with proofs, workers and
   dispatcher model-checked, the process (handler, loop, shutdown) with proofs
   and liveness.
2. *Done*: one request over unbounded time with the adapter, the backoff in
   integers of a width and the row whose completion always fails; the in-memory
   repository as a second implementation of `QuoteStore`; the relations `config.Load`
   checks.
3. *Done*: proofs about `MemoryStore` (the refinement to `StoreSpec`, `IndexAgrees`);
   the statements behind the tables' transactions.
4. *Done*: proofs about `Dispatcher` (the lease under `LeaseIsLong`, the retries, the use
   of the tables), `Transactions` (the refinement, `ShortClaimDrains`), `RequestLife`
   (`FailureExplained`, `BackoffKept`), and `ClaimMirrors`; the promise to clients carried
   from the tables to statements, maps and replicas.
5. Theorems that relate modules: what a configuration `config.Load` accepts gives of
   `LeaseIsLong` and `ProductTells`; bounds on how long a lease may be exceeded when
   `LeaseIsLong` fails.

Bounds on runs as now: two replicas or two requests at a time, a clock of
at most nine ticks.

## 6. Not modelled

HTTP routing, middleware and JSON; currency pair parsing; opening the
connection pool and migrations; the wiring of adapters; the throughput tool; log output. They keep no
state that the pipeline's properties depend on, or are calls into libraries. The
fake provider: its answers are among those `Worker` allows, and its quota is a
sliding window like the limiter's. Of the exchangerate.dev adapter, `mapQuality` and
`StaleAfter`: `Worker` takes any lifetime of `TTLs`. PostgreSQL itself is modelled by what the statements rely
on: atomic transactions, snapshots per statement, row locks, `SKIP LOCKED`, the two unique
indexes, the foreign key and the `INT` range; `FOR UPDATE SKIP LOCKED` takes all its
locks in one step.
