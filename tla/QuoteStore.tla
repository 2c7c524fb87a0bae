----------------------------- MODULE QuoteStore -----------------------------
(***************************************************************************)
(* The two tables behind Repository (internal/storage/postgres), at the    *)
(* granularity of committed transactions: quote_updates is both the job    *)
(* queue and the result a client polls, quotes is the append-only journal  *)
(* of prices.  Each action is one statement or transaction of the          *)
(* repository; its callers are the most general ones, so what holds here   *)
(* holds whatever the workers of any number of replicas do.                *)
(*                                                                         *)
(* updates maps the id of every inserted row to the row; quotes is a       *)
(* sequence, a row's position being its BIGSERIAL id (0 is a NULL          *)
(* quote_id).  updated_at, error_message, fetched_at and the rate's value, *)
(* quality and flags are not modelled: nothing in the pipeline reads them  *)
(* back.                                                                   *)
(***************************************************************************)
EXTENDS QuoteDomain, Sequences, FiniteSets

CONSTANTS
  UpdateIDs,          \* ids RequestUpdate may draw (UUIDv7)
  Pairs,              \* currency pairs of the allow-list
  Keys,               \* Idempotency-Key values
  NoKey,              \* the NULL idempotency_key of a request without one
  Providers,          \* names of upstreams
  Times,              \* instants a caller may pass
  BatchSize,          \* DISPATCH_BATCH_SIZE, ClaimBatch's limit
  VisibilityTimeout,  \* DISPATCH_VISIBILITY_TIMEOUT
  MaxInt              \* largest value of the INT column attempts

ASSUME StoreAssumption ==
  /\ Times \subseteq Nat
  /\ BatchSize \in Nat \ {0}
  /\ VisibilityTimeout \in Nat \ {0}
  /\ MaxInt \in Nat
  /\ NoKey \notin Keys

VARIABLES
  updates,  \* table quote_updates
  quotes    \* table quotes

storeVars == <<updates, quotes>>

Row == [pair: Pairs, key: Keys \cup {NoKey}, status: Statuses, attempts: 0..MaxInt,
        createdAt: Nat, nextAttemptAt: Nat, lockedAt: Nat, quoteID: Nat,
        reused: BOOLEAN, errorCode: ErrorCodes \cup {NoError}]

Quote == [pair: Pairs, provider: Providers, quotedAt: Times, staleAfter: Times]

-----------------------------------------------------------------------------
(* Inserting: NewCurrencyRateUpdateRequest and CreateUpdateRequest.        *)

NewUpdateRequest(p, k, now) ==
  [pair |-> p, key |-> k, status |-> StatusPending, attempts |-> 0,
   createdAt |-> now, nextAttemptAt |-> now, lockedAt |-> 0, quoteID |-> 0,
   reused |-> FALSE, errorCode |-> NoError]

\* The partial unique index quote_updates_idem_idx already holds k.
KeyTaken(k) == k # NoKey /\ \E u \in DOMAIN updates : updates[u].key = k

\* A taken key is ErrIdempotencyKeyExists: nothing is inserted.
CreateUpdateRequest(u, p, k, now) ==
  /\ u \notin DOMAIN updates
  /\ ~KeyTaken(k)
  /\ updates' = [v \in DOMAIN updates \cup {u} |->
                   IF v = u THEN NewUpdateRequest(p, k, now) ELSE updates[v]]
  /\ UNCHANGED quotes

-----------------------------------------------------------------------------
(* Claiming: ClaimBatch, the queue and the reaper in one statement.        *)

Due(now) ==
  {u \in DOMAIN updates : /\ updates[u].status = StatusPending
                          /\ updates[u].nextAttemptAt <= now}

\* Mutant: the reaper's half of the query without its status filter.
Stuck_AnyStatus(visibleSince) ==
  {u \in DOMAIN updates : updates[u].lockedAt < visibleSince}

\* Mutant: a row locked at the very edge of the timeout is stuck too.
Stuck_AtEdge(visibleSince) ==
  {u \in DOMAIN updates : /\ updates[u].status = StatusInProgress
                          /\ updates[u].lockedAt <= visibleSince}

Stuck(visibleSince) ==
  {u \in DOMAIN updates : /\ updates[u].status = StatusInProgress
                          /\ updates[u].lockedAt < visibleSince}

\* S is what ORDER BY column LIMIT n selects from C (ties broken any way).
Limited(S, C, n, column) ==
  /\ S \subseteq C
  /\ Cardinality(S) = IF Cardinality(C) < n THEN Cardinality(C) ELSE n
  /\ \A u \in S, v \in C \ S : updates[u][column] <= updates[v][column]

\* S is what the two LIMITed CTEs and the outer LIMIT select; skipped are the
\* rows SKIP LOCKED passes over because another transaction holds them.
ClaimSelects(S, skipped, now, visibleSince) ==
  LET due == Due(now) \ skipped
      stuck == Stuck(visibleSince) \ skipped
  IN \E pendingCandidates \in SUBSET due, stuckCandidates \in SUBSET stuck :
       /\ Limited(pendingCandidates, due, BatchSize, "nextAttemptAt")
       /\ Limited(stuckCandidates, stuck, BatchSize, "lockedAt")
       /\ Limited(S, pendingCandidates \cup stuckCandidates, BatchSize,
                  "nextAttemptAt")

\* Only a claim of a pending row spends an attempt; a reclaim does not.
ClaimedRow(row, now) ==
  [row EXCEPT !.status   = StatusInProgress,
              !.lockedAt = now,
              !.attempts = IF row.status = StatusPending THEN @ + 1 ELSE @]

\* Mutant: the column is widened and the counter never stops.
ClaimBatch_NoOverflow(S, skipped, now) ==
  /\ ClaimSelects(S, skipped, now, now - VisibilityTimeout)
  /\ updates' = [u \in DOMAIN updates |->
                   IF u \in S THEN ClaimedRow(updates[u], now) ELSE updates[u]]
  /\ UNCHANGED quotes

\* The statement fails as a whole if an attempts column would overflow.
ClaimBatch(S, skipped, now) ==
  /\ ClaimSelects(S, skipped, now, now - VisibilityTimeout)
  /\ \A u \in S : ClaimedRow(updates[u], now).attempts <= MaxInt
  /\ updates' = [u \in DOMAIN updates |->
                   IF u \in S THEN ClaimedRow(updates[u], now) ELSE updates[u]]
  /\ UNCHANGED quotes

-----------------------------------------------------------------------------
(* Completing: every UPDATE has WHERE status = 'in_progress'; when it      *)
(* matches no row the transaction rolls back and the caller gets an error. *)

\* Mutant: the UPDATE matches on the id alone.
IsInProgress_AnyStatus(u) == u \in DOMAIN updates

IsInProgress(u) ==
  u \in DOMAIN updates /\ updates[u].status = StatusInProgress

\* Mutant: the columns of an earlier failure are left alone.
SucceededRow_KeepsError(row, q, reused) ==
  [row EXCEPT !.status = StatusSucceeded, !.quoteID = q, !.reused = reused]

\* completeSuccessTx: point the row at quote q and clear an earlier failure.
SucceededRow(row, q, reused) ==
  [row EXCEPT !.status = StatusSucceeded, !.quoteID = q, !.reused = reused,
              !.errorCode = NoError]

\* Journal rows the unique index quotes_dedup_idx holds equal to rate.
Duplicates(rate) ==
  {i \in DOMAIN quotes : /\ quotes[i].provider = rate.provider
                         /\ quotes[i].pair     = rate.pair
                         /\ quotes[i].quotedAt = rate.quotedAt}

\* upsertQuote: ON CONFLICT DO NOTHING, then the id of the row that won.
UpsertedID(rate) ==
  IF Duplicates(rate) = {} THEN Len(quotes) + 1
                           ELSE CHOOSE i \in Duplicates(rate) : TRUE

\* Mutant: no ON CONFLICT clause and no unique index.
UpsertedQuotes_AlwaysInserts(rate) == Append(quotes, rate)

\* Mutant: ON CONFLICT DO UPDATE instead of DO NOTHING.
UpsertedQuotes_DoUpdate(rate) ==
  IF Duplicates(rate) = {} THEN Append(quotes, rate)
                           ELSE [quotes EXCEPT ![UpsertedID(rate)] = rate]

UpsertedQuotes(rate) ==
  IF Duplicates(rate) = {} THEN Append(quotes, rate) ELSE quotes

CompleteSuccess(u, rate) ==
  /\ IsInProgress(u)
  /\ quotes' = UpsertedQuotes(rate)
  /\ updates' = [updates EXCEPT ![u] = SucceededRow(@, UpsertedID(rate), FALSE)]

\* quote_id is a foreign key: q must be a row of the journal.
CompleteSuccessReuse(u, q) ==
  /\ IsInProgress(u)
  /\ q \in DOMAIN quotes
  /\ updates' = [updates EXCEPT ![u] = SucceededRow(@, q, TRUE)]
  /\ UNCHANGED quotes

\* next_attempt_at moves only when the row goes back to pending.
FailedRow(row, code, retryable, nextAttemptAt) ==
  [row EXCEPT !.status = IF retryable THEN StatusPending ELSE StatusFailed,
              !.nextAttemptAt = IF retryable THEN nextAttemptAt ELSE @,
              !.errorCode = code]

CompleteFailure(u, code, retryable, nextAttemptAt) ==
  /\ IsInProgress(u)
  /\ updates' = [updates EXCEPT ![u] =
                   FailedRow(@, code, retryable, nextAttemptAt)]
  /\ UNCHANGED quotes

-----------------------------------------------------------------------------
(* Reading: GetLatestQuote orders by quoted_at, then id.                   *)

QuotesOf(p) == {i \in DOMAIN quotes : quotes[i].pair = p}

LatestID(p) ==
  CHOOSE i \in QuotesOf(p) : \A j \in QuotesOf(p) :
    \/ quotes[j].quotedAt < quotes[i].quotedAt
    \/ quotes[j].quotedAt = quotes[i].quotedAt /\ j <= i

-----------------------------------------------------------------------------
(* The most general callers.  The pair of a completion is the pair of the  *)
(* claimed row (Worker.Process passes req.Pair), and a reused quote is one *)
(* GetLatestQuote returned for that pair at some time.                     *)

StoreInit ==
  /\ updates = [u \in {} |-> NoKey]
  /\ quotes  = <<>>

Create == \E u \in UpdateIDs, p \in Pairs, k \in Keys \cup {NoKey}, now \in Times :
            CreateUpdateRequest(u, p, k, now)

Claim == \E now \in Times, skipped \in SUBSET DOMAIN updates,
            S \in SUBSET DOMAIN updates :
           S # {} /\ ClaimBatch(S, skipped, now)

Succeed == \E u \in DOMAIN updates, provider \in Providers,
              quotedAt, staleAfter \in Times :
             CompleteSuccess(u, [pair |-> updates[u].pair, provider |-> provider,
                                 quotedAt |-> quotedAt, staleAfter |-> staleAfter])

SucceedReuse == \E u \in DOMAIN updates : \E q \in QuotesOf(updates[u].pair) :
                  CompleteSuccessReuse(u, q)

Fail == \E u \in DOMAIN updates, code \in ErrorCodes, retryable \in BOOLEAN,
           nextAttemptAt \in Times :
          CompleteFailure(u, code, retryable, nextAttemptAt)

StoreNext == Create \/ Claim \/ Succeed \/ SucceedReuse \/ Fail

StoreSpec == StoreInit /\ [][StoreNext]_storeVars

-----------------------------------------------------------------------------
(* What the tables guarantee.                                              *)

\* Type invariant of the two tables.
TypeOK ==
  /\ DOMAIN updates \subseteq UpdateIDs
  /\ updates \in [DOMAIN updates -> Row]
  /\ quotes \in Seq(Quote)

\* A row has a result exactly when it has succeeded, and the result is a
\* journal row of the pair that was asked for: what GetUpdateByID joins can
\* neither be missing from a succeeded row nor leak from another pair.
ResultLinked ==
  \A u \in DOMAIN updates :
    /\ updates[u].status = StatusSucceeded <=> updates[u].quoteID # 0
    /\ updates[u].quoteID # 0 =>
         /\ updates[u].quoteID \in DOMAIN quotes
         /\ quotes[updates[u].quoteID].pair = updates[u].pair
    /\ updates[u].reused => updates[u].quoteID # 0

\* The error column explains the row's history: a failed row and a row that
\* was handed back for a retry say why, and a success has forgotten the
\* failures before it (completeSuccessTx clears what CompleteFailure wrote).
ErrorExplains ==
  \A u \in DOMAIN updates :
    /\ updates[u].status = StatusFailed => updates[u].errorCode # NoError
    /\ updates[u].status = StatusSucceeded => updates[u].errorCode = NoError
    /\ updates[u].status = StatusPending =>
         (updates[u].attempts > 0 <=> updates[u].errorCode # NoError)

\* At-least-once delivery may complete with the same upstream quote many
\* times, from many replicas; the journal holds it once (upsertQuote).
JournalUnique ==
  \A i, j \in DOMAIN quotes :
    /\ quotes[i].provider = quotes[j].provider
    /\ quotes[i].pair     = quotes[j].pair
    /\ quotes[i].quotedAt = quotes[j].quotedAt
    => i = j

\* Every change of a row's status is one the domain's state machine allows,
\* although no SQL statement consults CanTransitionTo before it writes.
TransitionsLegal ==
  [][\A u \in DOMAIN updates :
       updates'[u].status # updates[u].status =>
         CanTransitionTo(updates[u].status, updates'[u].status)]_storeVars

\* The client-visible state: see UpdatePromise.
LatestQuotedAt(p) ==
  IF QuotesOf(p) = {} THEN 0 ELSE quotes[LatestID(p)].quotedAt

ClientRequest ==
  [u \in DOMAIN updates |-> [pair |-> updates[u].pair, key |-> updates[u].key]]

ClientAnswer ==
  [u \in DOMAIN updates |->
     IF updates[u].status = StatusSucceeded
       THEN [kind |-> "quote", quote |-> quotes[updates[u].quoteID]]
     ELSE IF updates[u].status = StatusFailed
       THEN [kind |-> "error", code |-> updates[u].errorCode]
     ELSE [kind |-> "open"]]

Promise == INSTANCE UpdatePromise
  WITH request <- ClientRequest, answer <- ClientAnswer,
       latest  <- [p \in Pairs |-> LatestQuotedAt(p)]

\* The tables keep the promise made to clients: one request per key, one
\* answer per request, unchanged for ever, and a latest quote that never
\* moves back.  A duplicated completion that rewrites a terminal row, a claim of
\* one, a second row for a key, or a quote overwritten in the journal would each
\* break it; the late completion of a reclaimed row, which is still the first
\* answer its client sees, does not (see LeaseHeld in Dispatcher).
KeepsPromise == Promise!PromiseSpec
=============================================================================
