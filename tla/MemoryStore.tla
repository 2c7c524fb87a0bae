---------------------------- MODULE MemoryStore ----------------------------
(***************************************************************************)
(* The in-memory Repository (internal/storage/memory) the use-case tests   *)
(* run on instead of PostgreSQL.  Every method holds one mutex, so each is *)
(* one action; its callers are as general as QuoteStore's.  What it keeps  *)
(* is its own: records by id, an index of the idempotency keys, a map of   *)
(* quotes and a counter for their ids; and it asks the domain's state      *)
(* machine where the SQL has a WHERE.  It implements QuoteStore, so a test *)
(* that passes on it exercised behaviour the database allows.              *)
(*                                                                         *)
(* Request ids are naturals, ordered as the strings of the UUIDs are.      *)
(***************************************************************************)
EXTENDS QuoteDomain, Sequences, FiniteSets

CONSTANTS
  UpdateIDs, Pairs, Keys, NoKey, Providers, Times, BatchSize,
  VisibilityTimeout,  \* all as in QuoteStore
  MaxInt              \* bound on attempts: a Go int, but the SQL column is one

ASSUME MemoryAssumption ==
  /\ UpdateIDs \subseteq Nat /\ Times \subseteq Nat
  /\ BatchSize \in Nat \ {0} /\ VisibilityTimeout \in Nat \ {0}
  /\ MaxInt \in Nat /\ NoKey \notin Keys

VARIABLES
  records,           \* map[uuid.UUID]*record
  idempotencyIndex,  \* map[string]uuid.UUID
  quotes,            \* map[int64]storedQuote
  nextQuoteID        \* the id given out last

memoryVars == <<records, idempotencyIndex, quotes, nextQuoteID>>

Request == [pair: Pairs, status: Statuses, attempts: 0..MaxInt, createdAt: Nat,
            reused: BOOLEAN, errorCode: ErrorCodes \cup {NoError}]

Record == [req: Request, idempotencyKey: Keys \cup {NoKey}, nextAttemptAt: Nat,
           lockedAt: Nat, quoteID: Nat]

StoredQuote == [pair: Pairs, provider: Providers, quotedAt: Times, staleAfter: Times]

MemoryInit ==
  /\ records = [u \in {} |-> NoKey]
  /\ idempotencyIndex = [k \in {} |-> 0]
  /\ quotes = [q \in {} |-> NoKey]
  /\ nextQuoteID = 0

-----------------------------------------------------------------------------
(* CreateUpdateRequest.  An id is drawn once; a taken key is refused.      *)

NewRecord(p, k, now) ==
  [req |-> [pair |-> p, status |-> StatusPending, attempts |-> 0,
            createdAt |-> now, reused |-> FALSE, errorCode |-> NoError],
   idempotencyKey |-> k, nextAttemptAt |-> now, lockedAt |-> 0, quoteID |-> 0]

Indexed(u, k) ==
  IF k = NoKey THEN idempotencyIndex
  ELSE [j \in DOMAIN idempotencyIndex \cup {k} |->
          IF j = k THEN u ELSE idempotencyIndex[j]]

\* Mutant: the index is written before the key is looked up.
CreateUpdateRequest_LastWins(u, p, k, now) ==
  /\ u \notin DOMAIN records
  /\ records' = [v \in DOMAIN records \cup {u} |->
                   IF v = u THEN NewRecord(p, k, now) ELSE records[v]]
  /\ idempotencyIndex' = Indexed(u, k)
  /\ UNCHANGED <<quotes, nextQuoteID>>

CreateUpdateRequest(u, p, k, now) ==
  /\ u \notin DOMAIN records
  /\ k \notin DOMAIN idempotencyIndex
  /\ records' = [v \in DOMAIN records \cup {u} |->
                   IF v = u THEN NewRecord(p, k, now) ELSE records[v]]
  /\ idempotencyIndex' = Indexed(u, k)
  /\ UNCHANGED <<quotes, nextQuoteID>>

-----------------------------------------------------------------------------
(* ClaimBatch: one set of candidates, one order, one limit.                *)

Candidates(now, visibleSince) ==
  {u \in DOMAIN records :
     \/ records[u].req.status = StatusPending /\ records[u].nextAttemptAt <= now
     \/ records[u].req.status = StatusInProgress /\ records[u].lockedAt < visibleSince}

\* Mutant: ordered by age instead of by the time of the next attempt.
Precedes_ByCreation(u, v) ==
  \/ records[u].req.createdAt < records[v].req.createdAt
  \/ records[u].req.createdAt = records[v].req.createdAt /\ u < v

Precedes(u, v) ==
  \/ records[u].nextAttemptAt < records[v].nextAttemptAt
  \/ records[u].nextAttemptAt = records[v].nextAttemptAt /\ u < v

FirstCandidates(now) ==
  LET candidates == Candidates(now, now - VisibilityTimeout)
  IN {u \in candidates : Cardinality({v \in candidates : Precedes(v, u)}) < BatchSize}

\* A pending record moves and pays an attempt, a stuck one is only refreshed.
ClaimedRequest(req) ==
  IF req.status = StatusPending
    THEN [req EXCEPT !.status = StatusInProgress, !.attempts = @ + 1]
    ELSE req

ClaimedRecord(rec, now) == [rec EXCEPT !.req = ClaimedRequest(@), !.lockedAt = now]

ClaimBatch(now) ==
  LET S == FirstCandidates(now) IN
  /\ \A u \in S : ClaimedRequest(records[u].req).attempts <= MaxInt
  /\ records' = [u \in DOMAIN records |->
                   IF u \in S THEN ClaimedRecord(records[u], now) ELSE records[u]]
  /\ UNCHANGED <<idempotencyIndex, quotes, nextQuoteID>>

-----------------------------------------------------------------------------
(* Completing: transitionRecord asks the domain before anything changes.   *)

\* Mutant: a record that is where it should go is taken for a repeated call.
MayMove_OrIsThere(u, next) ==
  /\ u \in DOMAIN records
  /\ \/ CanTransitionTo(records[u].req.status, next)
     \/ records[u].req.status = next

MayMove(u, next) ==
  u \in DOMAIN records /\ CanTransitionTo(records[u].req.status, next)

SucceededRequest(req, reused) ==
  [req EXCEPT !.status = StatusSucceeded, !.errorCode = NoError, !.reused = reused]

SucceededRecord(rec, q, reused) ==
  [rec EXCEPT !.req = SucceededRequest(@, reused), !.quoteID = q]

Duplicates(rate) ==
  {q \in DOMAIN quotes : /\ quotes[q].pair = rate.pair
                         /\ quotes[q].provider = rate.provider
                         /\ quotes[q].quotedAt = rate.quotedAt}

\* Mutant: every rate is a quote of its own.
FindOrCreateQuote_Creates(rate, q) ==
  /\ q = nextQuoteID + 1
  /\ nextQuoteID' = q
  /\ quotes' = [i \in DOMAIN quotes \cup {q} |-> IF i = q THEN rate ELSE quotes[i]]

\* Mutant: an id is drawn before the duplicate is found.
FindOrCreateQuote_DrawsFirst(rate, q) ==
  /\ nextQuoteID' = nextQuoteID + 1
  /\ IF Duplicates(rate) # {}
       THEN q \in Duplicates(rate) /\ UNCHANGED quotes
       ELSE /\ q = nextQuoteID + 1
            /\ quotes' = [i \in DOMAIN quotes \cup {q} |->
                            IF i = q THEN rate ELSE quotes[i]]

\* q is the id of the quote rate is stored as.
FindOrCreateQuote(rate, q) ==
  IF Duplicates(rate) # {}
    THEN q \in Duplicates(rate) /\ UNCHANGED <<quotes, nextQuoteID>>
    ELSE /\ q = nextQuoteID + 1
         /\ nextQuoteID' = q
         /\ quotes' = [i \in DOMAIN quotes \cup {q} |-> IF i = q THEN rate ELSE quotes[i]]

CompleteSuccess(u, rate) ==
  /\ MayMove(u, StatusSucceeded)
  /\ \E q \in 1..nextQuoteID + 1 :
       /\ FindOrCreateQuote(rate, q)
       /\ records' = [records EXCEPT ![u] = SucceededRecord(@, q, FALSE)]
  /\ UNCHANGED idempotencyIndex

\* Nothing checks that quote q exists; its callers got q from GetLatestQuote.
CompleteSuccessReuse(u, q) ==
  /\ MayMove(u, StatusSucceeded)
  /\ records' = [records EXCEPT ![u] = SucceededRecord(@, q, TRUE)]
  /\ UNCHANGED <<idempotencyIndex, quotes, nextQuoteID>>

FailedRecord(rec, code, retryable, nextAttemptAt) ==
  [rec EXCEPT !.req = [@ EXCEPT !.status = IF retryable THEN StatusPending ELSE StatusFailed,
                                !.errorCode = code],
              !.nextAttemptAt = IF retryable THEN nextAttemptAt ELSE @]

CompleteFailure(u, code, retryable, nextAttemptAt) ==
  /\ MayMove(u, IF retryable THEN StatusPending ELSE StatusFailed)
  /\ records' = [records EXCEPT ![u] = FailedRecord(@, code, retryable, nextAttemptAt)]
  /\ UNCHANGED <<idempotencyIndex, quotes, nextQuoteID>>

-----------------------------------------------------------------------------
(* The most general callers, as in QuoteStore.                             *)

Create == \E u \in UpdateIDs, p \in Pairs, k \in Keys \cup {NoKey}, now \in Times :
            CreateUpdateRequest(u, p, k, now)

Claim == \E now \in Times : ClaimBatch(now)

Succeed == \E u \in DOMAIN records, provider \in Providers,
              quotedAt, staleAfter \in Times :
             CompleteSuccess(u, [pair |-> records[u].req.pair, provider |-> provider,
                                 quotedAt |-> quotedAt, staleAfter |-> staleAfter])

SucceedReuse == \E u \in DOMAIN records, q \in DOMAIN quotes :
                  /\ quotes[q].pair = records[u].req.pair
                  /\ CompleteSuccessReuse(u, q)

Fail == \E u \in DOMAIN records, code \in ErrorCodes, retryable \in BOOLEAN,
           nextAttemptAt \in Times :
          CompleteFailure(u, code, retryable, nextAttemptAt)

MemoryNext == Create \/ Claim \/ Succeed \/ SucceedReuse \/ Fail

MemorySpec == MemoryInit /\ [][MemoryNext]_memoryVars

-----------------------------------------------------------------------------
(* What the repository keeps.                                              *)

\* Type invariant; quote ids are handed out without a gap.
MemoryTypeOK ==
  /\ DOMAIN records \subseteq UpdateIDs
  /\ records \in [DOMAIN records -> Record]
  /\ DOMAIN idempotencyIndex \subseteq Keys
  /\ nextQuoteID \in Nat
  /\ quotes \in [1..nextQuoteID -> StoredQuote]

\* GetByIdempotencyKey dereferences records[idempotencyIndex[key]] without a
\* check, and CreateUpdateRequest trusts the index alone: the index must hold
\* exactly the keys of the records, each leading to its own record.
IndexAgrees ==
  /\ \A k \in DOMAIN idempotencyIndex :
       /\ idempotencyIndex[k] \in DOMAIN records
       /\ records[idempotencyIndex[k]].idempotencyKey = k
  /\ \A u \in DOMAIN records : records[u].idempotencyKey # NoKey =>
       /\ records[u].idempotencyKey \in DOMAIN idempotencyIndex
       /\ idempotencyIndex[records[u].idempotencyKey] = u

\* The tables that hold the same content.
TableRow(rec) ==
  [pair |-> rec.req.pair, key |-> rec.idempotencyKey, status |-> rec.req.status,
   attempts |-> rec.req.attempts, createdAt |-> rec.req.createdAt,
   nextAttemptAt |-> rec.nextAttemptAt, lockedAt |-> rec.lockedAt,
   quoteID |-> rec.quoteID, reused |-> rec.req.reused, errorCode |-> rec.req.errorCode]

SQL == INSTANCE QuoteStore
  WITH updates <- [u \in DOMAIN records |-> TableRow(records[u])],
       quotes  <- [q \in 1..nextQuoteID |-> quotes[q]]

\* Whatever the in-memory repository does the database may do as well (it may
\* skip rows that are locked), so QuoteStore's properties and the promise to
\* clients hold of it too: the "stand-in for storage/postgres" it is meant to be.
ImplementsStore == SQL!StoreSpec

\* ClaimBatch "mirrors storage/postgres": with no row locked by another
\* transaction, the database may claim exactly the batch the memory claims, as
\* long as no more rows are stuck than the batch takes.  Beyond that the SQL
\* takes the stuck rows locked first, the memory those due first.
ClaimMirrors ==
  \A now \in Times :
    LET visibleSince == now - VisibilityTimeout IN
    Cardinality(SQL!Stuck(visibleSince)) <= BatchSize =>
      SQL!ClaimSelects(FirstCandidates(now), {}, now, visibleSince)
=============================================================================
