------------------------- MODULE MemoryStoreProofs -------------------------
(***************************************************************************)
(* MemoryStore implements QuoteStore, for any number of requests, keys,    *)
(* providers and instants and any batch size.  MemoryInv is the inductive  *)
(* invariant.                                                              *)
(***************************************************************************)
EXTENDS MemoryStore, FiniteSetTheorems, WellFoundedInduction, TLAPS

\* The map of quotes holds each upstream quote once: without it the id that
\* findOrCreateQuote returns would not be the one the database settles on.
NoDuplicates ==
  \A i, j \in 1..nextQuoteID :
    /\ quotes[i].pair = quotes[j].pair
    /\ quotes[i].provider = quotes[j].provider
    /\ quotes[i].quotedAt = quotes[j].quotedAt
    => i = j

MemoryInv ==
  /\ MemoryTypeOK
  /\ IndexAgrees
  /\ NoDuplicates
  /\ IsFiniteSet(DOMAIN records)

-----------------------------------------------------------------------------
(* Single records and the rows they stand for.                             *)

\* Both modules mean the same statuses and codes.
LEMMA SameDomain ==
  /\ SQL!StatusPending = StatusPending /\ SQL!StatusInProgress = StatusInProgress
  /\ SQL!StatusSucceeded = StatusSucceeded /\ SQL!StatusFailed = StatusFailed
  /\ SQL!Statuses = Statuses /\ SQL!NoError = NoError /\ SQL!ErrorCodes = ErrorCodes
BY DEF SQL!StatusPending, StatusPending, SQL!StatusInProgress, StatusInProgress,
       SQL!StatusSucceeded, StatusSucceeded, SQL!StatusFailed, StatusFailed,
       SQL!Statuses, Statuses, SQL!NoError, NoError, SQL!ErrorCodes, ErrorCodes,
       SQL!RateLimitedError, RateLimitedError, SQL!MalformedResponse, MalformedResponse,
       SQL!InternalError, InternalError, SQL!ProviderError, ProviderError,
       SQL!AttemptsExhaustedCode, AttemptsExhaustedCode

\* Rows that agree in every column are the same row.
LEMMA SameRow ==
  ASSUME NEW r \in SQL!Row, NEW s \in SQL!Row,
         r.pair = s.pair, r.key = s.key, r.status = s.status,
         r.attempts = s.attempts, r.createdAt = s.createdAt,
         r.nextAttemptAt = s.nextAttemptAt, r.lockedAt = s.lockedAt,
         r.quoteID = s.quoteID, r.reused = s.reused, r.errorCode = s.errorCode
  PROVE  r = s
BY DEF SQL!Row

\* A record stands for a row, column by column.
LEMMA TableRowFacts ==
  ASSUME NEW rec \in Record
  PROVE  /\ TableRow(rec) \in SQL!Row
         /\ TableRow(rec).pair = rec.req.pair
         /\ TableRow(rec).key = rec.idempotencyKey
         /\ TableRow(rec).status = rec.req.status
         /\ TableRow(rec).attempts = rec.req.attempts
         /\ TableRow(rec).createdAt = rec.req.createdAt
         /\ TableRow(rec).nextAttemptAt = rec.nextAttemptAt
         /\ TableRow(rec).lockedAt = rec.lockedAt
         /\ TableRow(rec).quoteID = rec.quoteID
         /\ TableRow(rec).reused = rec.req.reused
         /\ TableRow(rec).errorCode = rec.req.errorCode
<1>1. rec.req \in Request
  BY DEF Record
<1>2. rec.req.reused \in BOOLEAN
  BY <1>1 DEF Request
<1>3. TableRow(rec) \in SQL!Row
  BY <1>1, <1>2, SameDomain DEF TableRow, SQL!Row, Record, Request
<1>4. TableRow(rec).reused = rec.req.reused
  BY Zenon DEF TableRow
<1>5. QED BY <1>3, <1>4 DEF TableRow

\* A new record stands for a new row.
LEMMA NewRecordFacts ==
  ASSUME NEW p \in Pairs, NEW k \in Keys \cup {NoKey}, NEW now \in Times
  PROVE  /\ NewRecord(p, k, now) \in Record
         /\ NewRecord(p, k, now).idempotencyKey = k
         /\ TableRow(NewRecord(p, k, now)) = SQL!NewUpdateRequest(p, k, now)
<1>1. now \in Nat /\ MaxInt \in Nat
  BY MemoryAssumption DEF MemoryAssumption
<1>2. NewRecord(p, k, now) \in Record
  BY <1>1 DEF NewRecord, Record, Request, Statuses, StatusPending
<1>3. QED
  BY <1>2, SameDomain DEF NewRecord, TableRow, SQL!NewUpdateRequest

\* A claimed record stands for a claimed row.
LEMMA ClaimedFacts ==
  ASSUME NEW rec \in Record, NEW now \in Times,
         ClaimedRequest(rec.req).attempts <= MaxInt,
         rec.req.status \in {StatusPending, StatusInProgress}
  PROVE  /\ ClaimedRecord(rec, now) \in Record
         /\ ClaimedRecord(rec, now).idempotencyKey = rec.idempotencyKey
         /\ TableRow(ClaimedRecord(rec, now)) = SQL!ClaimedRow(TableRow(rec), now)
         /\ SQL!ClaimedRow(TableRow(rec), now).attempts <= MaxInt
<1>1. now \in Nat /\ MaxInt \in Nat
  BY MemoryAssumption DEF MemoryAssumption
<1>2. rec.req \in Request /\ rec.req.attempts \in Nat
  BY <1>1 DEF Record, Request
<1>3. ClaimedRequest(rec.req) \in Request
  <2>1. CASE rec.req.status = StatusPending
    <3>1. ClaimedRequest(rec.req) =
            [rec.req EXCEPT !.status = StatusInProgress, !.attempts = @ + 1]
      BY <2>1 DEF ClaimedRequest
    <3>2. rec.req.attempts + 1 \in 0..MaxInt
      BY <3>1, <1>1, <1>2 DEF Request
    <3>3. QED
      BY <3>1, <3>2, <1>2 DEF Request, Statuses
  <2>2. CASE rec.req.status # StatusPending
    BY <2>2, <1>2 DEF ClaimedRequest
  <2>3. QED BY <2>1, <2>2
<1>4. ClaimedRecord(rec, now) \in Record
  BY <1>1, <1>3 DEF ClaimedRecord, Record
<1>5. ClaimedRecord(rec, now).idempotencyKey = rec.idempotencyKey
  BY DEF ClaimedRecord, Record
<1>6. TableRow(ClaimedRecord(rec, now)) = SQL!ClaimedRow(TableRow(rec), now)
  <2> DEFINE old == TableRow(rec)
             row == SQL!ClaimedRow(old, now)
             new == TableRow(ClaimedRecord(rec, now))
  <2>1. /\ ClaimedRequest(rec.req).pair = rec.req.pair
        /\ ClaimedRequest(rec.req).status = StatusInProgress
        /\ ClaimedRequest(rec.req).attempts =
             IF rec.req.status = StatusPending THEN rec.req.attempts + 1
                                               ELSE rec.req.attempts
        /\ ClaimedRequest(rec.req).createdAt = rec.req.createdAt
        /\ ClaimedRequest(rec.req).reused = rec.req.reused
        /\ ClaimedRequest(rec.req).errorCode = rec.req.errorCode
    BY <1>2 DEF ClaimedRequest, Request
  <2>2. /\ ClaimedRecord(rec, now).req = ClaimedRequest(rec.req)
        /\ ClaimedRecord(rec, now).nextAttemptAt = rec.nextAttemptAt
        /\ ClaimedRecord(rec, now).lockedAt = now
        /\ ClaimedRecord(rec, now).quoteID = rec.quoteID
    BY DEF ClaimedRecord, Record
  <2>3. old \in SQL!Row
    BY TableRowFacts
  <2>4. /\ row.pair = old.pair /\ row.key = old.key
        /\ row.status = StatusInProgress
        /\ row.attempts = IF old.status = StatusPending THEN old.attempts + 1
                                                        ELSE old.attempts
        /\ row.createdAt = old.createdAt /\ row.nextAttemptAt = old.nextAttemptAt
        /\ row.lockedAt = now /\ row.quoteID = old.quoteID
        /\ row.reused = old.reused /\ row.errorCode = old.errorCode
    <3> HIDE DEF old
    <3> QED BY <2>3, SameDomain DEF SQL!ClaimedRow, SQL!Row
  <2>5. row.attempts = ClaimedRequest(rec.req).attempts
    BY <2>1, <2>4, TableRowFacts
  <2>6. row \in SQL!Row
    <3>1. row.attempts \in 0..MaxInt
      BY <1>3, <2>5 DEF Request
    <3>2. StatusInProgress \in SQL!Statuses
      BY SameDomain DEF Statuses
    <3> HIDE DEF old
    <3> QED BY <1>1, <2>3, <3>1, <3>2, SameDomain DEF SQL!ClaimedRow, SQL!Row
  <2>7. new \in SQL!Row
    BY <1>4, TableRowFacts
  <2> HIDE DEF old, row, new
  <2>8. /\ new.pair = row.pair /\ new.key = row.key /\ new.status = row.status
        /\ new.attempts = row.attempts /\ new.createdAt = row.createdAt
        /\ new.nextAttemptAt = row.nextAttemptAt /\ new.lockedAt = row.lockedAt
        /\ new.quoteID = row.quoteID /\ new.reused = row.reused
        /\ new.errorCode = row.errorCode
    <3> DEFINE claimed == ClaimedRecord(rec, now)
    <3>1. /\ new.pair = claimed.req.pair /\ new.key = claimed.idempotencyKey
          /\ new.status = claimed.req.status /\ new.attempts = claimed.req.attempts
          /\ new.createdAt = claimed.req.createdAt
          /\ new.nextAttemptAt = claimed.nextAttemptAt
          /\ new.lockedAt = claimed.lockedAt /\ new.quoteID = claimed.quoteID
          /\ new.reused = claimed.req.reused /\ new.errorCode = claimed.req.errorCode
      BY <1>4, TableRowFacts, Zenon DEF new
    <3>2. /\ old.pair = rec.req.pair /\ old.key = rec.idempotencyKey
          /\ old.status = rec.req.status /\ old.attempts = rec.req.attempts
          /\ old.createdAt = rec.req.createdAt
          /\ old.nextAttemptAt = rec.nextAttemptAt
          /\ old.lockedAt = rec.lockedAt /\ old.quoteID = rec.quoteID
          /\ old.reused = rec.req.reused /\ old.errorCode = rec.req.errorCode
      BY TableRowFacts, Zenon DEF old
    <3>3. /\ new.pair = row.pair /\ new.key = row.key /\ new.status = row.status
          /\ new.attempts = row.attempts /\ new.createdAt = row.createdAt
      BY <1>5, <2>1, <2>2, <2>4, <2>5, <3>1, <3>2, Zenon
    <3>4. /\ new.nextAttemptAt = row.nextAttemptAt /\ new.lockedAt = row.lockedAt
          /\ new.quoteID = row.quoteID /\ new.reused = row.reused
          /\ new.errorCode = row.errorCode
      BY <2>1, <2>2, <2>4, <3>1, <3>2, Zenon
    <3>5. QED BY <3>3, <3>4, Zenon
  <2>9. new = row
    BY <2>6, <2>7, <2>8, SameRow
  <2>10. QED BY <2>9 DEF old, row, new
<1>7. SQL!ClaimedRow(TableRow(rec), now).attempts = ClaimedRequest(rec.req).attempts
  BY <1>2, TableRowFacts, SameDomain DEF SQL!ClaimedRow, ClaimedRequest, Request, SQL!Row
<1>8. QED BY <1>4, <1>5, <1>6, <1>7

\* A succeeded record stands for a succeeded row.
LEMMA SucceededFacts ==
  ASSUME NEW rec \in Record, NEW q \in Nat, NEW reused, reused \in BOOLEAN
  PROVE  /\ SucceededRecord(rec, q, reused) \in Record
         /\ SucceededRecord(rec, q, reused).idempotencyKey = rec.idempotencyKey
         /\ TableRow(SucceededRecord(rec, q, reused)) = SQL!SucceededRow(TableRow(rec), q, reused)
<1>1. SucceededRequest(rec.req, reused) \in Request
  BY DEF Record, Request, SucceededRequest, Statuses, StatusSucceeded
<1>2. SucceededRecord(rec, q, reused) \in Record
  BY <1>1 DEF SucceededRecord, Record
<1>3. SucceededRecord(rec, q, reused).idempotencyKey = rec.idempotencyKey
  BY DEF SucceededRecord, Record
<1>4. TableRow(SucceededRecord(rec, q, reused)) = SQL!SucceededRow(TableRow(rec), q, reused)
  <2> DEFINE old == TableRow(rec)
             row == SQL!SucceededRow(old, q, reused)
             new == TableRow(SucceededRecord(rec, q, reused))
  <2>1. /\ SucceededRequest(rec.req, reused).pair = rec.req.pair
        /\ SucceededRequest(rec.req, reused).status = StatusSucceeded
        /\ SucceededRequest(rec.req, reused).attempts = rec.req.attempts
        /\ SucceededRequest(rec.req, reused).createdAt = rec.req.createdAt
        /\ SucceededRequest(rec.req, reused).reused = reused
        /\ SucceededRequest(rec.req, reused).errorCode = NoError
    BY DEF SucceededRequest, Record, Request
  <2>2. /\ SucceededRecord(rec, q, reused).req = SucceededRequest(rec.req, reused)
        /\ SucceededRecord(rec, q, reused).nextAttemptAt = rec.nextAttemptAt
        /\ SucceededRecord(rec, q, reused).lockedAt = rec.lockedAt
        /\ SucceededRecord(rec, q, reused).quoteID = q
    BY DEF SucceededRecord, Record
  <2>3. old \in SQL!Row
    BY TableRowFacts
  <2>4. /\ row.pair = old.pair /\ row.key = old.key
        /\ row.status = StatusSucceeded /\ row.attempts = old.attempts
        /\ row.createdAt = old.createdAt /\ row.nextAttemptAt = old.nextAttemptAt
        /\ row.lockedAt = old.lockedAt /\ row.quoteID = q
        /\ row.reused = reused /\ row.errorCode = NoError
    <3> HIDE DEF old
    <3> QED BY <2>3, SameDomain DEF SQL!SucceededRow, SQL!Row
  <2>5. row \in SQL!Row
    <3>1. StatusSucceeded \in SQL!Statuses /\ NoError \in SQL!ErrorCodes \cup {SQL!NoError}
      BY SameDomain DEF Statuses
    <3> HIDE DEF old
    <3> QED BY <2>3, <3>1, SameDomain DEF SQL!SucceededRow, SQL!Row
  <2>6. new \in SQL!Row
    BY <1>2, TableRowFacts
  <2> HIDE DEF old, row, new
  <2>7. new.reused = row.reused
    <3>1. new.reused = SucceededRecord(rec, q, reused).req.reused
      BY <1>2, TableRowFacts, Zenon DEF new
    <3>2. SucceededRecord(rec, q, reused).req.reused = SucceededRequest(rec.req, reused).reused
      BY <2>2, Zenon
    <3>3. row.reused = reused
      BY <2>4, Zenon
    <3>4. SucceededRequest(rec.req, reused).reused = reused
      BY <2>1, Zenon
    <3>5. QED BY <3>1, <3>2, <3>3, <3>4, Zenon
  <2>8. /\ new.pair = row.pair /\ new.key = row.key /\ new.status = row.status
        /\ new.attempts = row.attempts /\ new.createdAt = row.createdAt
        /\ new.nextAttemptAt = row.nextAttemptAt /\ new.lockedAt = row.lockedAt
        /\ new.quoteID = row.quoteID /\ new.errorCode = row.errorCode
    <3>1. /\ new.pair = SucceededRecord(rec, q, reused).req.pair
          /\ new.key = rec.idempotencyKey
          /\ new.status = SucceededRecord(rec, q, reused).req.status
          /\ new.attempts = SucceededRecord(rec, q, reused).req.attempts
          /\ new.createdAt = SucceededRecord(rec, q, reused).req.createdAt
          /\ new.nextAttemptAt = rec.nextAttemptAt /\ new.lockedAt = rec.lockedAt
          /\ new.quoteID = q
          /\ new.errorCode = SucceededRecord(rec, q, reused).req.errorCode
      BY <1>2, <1>3, <2>2, TableRowFacts, Zenon DEF new
    <3>2. /\ old.pair = rec.req.pair /\ old.key = rec.idempotencyKey
          /\ old.attempts = rec.req.attempts /\ old.createdAt = rec.req.createdAt
          /\ old.nextAttemptAt = rec.nextAttemptAt /\ old.lockedAt = rec.lockedAt
      BY TableRowFacts, Zenon DEF old
    <3>3. /\ new.pair = row.pair /\ new.key = row.key
          /\ new.attempts = row.attempts /\ new.createdAt = row.createdAt
          /\ new.nextAttemptAt = row.nextAttemptAt
      BY <2>1, <2>2, <2>4, <3>1, <3>2, ZenonT(30)
    <3>4. /\ new.status = row.status /\ new.lockedAt = row.lockedAt
          /\ new.quoteID = row.quoteID /\ new.errorCode = row.errorCode
      BY <2>1, <2>2, <2>4, <3>1, <3>2, ZenonT(30)
    <3>5. QED BY <3>3, <3>4, Zenon
  <2>9. new = row
    BY <2>5, <2>6, <2>7, <2>8, SameRow
  <2>10. QED BY <2>9 DEF old, row, new
<1>5. QED BY <1>2, <1>3, <1>4

\* A failed record stands for a failed row.
LEMMA FailedFacts ==
  ASSUME NEW rec \in Record, NEW code \in ErrorCodes, NEW retryable \in BOOLEAN,
         NEW nextAttemptAt \in Times
  PROVE  LET failed == FailedRecord(rec, code, retryable, nextAttemptAt) IN
         /\ failed \in Record
         /\ failed.idempotencyKey = rec.idempotencyKey
         /\ TableRow(failed) = SQL!FailedRow(TableRow(rec), code, retryable, nextAttemptAt)
<1>1. nextAttemptAt \in Nat
  BY MemoryAssumption DEF MemoryAssumption
<1>2. [rec.req EXCEPT !.status = IF retryable THEN StatusPending ELSE StatusFailed,
                      !.errorCode = code] \in Request
  BY DEF Record, Request, Statuses, StatusPending, StatusFailed
<1>3. FailedRecord(rec, code, retryable, nextAttemptAt) \in Record
  BY <1>1, <1>2 DEF FailedRecord, Record
<1>4. FailedRecord(rec, code, retryable, nextAttemptAt).idempotencyKey = rec.idempotencyKey
  BY DEF FailedRecord, Record
<1>5. TableRow(FailedRecord(rec, code, retryable, nextAttemptAt)) =
        SQL!FailedRow(TableRow(rec), code, retryable, nextAttemptAt)
  <2> DEFINE failed == FailedRecord(rec, code, retryable, nextAttemptAt)
             status == IF retryable THEN StatusPending ELSE StatusFailed
             next   == IF retryable THEN nextAttemptAt ELSE rec.nextAttemptAt
             old == TableRow(rec)
             row == SQL!FailedRow(old, code, retryable, nextAttemptAt)
             new == TableRow(failed)
  <2>1. /\ failed.req = [rec.req EXCEPT !.status = status, !.errorCode = code]
        /\ failed.nextAttemptAt = next
        /\ failed.lockedAt = rec.lockedAt
        /\ failed.quoteID = rec.quoteID
    BY DEF FailedRecord, Record
  <2>2. /\ failed.req.pair = rec.req.pair
        /\ failed.req.status = status
        /\ failed.req.attempts = rec.req.attempts
        /\ failed.req.createdAt = rec.req.createdAt
        /\ failed.req.reused = rec.req.reused
        /\ failed.req.errorCode = code
    BY <2>1 DEF Record, Request
  <2>3. old \in SQL!Row
    BY TableRowFacts
  <2>4. /\ row.pair = old.pair /\ row.key = old.key
        /\ row.status = status /\ row.attempts = old.attempts
        /\ row.createdAt = old.createdAt
        /\ row.nextAttemptAt = IF retryable THEN nextAttemptAt ELSE old.nextAttemptAt
        /\ row.lockedAt = old.lockedAt /\ row.quoteID = old.quoteID
        /\ row.reused = old.reused /\ row.errorCode = code
    <3> HIDE DEF old
    <3> QED BY <2>3, SameDomain DEF SQL!FailedRow, SQL!Row
  <2>5. row.nextAttemptAt = next
    BY <2>4, TableRowFacts
  <2>6. row \in SQL!Row
    <3>1. status \in SQL!Statuses /\ code \in SQL!ErrorCodes \cup {SQL!NoError}
      BY SameDomain DEF Statuses
    <3> HIDE DEF old
    <3> QED BY <1>1, <2>3, <3>1, SameDomain DEF SQL!FailedRow, SQL!Row
  <2>7. new \in SQL!Row
    BY <1>3, TableRowFacts
  <2>8. failed.idempotencyKey = rec.idempotencyKey /\ failed \in Record
    BY <1>3, <1>4
  <2> HIDE DEF failed, status, next, old, row, new
  <2>9. /\ new.pair = row.pair /\ new.key = row.key /\ new.status = row.status
        /\ new.attempts = row.attempts /\ new.createdAt = row.createdAt
        /\ new.nextAttemptAt = row.nextAttemptAt /\ new.lockedAt = row.lockedAt
        /\ new.quoteID = row.quoteID /\ new.reused = row.reused
        /\ new.errorCode = row.errorCode
    <3>1. /\ new.pair = failed.req.pair /\ new.key = failed.idempotencyKey
          /\ new.status = failed.req.status /\ new.attempts = failed.req.attempts
          /\ new.createdAt = failed.req.createdAt
          /\ new.nextAttemptAt = failed.nextAttemptAt
          /\ new.lockedAt = failed.lockedAt /\ new.quoteID = failed.quoteID
          /\ new.reused = failed.req.reused /\ new.errorCode = failed.req.errorCode
      BY <2>8, TableRowFacts, Zenon DEF new
    <3>2. /\ old.pair = rec.req.pair /\ old.key = rec.idempotencyKey
          /\ old.status = rec.req.status /\ old.attempts = rec.req.attempts
          /\ old.createdAt = rec.req.createdAt
          /\ old.nextAttemptAt = rec.nextAttemptAt
          /\ old.lockedAt = rec.lockedAt /\ old.quoteID = rec.quoteID
          /\ old.reused = rec.req.reused /\ old.errorCode = rec.req.errorCode
      BY TableRowFacts, Zenon DEF old
    <3>3. /\ new.pair = row.pair /\ new.key = row.key /\ new.status = row.status
          /\ new.attempts = row.attempts /\ new.createdAt = row.createdAt
      BY <2>2, <2>4, <2>8, <3>1, <3>2, Zenon
    <3>4. /\ new.nextAttemptAt = row.nextAttemptAt /\ new.lockedAt = row.lockedAt
          /\ new.quoteID = row.quoteID /\ new.reused = row.reused
          /\ new.errorCode = row.errorCode
      BY <2>1, <2>2, <2>4, <2>5, <3>1, <3>2, Zenon
    <3>5. QED BY <3>3, <3>4, Zenon
  <2>10. new = row
    BY <2>6, <2>7, <2>9, SameRow
  <2>11. QED BY <2>10 DEF failed, old, row, new
<1>6. QED BY <1>3, <1>4, <1>5

-----------------------------------------------------------------------------
(* The batch: what the sort and the limit of ClaimBatch select.            *)

\* The first BatchSize of D in the order of Precedes.
FirstOf(D) == {u \in D : Cardinality({v \in D : Precedes(v, u)}) < BatchSize}

\* Records are ordered without ties, so what precedes one grows along the order.
LEMMA PrecedesFacts ==
  ASSUME MemoryTypeOK, NEW D \in SUBSET DOMAIN records, IsFiniteSet(D)
  PROVE  LET Before(u) == {v \in D : Precedes(v, u)} IN
         /\ \A u \in D : IsFiniteSet(Before(u)) /\ Cardinality(Before(u)) \in Nat
         /\ \A u, v \in D : Precedes(u, v) => Cardinality(Before(u)) < Cardinality(Before(v))
         /\ \A u, v \in D : u # v => Precedes(u, v) \/ Precedes(v, u)
         /\ \A u, v \in D : ~Precedes(v, u) => records[u].nextAttemptAt <= records[v].nextAttemptAt
<1> DEFINE Before(u) == {v \in D : Precedes(v, u)}
<1>1. \A u \in D : u \in Nat /\ records[u].nextAttemptAt \in Nat
  BY MemoryAssumption DEF MemoryAssumption, MemoryTypeOK, Record
<1>2. ASSUME NEW u \in D
      PROVE  IsFiniteSet(Before(u)) /\ Cardinality(Before(u)) \in Nat
  BY FS_Subset, FS_CardinalityType
<1>3. ASSUME NEW u \in D, NEW v \in D, Precedes(u, v)
      PROVE  Cardinality(Before(u)) < Cardinality(Before(v))
  <2>1. Before(u) \subseteq Before(v)
    BY <1>1, <1>3 DEF Precedes
  <2>2. u \in Before(v) /\ u \notin Before(u)
    BY <1>1, <1>3 DEF Precedes
  <2>3. Cardinality(Before(u)) <= Cardinality(Before(v))
    BY <1>2, <2>1, FS_Subset
  <2>4. Cardinality(Before(u)) # Cardinality(Before(v))
    BY <1>2, <2>1, <2>2, FS_Subset
  <2>5. Cardinality(Before(u)) \in Nat /\ Cardinality(Before(v)) \in Nat
    BY <1>2
  <2> HIDE DEF Before
  <2>6. QED BY <2>3, <2>4, <2>5
<1>4. ASSUME NEW u \in D, NEW v \in D
      PROVE  /\ u # v => Precedes(u, v) \/ Precedes(v, u)
             /\ ~Precedes(v, u) => records[u].nextAttemptAt <= records[v].nextAttemptAt
  BY <1>1 DEF Precedes
<1> HIDE DEF Before
<1>5. QED BY <1>2, <1>3, <1>4, Zenon DEF Before

\* Ranks tell the first ones from each other, so there are no more of them
\* than the limit.
LEMMA FirstAreFew ==
  ASSUME MemoryTypeOK, NEW D \in SUBSET DOMAIN records, IsFiniteSet(D)
  PROVE  IsFiniteSet(FirstOf(D)) /\ Cardinality(FirstOf(D)) <= BatchSize
<1> DEFINE S == FirstOf(D)
           Before(u) == {v \in D : Precedes(v, u)}
           rank == [u \in S |-> Cardinality(Before(u))]
<1>1. S \subseteq D
  BY DEF FirstOf
<1>2. /\ \A u \in D : Cardinality(Before(u)) \in Nat
      /\ \A u, v \in D : Precedes(u, v) => Cardinality(Before(u)) < Cardinality(Before(v))
      /\ \A u, v \in D : u # v => Precedes(u, v) \/ Precedes(v, u)
  BY PrecedesFacts
<1>3. \A u \in S : Cardinality(Before(u)) < BatchSize
  BY DEF FirstOf
<1>4. BatchSize \in Nat \ {0}
  BY MemoryAssumption DEF MemoryAssumption
<1> HIDE DEF S, Before
<1>5. rank \in [S -> 0..(BatchSize - 1)]
  <2>1. \A u \in S : Cardinality(Before(u)) \in 0..(BatchSize - 1)
    BY <1>1, <1>2, <1>3, <1>4
  <2>2. QED BY <2>1
<1>6. \A u, v \in S : rank[u] = rank[v] => u = v
  BY <1>1, <1>2
<1>7. rank \in Injection(S, 0..(BatchSize - 1))
  BY <1>5, <1>6 DEF Injection, IsInjective
<1>8. IsFiniteSet(0..(BatchSize - 1)) /\ Cardinality(0..(BatchSize - 1)) = BatchSize
  BY <1>4, FS_Interval
<1> HIDE DEF rank
<1>9. QED BY <1>7, <1>8, FS_Injection DEF S

\* ORDER BY next_attempt_at LIMIT may select the first ones: all of them, or as
\* many as the limit, and none later than one left out.
LEMMA FirstAreLimited ==
  ASSUME MemoryTypeOK, NEW D \in SUBSET DOMAIN records, IsFiniteSet(D)
  PROVE  /\ FirstOf(D) \subseteq D
         /\ Cardinality(FirstOf(D)) =
              IF Cardinality(D) < BatchSize THEN Cardinality(D) ELSE BatchSize
         /\ \A u \in FirstOf(D), v \in D \ FirstOf(D) :
              records[u].nextAttemptAt <= records[v].nextAttemptAt
<1> DEFINE S == FirstOf(D)
           Before(u) == {v \in D : Precedes(v, u)}
           rank(u) == Cardinality(Before(u))
<1>1. S \subseteq D
  BY DEF FirstOf
<1>2. /\ \A u \in D : IsFiniteSet(Before(u)) /\ rank(u) \in Nat
      /\ \A u, v \in D : Precedes(u, v) => rank(u) < rank(v)
      /\ \A u, v \in D : ~Precedes(v, u) =>
           records[u].nextAttemptAt <= records[v].nextAttemptAt
  BY PrecedesFacts
<1>3. \A u \in D : u \in S <=> rank(u) < BatchSize
  BY DEF FirstOf
<1>4. BatchSize \in Nat \ {0}
  BY MemoryAssumption DEF MemoryAssumption
<1>5. IsFiniteSet(S) /\ Cardinality(S) <= BatchSize
  BY FirstAreFew
<1>6. Cardinality(S) \in Nat /\ Cardinality(D) \in Nat /\ Cardinality(S) <= Cardinality(D)
  BY <1>1, <1>5, FS_Subset, FS_CardinalityType
<1> HIDE DEF S
<1>7. ASSUME S # D
      PROVE  Cardinality(S) >= BatchSize
  <2> DEFINE ranks == {rank(u) : u \in D \ S}
             R == OpToRel(<, Nat)
  <2>1. ranks \subseteq Nat /\ ranks # {}
    BY <1>1, <1>2, <1>7
  <2>2. PICK x \in ranks : \A y \in ranks : ~(<<y, x>> \in R)
    <3>1. IsWellFoundedOn(R, Nat)
      BY NatLessThanWellFounded
    <3> HIDE DEF R, ranks
    <3>2. QED BY <2>1, <3>1, WFMin
  <2>3. \A y \in ranks : ~(y < x)
    BY <2>1, <2>2 DEF OpToRel
  <2>4. PICK w \in D \ S : x = rank(w)
    BY <2>2
  <2>5. \A v \in D \ S : ~(rank(v) < rank(w))
    BY <2>3, <2>4
  <2>6. Before(w) \subseteq S
    BY <1>2, <2>5
  <2>7. rank(w) <= Cardinality(S)
    BY <1>5, <2>6, FS_Subset
  <2>8. rank(w) \in Nat /\ ~(rank(w) < BatchSize)
    BY <1>2, <1>3
  <2> HIDE DEF rank
  <2>9. QED BY <1>4, <1>6, <2>7, <2>8
<1>8. Cardinality(S) = IF Cardinality(D) < BatchSize THEN Cardinality(D) ELSE BatchSize
  BY <1>4, <1>5, <1>6, <1>7
<1>9. ASSUME NEW u \in S, NEW v \in D \ S
      PROVE  records[u].nextAttemptAt <= records[v].nextAttemptAt
  <2>1. rank(u) < BatchSize /\ ~(rank(v) < BatchSize) /\ rank(u) \in Nat /\ rank(v) \in Nat
    BY <1>1, <1>2, <1>3
  <2>2. ~(rank(v) < rank(u))
    <3> HIDE DEF rank
    <3>1. QED BY <1>4, <2>1
  <2>3. QED BY <1>1, <1>2, <2>2
<1>10. QED BY <1>1, <1>8, <1>9 DEF S

\* The batch is a set of candidates, never longer than the limit.
LEMMA BatchFacts ==
  ASSUME MemoryTypeOK, IsFiniteSet(DOMAIN records), NEW now \in Times
  PROVE  /\ FirstCandidates(now) = FirstOf(Candidates(now, now - VisibilityTimeout))
         /\ FirstCandidates(now) \subseteq Candidates(now, now - VisibilityTimeout)
         /\ FirstCandidates(now) \subseteq DOMAIN records
         /\ IsFiniteSet(FirstCandidates(now))
         /\ Cardinality(FirstCandidates(now)) <= BatchSize
<1> DEFINE C == Candidates(now, now - VisibilityTimeout)
<1>1. FirstCandidates(now) = FirstOf(C)
  BY DEF FirstCandidates, FirstOf
<1>2. C \in SUBSET DOMAIN records /\ IsFiniteSet(C)
  BY FS_Subset DEF Candidates
<1>3. FirstOf(C) \subseteq C
  BY DEF FirstOf
<1>4. IsFiniteSet(FirstOf(C)) /\ Cardinality(FirstOf(C)) <= BatchSize
  BY <1>2, FirstAreFew
<1>5. QED BY <1>1, <1>2, <1>3, <1>4

-----------------------------------------------------------------------------
(* The tables the records stand for.                                       *)

Rows == [u \in DOMAIN records |-> TableRow(records[u])]

Journal == [q \in 1..nextQuoteID |-> quotes[q]]

\* Both sides of the database's claim, read off the records.
LEMMA CandidateFacts ==
  ASSUME MemoryTypeOK, NEW now \in Times
  PROVE  LET visibleSince == now - VisibilityTimeout IN
         /\ SQL!Due(now) \cup SQL!Stuck(visibleSince) = Candidates(now, visibleSince)
         /\ SQL!Due(now) \cup SQL!Stuck(visibleSince) \subseteq DOMAIN records
<1>1. \A u \in DOMAIN records : records[u] \in Record
  BY DEF MemoryTypeOK
<1>2. \A u \in DOMAIN records :
        /\ TableRow(records[u]).status = records[u].req.status
        /\ TableRow(records[u]).nextAttemptAt = records[u].nextAttemptAt
        /\ TableRow(records[u]).lockedAt = records[u].lockedAt
  BY <1>1, TableRowFacts
<1>3. QED
  BY <1>2, SameDomain DEF SQL!Due, SQL!Stuck, Candidates

\* The database may claim the batch: the rest of the candidates it skips.
LEMMA ClaimSelectsBatch ==
  ASSUME MemoryTypeOK, IsFiniteSet(DOMAIN records), NEW now \in Times,
         NEW S, S = FirstCandidates(now)
  PROVE  \E skipped \in SUBSET DOMAIN records :
           SQL!ClaimSelects(S, skipped, now, now - VisibilityTimeout)
<1> DEFINE due == SQL!Due(now)
           stuck == SQL!Stuck(now - VisibilityTimeout)
           skipped == (due \cup stuck) \ S
<1>1. S \subseteq due \cup stuck /\ due \cup stuck \subseteq DOMAIN records
  BY CandidateFacts, BatchFacts
<1>2. IsFiniteSet(S) /\ Cardinality(S) <= BatchSize
  BY BatchFacts
<1>3. BatchSize \in Nat
  BY MemoryAssumption DEF MemoryAssumption
<1>4. ASSUME NEW T \in SUBSET S, NEW column
      PROVE  SQL!Limited(T, T, BatchSize, column)
  <2>1. /\ Cardinality(T) \in Nat /\ Cardinality(S) \in Nat
        /\ Cardinality(T) <= Cardinality(S)
    BY <1>2, FS_Subset, FS_CardinalityType
  <2>2. Cardinality(T) <= BatchSize
    BY <1>2, <1>3, <2>1
  <2>3. Cardinality(T) = IF Cardinality(T) < BatchSize THEN Cardinality(T) ELSE BatchSize
    BY <1>3, <2>1, <2>2
  <2>4. SQL!Cardinality(T) = Cardinality(T)
    BY Zenon DEF SQL!Cardinality, Cardinality
  <2>5. QED BY <2>3, <2>4, Zenon DEF SQL!Limited
<1>5. due \ skipped = due \cap S /\ stuck \ skipped = stuck \cap S
      /\ (due \cap S) \cup (stuck \cap S) = S
  BY <1>1
<1>6. SQL!ClaimSelects(S, skipped, now, now - VisibilityTimeout)
  <2>1. /\ SQL!Limited(due \cap S, due \cap S, BatchSize, "nextAttemptAt")
        /\ SQL!Limited(stuck \cap S, stuck \cap S, BatchSize, "lockedAt")
        /\ SQL!Limited(S, S, BatchSize, "nextAttemptAt")
    BY <1>4
  <2> HIDE DEF due, stuck, skipped
  <2>2. /\ SQL!Limited(due \cap S, due \ skipped, BatchSize, "nextAttemptAt")
        /\ SQL!Limited(stuck \cap S, stuck \ skipped, BatchSize, "lockedAt")
        /\ SQL!Limited(S, (due \cap S) \cup (stuck \cap S), BatchSize, "nextAttemptAt")
        /\ due \cap S \in SUBSET (due \ skipped)
        /\ stuck \cap S \in SUBSET (stuck \ skipped)
    BY <1>5, <2>1
  <2>3. QED BY <2>2, Zenon DEF SQL!ClaimSelects, due, stuck
<1>7. skipped \in SUBSET DOMAIN records
  BY <1>1
<1> HIDE DEF skipped
<1>8. QED BY <1>6, <1>7, Zenon

-----------------------------------------------------------------------------
(* The batch the database claims when nothing is locked.                   *)

\* What ORDER BY next_attempt_at LIMIT selects, read off the records.
LEMMA LimitedRows ==
  ASSUME MemoryTypeOK, NEW D \in SUBSET DOMAIN records, NEW T \in SUBSET D,
         Cardinality(T) = IF Cardinality(D) < BatchSize THEN Cardinality(D) ELSE BatchSize,
         \A u \in T, v \in D \ T : records[u].nextAttemptAt <= records[v].nextAttemptAt
  PROVE  SQL!Limited(T, D, BatchSize, "nextAttemptAt")
<1>1. \A u \in DOMAIN records : Rows[u]["nextAttemptAt"] = records[u].nextAttemptAt
  BY TableRowFacts DEF Rows, MemoryTypeOK
<1>2. SQL!Cardinality(D) = Cardinality(D) /\ SQL!Cardinality(T) = Cardinality(T)
  BY Zenon DEF SQL!Cardinality, Cardinality
<1>3. \A u \in T, v \in D \ T : Rows[u]["nextAttemptAt"] <= Rows[v]["nextAttemptAt"]
  BY <1>1
<1>4. QED BY <1>2, <1>3, Zenon DEF SQL!Limited, Rows

\* The memory's one limit takes what the database's three do: first the first
\* of the pending rows and all of the stuck ones, then the first of those.
LEMMA BatchMirrors ==
  ASSUME MemoryInv, NEW now \in Times,
         Cardinality(SQL!Stuck(now - VisibilityTimeout)) <= BatchSize
  PROVE  SQL!ClaimSelects(FirstCandidates(now), {}, now, now - VisibilityTimeout)
<1> DEFINE due == SQL!Due(now)
           stuck == SQL!Stuck(now - VisibilityTimeout)
           C == Candidates(now, now - VisibilityTimeout)
           P == FirstOf(due)
           S == FirstOf(C)
<1>1. /\ C = due \cup stuck /\ C \in SUBSET DOMAIN records
      /\ due \in SUBSET DOMAIN records /\ stuck \in SUBSET DOMAIN records
  BY CandidateFacts DEF MemoryInv
<1>2. IsFiniteSet(C) /\ IsFiniteSet(due) /\ IsFiniteSet(stuck)
  BY <1>1, FS_Subset DEF MemoryInv
<1>3. FirstCandidates(now) = S
  BY BatchFacts DEF MemoryInv
<1>4. BatchSize \in Nat \ {0}
  BY MemoryAssumption DEF MemoryAssumption
<1>5. SQL!Limited(P, due, BatchSize, "nextAttemptAt") /\ P \subseteq due
  BY <1>1, <1>2, LimitedRows, FirstAreLimited DEF MemoryInv
<1>6. SQL!Limited(stuck, stuck, BatchSize, "lockedAt")
  <2>1. SQL!Cardinality(stuck) = Cardinality(stuck)
    BY Zenon DEF SQL!Cardinality, Cardinality
  <2>2. Cardinality(stuck) \in Nat
    BY <1>2, FS_CardinalityType
  <2> HIDE DEF stuck
  <2>3. Cardinality(stuck) = IF Cardinality(stuck) < BatchSize THEN Cardinality(stuck)
                                                              ELSE BatchSize
    BY <1>4, <2>2 DEF stuck
  <2>4. QED BY <2>1, <2>3, Zenon DEF SQL!Limited
<1>7. S \subseteq P \cup stuck
  <2>1. SUFFICES ASSUME NEW u \in S, u \in due PROVE u \in P
    BY <1>1 DEF FirstOf
  <2>2. {v \in due : Precedes(v, u)} \subseteq {v \in C : Precedes(v, u)}
    BY <1>1
  <2>3. /\ Cardinality({v \in C : Precedes(v, u)}) < BatchSize
        /\ u \in C
    BY DEF FirstOf
  <2>4. /\ IsFiniteSet({v \in C : Precedes(v, u)})
        /\ Cardinality({v \in C : Precedes(v, u)}) \in Nat
    BY <1>1, <1>2, <2>3, PrecedesFacts DEF MemoryInv
  <2>5. /\ Cardinality({v \in due : Precedes(v, u)}) <= Cardinality({v \in C : Precedes(v, u)})
        /\ Cardinality({v \in due : Precedes(v, u)}) \in Nat
    BY <2>2, <2>4, FS_Subset, FS_CardinalityType
  <2>6. Cardinality({v \in due : Precedes(v, u)}) < BatchSize
    BY <1>4, <2>3, <2>4, <2>5
  <2>7. QED BY <2>1, <2>6 DEF FirstOf
<1>8. SQL!Limited(S, P \cup stuck, BatchSize, "nextAttemptAt")
  <2> DEFINE D == P \cup stuck
  <2>1. D \subseteq C /\ IsFiniteSet(D)
    BY <1>1, <1>2, <1>5, FS_Subset
  <2>2. /\ Cardinality(S) = IF Cardinality(C) < BatchSize THEN Cardinality(C) ELSE BatchSize
        /\ S \subseteq C
        /\ \A u \in S, v \in C \ S : records[u].nextAttemptAt <= records[v].nextAttemptAt
    BY <1>1, <1>2, FirstAreLimited DEF MemoryInv
  <2>3. /\ Cardinality(C) \in Nat /\ Cardinality(D) \in Nat /\ Cardinality(S) \in Nat
        /\ Cardinality(S) <= Cardinality(D) /\ Cardinality(D) <= Cardinality(C)
    BY <1>2, <1>7, <2>1, FS_Subset, FS_CardinalityType
  <2> HIDE DEF D, C, S
  <2>4. Cardinality(S) = IF Cardinality(D) < BatchSize THEN Cardinality(D) ELSE BatchSize
    BY <1>4, <2>2, <2>3
  <2>5. D \in SUBSET DOMAIN records /\ S \in SUBSET D
    BY <1>1, <1>7, <2>1 DEF D
  <2>6. \A u \in S, v \in D \ S : records[u].nextAttemptAt <= records[v].nextAttemptAt
    BY <2>1, <2>2
  <2>7. SQL!Limited(S, D, BatchSize, "nextAttemptAt")
    BY <2>4, <2>5, <2>6, LimitedRows DEF MemoryInv
  <2>8. QED BY <2>7 DEF D
<1>9. due \ {} = due /\ stuck \ {} = stuck /\ P \in SUBSET due /\ stuck \in SUBSET stuck
  BY <1>5
<1> HIDE DEF P, S, C, due, stuck
<1>10. /\ SQL!Limited(P, due \ {}, BatchSize, "nextAttemptAt")
       /\ SQL!Limited(stuck, stuck \ {}, BatchSize, "lockedAt")
       /\ P \in SUBSET (due \ {}) /\ stuck \in SUBSET (stuck \ {})
  BY <1>5, <1>6, <1>9
<1>11. QED BY <1>3, <1>8, <1>10, Zenon DEF SQL!ClaimSelects, due, stuck

-----------------------------------------------------------------------------
(* Every method is a statement of the database.                            *)

\* No two records have a key in common, so neither has a row the new key.
LEMMA CreateIsCreate ==
  ASSUME MemoryInv, Create
  PROVE  SQL!Create
<1>1. PICK u \in UpdateIDs, p \in Pairs, k \in Keys \cup {NoKey}, now \in Times :
        CreateUpdateRequest(u, p, k, now)
  BY DEF Create
<1>2. \A v \in DOMAIN records : records[v] \in Record
  BY DEF MemoryInv, MemoryTypeOK
<1>3. ~SQL!KeyTaken(k)
  <2>1. \A v \in DOMAIN records : TableRow(records[v]).key = records[v].idempotencyKey
    BY <1>2, TableRowFacts
  <2>2. \A v \in DOMAIN records : k # NoKey => records[v].idempotencyKey # k
    BY <1>1 DEF MemoryInv, IndexAgrees, CreateUpdateRequest
  <2>3. QED BY <2>1, <2>2 DEF SQL!KeyTaken
<1>4. Rows' = [v \in DOMAIN Rows \cup {u} |->
                 IF v = u THEN SQL!NewUpdateRequest(p, k, now) ELSE Rows[v]]
  <2>1. TableRow(NewRecord(p, k, now)) = SQL!NewUpdateRequest(p, k, now)
    BY NewRecordFacts
  <2>2. QED BY <1>1, <2>1 DEF Rows, CreateUpdateRequest
<1>5. Journal' = Journal
  BY <1>1 DEF Journal, CreateUpdateRequest
<1>6. SQL!CreateUpdateRequest(u, p, k, now)
  BY <1>1, <1>3, <1>4, <1>5 DEF SQL!CreateUpdateRequest, Rows, Journal, CreateUpdateRequest
<1>7. QED BY <1>6 DEF SQL!Create

\* A batch is what the database may select; an empty one changes nothing.
LEMMA ClaimIsClaim ==
  ASSUME MemoryInv, Claim
  PROVE  SQL!Claim \/ UNCHANGED <<Rows, Journal>>
<1>1. PICK now \in Times : ClaimBatch(now)
  BY DEF Claim
<1> DEFINE S == FirstCandidates(now)
<1>2. \A v \in DOMAIN records : records[v] \in Record
  BY DEF MemoryInv, MemoryTypeOK
<1>3. S \subseteq DOMAIN records
      /\ \A u \in S : records[u].req.status \in {StatusPending, StatusInProgress}
  BY DEF FirstCandidates, Candidates
<1>4. records' = [u \in DOMAIN records |->
                    IF u \in S THEN ClaimedRecord(records[u], now) ELSE records[u]]
  BY <1>1 DEF ClaimBatch, ClaimedRecord
<1>5. \A u \in S : ClaimedRequest(records[u].req).attempts <= MaxInt
  BY <1>1 DEF ClaimBatch
<1> HIDE DEF S
<1>6. \A u \in S : /\ TableRow(ClaimedRecord(records[u], now)) =
                       SQL!ClaimedRow(TableRow(records[u]), now)
                    /\ SQL!ClaimedRow(TableRow(records[u]), now).attempts <= MaxInt
  BY <1>2, <1>3, <1>5, ClaimedFacts
<1>7. Rows' = [u \in DOMAIN Rows |->
                 IF u \in S THEN SQL!ClaimedRow(Rows[u], now) ELSE Rows[u]]
  BY <1>3, <1>4, <1>6 DEF Rows
<1>8. Journal' = Journal
  BY <1>1 DEF Journal, ClaimBatch
<1>9. CASE S = {}
  BY <1>7, <1>8, <1>9 DEF Rows
<1>10. CASE S # {}
  <2>1. PICK skipped \in SUBSET DOMAIN records :
          SQL!ClaimSelects(S, skipped, now, now - VisibilityTimeout)
    BY ClaimSelectsBatch DEF S, MemoryInv
  <2>2. \A u \in S : SQL!ClaimedRow(Rows[u], now).attempts <= MaxInt
    BY <1>3, <1>6 DEF Rows
  <2>3. SQL!ClaimBatch(S, skipped, now)
    BY <1>7, <1>8, <2>1, <2>2 DEF SQL!ClaimBatch, Rows, Journal
  <2>4. QED BY <1>3, <1>10, <2>1, <2>3 DEF SQL!Claim
<1>11. QED BY <1>9, <1>10

\* The domain lets only a record in progress be completed, as the SQL does.
LEMMA MoveFacts ==
  ASSUME MemoryInv, NEW u, NEW next \in {StatusSucceeded, StatusFailed, StatusPending},
         MayMove(u, next)
  PROVE  /\ u \in DOMAIN records /\ records[u] \in Record
         /\ records[u].req.status = StatusInProgress
         /\ SQL!IsInProgress(u)
<1>1. u \in DOMAIN records /\ records[u] \in Record
  BY DEF MayMove, MemoryInv, MemoryTypeOK
<1>2. records[u].req.status = StatusInProgress
  BY DEF MayMove, CanTransitionTo, StatusPending, StatusInProgress, StatusSucceeded,
         StatusFailed
<1>3. TableRow(records[u]).status = records[u].req.status
  BY <1>1, TableRowFacts
<1>4. QED BY <1>1, <1>2, <1>3, SameDomain DEF SQL!IsInProgress

\* One record replaced is one row replaced.
LEMMA ReplacedRow ==
  ASSUME NEW u \in DOMAIN records, NEW new, records' = [records EXCEPT ![u] = new]
  PROVE  /\ DOMAIN Rows' = DOMAIN Rows /\ u \in DOMAIN Rows
         /\ Rows[u] = TableRow(records[u])
         /\ Rows' = [Rows EXCEPT ![u] = TableRow(new)]
BY DEF Rows

LEMMA FailIsFail ==
  ASSUME MemoryInv, Fail
  PROVE  SQL!Fail
<1>1. PICK u \in DOMAIN records, code \in ErrorCodes, retryable \in BOOLEAN,
           nextAttemptAt \in Times :
        CompleteFailure(u, code, retryable, nextAttemptAt)
  BY DEF Fail
<1> DEFINE new == FailedRecord(records[u], code, retryable, nextAttemptAt)
<1>2. (IF retryable THEN StatusPending ELSE StatusFailed)
        \in {StatusSucceeded, StatusFailed, StatusPending}
  OBVIOUS
<1>3. records[u] \in Record /\ SQL!IsInProgress(u)
  BY <1>1, <1>2, MoveFacts DEF CompleteFailure
<1>4. records' = [records EXCEPT ![u] = new] /\ Journal' = Journal
  BY <1>1 DEF CompleteFailure, FailedRecord, Journal
<1>5. TableRow(new) = SQL!FailedRow(TableRow(records[u]), code, retryable, nextAttemptAt)
  BY <1>3, FailedFacts
<1> HIDE DEF new
<1>6. /\ Rows' = [Rows EXCEPT ![u] = SQL!FailedRow(@, code, retryable, nextAttemptAt)]
      /\ u \in DOMAIN Rows
  BY <1>4, <1>5, ReplacedRow
<1>7. SQL!CompleteFailure(u, code, retryable, nextAttemptAt)
  BY <1>3, <1>4, <1>6, Zenon DEF SQL!CompleteFailure, Rows, Journal
<1>8. QED
  BY <1>6, <1>7, SameDomain, Zenon DEF SQL!Fail, Rows

LEMMA SucceedReuseIsSucceedReuse ==
  ASSUME MemoryInv, SucceedReuse
  PROVE  SQL!SucceedReuse
<1>1. PICK u \in DOMAIN records, q \in DOMAIN quotes :
        quotes[q].pair = records[u].req.pair /\ CompleteSuccessReuse(u, q)
  BY DEF SucceedReuse
<1> DEFINE new == SucceededRecord(records[u], q, TRUE)
<1>2. records[u] \in Record /\ SQL!IsInProgress(u)
  BY <1>1, MoveFacts DEF CompleteSuccessReuse
<1>3. DOMAIN quotes = 1..nextQuoteID /\ nextQuoteID \in Nat /\ q \in Nat
  BY DEF MemoryInv, MemoryTypeOK
<1>4. records' = [records EXCEPT ![u] = new] /\ Journal' = Journal
  BY <1>1 DEF CompleteSuccessReuse, SucceededRecord, Journal
<1>5. TableRow(new) = SQL!SucceededRow(TableRow(records[u]), q, TRUE)
  BY <1>2, <1>3, SucceededFacts
<1>6. TableRow(records[u]).pair = records[u].req.pair
  BY <1>2, TableRowFacts
<1> HIDE DEF new
<1>7. /\ Rows' = [Rows EXCEPT ![u] = SQL!SucceededRow(@, q, TRUE)]
      /\ u \in DOMAIN Rows /\ Rows[u].pair = records[u].req.pair
  BY <1>4, <1>5, <1>6, ReplacedRow
<1>8. q \in DOMAIN Journal /\ Journal[q] = quotes[q]
  BY <1>3 DEF Journal
<1>9. SQL!CompleteSuccessReuse(u, q)
  BY <1>2, <1>4, <1>7, <1>8, Zenon DEF SQL!CompleteSuccessReuse, Rows, Journal
<1>10. q \in SQL!QuotesOf(Rows[u].pair)
  BY <1>1, <1>7, <1>8, Zenon DEF SQL!QuotesOf, Journal
<1>11. QED
  BY <1>7, <1>9, <1>10, Zenon DEF SQL!SucceedReuse, Rows

\* The quote a success is stored as, and its id, are those the upsert yields:
\* a duplicate is the only one (NoDuplicates), a new quote is the next.
LEMMA QuoteIsUpserted ==
  ASSUME MemoryInv, NEW rate, NEW q \in 1..(nextQuoteID + 1), FindOrCreateQuote(rate, q)
  PROVE  Journal' = SQL!UpsertedQuotes(rate) /\ q = SQL!UpsertedID(rate)
<1>1. DOMAIN quotes = 1..nextQuoteID /\ nextQuoteID \in Nat
  BY DEF MemoryInv, MemoryTypeOK
<1>2. SQL!Duplicates(rate) = Duplicates(rate)
  BY <1>1 DEF SQL!Duplicates, Duplicates
<1>3. CASE Duplicates(rate) # {}
  <2>1. q \in Duplicates(rate) /\ Journal' = Journal
    BY <1>3 DEF FindOrCreateQuote, Journal
  <2>2. SQL!UpsertedQuotes(rate) = Journal
    BY <1>2, <1>3 DEF SQL!UpsertedQuotes, Journal
  <2>3. \A i, j \in Duplicates(rate) : i = j
    BY <1>1 DEF MemoryInv, NoDuplicates, Duplicates
  <2>4. SQL!UpsertedID(rate) = CHOOSE i \in Duplicates(rate) : TRUE
    BY <1>2, <1>3 DEF SQL!UpsertedID
  <2>5. (CHOOSE i \in Duplicates(rate) : TRUE) \in Duplicates(rate)
    BY <1>3
  <2>6. QED BY <2>1, <2>2, <2>3, <2>4, <2>5
<1>4. CASE Duplicates(rate) = {}
  <2>1. /\ q = nextQuoteID + 1 /\ nextQuoteID' = q
        /\ quotes' = [i \in 1..nextQuoteID \cup {q} |-> IF i = q THEN rate ELSE quotes[i]]
    BY <1>1, <1>4 DEF FindOrCreateQuote
  <2>2. Len(Journal) = nextQuoteID /\ DOMAIN Journal = 1..nextQuoteID
    BY <1>1 DEF Journal
  <2>3. Append(Journal, rate) =
          [i \in 1..(nextQuoteID + 1) |-> IF i = nextQuoteID + 1 THEN rate ELSE quotes[i]]
    BY <1>1, <2>2 DEF Journal
  <2>4. Journal' = [i \in 1..(nextQuoteID + 1) |-> IF i = nextQuoteID + 1 THEN rate ELSE quotes[i]]
    BY <1>1, <2>1 DEF Journal
  <2>5. SQL!UpsertedQuotes(rate) = Append(Journal, rate)
    BY <1>2, <1>4 DEF SQL!UpsertedQuotes, Journal
  <2>6. SQL!UpsertedID(rate) = nextQuoteID + 1
    BY <1>2, <1>4, <2>2 DEF SQL!UpsertedID, Journal
  <2>7. QED BY <2>1, <2>3, <2>4, <2>5, <2>6
<1>5. QED BY <1>3, <1>4

LEMMA SucceedIsSucceed ==
  ASSUME MemoryInv, Succeed
  PROVE  SQL!Succeed
<1>1. PICK u \in DOMAIN records, provider \in Providers, quotedAt \in Times,
           staleAfter \in Times :
        CompleteSuccess(u, [pair |-> records[u].req.pair, provider |-> provider,
                            quotedAt |-> quotedAt, staleAfter |-> staleAfter])
  BY DEF Succeed
<1> DEFINE rate == [pair |-> records[u].req.pair, provider |-> provider,
                    quotedAt |-> quotedAt, staleAfter |-> staleAfter]
<1> HIDE DEF rate
<1>2. PICK q \in 1..(nextQuoteID + 1) :
        /\ FindOrCreateQuote(rate, q)
        /\ records' = [records EXCEPT ![u] = SucceededRecord(@, q, FALSE)]
  BY <1>1 DEF CompleteSuccess, rate
<1> DEFINE new == SucceededRecord(records[u], q, FALSE)
<1>3. records[u] \in Record /\ SQL!IsInProgress(u)
  BY <1>1, MoveFacts DEF CompleteSuccess
<1>4. q \in Nat
  BY DEF MemoryInv, MemoryTypeOK
<1>5. records' = [records EXCEPT ![u] = new]
  BY <1>2
<1>6. Journal' = SQL!UpsertedQuotes(rate) /\ q = SQL!UpsertedID(rate)
  BY <1>2, QuoteIsUpserted
<1>7. TableRow(new) = SQL!SucceededRow(TableRow(records[u]), q, FALSE)
  BY <1>3, <1>4, SucceededFacts
<1>8. TableRow(records[u]).pair = records[u].req.pair
  BY <1>3, TableRowFacts
<1> HIDE DEF new
<1>9. /\ Rows' = [Rows EXCEPT ![u] = SQL!SucceededRow(@, q, FALSE)]
      /\ u \in DOMAIN Rows /\ Rows[u].pair = records[u].req.pair
  BY <1>5, <1>7, <1>8, ReplacedRow
<1>10. rate = [pair |-> Rows[u].pair, provider |-> provider,
               quotedAt |-> quotedAt, staleAfter |-> staleAfter]
  BY <1>9, Zenon DEF rate
<1>11. SQL!CompleteSuccess(u, [pair |-> Rows[u].pair, provider |-> provider,
                              quotedAt |-> quotedAt, staleAfter |-> staleAfter])
  <2>1. ASSUME NEW r, r = rate
        PROVE  Journal' = SQL!UpsertedQuotes(r) /\ q = SQL!UpsertedID(r)
    BY <1>6, <2>1
  <2>2. /\ Journal' = SQL!UpsertedQuotes([pair |-> Rows[u].pair, provider |-> provider,
                              quotedAt |-> quotedAt, staleAfter |-> staleAfter])
        /\ q = SQL!UpsertedID([pair |-> Rows[u].pair, provider |-> provider,
                              quotedAt |-> quotedAt, staleAfter |-> staleAfter])
    BY <1>10, <2>1, Zenon
  <2>3. QED BY <1>3, <1>9, <2>2, Zenon DEF SQL!CompleteSuccess, Rows, Journal
<1>12. QED
  BY <1>9, <1>11, Zenon DEF SQL!Succeed, Rows

-----------------------------------------------------------------------------
(* MemoryInv is inductive.                                                 *)

LEMMA InitInv == MemoryInit => MemoryInv
<1> SUFFICES ASSUME MemoryInit PROVE MemoryInv
  OBVIOUS
<1>1. DOMAIN records = {} /\ DOMAIN idempotencyIndex = {} /\ nextQuoteID = 0
      /\ DOMAIN quotes = {}
  BY DEF MemoryInit
<1>2. MemoryTypeOK
  BY <1>1 DEF MemoryInit, MemoryTypeOK
<1>3. IndexAgrees /\ NoDuplicates
  BY <1>1 DEF IndexAgrees, NoDuplicates
<1>4. QED BY <1>1, <1>2, <1>3, FS_EmptySet DEF MemoryInv

\* A step that replaces records by records with the same keys, and leaves the
\* index alone, keeps what is said of the keys.
LEMMA SameKeys ==
  ASSUME MemoryInv, UNCHANGED idempotencyIndex,
         DOMAIN records' = DOMAIN records, records' \in [DOMAIN records -> Record],
         \A v \in DOMAIN records : records'[v].idempotencyKey = records[v].idempotencyKey
  PROVE  /\ IndexAgrees' /\ IsFiniteSet(DOMAIN records')
         /\ DOMAIN records' \subseteq UpdateIDs
         /\ records' \in [DOMAIN records' -> Record]
         /\ DOMAIN idempotencyIndex' \subseteq Keys
BY DEF MemoryInv, MemoryTypeOK, IndexAgrees

LEMMA CreateKeepsInv ==
  ASSUME MemoryInv, Create
  PROVE  MemoryInv'
<1>1. PICK u \in UpdateIDs, p \in Pairs, k \in Keys \cup {NoKey}, now \in Times :
        CreateUpdateRequest(u, p, k, now)
  BY DEF Create
<1> DEFINE new == NewRecord(p, k, now)
<1>2. new \in Record /\ new.idempotencyKey = k
  BY NewRecordFacts
<1>3. /\ u \notin DOMAIN records /\ k \notin DOMAIN idempotencyIndex
      /\ records' = [v \in DOMAIN records \cup {u} |-> IF v = u THEN new ELSE records[v]]
      /\ idempotencyIndex' = Indexed(u, k)
      /\ quotes' = quotes /\ nextQuoteID' = nextQuoteID
  BY <1>1 DEF CreateUpdateRequest
<1> HIDE DEF new
<1>4. DOMAIN records' = DOMAIN records \cup {u}
  BY <1>3
<1>5. MemoryTypeOK'
  BY <1>2, <1>3 DEF MemoryInv, MemoryTypeOK, Indexed
<1>6. IndexAgrees'
  <2>1. NoKey \notin DOMAIN idempotencyIndex
    BY MemoryAssumption DEF MemoryAssumption, MemoryInv, MemoryTypeOK
  <2>2. CASE k = NoKey
    <3>1. idempotencyIndex' = idempotencyIndex
      BY <1>3, <2>2 DEF Indexed
    <3>2. QED BY <1>2, <1>3, <2>2, <3>1 DEF MemoryInv, IndexAgrees
  <2>3. CASE k # NoKey
    <3>1. idempotencyIndex' = [j \in DOMAIN idempotencyIndex \cup {k} |->
                                 IF j = k THEN u ELSE idempotencyIndex[j]]
      BY <1>3, <2>3 DEF Indexed
    <3>2. QED BY <1>2, <1>3, <2>3, <3>1 DEF MemoryInv, IndexAgrees
  <2>4. QED BY <2>2, <2>3
<1>7. NoDuplicates'
  BY <1>3 DEF MemoryInv, NoDuplicates
<1>8. IsFiniteSet(DOMAIN records')
  BY <1>4, FS_AddElement DEF MemoryInv
<1>9. QED BY <1>5, <1>6, <1>7, <1>8 DEF MemoryInv

LEMMA ClaimKeepsInv ==
  ASSUME MemoryInv, Claim
  PROVE  MemoryInv'
<1>1. PICK now \in Times : ClaimBatch(now)
  BY DEF Claim
<1> DEFINE S == FirstCandidates(now)
<1>2. \A v \in DOMAIN records : records[v] \in Record
  BY DEF MemoryInv, MemoryTypeOK
<1>3. S \subseteq DOMAIN records
      /\ \A u \in S : records[u].req.status \in {StatusPending, StatusInProgress}
  BY DEF FirstCandidates, Candidates
<1>4. /\ \A u \in S : ClaimedRequest(records[u].req).attempts <= MaxInt
      /\ records' = [u \in DOMAIN records |->
                       IF u \in S THEN ClaimedRecord(records[u], now) ELSE records[u]]
      /\ idempotencyIndex' = idempotencyIndex
      /\ quotes' = quotes /\ nextQuoteID' = nextQuoteID
  BY <1>1 DEF ClaimBatch
<1> HIDE DEF S
<1>5. \A u \in S :
        /\ ClaimedRecord(records[u], now) \in Record
        /\ ClaimedRecord(records[u], now).idempotencyKey = records[u].idempotencyKey
  BY <1>2, <1>3, <1>4, ClaimedFacts
<1>6. /\ DOMAIN records' = DOMAIN records /\ records' \in [DOMAIN records -> Record]
      /\ \A v \in DOMAIN records :
           records'[v].idempotencyKey = records[v].idempotencyKey
  BY <1>2, <1>3, <1>4, <1>5
<1>7. MemoryTypeOK' /\ NoDuplicates'
  BY <1>4, <1>6, SameKeys DEF MemoryInv, MemoryTypeOK, NoDuplicates
<1>8. QED BY <1>4, <1>6, <1>7, SameKeys DEF MemoryInv

\* Replacing one record in progress keeps the records' part of the invariant.
LEMMA ReplacedKeys ==
  ASSUME MemoryInv, NEW u \in DOMAIN records, NEW new \in Record,
         new.idempotencyKey = records[u].idempotencyKey,
         records' = [records EXCEPT ![u] = new], UNCHANGED idempotencyIndex
  PROVE  /\ IndexAgrees' /\ IsFiniteSet(DOMAIN records')
         /\ DOMAIN records' \subseteq UpdateIDs
         /\ records' \in [DOMAIN records' -> Record]
         /\ DOMAIN idempotencyIndex' \subseteq Keys
<1>1. records \in [DOMAIN records -> Record]
  BY DEF MemoryInv, MemoryTypeOK
<1>2. /\ DOMAIN records' = DOMAIN records /\ records' \in [DOMAIN records -> Record]
      /\ \A v \in DOMAIN records :
           records'[v].idempotencyKey = records[v].idempotencyKey
  BY <1>1
<1>3. QED BY <1>2, SameKeys

LEMMA FailKeepsInv ==
  ASSUME MemoryInv, Fail
  PROVE  MemoryInv'
<1>1. PICK u \in DOMAIN records, code \in ErrorCodes, retryable \in BOOLEAN,
           nextAttemptAt \in Times :
        CompleteFailure(u, code, retryable, nextAttemptAt)
  BY DEF Fail
<1> DEFINE new == FailedRecord(records[u], code, retryable, nextAttemptAt)
<1>2. records[u] \in Record
  BY DEF MemoryInv, MemoryTypeOK
<1>3. new \in Record /\ new.idempotencyKey = records[u].idempotencyKey
  BY <1>2, FailedFacts
<1>4. /\ records' = [records EXCEPT ![u] = new] /\ idempotencyIndex' = idempotencyIndex
      /\ quotes' = quotes /\ nextQuoteID' = nextQuoteID
  BY <1>1 DEF CompleteFailure
<1> HIDE DEF new
<1>5. /\ IndexAgrees' /\ IsFiniteSet(DOMAIN records')
      /\ DOMAIN records' \subseteq UpdateIDs
      /\ records' \in [DOMAIN records' -> Record]
      /\ DOMAIN idempotencyIndex' \subseteq Keys
  BY <1>3, <1>4, ReplacedKeys
<1>6. QED BY <1>4, <1>5 DEF MemoryInv, MemoryTypeOK, NoDuplicates

LEMMA SucceedReuseKeepsInv ==
  ASSUME MemoryInv, SucceedReuse
  PROVE  MemoryInv'
<1>1. PICK u \in DOMAIN records, q \in DOMAIN quotes : CompleteSuccessReuse(u, q)
  BY DEF SucceedReuse
<1> DEFINE new == SucceededRecord(records[u], q, TRUE)
<1>2. records[u] \in Record /\ q \in Nat
  BY DEF MemoryInv, MemoryTypeOK
<1>3. new \in Record /\ new.idempotencyKey = records[u].idempotencyKey
  BY <1>2, SucceededFacts
<1>4. /\ records' = [records EXCEPT ![u] = new] /\ idempotencyIndex' = idempotencyIndex
      /\ quotes' = quotes /\ nextQuoteID' = nextQuoteID
  BY <1>1 DEF CompleteSuccessReuse
<1> HIDE DEF new
<1>5. /\ IndexAgrees' /\ IsFiniteSet(DOMAIN records')
      /\ DOMAIN records' \subseteq UpdateIDs
      /\ records' \in [DOMAIN records' -> Record]
      /\ DOMAIN idempotencyIndex' \subseteq Keys
  BY <1>3, <1>4, ReplacedKeys
<1>6. QED BY <1>4, <1>5 DEF MemoryInv, MemoryTypeOK, NoDuplicates

LEMMA SucceedKeepsInv ==
  ASSUME MemoryInv, Succeed
  PROVE  MemoryInv'
<1>1. PICK u \in DOMAIN records, provider \in Providers, quotedAt \in Times,
           staleAfter \in Times :
        CompleteSuccess(u, [pair |-> records[u].req.pair, provider |-> provider,
                            quotedAt |-> quotedAt, staleAfter |-> staleAfter])
  BY DEF Succeed
<1>2. records[u] \in Record /\ nextQuoteID \in Nat /\ DOMAIN quotes = 1..nextQuoteID
      /\ quotes \in [1..nextQuoteID -> StoredQuote]
  BY DEF MemoryInv, MemoryTypeOK
<1> DEFINE rate == [pair |-> records[u].req.pair, provider |-> provider,
                    quotedAt |-> quotedAt, staleAfter |-> staleAfter]
<1>3. rate \in StoredQuote
  BY <1>2 DEF StoredQuote, Record, Request
<1> HIDE DEF rate
<1>4. PICK q \in 1..(nextQuoteID + 1) :
        /\ FindOrCreateQuote(rate, q)
        /\ records' = [records EXCEPT ![u] = SucceededRecord(@, q, FALSE)]
  BY <1>1 DEF CompleteSuccess, rate
<1>5. idempotencyIndex' = idempotencyIndex
  BY <1>1 DEF CompleteSuccess
<1> DEFINE new == SucceededRecord(records[u], q, FALSE)
<1>6. new \in Record /\ new.idempotencyKey = records[u].idempotencyKey
  <2>1. q \in Nat
    OBVIOUS
  <2>2. QED BY <1>2, <2>1, SucceededFacts
<1>7. records' = [records EXCEPT ![u] = new]
  BY <1>4
<1> HIDE DEF new
<1>8. /\ IndexAgrees' /\ IsFiniteSet(DOMAIN records')
      /\ DOMAIN records' \subseteq UpdateIDs
      /\ records' \in [DOMAIN records' -> Record]
      /\ DOMAIN idempotencyIndex' \subseteq Keys
  BY <1>5, <1>6, <1>7, ReplacedKeys
<1>9. /\ nextQuoteID' \in Nat /\ quotes' \in [1..nextQuoteID' -> StoredQuote]
      /\ NoDuplicates'
  <2>1. CASE Duplicates(rate) # {}
    BY <1>2, <1>4, <2>1 DEF FindOrCreateQuote, MemoryInv, NoDuplicates
  <2>2. CASE Duplicates(rate) = {}
    <3>1. /\ q = nextQuoteID + 1 /\ nextQuoteID' = q
          /\ quotes' = [i \in 1..nextQuoteID \cup {q} |-> IF i = q THEN rate ELSE quotes[i]]
      BY <1>2, <1>4, <2>2 DEF FindOrCreateQuote
    <3>2. 1..nextQuoteID' = 1..nextQuoteID \cup {q}
      BY <1>2, <3>1
    <3>3. \A i \in 1..nextQuoteID : ~ (/\ quotes[i].pair = rate.pair
                                      /\ quotes[i].provider = rate.provider
                                      /\ quotes[i].quotedAt = rate.quotedAt)
      BY <1>2, <2>2 DEF Duplicates
    <3>4. NoDuplicates'
      BY <1>2, <3>1, <3>2, <3>3 DEF MemoryInv, NoDuplicates
    <3>5. QED BY <1>2, <1>3, <3>1, <3>2, <3>4
  <2>3. QED BY <2>1, <2>2
<1>10. QED BY <1>8, <1>9 DEF MemoryInv, MemoryTypeOK

LEMMA NextInv == MemoryInv /\ [MemoryNext]_memoryVars => MemoryInv'
<1> SUFFICES ASSUME MemoryInv, [MemoryNext]_memoryVars PROVE MemoryInv'
  OBVIOUS
<1>1. CASE Create       BY <1>1, CreateKeepsInv
<1>2. CASE Claim        BY <1>2, ClaimKeepsInv
<1>3. CASE Succeed      BY <1>3, SucceedKeepsInv
<1>4. CASE SucceedReuse BY <1>4, SucceedReuseKeepsInv
<1>5. CASE Fail         BY <1>5, FailKeepsInv
<1>6. CASE UNCHANGED memoryVars
  BY <1>6 DEF MemoryInv, MemoryTypeOK, IndexAgrees, NoDuplicates, memoryVars
<1>7. QED BY <1>1, <1>2, <1>3, <1>4, <1>5, <1>6 DEF MemoryNext

\* MemoryInv holds in every state the repository reaches.
THEOREM MemoryInvariant == MemorySpec => []MemoryInv
BY InitInv, NextInv, PTL DEF MemorySpec

\* The repository keeps its types, and hands out quote ids without a gap.
THEOREM MemoryTypeCorrect == MemorySpec => []MemoryTypeOK
<1>1. MemoryInv => MemoryTypeOK
  BY DEF MemoryInv
<1>2. QED BY <1>1, MemoryInvariant, PTL

\* GetByIdempotencyKey never dereferences a missing record, and
\* CreateUpdateRequest never gives one key to two requests.
THEOREM IndexAlwaysAgrees == MemorySpec => []IndexAgrees
<1>1. MemoryInv => IndexAgrees
  BY DEF MemoryInv
<1>2. QED BY <1>1, MemoryInvariant, PTL

\* With no row locked and no more rows stuck than a batch takes, the batch is
\* one the database may claim: ClaimBatch "mirrors storage/postgres".
THEOREM ClaimsMirror == MemorySpec => []ClaimMirrors
<1>1. MemoryInv => ClaimMirrors
  BY BatchMirrors DEF ClaimMirrors
<1>2. QED BY <1>1, MemoryInvariant, PTL

-----------------------------------------------------------------------------
(* The stand-in implements the tables.                                     *)

LEMMA InitRefines == MemoryInit => SQL!StoreInit
<1> SUFFICES ASSUME MemoryInit PROVE SQL!StoreInit
  OBVIOUS
<1>1. Rows = [u \in {} |-> NoKey]
  BY DEF MemoryInit, Rows
<1>2. Journal = << >>
  BY DEF MemoryInit, Journal
<1>3. QED BY <1>1, <1>2, Zenon DEF SQL!StoreInit, Rows, Journal

LEMMA StepRefines ==
  MemoryInv /\ [MemoryNext]_memoryVars => [SQL!StoreNext]_(SQL!storeVars)
<1> SUFFICES ASSUME MemoryInv, [MemoryNext]_memoryVars
             PROVE  SQL!StoreNext \/ UNCHANGED <<Rows, Journal>>
  BY Zenon DEF SQL!storeVars, Rows, Journal
<1>1. CASE Create       BY <1>1, CreateIsCreate DEF SQL!StoreNext
<1>2. CASE Claim        BY <1>2, ClaimIsClaim DEF SQL!StoreNext
<1>3. CASE Succeed      BY <1>3, SucceedIsSucceed DEF SQL!StoreNext
<1>4. CASE SucceedReuse BY <1>4, SucceedReuseIsSucceedReuse DEF SQL!StoreNext
<1>5. CASE Fail         BY <1>5, FailIsFail DEF SQL!StoreNext
<1>6. CASE UNCHANGED memoryVars
  BY <1>6 DEF memoryVars, Rows, Journal
<1>7. QED BY <1>1, <1>2, <1>3, <1>4, <1>5, <1>6 DEF MemoryNext

\* Every behaviour of the in-memory repository is one the tables allow: what a
\* use-case test observes on the stand-in, the database can do as well.
THEOREM MemoryImplements == MemorySpec => ImplementsStore
BY InitRefines, StepRefines, MemoryInvariant, PTL
   DEF MemorySpec, ImplementsStore, SQL!StoreSpec
-----------------------------------------------------------------------------
(* What is proved of QuoteStore holds of the maps.                         *)

Store == INSTANCE QuoteStoreProofs
  WITH updates <- [u \in DOMAIN records |-> TableRow(records[u])],
       quotes  <- [q \in 1..nextQuoteID |-> quotes[q]]

\* SQL and Store mean the same actions of the same tables.
LEMMA SameCreate == SQL!Create <=> Store!Create
  BY Zenon DEF SQL!Create, Store!Create, SQL!CreateUpdateRequest,
     Store!CreateUpdateRequest, SQL!KeyTaken, Store!KeyTaken, SQL!NewUpdateRequest,
     Store!NewUpdateRequest, SQL!StatusPending, Store!StatusPending, SQL!NoError,
     Store!NoError

LEMMA SameClaim == SQL!Claim <=> Store!Claim
  BY Zenon DEF SQL!Claim, Store!Claim, SQL!ClaimBatch, Store!ClaimBatch,
     SQL!ClaimSelects, Store!ClaimSelects, SQL!Due, Store!Due, SQL!Stuck, Store!Stuck,
     SQL!Limited, Store!Limited, SQL!ClaimedRow, Store!ClaimedRow, SQL!StatusPending,
     Store!StatusPending, SQL!StatusInProgress, Store!StatusInProgress,
     SQL!Cardinality, Store!Cardinality

LEMMA SameSucceed == SQL!Succeed <=> Store!Succeed
  BY Zenon DEF SQL!Succeed, Store!Succeed, SQL!CompleteSuccess, Store!CompleteSuccess,
     SQL!IsInProgress, Store!IsInProgress, SQL!UpsertedQuotes, Store!UpsertedQuotes,
     SQL!UpsertedID, Store!UpsertedID, SQL!Duplicates, Store!Duplicates,
     SQL!SucceededRow, Store!SucceededRow, SQL!StatusInProgress,
     Store!StatusInProgress, SQL!StatusSucceeded, Store!StatusSucceeded, SQL!NoError,
     Store!NoError

LEMMA SameSucceedReuse == SQL!SucceedReuse <=> Store!SucceedReuse
  BY Zenon DEF SQL!SucceedReuse, Store!SucceedReuse, SQL!CompleteSuccessReuse,
     Store!CompleteSuccessReuse, SQL!IsInProgress, Store!IsInProgress, SQL!QuotesOf,
     Store!QuotesOf, SQL!SucceededRow, Store!SucceededRow, SQL!StatusInProgress,
     Store!StatusInProgress, SQL!StatusSucceeded, Store!StatusSucceeded, SQL!NoError,
     Store!NoError

LEMMA SameFail == SQL!Fail <=> Store!Fail
  BY Zenon DEF SQL!Fail, Store!Fail, SQL!CompleteFailure, Store!CompleteFailure,
     SQL!IsInProgress, Store!IsInProgress, SQL!FailedRow, Store!FailedRow,
     SQL!ErrorCodes, Store!ErrorCodes, SQL!RateLimitedError, Store!RateLimitedError,
     SQL!MalformedResponse, Store!MalformedResponse, SQL!InternalError,
     Store!InternalError, SQL!ProviderError, Store!ProviderError,
     SQL!AttemptsExhaustedCode, Store!AttemptsExhaustedCode, SQL!StatusPending,
     Store!StatusPending, SQL!StatusInProgress, Store!StatusInProgress,
     SQL!StatusFailed, Store!StatusFailed

LEMMA SameStoreInit == SQL!StoreInit <=> Store!StoreInit
  BY Zenon DEF SQL!StoreInit, Store!StoreInit

LEMMA SameSpec == SQL!StoreSpec => Store!StoreSpec
<1>1. SQL!StoreNext <=> Store!StoreNext
  BY SameCreate, SameClaim, SameSucceed, SameSucceedReuse, SameFail, Zenon
     DEF SQL!StoreNext, Store!StoreNext
<1>2. [SQL!StoreNext]_(SQL!storeVars) => [Store!StoreNext]_(Store!storeVars)
  BY <1>1, Zenon DEF SQL!storeVars, Store!storeVars
<1>3. QED
  BY <1>2, SameStoreInit, PTL DEF SQL!StoreSpec, Store!StoreSpec

\* What QuoteStore assumes of its constants is assumed here.
LEMMA StoreAssumed ==
  /\ Times \subseteq Nat
  /\ BatchSize \in Nat \ {0}
  /\ VisibilityTimeout \in Nat \ {0}
  /\ MaxInt \in Nat
  /\ NoKey \notin Keys
BY MemoryAssumption DEF MemoryAssumption

\* The use-case tests run on a repository that keeps the promise too: one request
\* per key, one answer per request, unchanged for ever, and a latest quote that
\* never moves back.
THEOREM MemoryKeepsPromise == MemorySpec => Store!KeepsPromise
<1>1. MemorySpec => Store!StoreSpec
  BY MemoryImplements, SameSpec, PTL DEF ImplementsStore
<1>2. Store!StoreSpec => Store!KeepsPromise
  BY Store!StoreKeepsPromise, StoreAssumed, PTL
<1>3. QED
  BY <1>1, <1>2, PTL
=============================================================================
