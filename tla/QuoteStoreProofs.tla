-------------------------- MODULE QuoteStoreProofs --------------------------
(***************************************************************************)
(* Proofs about QuoteStore, for any number of requests, pairs, keys,       *)
(* providers and instants.  StoreInv is the inductive invariant: the       *)
(* properties the runs check, plus two facts they rest on.                 *)
(***************************************************************************)
EXTENDS QuoteStore, TLAPS

\* A claimed row has spent at least one attempt: this is why a row handed
\* back to pending has attempts > 0 (ErrorExplains).
ClaimedPaid ==
  \A u \in DOMAIN updates :
    updates[u].status = StatusInProgress => updates[u].attempts > 0

\* i is the row GetLatestQuote picks for pair p.
IsLatest(i, p) ==
  /\ i \in QuotesOf(p)
  /\ \A j \in QuotesOf(p) :
       \/ quotes[j].quotedAt < quotes[i].quotedAt
       \/ quotes[j].quotedAt = quotes[i].quotedAt /\ j <= i

\* A pair with quotes has a latest one, so LatestID's CHOOSE is meaningful.
\* (A journal is finite; kept as an invariant this needs no induction.)
LatestExists ==
  \A p \in Pairs : QuotesOf(p) # {} => \E i \in QuotesOf(p) : IsLatest(i, p)

StoreInv ==
  /\ TypeOK
  /\ ResultLinked
  /\ ErrorExplains
  /\ ClaimedPaid
  /\ JournalUnique
  /\ LatestExists

-----------------------------------------------------------------------------
(* Facts about single rows and about the journal.                          *)

\* A claim keeps a row's type; the row is in progress and has paid.
LEMMA ClaimedRowFacts ==
  ASSUME NEW row \in Row, NEW now \in Nat, ClaimedRow(row, now).attempts <= MaxInt
  PROVE  /\ ClaimedRow(row, now) \in Row
         /\ ClaimedRow(row, now).status = StatusInProgress
         /\ ClaimedRow(row, now).pair = row.pair
         /\ ClaimedRow(row, now).key = row.key
         /\ ClaimedRow(row, now).quoteID = row.quoteID
         /\ ClaimedRow(row, now).reused = row.reused
         /\ row.status = StatusPending => ClaimedRow(row, now).attempts > 0
         /\ row.status # StatusPending => ClaimedRow(row, now).attempts = row.attempts
<1>1. MaxInt \in Nat
  BY StoreAssumption DEF StoreAssumption
<1>2. ClaimedRow(row, now).attempts = IF row.status = StatusPending
                                        THEN row.attempts + 1 ELSE row.attempts
  BY DEF ClaimedRow, Row
<1>3. row.attempts \in 0..MaxInt
  BY DEF Row
<1>4. ClaimedRow(row, now).attempts \in 0..MaxInt
  BY <1>1, <1>2, <1>3
<1>5. ClaimedRow(row, now) \in Row
  BY <1>4 DEF ClaimedRow, Row, StatusInProgress, Statuses
<1>6. QED
  BY <1>1, <1>2, <1>3, <1>5 DEF ClaimedRow, Row

\* A completion keeps a row's type and touches only the result columns.
LEMMA SucceededRowFacts ==
  ASSUME NEW row \in Row, NEW q \in Nat, NEW reused \in BOOLEAN
  PROVE  /\ SucceededRow(row, q, reused) \in Row
         /\ SucceededRow(row, q, reused).status = StatusSucceeded
         /\ SucceededRow(row, q, reused).quoteID = q
         /\ SucceededRow(row, q, reused).pair = row.pair
         /\ SucceededRow(row, q, reused).key = row.key
         /\ SucceededRow(row, q, reused).errorCode = NoError
BY DEF SucceededRow, Row, StatusSucceeded, Statuses

\* A failure keeps a row's type and its result columns, and says why.
LEMMA FailedRowFacts ==
  ASSUME NEW row \in Row, NEW code \in ErrorCodes, NEW retryable \in BOOLEAN,
         NEW t \in Nat
  PROVE  /\ FailedRow(row, code, retryable, t) \in Row
         /\ FailedRow(row, code, retryable, t).status =
              IF retryable THEN StatusPending ELSE StatusFailed
         /\ FailedRow(row, code, retryable, t).quoteID = row.quoteID
         /\ FailedRow(row, code, retryable, t).reused = row.reused
         /\ FailedRow(row, code, retryable, t).pair = row.pair
         /\ FailedRow(row, code, retryable, t).key = row.key
         /\ FailedRow(row, code, retryable, t).attempts = row.attempts
         /\ FailedRow(row, code, retryable, t).errorCode = code
         /\ code # NoError
<1>1. code # NoError
  BY DEF ErrorCodes, NoError, RateLimitedError, MalformedResponse, InternalError,
         ProviderError, AttemptsExhaustedCode
<1>2. QED
  BY <1>1 DEF FailedRow, Row, StatusPending, StatusFailed, Statuses

\* upsertQuote returns the id of a journal row equal to rate in the columns
\* of the unique index, and either adds rate or changes nothing.
LEMMA UpsertFacts ==
  ASSUME quotes \in Seq(Quote), NEW rate \in Quote
  PROVE  /\ UpsertedQuotes(rate) \in Seq(Quote)
         /\ \/ /\ Duplicates(rate) = {}
               /\ UpsertedQuotes(rate) = Append(quotes, rate)
               /\ UpsertedID(rate) = Len(quotes) + 1
            \/ /\ UpsertedQuotes(rate) = quotes
               /\ UpsertedID(rate) \in Duplicates(rate)
         /\ UpsertedID(rate) \in Nat \ {0}
         /\ UpsertedID(rate) \in DOMAIN UpsertedQuotes(rate)
         /\ UpsertedQuotes(rate)[UpsertedID(rate)].pair = rate.pair
         /\ UpsertedQuotes(rate)[UpsertedID(rate)].quotedAt = rate.quotedAt
<1>1. CASE Duplicates(rate) = {}
  BY <1>1 DEF UpsertedQuotes, UpsertedID
<1>2. CASE Duplicates(rate) # {}
  <2>1. UpsertedID(rate) \in Duplicates(rate)
    BY <1>2 DEF UpsertedID
  <2>2. UpsertedID(rate) \in DOMAIN quotes
    BY <2>1 DEF Duplicates
  <2>3. QED
    BY <1>2, <2>1, <2>2 DEF UpsertedQuotes, Duplicates
<1>3. QED
  BY <1>1, <1>2

\* With StoreInv, LatestID returns the latest quote of a pair that has one.
LEMMA LatestIDFacts ==
  ASSUME LatestExists, NEW p \in Pairs, QuotesOf(p) # {}
  PROVE  IsLatest(LatestID(p), p)
BY DEF LatestExists, LatestID, IsLatest

-----------------------------------------------------------------------------
(* Appending to the journal keeps what StoreInv says of it.                *)

\* The journal after rate was appended to it at position new.
Appended(rate, new) ==
  /\ DOMAIN quotes' = DOMAIN quotes \cup {new}
  /\ \A i \in DOMAIN quotes : quotes'[i] = quotes[i] /\ i < new
  /\ quotes'[new] = rate
  /\ \A p \in Pairs : QuotesOf(p)' = IF p = rate.pair THEN QuotesOf(p) \cup {new}
                                                     ELSE QuotesOf(p)

\* Appending a rate leaves the old rows where they were, and adds the new one
\* to the quotes of its pair alone.
LEMMA AppendFacts ==
  ASSUME quotes \in Seq(Quote), NEW rate \in Quote, quotes' = Append(quotes, rate)
  PROVE  Appended(rate, Len(quotes) + 1)
<1>1. /\ DOMAIN quotes' = DOMAIN quotes \cup {Len(quotes) + 1}
      /\ \A i \in DOMAIN quotes : quotes'[i] = quotes[i] /\ i < Len(quotes) + 1
      /\ quotes'[Len(quotes) + 1] = rate
  OBVIOUS
<1>2. QED
  BY <1>1 DEF QuotesOf, Appended

\* JournalUnique survives an append of a rate without duplicates.
LEMMA AppendUnique ==
  ASSUME JournalUnique, NEW rate \in Quote, NEW new \in Nat,
         Duplicates(rate) = {}, Appended(rate, new)
  PROVE  JournalUnique'
<1>1. \A i \in DOMAIN quotes : ~(/\ quotes[i].provider = rate.provider
                                 /\ quotes[i].pair     = rate.pair
                                 /\ quotes[i].quotedAt = rate.quotedAt)
  BY DEF Duplicates
<1>2. QED
  BY <1>1 DEF JournalUnique, Appended

\* Every journal row is a quote, at a natural position.
LEMMA JournalTypes ==
  ASSUME TypeOK
  PROVE  \A i \in DOMAIN quotes : /\ quotes[i] \in Quote
                                  /\ quotes[i].quotedAt \in Nat
                                  /\ i \in Nat \ {0}
<1>1. quotes \in Seq(Quote)
  BY DEF TypeOK
<1>2. \A i \in DOMAIN quotes : quotes[i] \in Quote /\ i \in Nat \ {0}
  BY <1>1
<1>3. Times \subseteq Nat
  BY StoreAssumption DEF StoreAssumption
<1>4. QED
  BY <1>2, <1>3 DEF Quote

\* Order of the latest quote in terms of the two columns GetLatestQuote sorts.
LEMMA LatestBounds ==
  ASSUME TypeOK, NEW p \in Pairs, NEW i \in QuotesOf(p), IsLatest(i, p)
  PROVE  \A j \in QuotesOf(p) : quotes[j].quotedAt <= quotes[i].quotedAt
<1>1. \A j \in QuotesOf(p) : quotes[j].quotedAt \in Nat
  BY JournalTypes DEF QuotesOf
<1>2. QED
  BY <1>1 DEF IsLatest

\* LatestExists survives any append: the newcomer or the old one is latest.
LEMMA AppendLatest ==
  ASSUME TypeOK, LatestExists, NEW rate \in Quote, NEW new \in Nat,
         Appended(rate, new)
  PROVE  LatestExists'
<1>1. SUFFICES ASSUME NEW p \in Pairs, (QuotesOf(p) # {})'
               PROVE  (\E i \in QuotesOf(p) : IsLatest(i, p))'
  BY DEF LatestExists
<1>t. \A i \in DOMAIN quotes : quotes[i].quotedAt \in Nat /\ i \in Nat
  BY JournalTypes
<1>r. rate.quotedAt \in Nat
  BY StoreAssumption DEF StoreAssumption, Quote
<1>d. QuotesOf(p) \subseteq DOMAIN quotes
  BY DEF QuotesOf
<1>2. CASE p # rate.pair
  <2>1. QuotesOf(p)' = QuotesOf(p)
    BY <1>2 DEF Appended
  <2>2. PICK i \in QuotesOf(p) : IsLatest(i, p)
    BY <1>1, <2>1 DEF LatestExists
  <2>3. IsLatest(i, p)'
    BY <2>1, <2>2, <1>d DEF IsLatest, Appended
  <2>4. QED
    BY <2>1, <2>3
<1>3. CASE p = rate.pair /\ QuotesOf(p) = {}
  <2>1. QuotesOf(p)' = {new}
    BY <1>3 DEF Appended
  <2>2. IsLatest(new, p)'
    BY <2>1, <1>r DEF IsLatest, Appended
  <2>3. QED
    BY <2>1, <2>2
<1>4. CASE p = rate.pair /\ QuotesOf(p) # {}
  <2>1. QuotesOf(p)' = QuotesOf(p) \cup {new}
    BY <1>4 DEF Appended
  <2>2. PICK i \in QuotesOf(p) : IsLatest(i, p)
    BY <1>4 DEF LatestExists
  <2>3. /\ quotes'[new].quotedAt = rate.quotedAt
        /\ \A j \in QuotesOf(p) : quotes'[j].quotedAt = quotes[j].quotedAt /\ j < new
    BY <1>d DEF Appended
  <2>4. CASE quotes[i].quotedAt <= rate.quotedAt
    <3>1. \A j \in QuotesOf(p) : quotes[j].quotedAt <= quotes[i].quotedAt
      BY <2>2, LatestBounds
    <3>2. \A j \in QuotesOf(p)' : \/ quotes'[j].quotedAt < quotes'[new].quotedAt
                                  \/ quotes'[j].quotedAt = quotes'[new].quotedAt /\ j <= new
      BY <2>1, <2>3, <2>4, <3>1, <1>t, <1>r, <1>d
    <3>3. IsLatest(new, p)'
      BY <2>1, <3>2 DEF IsLatest
    <3>4. QED
      BY <2>1, <3>3
  <2>5. CASE ~(quotes[i].quotedAt <= rate.quotedAt)
    <3>1. \A j \in QuotesOf(p)' : \/ quotes'[j].quotedAt < quotes'[i].quotedAt
                                  \/ quotes'[j].quotedAt = quotes'[i].quotedAt /\ j <= i
      BY <2>1, <2>2, <2>3, <2>5, <1>t, <1>r, <1>d DEF IsLatest
    <3>2. IsLatest(i, p)'
      BY <2>1, <3>1 DEF IsLatest
    <3>3. QED
      BY <2>1, <3>2
  <2>6. QED
    BY <2>4, <2>5
<1>5. QED
  BY <1>2, <1>3, <1>4

-----------------------------------------------------------------------------
(* Each statement of the repository keeps StoreInv.                        *)

\* What StoreInv says of one row, given the journal q.
RowOK(row, q) ==
  /\ row \in Row
  /\ row.status = StatusSucceeded <=> row.quoteID # 0
  /\ row.quoteID # 0 => row.quoteID \in DOMAIN q /\ q[row.quoteID].pair = row.pair
  /\ row.reused => row.quoteID # 0
  /\ row.status = StatusFailed => row.errorCode # NoError
  /\ row.status = StatusSucceeded => row.errorCode = NoError
  /\ row.status = StatusPending => (row.attempts > 0 <=> row.errorCode # NoError)
  /\ row.status = StatusInProgress => row.attempts > 0

\* StoreInv, row by row.
LEMMA StoreInvByRow ==
  StoreInv <=> /\ DOMAIN updates \subseteq UpdateIDs
               /\ updates \in [DOMAIN updates -> Row]
               /\ quotes \in Seq(Quote)
               /\ \A u \in DOMAIN updates : RowOK(updates[u], quotes)
               /\ JournalUnique
               /\ LatestExists
BY DEF StoreInv, TypeOK, ResultLinked, ErrorExplains, ClaimedPaid, RowOK

\* The same split for the state after a step.
LEMMA StoreInvByRowPrimed ==
  StoreInv' <=> /\ DOMAIN updates' \subseteq UpdateIDs
                /\ updates' \in [DOMAIN updates' -> Row]
                /\ quotes' \in Seq(Quote)
                /\ \A u \in DOMAIN updates' : RowOK(updates'[u], quotes')
                /\ JournalUnique'
                /\ LatestExists'
BY DEF StoreInv, TypeOK, ResultLinked, ErrorExplains, ClaimedPaid, RowOK

\* The journal's part of StoreInv depends on the journal alone.
LEMMA JournalUntouched ==
  ASSUME JournalUnique, LatestExists, UNCHANGED quotes
  PROVE  JournalUnique' /\ LatestExists'
BY DEF JournalUnique, LatestExists, IsLatest, QuotesOf

\* Inserting a request adds one pending row and leaves the others alone.
LEMMA CreateKeepsInv ==
  ASSUME StoreInv, NEW u \in UpdateIDs, NEW p \in Pairs,
         NEW k \in Keys \cup {NoKey}, NEW now \in Nat,
         CreateUpdateRequest(u, p, k, now)
  PROVE  StoreInv'
<1> DEFINE row == NewUpdateRequest(p, k, now)
<1>1. row \in Row /\ RowOK(row, quotes)
  <2>1. MaxInt \in Nat
    BY StoreAssumption DEF StoreAssumption
  <2>2. QED
    BY <2>1 DEF NewUpdateRequest, Row, RowOK, Statuses, StatusPending, StatusInProgress,
           StatusSucceeded, StatusFailed
<1>2. /\ DOMAIN updates' = DOMAIN updates \cup {u}
      /\ \A v \in DOMAIN updates' : updates'[v] = IF v = u THEN row ELSE updates[v]
      /\ updates' = [v \in DOMAIN updates' |-> updates'[v]]
      /\ UNCHANGED quotes
  BY DEF CreateUpdateRequest
<1>3. /\ DOMAIN updates \subseteq UpdateIDs
      /\ updates \in [DOMAIN updates -> Row]
      /\ quotes \in Seq(Quote)
      /\ \A v \in DOMAIN updates : RowOK(updates[v], quotes)
      /\ JournalUnique
      /\ LatestExists
  BY StoreInvByRow
<1>4. JournalUnique' /\ LatestExists'
  BY <1>2, <1>3, JournalUntouched
<1>5. \A v \in DOMAIN updates' : updates'[v] \in Row /\ RowOK(updates'[v], quotes')
  BY <1>1, <1>2, <1>3
<1>6. updates' \in [DOMAIN updates' -> Row]
  BY <1>2, <1>5
<1>7. QED
  BY <1>2, <1>3, <1>4, <1>5, <1>6, StoreInvByRowPrimed

\* A claim locks due rows, which pay an attempt, and stuck rows, which have
\* paid; it touches no result column.
LEMMA ClaimKeepsInv ==
  ASSUME StoreInv, NEW S, NEW skipped, NEW now \in Nat, ClaimBatch(S, skipped, now)
  PROVE  StoreInv'
<1>1. /\ updates' = [u \in DOMAIN updates |->
                       IF u \in S THEN ClaimedRow(updates[u], now) ELSE updates[u]]
      /\ \A u \in S : ClaimedRow(updates[u], now).attempts <= MaxInt
      /\ UNCHANGED quotes
  BY DEF ClaimBatch
<1>2. \A u \in S : /\ u \in DOMAIN updates
                   /\ updates[u].status \in {StatusPending, StatusInProgress}
  BY DEF ClaimBatch, ClaimSelects, Limited, Due, Stuck
<1>3. /\ DOMAIN updates \subseteq UpdateIDs
      /\ updates \in [DOMAIN updates -> Row]
      /\ quotes \in Seq(Quote)
      /\ \A u \in DOMAIN updates : RowOK(updates[u], quotes)
      /\ JournalUnique
      /\ LatestExists
  BY StoreInvByRow
<1>4. JournalUnique' /\ LatestExists'
  BY <1>1, <1>3, JournalUntouched
<1>5. ASSUME NEW u \in DOMAIN updates
      PROVE  updates'[u] \in Row /\ RowOK(updates'[u], quotes)
  <2>1. CASE u \notin S
    BY <2>1, <1>1, <1>3
  <2>2. CASE u \in S
    <3> DEFINE row == updates[u]
    <3>1. row \in Row /\ RowOK(row, quotes)
      BY <1>3
    <3>2. updates'[u] = ClaimedRow(row, now)
      BY <2>2, <1>1
    <3>3. ClaimedRow(row, now).attempts <= MaxInt
      BY <2>2, <1>1
    <3>4. /\ ClaimedRow(row, now) \in Row
          /\ ClaimedRow(row, now).status = StatusInProgress
          /\ ClaimedRow(row, now).quoteID = row.quoteID
          /\ ClaimedRow(row, now).reused = row.reused
          /\ ClaimedRow(row, now).pair = row.pair
          /\ row.status = StatusPending => ClaimedRow(row, now).attempts > 0
          /\ row.status # StatusPending => ClaimedRow(row, now).attempts = row.attempts
      BY <3>1, <3>3, ClaimedRowFacts
    <3>5. row.status \in {StatusPending, StatusInProgress}
      BY <2>2, <1>2
    <3>6. RowOK(ClaimedRow(row, now), quotes)
      BY <3>1, <3>4, <3>5
      DEF RowOK, StatusPending, StatusInProgress, StatusSucceeded, StatusFailed
    <3>7. QED
      BY <3>2, <3>4, <3>6
  <2>3. QED
    BY <2>1, <2>2
<1>6. DOMAIN updates' = DOMAIN updates /\ updates' \in [DOMAIN updates' -> Row]
  BY <1>1, <1>5
<1>7. QED
  BY <1>1, <1>3, <1>4, <1>5, <1>6, StoreInvByRowPrimed

\* Rows survive a journal that only grows.
LEMMA GrowingJournal ==
  ASSUME NEW row \in Row, NEW q, NEW r, RowOK(row, q), DOMAIN q \subseteq DOMAIN r,
         \A i \in DOMAIN q : r[i] = q[i]
  PROVE  RowOK(row, r)
BY DEF RowOK

\* A success writes the journal and the row in one transaction, so the row
\* points at a journal row of its own pair.
LEMMA SucceedKeepsInv ==
  ASSUME StoreInv, NEW u, NEW rate \in Quote, CompleteSuccess(u, rate),
         rate.pair = updates[u].pair
  PROVE  StoreInv'
<1>1. /\ u \in DOMAIN updates
      /\ quotes' = UpsertedQuotes(rate)
      /\ updates' = [updates EXCEPT ![u] = SucceededRow(updates[u], UpsertedID(rate), FALSE)]
  BY DEF CompleteSuccess, IsInProgress
<1>2. /\ DOMAIN updates \subseteq UpdateIDs
      /\ updates \in [DOMAIN updates -> Row]
      /\ quotes \in Seq(Quote)
      /\ \A v \in DOMAIN updates : RowOK(updates[v], quotes)
      /\ JournalUnique
      /\ LatestExists
  BY StoreInvByRow
<1>3. TypeOK
  BY DEF StoreInv
<1>4. /\ quotes' \in Seq(Quote)
      /\ DOMAIN quotes \subseteq DOMAIN quotes'
      /\ \A i \in DOMAIN quotes : quotes'[i] = quotes[i]
      /\ JournalUnique' /\ LatestExists'
  <2>1. CASE quotes' = quotes
    BY <2>1, <1>2, JournalUntouched
  <2>2. CASE Duplicates(rate) = {} /\ quotes' = Append(quotes, rate)
    <3>1. Appended(rate, Len(quotes) + 1) /\ Len(quotes) + 1 \in Nat
      BY <2>2, <1>2, AppendFacts
    <3>2. JournalUnique' /\ LatestExists'
      BY <3>1, <2>2, <1>2, <1>3, AppendUnique, AppendLatest
    <3>3. /\ DOMAIN quotes \subseteq DOMAIN quotes'
          /\ \A i \in DOMAIN quotes : quotes'[i] = quotes[i]
      BY <3>1 DEF Appended
    <3>4. quotes' \in Seq(Quote)
      BY <1>1, <1>2, UpsertFacts
    <3>5. QED
      BY <3>2, <3>3, <3>4
  <2>3. QED
    BY <1>1, <1>2, <2>1, <2>2, UpsertFacts
<1>5. /\ UpsertedID(rate) \in Nat \ {0}
      /\ UpsertedID(rate) \in DOMAIN quotes'
      /\ quotes'[UpsertedID(rate)].pair = updates[u].pair
  BY <1>1, <1>2, UpsertFacts
<1> DEFINE row == SucceededRow(updates[u], UpsertedID(rate), FALSE)
<1>6. row \in Row /\ RowOK(row, quotes')
  <2>1. updates[u] \in Row
    BY <1>1, <1>2
  <2>2. /\ row \in Row
        /\ row.status = StatusSucceeded
        /\ row.quoteID = UpsertedID(rate)
        /\ row.pair = updates[u].pair
        /\ row.errorCode = NoError
    BY <2>1, <1>5, SucceededRowFacts
  <2>3. QED
    BY <2>2, <1>5
    DEF RowOK, StatusPending, StatusInProgress, StatusSucceeded, StatusFailed
<1>7. \A v \in DOMAIN updates : RowOK(updates[v], quotes')
  BY <1>2, <1>4, GrowingJournal
<1>8. /\ DOMAIN updates' = DOMAIN updates
      /\ \A v \in DOMAIN updates : updates'[v] \in Row /\ RowOK(updates'[v], quotes')
  BY <1>1, <1>2, <1>6, <1>7
<1>9. updates' \in [DOMAIN updates' -> Row]
  BY <1>1, <1>2, <1>6
<1>10. QED
  BY <1>2, <1>4, <1>8, <1>9, StoreInvByRowPrimed

\* A reuse points the row at a journal row that is there already.
LEMMA ReuseKeepsInv ==
  ASSUME StoreInv, NEW u, NEW q \in QuotesOf(updates[u].pair),
         CompleteSuccessReuse(u, q)
  PROVE  StoreInv'
<1>1. /\ u \in DOMAIN updates
      /\ updates' = [updates EXCEPT ![u] = SucceededRow(updates[u], q, TRUE)]
      /\ UNCHANGED quotes
  BY DEF CompleteSuccessReuse, IsInProgress
<1>2. /\ DOMAIN updates \subseteq UpdateIDs
      /\ updates \in [DOMAIN updates -> Row]
      /\ quotes \in Seq(Quote)
      /\ \A v \in DOMAIN updates : RowOK(updates[v], quotes)
      /\ JournalUnique
      /\ LatestExists
  BY StoreInvByRow
<1>3. q \in DOMAIN quotes /\ q \in Nat \ {0} /\ quotes[q].pair = updates[u].pair
  BY <1>2 DEF QuotesOf
<1> DEFINE row == SucceededRow(updates[u], q, TRUE)
<1>4. row \in Row /\ RowOK(row, quotes)
  <2>1. updates[u] \in Row
    BY <1>1, <1>2
  <2>2. /\ row \in Row
        /\ row.status = StatusSucceeded
        /\ row.quoteID = q
        /\ row.pair = updates[u].pair
        /\ row.errorCode = NoError
    BY <2>1, <1>3, SucceededRowFacts
  <2>3. QED
    BY <2>2, <1>3
    DEF RowOK, StatusPending, StatusInProgress, StatusSucceeded, StatusFailed
<1>5. /\ DOMAIN updates' = DOMAIN updates
      /\ \A v \in DOMAIN updates : updates'[v] \in Row /\ RowOK(updates'[v], quotes')
  BY <1>1, <1>2, <1>4
<1>6. updates' \in [DOMAIN updates' -> Row]
  BY <1>1, <1>2, <1>4
<1>7. JournalUnique' /\ LatestExists'
  BY <1>1, <1>2, JournalUntouched
<1>8. QED
  BY <1>1, <1>2, <1>5, <1>6, <1>7, StoreInvByRowPrimed

\* A failure says why, and ends the row or hands it back.
LEMMA FailKeepsInv ==
  ASSUME StoreInv, NEW u, NEW code \in ErrorCodes, NEW retryable \in BOOLEAN,
         NEW t \in Nat, CompleteFailure(u, code, retryable, t)
  PROVE  StoreInv'
<1>1. /\ u \in DOMAIN updates
      /\ updates[u].status = StatusInProgress
      /\ updates' = [updates EXCEPT ![u] = FailedRow(updates[u], code, retryable, t)]
      /\ UNCHANGED quotes
  BY DEF CompleteFailure, IsInProgress
<1>2. /\ DOMAIN updates \subseteq UpdateIDs
      /\ updates \in [DOMAIN updates -> Row]
      /\ quotes \in Seq(Quote)
      /\ \A v \in DOMAIN updates : RowOK(updates[v], quotes)
      /\ JournalUnique
      /\ LatestExists
  BY StoreInvByRow
<1> DEFINE row == FailedRow(updates[u], code, retryable, t)
<1>3. row \in Row /\ RowOK(row, quotes)
  <2>1. updates[u] \in Row /\ RowOK(updates[u], quotes)
    BY <1>1, <1>2
  <2>2. /\ row \in Row
        /\ row.status = IF retryable THEN StatusPending ELSE StatusFailed
        /\ row.quoteID = updates[u].quoteID
        /\ row.reused = updates[u].reused
        /\ row.pair = updates[u].pair
        /\ row.attempts = updates[u].attempts
        /\ row.errorCode = code
        /\ code # NoError
    BY <2>1, FailedRowFacts
  <2>3. QED
    BY <2>1, <2>2, <1>1
    DEF RowOK, StatusPending, StatusInProgress, StatusSucceeded, StatusFailed
<1>4. /\ DOMAIN updates' = DOMAIN updates
      /\ \A v \in DOMAIN updates : updates'[v] \in Row /\ RowOK(updates'[v], quotes')
  BY <1>1, <1>2, <1>3
<1>5. updates' \in [DOMAIN updates' -> Row]
  BY <1>1, <1>2, <1>3
<1>6. JournalUnique' /\ LatestExists'
  BY <1>1, <1>2, JournalUntouched
<1>7. QED
  BY <1>1, <1>2, <1>4, <1>5, <1>6, StoreInvByRowPrimed

-----------------------------------------------------------------------------
(* The invariant.                                                          *)

\* The empty tables satisfy every part.
LEMMA InitInv == StoreInit => StoreInv
<1> SUFFICES ASSUME StoreInit PROVE StoreInv
  OBVIOUS
<1>1. DOMAIN updates = {} /\ updates \in [DOMAIN updates -> Row]
  BY DEF StoreInit
<1>2. quotes \in Seq(Quote) /\ DOMAIN quotes = {}
  BY DEF StoreInit
<1>3. QED
  BY <1>1, <1>2 DEF StoreInv, TypeOK, ResultLinked, ErrorExplains, ClaimedPaid,
                    JournalUnique, LatestExists, QuotesOf

\* Every statement of the repository keeps the invariant.
LEMMA NextKeepsInv == StoreInv /\ [StoreNext]_storeVars => StoreInv'
<1> SUFFICES ASSUME StoreInv, [StoreNext]_storeVars PROVE StoreInv'
  OBVIOUS
<1>t. Times \subseteq Nat
  BY StoreAssumption DEF StoreAssumption
<1>1. CASE Create
  BY <1>1, <1>t, CreateKeepsInv DEF Create
<1>2. CASE Claim
  BY <1>2, <1>t, ClaimKeepsInv DEF Claim
<1>3. CASE Succeed
  <2>1. PICK u \in DOMAIN updates, provider \in Providers, quotedAt \in Times,
             staleAfter \in Times :
               CompleteSuccess(u, [pair |-> updates[u].pair, provider |-> provider,
                                   quotedAt |-> quotedAt, staleAfter |-> staleAfter])
    BY <1>3 DEF Succeed
  <2> DEFINE rate == [pair |-> updates[u].pair, provider |-> provider,
                      quotedAt |-> quotedAt, staleAfter |-> staleAfter]
  <2>2. updates[u].pair \in Pairs
    BY DEF StoreInv, TypeOK, Row
  <2>3. rate \in Quote /\ rate.pair = updates[u].pair
    BY <2>2, <1>t DEF Quote
  <2>4. QED
    BY <2>1, <2>3, SucceedKeepsInv
<1>4. CASE SucceedReuse
  BY <1>4, ReuseKeepsInv DEF SucceedReuse
<1>5. CASE Fail
  BY <1>5, <1>t, FailKeepsInv DEF Fail
<1>6. CASE UNCHANGED storeVars
  BY <1>6 DEF storeVars, StoreInv, TypeOK, ResultLinked, ErrorExplains, ClaimedPaid,
              JournalUnique, LatestExists, IsLatest, QuotesOf
<1>7. QED
  BY <1>1, <1>2, <1>3, <1>4, <1>5, <1>6 DEF StoreNext

\* Whatever the replicas' workers do, and however often they repeat or lose
\* it, the tables keep their types, every succeeded row is joined to a quote
\* of its own pair, the error column explains the row, and the journal holds
\* a price once.
THEOREM StoreInvariant == StoreSpec => []StoreInv
<1>1. StoreInit => StoreInv
  BY InitInv
<1>2. StoreInv /\ [StoreNext]_storeVars => StoreInv'
  BY NextKeepsInv
<1>3. QED
  BY <1>1, <1>2, PTL DEF StoreSpec

\* The type invariant of the tables.
THEOREM TypeCorrect == StoreSpec => []TypeOK
BY StoreInvariant, PTL DEF StoreInv

\* A succeeded row, and only a succeeded row, has a quote of its own pair.
THEOREM ResultsLinked == StoreSpec => []ResultLinked
BY StoreInvariant, PTL DEF StoreInv

\* The error column explains a failed, a retried and a succeeded row.
THEOREM ErrorsExplain == StoreSpec => []ErrorExplains
BY StoreInvariant, PTL DEF StoreInv

\* The journal holds each upstream quote once.
THEOREM JournalHasNoDuplicates == StoreSpec => []JournalUnique
BY StoreInvariant, PTL DEF StoreInv

-----------------------------------------------------------------------------
(* The status machine.                                                     *)

\* Every statement changes a status only along an edge of CanTransitionTo: the
\* queue selects pending and in_progress rows, the completions in_progress ones.
LEMMA StepLegal ==
  ASSUME StoreInv, [StoreNext]_storeVars, NEW u \in DOMAIN updates,
         updates'[u].status # updates[u].status
  PROVE  CanTransitionTo(updates[u].status, updates'[u].status)
<1>r. updates[u] \in Row
  BY DEF StoreInv, TypeOK
<1>t. Times \subseteq Nat
  BY StoreAssumption DEF StoreAssumption
<1>1. CASE Create
  BY <1>1 DEF Create, CreateUpdateRequest
<1>2. CASE Claim
  <2>1. PICK now \in Times, skipped \in SUBSET DOMAIN updates,
             S \in SUBSET DOMAIN updates : ClaimBatch(S, skipped, now)
    BY <1>2 DEF Claim
  <2>2. updates'[u] = IF u \in S THEN ClaimedRow(updates[u], now) ELSE updates[u]
    BY <2>1 DEF ClaimBatch
  <2>3. u \in S => /\ updates[u].status \in {StatusPending, StatusInProgress}
                   /\ ClaimedRow(updates[u], now).attempts <= MaxInt
    BY <2>1 DEF ClaimBatch, ClaimSelects, Limited, Due, Stuck
  <2>4. u \in S => ClaimedRow(updates[u], now).status = StatusInProgress
    BY <2>3, <1>r, <1>t, ClaimedRowFacts
  <2>5. QED
    BY <2>2, <2>3, <2>4 DEF CanTransitionTo
<1>3. CASE Succeed \/ SucceedReuse
  <2>1. PICK v \in DOMAIN updates, q \in Nat, reused \in BOOLEAN :
               /\ updates[v].status = StatusInProgress
               /\ updates' = [updates EXCEPT ![v] = SucceededRow(updates[v], q, reused)]
    <3>1. CASE Succeed
      <4>1. PICK v \in DOMAIN updates, rate \in Quote : CompleteSuccess(v, rate)
        <5>1. updates \in [DOMAIN updates -> Row]
          BY DEF StoreInv, TypeOK
        <5>2. QED
          BY <3>1, <5>1, <1>t DEF Succeed, Quote, Row
      <4>2. quotes \in Seq(Quote)
        BY DEF StoreInv, TypeOK
      <4>3. UpsertedID(rate) \in Nat
        BY <4>1, <4>2, UpsertFacts
      <4>4. QED
        BY <4>1, <4>3 DEF CompleteSuccess, IsInProgress
    <3>2. CASE SucceedReuse
      <4>1. PICK v \in DOMAIN updates, q \in DOMAIN quotes : CompleteSuccessReuse(v, q)
        BY <3>2 DEF SucceedReuse, QuotesOf
      <4>2. q \in Nat
        BY <4>1, JournalTypes DEF StoreInv
      <4>3. QED
        BY <4>1, <4>2 DEF CompleteSuccessReuse, IsInProgress
    <3>3. QED
      BY <1>3, <3>1, <3>2
  <2>2. updates[v] \in Row
    BY DEF StoreInv, TypeOK
  <2>3. SucceededRow(updates[v], q, reused).status = StatusSucceeded
    BY <2>2, SucceededRowFacts
  <2>4. QED
    BY <2>1, <2>3 DEF CanTransitionTo
<1>4. CASE Fail
  <2>1. PICK v \in DOMAIN updates, code \in ErrorCodes, retryable \in BOOLEAN,
             t \in Times : CompleteFailure(v, code, retryable, t)
    BY <1>4 DEF Fail
  <2>2. updates[v] \in Row
    BY DEF StoreInv, TypeOK
  <2>3. FailedRow(updates[v], code, retryable, t).status \in {StatusPending, StatusFailed}
    BY <2>2, <1>t, FailedRowFacts
  <2>4. QED
    BY <2>1, <2>3 DEF CompleteFailure, IsInProgress, CanTransitionTo
<1>5. CASE UNCHANGED storeVars
  BY <1>5 DEF storeVars
<1>6. QED
  BY <1>1, <1>2, <1>3, <1>4, <1>5 DEF StoreNext

\* No SQL statement takes a row along an edge the domain does not have; in
\* particular a terminal row stays what it is.
THEOREM OnlyLegalTransitions == StoreSpec => TransitionsLegal
<1>1. StoreInv /\ [StoreNext]_storeVars =>
        [\A u \in DOMAIN updates :
           updates'[u].status # updates[u].status =>
             CanTransitionTo(updates[u].status, updates'[u].status)]_storeVars
  BY StepLegal
<1>2. QED
  BY <1>1, StoreInvariant, PTL DEF StoreSpec, TransitionsLegal

-----------------------------------------------------------------------------
(* The tables implement the promise.                                       *)

\* quoted_at of a pair's latest quote bounds that of every quote of the pair.
LEMMA LatestIsMax ==
  ASSUME StoreInv, NEW p \in Pairs
  PROVE  /\ LatestQuotedAt(p) \in Nat
         /\ \A i \in QuotesOf(p) : quotes[i].quotedAt <= LatestQuotedAt(p)
         /\ QuotesOf(p) # {} => \E i \in QuotesOf(p) : quotes[i].quotedAt = LatestQuotedAt(p)
<1>1. CASE QuotesOf(p) = {}
  BY <1>1 DEF LatestQuotedAt
<1>2. CASE QuotesOf(p) # {}
  <2>1. IsLatest(LatestID(p), p)
    BY <1>2, LatestIDFacts DEF StoreInv
  <2>2. LatestID(p) \in QuotesOf(p)
    BY <2>1 DEF IsLatest
  <2>3. \A i \in QuotesOf(p) : quotes[i].quotedAt <= quotes[LatestID(p)].quotedAt
    BY <2>1, <2>2, LatestBounds DEF StoreInv
  <2>4. quotes[LatestID(p)].quotedAt \in Nat
    BY <2>2, JournalTypes DEF StoreInv, QuotesOf
  <2>5. QED
    BY <1>2, <2>2, <2>3, <2>4 DEF LatestQuotedAt
<1>3. QED
  BY <1>1, <1>2

\* The same in the state after a step.
LEMMA LatestIsMaxPrimed ==
  ASSUME StoreInv', NEW p \in Pairs
  PROVE  /\ LatestQuotedAt(p)' \in Nat
         /\ \A i \in QuotesOf(p)' : quotes'[i].quotedAt <= LatestQuotedAt(p)'
         /\ QuotesOf(p)' # {} => \E i \in QuotesOf(p)' : quotes'[i].quotedAt = LatestQuotedAt(p)'
<1>1. (StoreInv => /\ LatestQuotedAt(p) \in Nat
                   /\ \A i \in QuotesOf(p) : quotes[i].quotedAt <= LatestQuotedAt(p)
                   /\ QuotesOf(p) # {} => \E i \in QuotesOf(p) :
                                            quotes[i].quotedAt = LatestQuotedAt(p))'
  BY LatestIsMax, PTL
<1>2. QED
  BY <1>1

\* Appending moves the latest quote of the pair forward or leaves it, and
\* leaves every other pair's alone.
LEMMA AppendMovesLatest ==
  ASSUME StoreInv, StoreInv', NEW rate \in Quote, NEW new \in Nat,
         Appended(rate, new), NEW p \in Pairs
  PROVE  LatestQuotedAt(p)' = IF p = rate.pair
                                THEN Promise!Later(LatestQuotedAt(p), rate.quotedAt)
                                ELSE LatestQuotedAt(p)
<1>1. /\ LatestQuotedAt(p) \in Nat
      /\ \A i \in QuotesOf(p) : quotes[i].quotedAt <= LatestQuotedAt(p)
      /\ QuotesOf(p) # {} => \E i \in QuotesOf(p) : quotes[i].quotedAt = LatestQuotedAt(p)
  BY LatestIsMax
<1>2. /\ LatestQuotedAt(p)' \in Nat
      /\ \A i \in QuotesOf(p)' : quotes'[i].quotedAt <= LatestQuotedAt(p)'
      /\ QuotesOf(p)' # {} => \E i \in QuotesOf(p)' : quotes'[i].quotedAt = LatestQuotedAt(p)'
  BY LatestIsMaxPrimed
<1>3. \A i \in QuotesOf(p) : quotes'[i].quotedAt = quotes[i].quotedAt
  BY DEF QuotesOf, Appended
<1>4. rate.quotedAt \in Nat /\ quotes'[new].quotedAt = rate.quotedAt
  BY StoreAssumption DEF StoreAssumption, Quote, Appended
<1>5. CASE p # rate.pair
  <2>1. QuotesOf(p)' = QuotesOf(p)
    BY <1>5 DEF Appended
  <2>2. CASE QuotesOf(p) = {}
    BY <2>1, <2>2, <1>5 DEF LatestQuotedAt
  <2>3. CASE QuotesOf(p) # {}
    BY <2>1, <2>3, <1>1, <1>2, <1>3, <1>5
  <2>4. QED
    BY <2>2, <2>3
<1>6. CASE p = rate.pair
  <2>1. QuotesOf(p)' = QuotesOf(p) \cup {new}
    BY <1>6 DEF Appended
  <2>2. CASE QuotesOf(p) = {}
    <3>1. LatestQuotedAt(p) = 0
      BY <2>2 DEF LatestQuotedAt
    <3>2. LatestQuotedAt(p)' = rate.quotedAt
      BY <2>1, <2>2, <1>2, <1>4
    <3>3. QED
      BY <3>1, <3>2, <1>4, <1>6 DEF Promise!Later
  <2>3. CASE QuotesOf(p) # {}
    <3>1. /\ rate.quotedAt <= LatestQuotedAt(p)'
          /\ LatestQuotedAt(p) <= LatestQuotedAt(p)'
      BY <2>1, <2>3, <1>1, <1>2, <1>3, <1>4
    <3>2. LatestQuotedAt(p)' \in {rate.quotedAt} \/ LatestQuotedAt(p)' <= LatestQuotedAt(p)
      BY <2>1, <1>1, <1>2, <1>3, <1>4
    <3>3. QED
      BY <3>1, <3>2, <1>1, <1>2, <1>4, <1>6 DEF Promise!Later
  <2>4. QED
    BY <2>2, <2>3
<1>7. QED
  BY <1>5, <1>6

\* What a client sees of one row, given the journal q.
AnswerOf(row, q) ==
  IF row.status = StatusSucceeded
    THEN [kind |-> "quote", quote |-> q[row.quoteID]]
  ELSE IF row.status = StatusFailed
    THEN [kind |-> "error", code |-> row.errorCode]
  ELSE [kind |-> "open"]

LatestMap == [p \in Pairs |-> LatestQuotedAt(p)]

\* A step that leaves the journal alone leaves every latest quote alone.
LEMMA LatestUntouched ==
  ASSUME UNCHANGED quotes
  PROVE  LatestMap' = LatestMap
BY DEF LatestMap, LatestQuotedAt, LatestID, QuotesOf

\* An unfinished row has no answer, and a journal that only grows does not
\* change the answer of any row.
LEMMA AnswersKept ==
  ASSUME NEW row, NEW q, NEW r, RowOK(row, q), DOMAIN q \subseteq DOMAIN r,
         \A i \in DOMAIN q : r[i] = q[i]
  PROVE  /\ AnswerOf(row, r) = AnswerOf(row, q)
         /\ row.status \in {StatusPending, StatusInProgress} => AnswerOf(row, q) = Promise!Open
BY DEF RowOK, AnswerOf, Promise!Open, StatusPending, StatusInProgress, StatusSucceeded,
       StatusFailed

\* Inserting a request is the promise accepting it: its id and its key are new.
LEMMA CreateAccepts ==
  ASSUME StoreInv, NEW u \in UpdateIDs, NEW p \in Pairs, NEW k \in Keys \cup {NoKey},
         NEW now \in Nat, CreateUpdateRequest(u, p, k, now)
  PROVE  Promise!Accept(u, p, k)
<1> DEFINE row == NewUpdateRequest(p, k, now)
<1>1. /\ u \notin DOMAIN updates
      /\ ~KeyTaken(k)
      /\ updates' = [v \in DOMAIN updates \cup {u} |-> IF v = u THEN row ELSE updates[v]]
      /\ UNCHANGED quotes
  BY DEF CreateUpdateRequest
<1>2. /\ row.pair = p /\ row.key = k
      /\ row.status = StatusPending
  BY DEF NewUpdateRequest
<1>3. DOMAIN ClientRequest = DOMAIN updates /\ DOMAIN ClientAnswer = DOMAIN updates
  BY DEF ClientRequest, ClientAnswer
<1>4. k = NoKey \/ \A v \in DOMAIN ClientRequest : ClientRequest[v].key # k
  BY <1>1 DEF KeyTaken, ClientRequest
<1>5. ClientRequest' = [v \in DOMAIN ClientRequest \cup {u} |->
                          IF v = u THEN [pair |-> p, key |-> k] ELSE ClientRequest[v]]
  BY <1>1, <1>2, <1>3 DEF ClientRequest
<1>6. ClientAnswer' = [v \in DOMAIN ClientRequest \cup {u} |->
                         IF v = u THEN Promise!Open ELSE ClientAnswer[v]]
  BY <1>1, <1>2, <1>3 DEF ClientAnswer, Promise!Open, StatusPending, StatusSucceeded,
                          StatusFailed
<1>7. LatestMap' = LatestMap
  BY <1>1, LatestUntouched
<1>8. QED
  BY <1>1, <1>3, <1>4, <1>5, <1>6, <1>7 DEF Promise!Accept, LatestMap

\* A claim, a reclaim and a failure that will be retried are invisible.
LEMMA UnfinishedInvisible ==
  ASSUME StoreInv, UNCHANGED quotes, DOMAIN updates' = DOMAIN updates,
         \A u \in DOMAIN updates :
           \/ updates'[u] = updates[u]
           \/ /\ updates[u].status \in {StatusPending, StatusInProgress}
              /\ updates'[u].status \in {StatusPending, StatusInProgress}
              /\ updates'[u].pair = updates[u].pair
              /\ updates'[u].key = updates[u].key
  PROVE  UNCHANGED Promise!promiseVars
<1>1. ClientRequest' = ClientRequest
  BY DEF ClientRequest
<1>2. ClientAnswer' = ClientAnswer
  BY DEF ClientAnswer, StatusPending, StatusInProgress, StatusSucceeded, StatusFailed
<1>3. LatestMap' = LatestMap
  BY LatestUntouched
<1>4. QED
  BY <1>1, <1>2, <1>3 DEF Promise!promiseVars, LatestMap

\* Both kinds of success answer with the journal row the request points at.
LEMMA SuccessAnswers ==
  ASSUME StoreInv, StoreInv', NEW u \in DOMAIN updates, NEW row, NEW q \in DOMAIN quotes',
         updates[u].status = StatusInProgress,
         updates' = [updates EXCEPT ![u] = row],
         row.status = StatusSucceeded, row.quoteID = q,
         row.pair = updates[u].pair, row.key = updates[u].key,
         DOMAIN quotes \subseteq DOMAIN quotes',
         \A i \in DOMAIN quotes : quotes'[i] = quotes[i],
         quotes'[q].pair = updates[u].pair,
         LatestMap' = [LatestMap EXCEPT ![updates[u].pair] =
                         Promise!Later(LatestMap[updates[u].pair], quotes'[q].quotedAt)]
  PROVE  /\ Promise!AnswerQuote(u, quotes'[q].provider, quotes'[q].quotedAt,
                                quotes'[q].staleAfter)
         /\ quotes'[q].provider \in Providers
         /\ quotes'[q].quotedAt \in Times
         /\ quotes'[q].staleAfter \in Times
<1>1. \A v \in DOMAIN updates : RowOK(updates[v], quotes)
  BY StoreInvByRow
<1>2. quotes'[q] \in Quote
  <2>1. quotes' \in Seq(Quote)
    BY DEF StoreInv, TypeOK
  <2>2. QED
    BY <2>1
<1>3. /\ quotes'[q].provider \in Providers
      /\ quotes'[q].quotedAt \in Times
      /\ quotes'[q].staleAfter \in Times
  BY <1>2 DEF Quote
<1>4. quotes'[q] = [pair |-> updates[u].pair, provider |-> quotes'[q].provider,
                    quotedAt |-> quotes'[q].quotedAt, staleAfter |-> quotes'[q].staleAfter]
  BY <1>2 DEF Quote
<1>5. DOMAIN updates' = DOMAIN updates /\ updates'[u] = row
  BY DEF StoreInv, TypeOK
<1>6. \A v \in DOMAIN updates : v # u => updates'[v] = updates[v]
  BY DEF StoreInv, TypeOK
<1>7. ClientRequest' = ClientRequest /\ ClientRequest[u].pair = updates[u].pair
  BY <1>5, <1>6 DEF ClientRequest
<1>8. /\ ClientAnswer = [v \in DOMAIN updates |-> AnswerOf(updates[v], quotes)]
      /\ ClientAnswer' = [v \in DOMAIN updates' |-> AnswerOf(updates'[v], quotes')]
  BY DEF ClientAnswer, AnswerOf
<1>9. \A v \in DOMAIN updates : AnswerOf(updates[v], quotes') = AnswerOf(updates[v], quotes)
  BY <1>1, AnswersKept
<1>10. AnswerOf(row, quotes') = Promise!QuoteAnswer(updates[u].pair, quotes'[q].provider,
                                  quotes'[q].quotedAt, quotes'[q].staleAfter)
  BY <1>4 DEF AnswerOf, Promise!QuoteAnswer
<1>11. ClientAnswer[u] = Promise!Open
  BY <1>1, <1>8, AnswersKept
<1>12. ClientAnswer' = [ClientAnswer EXCEPT ![u] =
         Promise!QuoteAnswer(ClientRequest[u].pair, quotes'[q].provider,
                             quotes'[q].quotedAt, quotes'[q].staleAfter)]
  BY <1>5, <1>6, <1>7, <1>8, <1>9, <1>10
<1>13. QED
  BY <1>3, <1>7, <1>11, <1>12 DEF Promise!AnswerQuote, LatestMap

\* A fresh quote answers its request, whether it was inserted or was there.
LEMMA SucceedAnswers ==
  ASSUME StoreInv, StoreInv', NEW u \in DOMAIN updates, NEW rate \in Quote,
         rate.pair = updates[u].pair, CompleteSuccess(u, rate)
  PROVE  \E provider \in Providers, quotedAt, staleAfter \in Times :
           Promise!AnswerQuote(u, provider, quotedAt, staleAfter)
<1> DEFINE q == UpsertedID(rate)
           row == SucceededRow(updates[u], q, FALSE)
<1>1. /\ updates[u].status = StatusInProgress
      /\ quotes' = UpsertedQuotes(rate)
      /\ updates' = [updates EXCEPT ![u] = row]
  BY DEF CompleteSuccess, IsInProgress
<1>2. quotes \in Seq(Quote) /\ updates[u] \in Row
  BY DEF StoreInv, TypeOK
<1>3. /\ q \in Nat \ {0}
      /\ q \in DOMAIN quotes'
      /\ quotes'[q].pair = updates[u].pair
      /\ quotes'[q].quotedAt = rate.quotedAt
  BY <1>1, <1>2, UpsertFacts
<1>4. /\ row.status = StatusSucceeded
      /\ row.quoteID = q
      /\ row.pair = updates[u].pair
      /\ row.key = updates[u].key
  BY <1>2, <1>3, SucceededRowFacts
<1>5. rate.pair \in Pairs /\ rate.quotedAt \in Nat
  BY StoreAssumption DEF StoreAssumption, Quote
<1>6. /\ DOMAIN quotes \subseteq DOMAIN quotes'
      /\ \A i \in DOMAIN quotes : quotes'[i] = quotes[i]
      /\ \A p \in Pairs : LatestQuotedAt(p)' =
           IF p = rate.pair THEN Promise!Later(LatestQuotedAt(p), rate.quotedAt)
                            ELSE LatestQuotedAt(p)
  <2>1. CASE quotes' = quotes /\ q \in Duplicates(rate)
    <3>1. \A p \in Pairs : LatestQuotedAt(p)' = LatestQuotedAt(p)
      BY <2>1 DEF LatestQuotedAt, LatestID, QuotesOf
    <3>2. q \in QuotesOf(rate.pair) /\ quotes[q].quotedAt = rate.quotedAt
      BY <2>1 DEF Duplicates, QuotesOf
    <3>3. /\ rate.quotedAt <= LatestQuotedAt(rate.pair)
          /\ LatestQuotedAt(rate.pair) \in Nat
      BY <3>2, <1>5, LatestIsMax
    <3>4. Promise!Later(LatestQuotedAt(rate.pair), rate.quotedAt) = LatestQuotedAt(rate.pair)
      BY <3>3, <1>5 DEF Promise!Later
    <3>5. QED
      BY <2>1, <3>1, <3>4
  <2>2. CASE Duplicates(rate) = {} /\ quotes' = Append(quotes, rate)
    <3>1. PICK new \in Nat : Appended(rate, new)
      BY <2>2, <1>2, AppendFacts
    <3>2. QED
      BY <3>1, AppendMovesLatest DEF Appended
  <2>3. QED
    BY <1>1, <1>2, <2>1, <2>2, UpsertFacts
<1>7. LatestMap' = [LatestMap EXCEPT ![updates[u].pair] =
                      Promise!Later(LatestMap[updates[u].pair], quotes'[q].quotedAt)]
  BY <1>3, <1>5, <1>6 DEF LatestMap
<1>8. QED
  BY <1>1, <1>3, <1>4, <1>6, <1>7, SuccessAnswers

\* A reused quote answers its request.
LEMMA ReuseAnswers ==
  ASSUME StoreInv, StoreInv', NEW u \in DOMAIN updates,
         NEW q \in QuotesOf(updates[u].pair), CompleteSuccessReuse(u, q)
  PROVE  \E provider \in Providers, quotedAt, staleAfter \in Times :
           Promise!AnswerQuote(u, provider, quotedAt, staleAfter)
<1> DEFINE row == SucceededRow(updates[u], q, TRUE)
<1>1. /\ updates[u].status = StatusInProgress
      /\ UNCHANGED quotes
      /\ updates' = [updates EXCEPT ![u] = row]
  BY DEF CompleteSuccessReuse, IsInProgress
<1>2. updates[u] \in Row /\ updates[u].pair \in Pairs
  BY DEF StoreInv, TypeOK, Row
<1>3. q \in DOMAIN quotes /\ q \in Nat /\ quotes[q].pair = updates[u].pair
      /\ quotes[q].quotedAt \in Nat
  BY JournalTypes DEF StoreInv, QuotesOf
<1>4. /\ row.status = StatusSucceeded
      /\ row.quoteID = q
      /\ row.pair = updates[u].pair
      /\ row.key = updates[u].key
  BY <1>2, <1>3, SucceededRowFacts
<1>5. /\ quotes[q].quotedAt <= LatestQuotedAt(updates[u].pair)
      /\ LatestQuotedAt(updates[u].pair) \in Nat
  BY <1>2, LatestIsMax
<1>6. Promise!Later(LatestQuotedAt(updates[u].pair), quotes[q].quotedAt) =
        LatestQuotedAt(updates[u].pair)
  BY <1>3, <1>5 DEF Promise!Later
<1>7. LatestMap' = LatestMap
  BY <1>1, LatestUntouched
<1>8. LatestMap' = [LatestMap EXCEPT ![updates[u].pair] =
                      Promise!Later(LatestMap[updates[u].pair], quotes'[q].quotedAt)]
  BY <1>1, <1>2, <1>6, <1>7 DEF LatestMap
<1>9. QED
  BY <1>1, <1>3, <1>4, <1>8, SuccessAnswers

\* A failure that ends the row answers its request with the error; one that
\* hands it back answers nothing.
LEMMA FailAnswers ==
  ASSUME StoreInv, NEW u \in DOMAIN updates, NEW code \in ErrorCodes, NEW retryable \in BOOLEAN,
         NEW t \in Nat, CompleteFailure(u, code, retryable, t)
  PROVE  UNCHANGED Promise!promiseVars \/ Promise!AnswerError(u, code)
<1> DEFINE row == FailedRow(updates[u], code, retryable, t)
<1>1. /\ updates[u].status = StatusInProgress
      /\ UNCHANGED quotes
      /\ updates' = [updates EXCEPT ![u] = row]
  BY DEF CompleteFailure, IsInProgress
<1>2. updates \in [DOMAIN updates -> Row]
  BY DEF StoreInv, TypeOK
<1>3. /\ row.status = IF retryable THEN StatusPending ELSE StatusFailed
      /\ row.pair = updates[u].pair /\ row.key = updates[u].key
      /\ row.errorCode = code
  BY <1>2, FailedRowFacts
<1>4. /\ DOMAIN updates' = DOMAIN updates /\ updates'[u] = row
      /\ \A v \in DOMAIN updates : v # u => updates'[v] = updates[v]
  BY <1>1, <1>2
<1>5. CASE retryable
  BY <1>1, <1>3, <1>4, <1>5, UnfinishedInvisible
<1>6. CASE ~retryable
  <2>1. ClientRequest' = ClientRequest
    BY <1>3, <1>4 DEF ClientRequest
  <2>2. ClientAnswer[u] = Promise!Open
    BY <1>1 DEF ClientAnswer, Promise!Open, StatusInProgress, StatusSucceeded, StatusFailed
  <2>3. ClientAnswer' = [ClientAnswer EXCEPT ![u] = Promise!ErrorAnswer(code)]
    BY <1>1, <1>3, <1>4, <1>6 DEF ClientAnswer, Promise!ErrorAnswer, StatusSucceeded,
                                  StatusFailed
  <2>4. LatestMap' = LatestMap
    BY <1>1, LatestUntouched
  <2>5. QED
    BY <2>1, <2>2, <2>3, <2>4 DEF Promise!AnswerError, LatestMap
<1>7. QED
  BY <1>5, <1>6

\* Every step of the tables is a step of the promise, or changes nothing a
\* client can see.
LEMMA StepKeepsPromise ==
  ASSUME StoreInv, StoreInv', [StoreNext]_storeVars
  PROVE  [Promise!PromiseNext]_(Promise!promiseVars)
<1>d. DOMAIN ClientRequest = DOMAIN updates
  BY DEF ClientRequest
<1>t. Times \subseteq Nat
  BY StoreAssumption DEF StoreAssumption
<1>y. updates \in [DOMAIN updates -> Row]
  BY DEF StoreInv, TypeOK
<1>1. CASE Create
  <2>1. PICK u \in UpdateIDs, p \in Pairs, k \in Keys \cup {NoKey}, now \in Times :
               CreateUpdateRequest(u, p, k, now)
    BY <1>1 DEF Create
  <2>2. Promise!Accept(u, p, k)
    BY <2>1, <1>t, CreateAccepts
  <2>3. QED
    BY <2>2 DEF Promise!PromiseNext
<1>2. CASE Claim
  <2>1. PICK now \in Times, skipped \in SUBSET DOMAIN updates,
             S \in SUBSET DOMAIN updates : ClaimBatch(S, skipped, now)
    BY <1>2 DEF Claim
  <2>2. /\ updates' = [u \in DOMAIN updates |->
                         IF u \in S THEN ClaimedRow(updates[u], now) ELSE updates[u]]
        /\ \A u \in S : /\ updates[u].status \in {StatusPending, StatusInProgress}
                        /\ ClaimedRow(updates[u], now).attempts <= MaxInt
        /\ UNCHANGED quotes
    BY <2>1 DEF ClaimBatch, ClaimSelects, Limited, Due, Stuck
  <2>3. \A u \in S : /\ ClaimedRow(updates[u], now).status = StatusInProgress
                     /\ ClaimedRow(updates[u], now).pair = updates[u].pair
                     /\ ClaimedRow(updates[u], now).key = updates[u].key
    BY <2>2, <1>t, <1>y, ClaimedRowFacts
  <2>4. QED
    BY <2>2, <2>3, UnfinishedInvisible
<1>3. CASE Succeed
  <2>1. PICK u \in DOMAIN updates, provider \in Providers, quotedAt \in Times,
             staleAfter \in Times :
               CompleteSuccess(u, [pair |-> updates[u].pair, provider |-> provider,
                                   quotedAt |-> quotedAt, staleAfter |-> staleAfter])
    BY <1>3 DEF Succeed
  <2> DEFINE rate == [pair |-> updates[u].pair, provider |-> provider,
                      quotedAt |-> quotedAt, staleAfter |-> staleAfter]
  <2>2. rate \in Quote /\ rate.pair = updates[u].pair
    BY <1>y DEF Quote, Row
  <2>3. \E pr \in Providers, qa, sa \in Times : Promise!AnswerQuote(u, pr, qa, sa)
    BY <2>1, <2>2, SucceedAnswers
  <2>4. QED
    BY <2>3, <1>d DEF Promise!PromiseNext
<1>4. CASE SucceedReuse
  <2>1. PICK u \in DOMAIN updates : \E q \in QuotesOf(updates[u].pair) :
               CompleteSuccessReuse(u, q)
    BY <1>4 DEF SucceedReuse
  <2>2. \E pr \in Providers, qa, sa \in Times : Promise!AnswerQuote(u, pr, qa, sa)
    BY <2>1, ReuseAnswers
  <2>3. QED
    BY <2>2, <1>d DEF Promise!PromiseNext
<1>5. CASE Fail
  <2>1. PICK u \in DOMAIN updates, code \in ErrorCodes, retryable \in BOOLEAN,
             t \in Times : CompleteFailure(u, code, retryable, t)
    BY <1>5 DEF Fail
  <2>2. UNCHANGED Promise!promiseVars \/ Promise!AnswerError(u, code)
    BY <2>1, <1>t, FailAnswers
  <2>3. code \in Promise!ErrorCodes
    BY DEF ErrorCodes, Promise!ErrorCodes, RateLimitedError, Promise!RateLimitedError,
           MalformedResponse, Promise!MalformedResponse, InternalError,
           Promise!InternalError, ProviderError, Promise!ProviderError,
           AttemptsExhaustedCode, Promise!AttemptsExhaustedCode
  <2>4. QED
    BY <2>2, <2>3, <1>d DEF Promise!PromiseNext
<1>6. CASE UNCHANGED storeVars
  <2>1. UNCHANGED <<updates, quotes>>
    BY <1>6 DEF storeVars
  <2>2. QED
    BY <2>1, UnfinishedInvisible
<1>7. QED
  BY <1>1, <1>2, <1>3, <1>4, <1>5, <1>6 DEF StoreNext

\* The tables implement UpdatePromise: a client's request is answered at most
\* once and for good, one key names one request, and the latest quote never
\* moves back nor falls behind an answer.
THEOREM StoreKeepsPromise == StoreSpec => KeepsPromise
<1>1. StoreInit => Promise!PromiseInit
  <2> SUFFICES ASSUME StoreInit PROVE Promise!PromiseInit
    OBVIOUS
  <2>1. DOMAIN updates = {} /\ DOMAIN quotes = {}
    BY DEF StoreInit
  <2>2. QED
    BY <2>1 DEF Promise!PromiseInit, ClientRequest, ClientAnswer, LatestQuotedAt, QuotesOf
<1>2. StoreInv /\ StoreInv' /\ [StoreNext]_storeVars
        => [Promise!PromiseNext]_(Promise!promiseVars)
  BY StepKeepsPromise
<1>3. QED
  BY <1>1, <1>2, StoreInvariant, PTL DEF StoreSpec, KeepsPromise, Promise!PromiseSpec

=============================================================================
