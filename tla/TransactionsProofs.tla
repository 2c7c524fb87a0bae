------------------------- MODULE TransactionsProofs -------------------------
(***************************************************************************)
(* Proofs about Transactions, for any number of connections, requests and  *)
(* quotes.  TxInv says what a transaction may rely on from one statement   *)
(* to the next; the refinement to QuoteStore follows from it.              *)
(***************************************************************************)
EXTENDS Transactions, FiniteSetTheorems, TLAPS

\* The committed requests: finitely many, with results that are in the journal.
RowsOK ==
  /\ DOMAIN rows \subseteq UpdateIDs
  /\ rows \in [DOMAIN rows -> DBRow]
  /\ IsFiniteSet(DOMAIN rows)
  /\ \A u \in DOMAIN rows : /\ rows[u].quoteID \in DOMAIN journal \cup {0}
                            /\ rows[u].createdAt \in Times

\* The committed quotes, one of a kind; commits lists each id once.
JournalOK ==
  /\ DOMAIN journal \subseteq QuoteIDs
  /\ journal \in [DOMAIN journal -> Entry]
  /\ commits \in Seq(DOMAIN journal)
  /\ \A q \in DOMAIN journal : \E i \in DOMAIN commits : commits[i] = q
  /\ \A i, j \in DOMAIN commits : commits[i] = commits[j] => i = j
  /\ \A q, r \in DOMAIN journal : SameQuote(journal[q], journal[r]) => q = r
  /\ IsFiniteSet(DOMAIN journal) /\ Len(commits) = Cardinality(DOMAIN journal)

-----------------------------------------------------------------------------
(* What a transaction tx knows of the committed rows (table) and quotes    *)
(* (book).  Both are parameters so that a predicate can be read before and *)
(* after a step.                                                           *)

Holds(tx) ==
  tx.at \in {"update", "lock", "refused", "overtaken", "commit"} /\ tx.entry # NoEntry

IDOf(tx) == IF tx.at = "commit" THEN tx.id ELSE tx.change.id

MovedOf(tx) ==
  IF tx.at = "commit" THEN tx.moved ELSE IF tx.at = "overtaken" THEN {tx.u} ELSE {}

LocksOf(tx) == IF tx.at = "commit" THEN tx.locked \cup MovedOf(tx) ELSE MovedOf(tx)

WritesOf(tx) == IF tx.at = "commit" THEN DOMAIN tx.writes ELSE {}

\* A change of row u has what it needs: a quote of the row's pair, committed
\* unless it comes with the change, or an instant for a retry.
ChangeOK(u, change, entry, table, book) ==
  /\ u \in DOMAIN table
  /\ change \in Change /\ entry \in Entry \cup {NoEntry}
  /\ entry # NoEntry => /\ change.kind = "succeed" /\ change.reused = FALSE
                        /\ entry.pair = table[u].pair
  /\ entry = NoEntry /\ change.kind = "succeed" =>
       change.id \in DOMAIN book /\ book[change.id].pair = table[u].pair
  /\ change.kind = "fail" /\ change.retryable = TRUE => change.nextAttemptAt \in Times

\* The writes of an insert, of a claim, of a completion, before their commit.
Inserts(tx, table) ==
  \E u \in UpdateIDs, p \in Pairs, k \in Keys \cup {NoKey}, now \in Times :
    /\ DOMAIN tx.writes = {u} /\ tx.writes[u] = Tables!NewUpdateRequest(p, k, now)
    /\ tx.entry = NoEntry
    /\ u \notin DOMAIN table
    /\ k # NoKey => \A v \in DOMAIN table : table[v].key # k

Claims(tx, table) ==
  \E now \in Times :
    /\ tx.entry = NoEntry
    /\ DOMAIN tx.writes \subseteq DOMAIN table
    /\ Cardinality(DOMAIN tx.writes) <= BatchSize
    /\ \A u \in DOMAIN tx.writes :
         /\ \/ /\ table[u].status = StatusPending
               /\ table[u].nextAttemptAt <= now
            \/ /\ table[u].status = StatusInProgress
               /\ table[u].lockedAt < now - VisibilityTimeout
         /\ tx.writes[u] = Tables!ClaimedRow(table[u], now)
         /\ tx.writes[u].attempts <= MaxInt

Completes(tx, table, book) ==
  \E u \in DOMAIN table, change \in Change :
    /\ DOMAIN tx.writes = {u} /\ tx.writes[u] = Changed(table[u], change)
    /\ table[u].status = StatusInProgress
    /\ tx.id = change.id
    /\ ChangeOK(u, change, tx.entry, table, book)

\* A transaction by its stage.
StageOK(tx, table, book) ==
  /\ tx.at \in {"idle", "select", "claim", "update", "lock", "refused", "overtaken",
               "commit"}
  /\ tx.at = "idle" => tx = Idle
  /\ tx.at = "select" =>
       /\ tx.u \in DOMAIN table
       /\ tx.rate \in Entry /\ tx.rate.pair = table[tx.u].pair
       /\ \E q \in DOMAIN book : SameQuote(book[q], tx.rate)
  /\ tx.at = "claim" =>
       /\ tx.now \in Times
       /\ DOMAIN tx.due \subseteq DOMAIN table /\ DOMAIN tx.stuck \subseteq DOMAIN table
  /\ tx.at \in {"update", "lock", "refused", "overtaken"} =>
       /\ tx = [at |-> tx.at, u |-> tx.u, change |-> tx.change, entry |-> tx.entry]
       /\ ChangeOK(tx.u, tx.change, tx.entry, table, book)
  /\ tx.at = "commit" =>
       /\ tx.writes \in [DOMAIN tx.writes -> DBRow]
       /\ DOMAIN tx.writes \subseteq tx.locked
       /\ DOMAIN tx.writes = tx.locked \/ Cardinality(DOMAIN tx.writes) = BatchSize
       /\ tx.locked \subseteq DOMAIN table \cup DOMAIN tx.writes
       /\ tx.moved \subseteq DOMAIN table
       /\ tx.entry \in Entry \cup {NoEntry}
       /\ Inserts(tx, table) \/ Claims(tx, table) \/ Completes(tx, table, book)
  /\ Holds(tx) => /\ IDOf(tx) \in QuoteIDs \ DOMAIN book
                  /\ \A q \in DOMAIN book : ~SameQuote(book[q], tx.entry)

\* Two transactions keep out of each other's way: they hold different rows, open
\* different keys, and insert different quotes under different ids.
Apart(a, b, table) ==
  /\ \A u \in LocksOf(a) : u \notin LocksOf(b)
  /\ \A v \in WritesOf(a) \ DOMAIN table, w \in WritesOf(b) \ DOMAIN table :
       a.writes[v].key = b.writes[w].key => a.writes[v].key = NoKey
  /\ Holds(a) /\ Holds(b) => IDOf(a) # IDOf(b) /\ ~SameQuote(a.entry, b.entry)

TxInv ==
  /\ RowsOK
  /\ JournalOK
  /\ DOMAIN session = Sessions
  /\ \A s \in Sessions : StageOK(session[s], rows, journal)
  /\ \A s, t \in Sessions : s # t => Apart(session[s], session[t], rows)

LEMMA SameQuoteSym == ASSUME NEW q, NEW r PROVE SameQuote(q, r) <=> SameQuote(r, q)
  BY DEF SameQuote

LEMMA ApartSym ==
  ASSUME NEW a, NEW b, NEW table, Apart(a, b, table)
  PROVE  Apart(b, a, table)
  <1>1. \A u \in LocksOf(b) : u \notin LocksOf(a)
    BY DEF Apart
  <1>2. ASSUME NEW v \in WritesOf(b) \ DOMAIN table, NEW w \in WritesOf(a) \ DOMAIN table,
               b.writes[v].key = a.writes[w].key
        PROVE  b.writes[v].key = NoKey
    BY <1>2 DEF Apart
  <1>3. Holds(b) /\ Holds(a) => IDOf(b) # IDOf(a) /\ ~SameQuote(b.entry, a.entry)
    BY SameQuoteSym DEF Apart
  <1> QED BY <1>1, <1>2, <1>3 DEF Apart

\* A statement of s that leaves the committed tables alone keeps the invariant
\* when the new stage of s is in order and apart from those of the others.
LEMMA OwnStep ==
  ASSUME TxInv, NEW s \in Sessions, NEW tx,
         UNCHANGED <<rows, journal, commits>>,
         session' = [session EXCEPT ![s] = tx],
         StageOK(tx, rows, journal),
         \A t \in Sessions \ {s} : Apart(tx, session[t], rows)
  PROVE  TxInv'
  <1>1. RowsOK'
    BY DEF TxInv, RowsOK
  <1>2. JournalOK'
    BY DEF TxInv, JournalOK
  <1>3. /\ DOMAIN session' = Sessions /\ session'[s] = tx
        /\ \A t \in Sessions \ {s} : session'[t] = session[t]
    BY DEF TxInv
  <1>4. \A t \in Sessions : StageOK(session'[t], rows, journal)
    BY <1>3 DEF TxInv
  <1>5. ASSUME NEW a \in Sessions, NEW b \in Sessions, a # b
        PROVE  Apart(session'[a], session'[b], rows)
    <2>1. CASE a = s
      BY <1>3, <1>5, <2>1
    <2>2. CASE b = s
      <3>1. Apart(tx, session[a], rows)
        BY <1>5, <2>2
      <3> QED BY <1>3, <1>5, <2>2, <3>1, ApartSym
    <2>3. CASE a # s /\ b # s
      BY <1>3, <1>5, <2>3 DEF TxInv
    <2> QED BY <2>1, <2>2, <2>3
  <1> QED BY <1>1, <1>2, <1>3, <1>4, <1>5 DEF TxInv

\* A transaction that holds no lock and no quote is apart from every other.
LEMMA FreeApart ==
  ASSUME NEW a, NEW b, NEW table, a.at \notin {"overtaken", "commit"}, ~Holds(a)
  PROVE  Apart(a, b, table)
  BY DEF Apart, LocksOf, MovedOf, WritesOf

-----------------------------------------------------------------------------
(* The statements, one lemma each.                                         *)

LEMMA RollbackKeeps ==
  ASSUME TxInv, NEW s \in Sessions, Rollback(s)
  PROVE  TxInv'
  <1>1. StageOK(Idle, rows, journal) /\ Idle.at \notin {"overtaken", "commit"} /\ ~Holds(Idle)
    BY DEF StageOK, Idle, Holds
  <1>2. \A t \in Sessions \ {s} : Apart(Idle, session[t], rows)
    BY <1>1, FreeApart
  <1> QED BY <1>1, <1>2, OwnStep DEF Rollback

LEMMA ClaimSnapshotKeeps ==
  ASSUME TxInv, NEW s \in Sessions, NEW now \in Times, ClaimSnapshot(s, now)
  PROVE  TxInv'
  <1> DEFINE due == Tables!Due(now)
             stuck == Tables!Stuck(now - VisibilityTimeout)
             tx == Claiming(now, [u \in due |-> rows[u].nextAttemptAt],
                                 [u \in stuck |-> rows[u].lockedAt])
  <1>1. due \subseteq DOMAIN rows /\ stuck \subseteq DOMAIN rows
    BY Zenon DEF Tables!Due, Tables!Stuck
  <1>2. StageOK(tx, rows, journal) /\ tx.at \notin {"overtaken", "commit"} /\ ~Holds(tx)
    <2> HIDE DEF due, stuck
    <2> QED BY <1>1 DEF StageOK, Claiming, Holds
  <1>3. \A t \in Sessions \ {s} : Apart(tx, session[t], rows)
    BY <1>2, FreeApart
  <1>4. session' = [session EXCEPT ![s] = tx] /\ UNCHANGED <<rows, journal, commits>>
    BY Zenon DEF ClaimSnapshot
  <1> HIDE DEF tx
  <1> QED BY <1>2, <1>3, <1>4, OwnStep

\* A completion that has inserted nothing, at its UPDATE.
LEMMA PlainUpdate ==
  ASSUME NEW u, NEW change, ChangeOK(u, change, NoEntry, rows, journal)
  PROVE  /\ StageOK(Updating(u, change, NoEntry), rows, journal)
         /\ Updating(u, change, NoEntry).at \notin {"overtaken", "commit"}
         /\ ~Holds(Updating(u, change, NoEntry))
  BY DEF StageOK, Updating, Holds

LEMMA PlainUpdateKeeps ==
  ASSUME TxInv, NEW s \in Sessions, NEW u, NEW change,
         ChangeOK(u, change, NoEntry, rows, journal),
         session' = [session EXCEPT ![s] = Updating(u, change, NoEntry)],
         UNCHANGED <<rows, journal, commits>>
  PROVE  TxInv'
  <1>1. \A t \in Sessions \ {s} :
          Apart(Updating(u, change, NoEntry), session[t], rows)
    BY PlainUpdate, FreeApart
  <1> QED BY <1>1, PlainUpdate, OwnStep

LEMMA SelectWinnerKeeps ==
  ASSUME TxInv, NEW s \in Sessions, SelectWinner(s)
  PROVE  TxInv'
  <1> DEFINE tx == session[s]
  <1>1. PICK id \in Won(tx.rate) :
          session' = [session EXCEPT ![s] = Updating(tx.u, Success(id, FALSE), NoEntry)]
    BY Zenon DEF SelectWinner
  <1>2. id \in DOMAIN journal /\ SameQuote(journal[id], tx.rate)
    BY DEF Won
  <1>3. id \in QuoteIDs
    BY <1>2 DEF TxInv, JournalOK
  <1>4. tx.at = "select" /\ StageOK(tx, rows, journal) /\ UNCHANGED <<rows, journal, commits>>
    BY DEF SelectWinner, TxInv
  <1>5. tx.u \in DOMAIN rows /\ tx.rate.pair = rows[tx.u].pair
    BY <1>4 DEF StageOK
  <1>6. ChangeOK(tx.u, Success(id, FALSE), NoEntry, rows, journal)
    BY <1>2, <1>3, <1>5 DEF ChangeOK, Success, Change, SameQuote
  <1> QED BY <1>1, <1>4, <1>6, PlainUpdateKeeps

LEMMA BeginReuseKeeps ==
  ASSUME TxInv, NEW s \in Sessions, NEW u \in DOMAIN rows, NEW id \in DOMAIN journal,
         journal[id].pair = rows[u].pair, BeginReuse(s, u, id)
  PROVE  TxInv'
  <1>1. id \in QuoteIDs
    BY DEF TxInv, JournalOK
  <1>2. ChangeOK(u, Success(id, TRUE), NoEntry, rows, journal)
    BY <1>1 DEF ChangeOK, Success, Change
  <1> QED BY <1>2, PlainUpdateKeeps DEF BeginReuse

LEMMA BeginFailureKeeps ==
  ASSUME TxInv, NEW s \in Sessions, NEW u \in DOMAIN rows, NEW code \in Codes,
         NEW retryable \in BOOLEAN,
         NEW nextAttemptAt \in IF retryable THEN Times ELSE {0},
         BeginFailure(s, u, code, retryable, nextAttemptAt)
  PROVE  TxInv'
  <1> DEFINE change == Failed(code, retryable, nextAttemptAt)
  <1>1. change \in [kind: {"fail"}, id: {0}, code: ErrorCodes, retryable: BOOLEAN,
                    nextAttemptAt: Times \cup {0}]
    BY TransactionAssumption DEF Failed
  <1>2. change.kind = "fail" /\ (change.retryable = TRUE => change.nextAttemptAt \in Times)
    BY DEF Failed
  <1>3. ChangeOK(u, change, NoEntry, rows, journal)
    BY <1>1, <1>2 DEF ChangeOK, Change
  <1> HIDE DEF change
  <1> QED BY <1>3, PlainUpdateKeeps DEF BeginFailure, change

\* The quote another transaction inserts is open, and its id is in use.
LEMMA EntrySeen ==
  ASSUME NEW t \in Sessions, Holds(session[t])
  PROVE  HasEntry(t) /\ EntryID(t) = IDOf(session[t])
  BY DEF Holds, HasEntry, EntryID, IDOf

LEMMA UpsertQuoteKeeps ==
  ASSUME TxInv, NEW s \in Sessions, NEW u \in DOMAIN rows, NEW rate \in Entry,
         rate.pair = rows[u].pair, UpsertQuote(s, u, rate)
  PROVE  TxInv'
  <1>1. UNCHANGED <<rows, journal, commits>> /\ ~QuoteOpen(rate)
    BY DEF UpsertQuote
  <1>2. \A t \in Sessions : HasEntry(t) => ~SameQuote(session[t].entry, rate)
    BY <1>1 DEF QuoteOpen
  <1>3. CASE Taken(rate) /\ session' = [session EXCEPT ![s] = Selecting(u, rate)]
    <2> DEFINE tx == Selecting(u, rate)
    <2>1. PICK q \in DOMAIN journal : SameQuote(journal[q], rate)
      BY <1>2, <1>3 DEF Taken, Won
    <2>2. StageOK(tx, rows, journal) /\ tx.at \notin {"overtaken", "commit"} /\ ~Holds(tx)
      BY <2>1 DEF StageOK, Selecting, Holds
    <2>3. \A t \in Sessions \ {s} : Apart(tx, session[t], rows)
      BY <2>2, FreeApart
    <2> HIDE DEF tx
    <2> QED BY <1>1, <1>3, <2>2, <2>3, OwnStep DEF tx
  <1>4. ASSUME ~Taken(rate), NEW id \in QuoteIDs \ UsedIDs,
               session' = [session EXCEPT ![s] = Updating(u, Success(id, FALSE), rate)]
        PROVE  TxInv'
    <2> DEFINE change == Success(id, FALSE)
               tx == Updating(u, change, rate)
    <2>1. rate # NoEntry
      BY TransactionAssumption DEF Entry
    <2>2. /\ change \in Change
          /\ change.kind = "succeed" /\ change.reused = FALSE /\ change.id = id
      BY DEF Success, Change
    <2>3. ChangeOK(u, change, rate, rows, journal)
      BY <2>1, <2>2 DEF ChangeOK
    <2>4. /\ tx.at = "update" /\ tx.u = u /\ tx.change = change /\ tx.entry = rate
          /\ tx = [at |-> "update", u |-> u, change |-> change, entry |-> rate]
          /\ IDOf(tx) = id
      BY <2>2 DEF Updating, IDOf
    <2>5. id \in QuoteIDs \ DOMAIN journal
      BY <1>4 DEF UsedIDs
    <2>6. \A q \in DOMAIN journal : ~SameQuote(journal[q], rate)
      BY <1>4 DEF Taken, Won
    <2> HIDE DEF tx, change
    <2>7. StageOK(tx, rows, journal)
      BY <2>3, <2>4, <2>5, <2>6 DEF StageOK
    <2>8. ASSUME NEW t \in Sessions \ {s} PROVE Apart(tx, session[t], rows)
      <3>1. LocksOf(tx) = {} /\ WritesOf(tx) = {}
        BY <2>4 DEF LocksOf, MovedOf, WritesOf
      <3>2. ASSUME Holds(session[t])
            PROVE  id # IDOf(session[t]) /\ ~SameQuote(rate, session[t].entry)
        <4>1. HasEntry(t) /\ EntryID(t) = IDOf(session[t])
          BY <3>2, EntrySeen
        <4>2. IDOf(session[t]) \in UsedIDs
          BY <4>1 DEF UsedIDs
        <4> QED BY <1>2, <1>4, <4>1, <4>2, SameQuoteSym
      <3> QED BY <2>4, <3>1, <3>2 DEF Apart
    <2> QED BY <1>1, <1>4, <2>7, <2>8, OwnStep DEF tx, change
  <1> QED BY <1>3, <1>4, Zenon DEF UpsertQuote

LEMMA LocksSeen ==
  ASSUME NEW t \in Sessions
  PROVE  LocksOf(session[t]) = Locked(t)
  BY DEF LocksOf, MovedOf, Locked, Moved

\* A completion that goes on to the stage m of its UPDATE keeps what it has.
LEMMA StageMoves ==
  ASSUME TxInv, NEW s \in Sessions, session[s].at \in {"update", "lock"},
         NEW m \in {"lock", "refused", "overtaken"},
         m = "overtaken" => ~LockedByOther(s, session[s].u)
  PROVE  LET tx == [session[s] EXCEPT !.at = m] IN
           /\ StageOK(tx, rows, journal)
           /\ \A t \in Sessions \ {s} : Apart(tx, session[t], rows)
  <1> DEFINE old == session[s]
             tx == [old EXCEPT !.at = m]
  <1>1. /\ StageOK(old, rows, journal)
        /\ \A t \in Sessions \ {s} : Apart(old, session[t], rows)
    BY DEF TxInv
  <1>2. /\ old = [at |-> old.at, u |-> old.u, change |-> old.change, entry |-> old.entry]
        /\ ChangeOK(old.u, old.change, old.entry, rows, journal)
    BY <1>1 DEF StageOK
  <1>3. tx = [at |-> m, u |-> old.u, change |-> old.change, entry |-> old.entry]
    <2> SUFFICES ASSUME NEW a, NEW u, NEW c, NEW e,
                        old = [at |-> a, u |-> u, change |-> c, entry |-> e]
                 PROVE  tx = [at |-> m, u |-> u, change |-> c, entry |-> e]
      BY <1>2
    <2> QED OBVIOUS
  <1>4. tx.at = m /\ tx.u = old.u /\ tx.change = old.change /\ tx.entry = old.entry
    BY <1>3
  <1> HIDE DEF tx
  <1>5. (Holds(tx) <=> Holds(old)) /\ IDOf(tx) = IDOf(old)
    BY <1>4 DEF Holds, IDOf
  <1>6. StageOK(tx, rows, journal)
    BY <1>1, <1>2, <1>3, <1>4, <1>5 DEF StageOK
  <1>7. ASSUME NEW t \in Sessions \ {s} PROVE Apart(tx, session[t], rows)
    <2>1. LocksOf(tx) \subseteq {old.u} /\ WritesOf(tx) = {}
      BY <1>4 DEF LocksOf, MovedOf, WritesOf
    <2>2. LocksOf(tx) # {} => m = "overtaken"
      BY <1>4 DEF LocksOf, MovedOf
    <2>3. m = "overtaken" => old.u \notin LocksOf(session[t])
      BY LocksSeen DEF LockedByOther
    <2>4. \A u \in LocksOf(tx) : u \notin LocksOf(session[t])
      BY <2>1, <2>2, <2>3
    <2> QED BY <1>1, <1>4, <1>5, <2>1, <2>4 DEF Apart
  <1> QED BY <1>6, <1>7 DEF tx

LEMMA MatchRowKeeps ==
  ASSUME TxInv, NEW s \in Sessions, MatchRow(s)
  PROVE  TxInv'
  <1>1. PICK m \in {"lock", "refused"} :
          session' = [session EXCEPT ![s] = [session[s] EXCEPT !.at = m]]
    <2>1. CASE InProgress(session[s].u)
      BY <2>1, Zenon DEF MatchRow
    <2>2. CASE ~InProgress(session[s].u)
      BY <2>2, Zenon DEF MatchRow
    <2> QED BY <2>1, <2>2
  <1>2. session[s].at = "update" /\ UNCHANGED <<rows, journal, commits>>
    BY Zenon DEF MatchRow
  <1> DEFINE tx == [session[s] EXCEPT !.at = m]
  <1>3. StageOK(tx, rows, journal) /\ \A t \in Sessions \ {s} : Apart(tx, session[t], rows)
    BY <1>2, StageMoves
  <1>4. session' = [session EXCEPT ![s] = tx]
    BY <1>1
  <1> HIDE DEF tx
  <1> QED BY <1>2, <1>3, <1>4, OwnStep

-----------------------------------------------------------------------------
(* The columns each statement leaves behind.                               *)

\* Both modules mean the same statuses and codes.
LEMMA SameDomain ==
  /\ Tables!StatusPending = StatusPending /\ Tables!StatusInProgress = StatusInProgress
  /\ Tables!StatusSucceeded = StatusSucceeded /\ Tables!StatusFailed = StatusFailed
  /\ Tables!Statuses = Statuses /\ Tables!NoError = NoError
  /\ Tables!ErrorCodes = ErrorCodes
  BY DEF Tables!StatusPending, StatusPending, Tables!StatusInProgress, StatusInProgress,
         Tables!StatusSucceeded, StatusSucceeded, Tables!StatusFailed, StatusFailed,
         Tables!Statuses, Statuses, Tables!NoError, NoError, Tables!ErrorCodes, ErrorCodes,
         Tables!RateLimitedError, RateLimitedError, Tables!MalformedResponse,
         MalformedResponse, Tables!InternalError, InternalError, Tables!ProviderError,
         ProviderError, Tables!AttemptsExhaustedCode, AttemptsExhaustedCode

\* The rows of either granularity: only what a quote's id is differs.
RowWith(Q) ==
  [pair: Pairs, key: Keys \cup {NoKey}, status: Statuses, attempts: 0..MaxInt,
   createdAt: Nat, nextAttemptAt: Nat, lockedAt: Nat, quoteID: Q, reused: BOOLEAN,
   errorCode: ErrorCodes \cup {NoError}]

LEMMA RowKinds == DBRow = RowWith(QuoteIDs \cup {0}) /\ Tables!Row = RowWith(Nat)
  BY SameDomain DEF DBRow, Tables!Row, RowWith

\* Rows that agree in every column are the same row.
LEMMA SameRow ==
  ASSUME NEW Q, NEW r \in RowWith(Q), NEW s \in RowWith(Q),
         r.pair = s.pair, r.key = s.key, r.status = s.status,
         r.attempts = s.attempts, r.createdAt = s.createdAt,
         r.nextAttemptAt = s.nextAttemptAt, r.lockedAt = s.lockedAt,
         r.quoteID = s.quoteID, r.reused = s.reused, r.errorCode = s.errorCode
  PROVE  r = s
  BY DEF RowWith

\* A row as the repository inserts it.
LEMMA NewRowFacts ==
  ASSUME NEW Q, 0 \in Q, NEW p \in Pairs, NEW k \in Keys \cup {NoKey}, NEW now \in Times
  PROVE  LET row == Tables!NewUpdateRequest(p, k, now) IN
           /\ row \in RowWith(Q)
           /\ row.pair = p /\ row.key = k /\ row.createdAt = now /\ row.quoteID = 0
  <1>1. now \in Nat /\ 0 \in 0..MaxInt /\ StatusPending \in Statuses
    BY TransactionAssumption DEF Statuses
  <1> QED BY <1>1, SameDomain DEF Tables!NewUpdateRequest, RowWith

\* A row as a claim leaves it.
LEMMA ClaimedRowFacts ==
  ASSUME NEW Q, NEW row \in RowWith(Q), NEW now \in Times
  PROVE  LET claimed == Tables!ClaimedRow(row, now) IN
           /\ claimed.pair = row.pair /\ claimed.key = row.key
           /\ claimed.status = StatusInProgress
           /\ claimed.attempts = IF row.status = StatusPending THEN row.attempts + 1
                                                               ELSE row.attempts
           /\ claimed.createdAt = row.createdAt
           /\ claimed.nextAttemptAt = row.nextAttemptAt /\ claimed.lockedAt = now
           /\ claimed.quoteID = row.quoteID
           /\ claimed.reused = row.reused /\ claimed.errorCode = row.errorCode
           /\ claimed.attempts <= MaxInt => claimed \in RowWith(Q)
  <1>1. now \in Nat /\ MaxInt \in Nat /\ StatusInProgress \in Statuses
    BY TransactionAssumption DEF Statuses
  <1>2. row.attempts \in 0..MaxInt
    BY DEF RowWith
  <1>3. LET claimed == Tables!ClaimedRow(row, now) IN
          /\ claimed.pair = row.pair /\ claimed.key = row.key
          /\ claimed.status = StatusInProgress
          /\ claimed.attempts = IF row.status = StatusPending THEN row.attempts + 1
                                                              ELSE row.attempts
          /\ claimed.createdAt = row.createdAt
          /\ claimed.nextAttemptAt = row.nextAttemptAt /\ claimed.lockedAt = now
          /\ claimed.quoteID = row.quoteID
          /\ claimed.reused = row.reused /\ claimed.errorCode = row.errorCode
    BY SameDomain DEF Tables!ClaimedRow, RowWith
  <1>4. ASSUME Tables!ClaimedRow(row, now).attempts <= MaxInt
        PROVE  Tables!ClaimedRow(row, now) \in RowWith(Q)
    <2>1. Tables!ClaimedRow(row, now).attempts \in 0..MaxInt
      BY <1>1, <1>2, <1>3, <1>4
    <2> QED BY <1>1, <2>1, SameDomain DEF Tables!ClaimedRow, RowWith
  <1> QED BY <1>3, <1>4

\* A row as a success leaves it.
LEMMA SucceededRowFacts ==
  ASSUME NEW Q, NEW row \in RowWith(Q), NEW q \in Q, NEW reused \in BOOLEAN
  PROVE  LET done == Tables!SucceededRow(row, q, reused) IN
           /\ done \in RowWith(Q)
           /\ done.pair = row.pair /\ done.key = row.key
           /\ done.status = StatusSucceeded /\ done.attempts = row.attempts
           /\ done.createdAt = row.createdAt
           /\ done.nextAttemptAt = row.nextAttemptAt /\ done.lockedAt = row.lockedAt
           /\ done.quoteID = q /\ done.reused = reused /\ done.errorCode = NoError
  <1>1. StatusSucceeded \in Statuses
    BY DEF Statuses
  <1> QED BY <1>1, SameDomain DEF Tables!SucceededRow, RowWith

\* A row as a failure leaves it.
LEMMA FailedRowFacts ==
  ASSUME NEW Q, NEW row \in RowWith(Q), NEW code \in ErrorCodes,
         NEW retryable \in BOOLEAN, NEW at \in Nat
  PROVE  LET failed == Tables!FailedRow(row, code, retryable, at) IN
           /\ failed \in RowWith(Q)
           /\ failed.pair = row.pair /\ failed.key = row.key
           /\ failed.status = IF retryable THEN StatusPending ELSE StatusFailed
           /\ failed.attempts = row.attempts /\ failed.createdAt = row.createdAt
           /\ failed.nextAttemptAt = IF retryable THEN at ELSE row.nextAttemptAt
           /\ failed.lockedAt = row.lockedAt /\ failed.quoteID = row.quoteID
           /\ failed.reused = row.reused /\ failed.errorCode = code
  <1> DEFINE status == IF retryable THEN StatusPending ELSE StatusFailed
  <1>1. status \in Statuses
    BY DEF Statuses
  <1> QED BY <1>1, SameDomain DEF Tables!FailedRow, RowWith

LEMMA ChangeKinds ==
  ASSUME NEW change \in Change
  PROVE  \/ /\ change.kind = "succeed" /\ change.id \in QuoteIDs
            /\ change.reused \in BOOLEAN
         \/ /\ change.kind = "fail" /\ change.id = 0 /\ change.code \in ErrorCodes
            /\ change.retryable \in BOOLEAN /\ change.nextAttemptAt \in Nat
  <1>1. CASE change \in [kind: {"succeed"}, id: QuoteIDs, reused: BOOLEAN]
    BY <1>1
  <1>2. CASE change \in [kind: {"fail"}, id: {0}, code: ErrorCodes, retryable: BOOLEAN,
                         nextAttemptAt: Times \cup {0}]
    <2>1. change.kind = "fail" /\ change.id = 0 /\ change.code \in ErrorCodes
      BY <1>2
    <2>2. change.retryable \in BOOLEAN
      BY <1>2
    <2>3. change.nextAttemptAt \in Nat
      <3>1. change.nextAttemptAt \in Times \cup {0}
        BY <1>2
      <3>2. \A at \in Times \cup {0} : at \in Nat
        BY TransactionAssumption
      <3> QED BY <3>1, <3>2, Zenon
    <2> QED BY <2>1, <2>2, <2>3, Zenon
  <1> QED BY <1>1, <1>2 DEF Change

\* A row as any completion leaves it.
LEMMA ChangedRowFacts ==
  ASSUME NEW row \in DBRow, NEW change \in Change
  PROVE  /\ Changed(row, change) \in DBRow
         /\ Changed(row, change).pair = row.pair
         /\ Changed(row, change).key = row.key
         /\ Changed(row, change).createdAt = row.createdAt
         /\ Changed(row, change).quoteID =
              IF change.kind = "succeed" THEN change.id ELSE row.quoteID
  <1> DEFINE Q == QuoteIDs \cup {0}
  <1>1. row \in RowWith(Q)
    BY RowKinds
  <1>2. CASE change.kind = "succeed"
    <2>1. change.id \in Q /\ change.reused \in BOOLEAN
      BY <1>2, ChangeKinds
    <2>2. Changed(row, change) = Tables!SucceededRow(row, change.id, change.reused)
      BY <1>2 DEF Changed
    <2> HIDE DEF Q
    <2>3. /\ Tables!SucceededRow(row, change.id, change.reused) \in RowWith(Q)
          /\ Tables!SucceededRow(row, change.id, change.reused).pair = row.pair
          /\ Tables!SucceededRow(row, change.id, change.reused).key = row.key
          /\ Tables!SucceededRow(row, change.id, change.reused).createdAt = row.createdAt
          /\ Tables!SucceededRow(row, change.id, change.reused).quoteID = change.id
      BY <1>1, <2>1, SucceededRowFacts
    <2> QED BY <1>2, <2>2, <2>3, RowKinds DEF Q
  <1>3. CASE change.kind = "fail"
    <2> DEFINE failed == Tables!FailedRow(row, change.code, change.retryable,
                                          change.nextAttemptAt)
    <2>1. /\ change.code \in ErrorCodes /\ change.retryable \in BOOLEAN
          /\ change.nextAttemptAt \in Nat
      BY <1>3, ChangeKinds
    <2>2. Changed(row, change) = failed
      BY <1>3 DEF Changed
    <2> HIDE DEF Q
    <2>3. /\ failed \in RowWith(Q) /\ failed.pair = row.pair /\ failed.key = row.key
          /\ failed.createdAt = row.createdAt /\ failed.quoteID = row.quoteID
      BY <1>1, <2>1, FailedRowFacts
    <2> QED BY <1>3, <2>2, <2>3, RowKinds DEF Q
  <1> QED BY <1>2, <1>3, ChangeKinds

-----------------------------------------------------------------------------
(* The statements that end with every lock taken.                          *)

\* A transaction whose writes are in order is ready to commit.
LEMMA ReadyApart ==
  ASSUME TxInv, NEW s \in Sessions, NEW writes, NEW locked, NEW moved,
         NEW t \in Sessions, \A u \in locked \cup moved : u \notin LocksOf(session[t]),
         \A v \in DOMAIN writes \ DOMAIN rows, w \in WritesOf(session[t]) \ DOMAIN rows :
           writes[v].key = session[t].writes[w].key => writes[v].key = NoKey
  PROVE  Apart(Committing(writes, locked, moved, NoEntry, 0), session[t], rows)
  <1> DEFINE tx == Committing(writes, locked, moved, NoEntry, 0)
  <1>1. /\ LocksOf(tx) = locked \cup moved /\ WritesOf(tx) = DOMAIN writes
        /\ tx.writes = writes /\ ~Holds(tx)
    BY DEF LocksOf, MovedOf, WritesOf, Holds, Committing
  <1> HIDE DEF tx
  <1>2. Apart(tx, session[t], rows)
    BY <1>1 DEF Apart
  <1> QED BY <1>2 DEF tx

LEMMA InsertUpdateKeeps ==
  ASSUME TxInv, NEW s \in Sessions, NEW u \in UpdateIDs, NEW p \in Pairs,
         NEW k \in Keys \cup {NoKey}, NEW now \in CreationTimes,
         InsertUpdate(s, u, p, k, now)
  PROVE  TxInv'
  <1> DEFINE row == Tables!NewUpdateRequest(p, k, now)
             writes == [v \in {u} |-> row]
             tx == Committing(writes, {u}, {}, NoEntry, 0)
  <1>1. /\ u \notin DOMAIN rows /\ \A t \in Sessions : u \notin Writes(t)
        /\ ~KeyOpen(k) /\ ~Tables!KeyTaken(k)
        /\ session' = [session EXCEPT ![s] = tx] /\ UNCHANGED <<rows, journal, commits>>
    BY Zenon DEF InsertUpdate
  <1>2. now \in Times
    BY TransactionAssumption
  <1>3. row \in DBRow /\ row.key = k
    BY <1>2, RowKinds, NewRowFacts
  <1>4. k # NoKey => \A v \in DOMAIN rows : rows[v].key # k
    <2> SUFFICES ASSUME k # NoKey, NEW v \in DOMAIN rows PROVE rows[v].key # k
      OBVIOUS
    <2>1. [rows[v] EXCEPT !.quoteID = Position(@)].key # k
      BY <1>1, Zenon DEF Tables!KeyTaken
    <2>2. rows[v] \in DBRow
      BY DEF TxInv, RowsOK
    <2> QED BY <2>1, <2>2 DEF DBRow
  <1> HIDE DEF row
  <1>5. DOMAIN writes = {u} /\ writes[u] = row /\ writes \in [DOMAIN writes -> DBRow]
    BY <1>3
  <1>6. /\ tx.at = "commit" /\ tx.writes = writes /\ tx.locked = {u} /\ tx.moved = {}
        /\ tx.entry = NoEntry /\ ~Holds(tx)
    BY DEF Committing, Holds
  <1> HIDE DEF writes, tx
  <1>7. Inserts(tx, rows)
    BY <1>1, <1>2, <1>4, <1>5, <1>6 DEF Inserts, row
  <1>8. StageOK(tx, rows, journal)
    BY <1>5, <1>6, <1>7 DEF StageOK
  <1>9. ASSUME NEW t \in Sessions \ {s} PROVE Apart(tx, session[t], rows)
    <2>1. StageOK(session[t], rows, journal)
      BY DEF TxInv
    <2>2. u \notin LocksOf(session[t])
      BY <1>1, <2>1 DEF StageOK, LocksOf, MovedOf, Writes, ChangeOK
    <2>3. \A w \in WritesOf(session[t]) \ DOMAIN rows :
            k = session[t].writes[w].key => k = NoKey
      BY <1>1 DEF KeyOpen, WritesOf, Writes
    <2> QED BY <1>3, <1>5, <2>2, <2>3, ReadyApart DEF tx
  <1> QED BY <1>1, <1>8, <1>9, OwnStep

\* The columns a claim looks at are those of the committed rows.
LEMMA CandidateFacts ==
  ASSUME RowsOK, NEW now, NEW u
  PROVE  /\ u \in Tables!Due(now) <=> /\ u \in DOMAIN rows
                                      /\ rows[u].status = StatusPending
                                      /\ rows[u].nextAttemptAt <= now
         /\ u \in Tables!Stuck(now) <=> /\ u \in DOMAIN rows
                                        /\ rows[u].status = StatusInProgress
                                        /\ rows[u].lockedAt < now
  <1> DEFINE table == [v \in DOMAIN rows |-> [rows[v] EXCEPT !.quoteID = Position(@)]]
  <1>1. ASSUME u \in DOMAIN rows
        PROVE  /\ table[u].status = rows[u].status
               /\ table[u].nextAttemptAt = rows[u].nextAttemptAt
               /\ table[u].lockedAt = rows[u].lockedAt
    <2>1. rows[u] \in DBRow
      BY <1>1 DEF RowsOK
    <2> QED BY <1>1, <2>1 DEF DBRow
  <1>2. Tables!Due(now) = {v \in DOMAIN table : /\ table[v].status = Tables!StatusPending
                                                /\ table[v].nextAttemptAt <= now}
    BY Zenon DEF Tables!Due
  <1>3. Tables!Stuck(now) =
          {v \in DOMAIN table : /\ table[v].status = Tables!StatusInProgress
                                /\ table[v].lockedAt < now}
    BY Zenon DEF Tables!Stuck
  <1>4. DOMAIN table = DOMAIN rows
    OBVIOUS
  <1> HIDE DEF table
  <1> QED BY <1>1, <1>2, <1>3, <1>4, SameDomain

LEMMA LimitedFacts ==
  ASSUME NEW S, NEW C, NEW value, IsFiniteSet(C), Limited(S, C, BatchSize, value)
  PROVE  /\ S \subseteq C /\ Cardinality(S) <= BatchSize
         /\ Cardinality(S) < BatchSize => S = C
  <1>1. Cardinality(C) \in Nat /\ BatchSize \in Nat
    BY FS_CardinalityType, TransactionAssumption
  <1>2. S \subseteq C /\ Cardinality(S) <= BatchSize
    BY <1>1 DEF Limited
  <1>3. Cardinality(S) < BatchSize => Cardinality(S) = Cardinality(C)
    BY <1>1 DEF Limited
  <1>4. Cardinality(S) = Cardinality(C) => S = C
    BY <1>2, FS_Subset
  <1> QED BY <1>2, <1>3, <1>4

\* What a claim locks and writes: a batch of what it could lock, or all of that.
LEMMA ClaimFacts ==
  ASSUME TxInv, NEW s \in Sessions, ClaimRows(s)
  PROVE  LET now == session[s].now IN
         \E S, L, X :
           /\ S \subseteq L
           /\ S = L \/ Cardinality(S) = BatchSize
           /\ Cardinality(S) <= BatchSize
           /\ \A u \in Candidates(s) \ S :
                LockedByOther(s, u) \/ Cardinality(S) = BatchSize
           /\ \A u \in L \cup X : u \in DOMAIN rows /\ ~LockedByOther(s, u)
           /\ \A u \in L : \/ u \in Tables!Due(now)
                           \/ u \in Tables!Stuck(now - VisibilityTimeout)
           /\ \A u \in S : Tables!ClaimedRow(rows[u], now).attempts <= MaxInt
           /\ session' = [session EXCEPT ![s] =
                Committing([u \in S |-> Tables!ClaimedRow(rows[u], now)], L, X, NoEntry, 0)]
  <1> DEFINE now == session[s].now
             due == Tables!Due(now)
             stuck == Tables!Stuck(now - VisibilityTimeout)
             D == Lockable(s, session[s].due, due)
             T == Lockable(s, session[s].stuck, stuck)
             O == Overtaken(s, session[s].due, due) \cup Overtaken(s, session[s].stuck, stuck)
  <1>1. PICK P \in Half(s, session[s].due, due), K \in Half(s, session[s].stuck, stuck) :
          \E S \in SUBSET (P \cup K), X \in SUBSET O :
            /\ Limited(S, P \cup K, BatchSize, [u \in P \cup K |-> rows[u].nextAttemptAt])
            /\ \A u \in S : Tables!ClaimedRow(rows[u], now).attempts <= MaxInt
            /\ session' = [session EXCEPT ![s] =
                 Committing([u \in S |-> Tables!ClaimedRow(rows[u], now)], P \cup K, X,
                            NoEntry, 0)]
    BY Zenon DEF ClaimRows
  <1>2. PICK S \in SUBSET (P \cup K), X \in SUBSET O :
            /\ Limited(S, P \cup K, BatchSize, [u \in P \cup K |-> rows[u].nextAttemptAt])
            /\ \A u \in S : Tables!ClaimedRow(rows[u], now).attempts <= MaxInt
            /\ session' = [session EXCEPT ![s] =
                 Committing([u \in S |-> Tables!ClaimedRow(rows[u], now)], P \cup K, X,
                            NoEntry, 0)]
    BY <1>1, Zenon
  <1>3. session[s].at = "claim" /\ StageOK(session[s], rows, journal)
    BY Zenon DEF ClaimRows, TxInv
  <1>4. DOMAIN session[s].due \subseteq DOMAIN rows /\ DOMAIN session[s].stuck \subseteq DOMAIN rows
    BY <1>3 DEF StageOK
  <1>5. /\ P \subseteq D /\ Limited(P, D, BatchSize, session[s].due)
        /\ K \subseteq T /\ Limited(K, T, BatchSize, session[s].stuck)
    BY Zenon DEF Half
  <1>6. /\ \A u : u \in D <=> /\ u \in DOMAIN session[s].due /\ u \in due
                              /\ ~LockedByOther(s, u)
        /\ \A u : u \in T <=> /\ u \in DOMAIN session[s].stuck /\ u \in stuck
                              /\ ~LockedByOther(s, u)
    BY Zenon DEF Lockable
  <1>7. \A u \in O : /\ u \in DOMAIN session[s].due \cup DOMAIN session[s].stuck
                     /\ ~LockedByOther(s, u)
    BY Zenon DEF Overtaken
  <1>8. \A u : u \in Candidates(s) => \/ u \in DOMAIN session[s].due /\ u \in due
                                      \/ u \in DOMAIN session[s].stuck /\ u \in stuck
    BY Zenon DEF Candidates
  <1> HIDE DEF D, T, O, due, stuck
  <1> DEFINE L == P \cup K
  <1>9. D \subseteq DOMAIN rows /\ T \subseteq DOMAIN rows /\ L \subseteq DOMAIN rows
    BY <1>4, <1>5, <1>6
  <1>10. IsFiniteSet(D) /\ IsFiniteSet(T) /\ IsFiniteSet(L)
    BY <1>9, FS_Subset DEF TxInv, RowsOK
  <1>11. /\ S \subseteq L /\ Cardinality(S) <= BatchSize
         /\ Cardinality(S) < BatchSize => S = L
    BY <1>2, <1>10, LimitedFacts
  <1>12. /\ Cardinality(P) < BatchSize => P = D
         /\ Cardinality(K) < BatchSize => K = T
    BY <1>5, <1>10, LimitedFacts
  <1>13. /\ Cardinality(S) \in Nat /\ Cardinality(P) \in Nat /\ Cardinality(K) \in Nat
         /\ Cardinality(P) <= Cardinality(L) /\ Cardinality(K) <= Cardinality(L)
         /\ BatchSize \in Nat
    BY <1>10, <1>11, FS_Subset, FS_CardinalityType, TransactionAssumption
  <1>14. Cardinality(S) < BatchSize => P = D /\ K = T /\ S = L
    BY <1>11, <1>12, <1>13
  <1>15. Cardinality(S) < BatchSize \/ Cardinality(S) = BatchSize
    BY <1>11, <1>13
  <1>16. \A u \in Candidates(s) \ S : LockedByOther(s, u) \/ Cardinality(S) = BatchSize
    BY <1>6, <1>8, <1>14, <1>15
  <1>17. \A u \in L \cup X : u \in DOMAIN rows /\ ~LockedByOther(s, u)
    BY <1>4, <1>5, <1>6, <1>7, <1>9
  <1>18. \A u \in L : u \in due \/ u \in stuck
    BY <1>5, <1>6
  <1> QED BY <1>2, <1>11, <1>14, <1>15, <1>16, <1>17, <1>18, Zenon DEF due, stuck

LEMMA ClaimRowsKeeps ==
  ASSUME TxInv, NEW s \in Sessions, ClaimRows(s)
  PROVE  TxInv'
  <1> DEFINE now == session[s].now
  <1>1. PICK S, locked, moved :
          /\ S \subseteq locked
          /\ S = locked \/ Cardinality(S) = BatchSize
          /\ Cardinality(S) <= BatchSize
          /\ \A u \in locked \cup moved : u \in DOMAIN rows /\ ~LockedByOther(s, u)
          /\ \A u \in locked : \/ u \in Tables!Due(now)
                               \/ u \in Tables!Stuck(now - VisibilityTimeout)
          /\ \A u \in S : Tables!ClaimedRow(rows[u], now).attempts <= MaxInt
          /\ session' = [session EXCEPT ![s] =
               Committing([u \in S |-> Tables!ClaimedRow(rows[u], now)], locked, moved,
                          NoEntry, 0)]
    BY ClaimFacts, Zenon
  <1>3. now \in Times
    BY DEF ClaimRows, TxInv, StageOK
  <1>4. UNCHANGED <<rows, journal, commits>>
    BY Zenon DEF ClaimRows
  <1>6. \A u \in locked : \/ /\ rows[u].status = StatusPending
                             /\ rows[u].nextAttemptAt <= now
                          \/ /\ rows[u].status = StatusInProgress
                             /\ rows[u].lockedAt < now - VisibilityTimeout
    BY <1>1, CandidateFacts DEF TxInv
  <1> DEFINE writes == [u \in S |-> Tables!ClaimedRow(rows[u], now)]
             tx == Committing(writes, locked, moved, NoEntry, 0)
  <1>7. locked \cup moved \subseteq DOMAIN rows /\ S \subseteq locked
    BY <1>1
  <1>9. \A u \in S : rows[u] \in DBRow
    BY <1>7 DEF TxInv, RowsOK
  <1>10. \A u \in S : Tables!ClaimedRow(rows[u], now) \in DBRow
    BY <1>1, <1>3, <1>9, RowKinds, ClaimedRowFacts
  <1>11. /\ DOMAIN writes = S /\ writes \in [S -> DBRow]
         /\ \A u \in S : writes[u] = Tables!ClaimedRow(rows[u], now)
    BY <1>10
  <1>12. /\ tx.at = "commit" /\ tx.writes = writes /\ tx.locked = locked /\ tx.moved = moved
         /\ tx.entry = NoEntry /\ ~Holds(tx)
    BY DEF Committing, Holds
  <1>13. session' = [session EXCEPT ![s] = tx]
    BY <1>1
  <1> HIDE DEF writes, tx, now
  <1>14. Claims(tx, rows)
    <2>1. \A u \in S : \/ /\ rows[u].status = StatusPending
                          /\ rows[u].nextAttemptAt <= now
                       \/ /\ rows[u].status = StatusInProgress
                          /\ rows[u].lockedAt < now - VisibilityTimeout
      BY <1>6, <1>7
    <2> QED BY <1>1, <1>3, <1>7, <1>11, <1>12, <2>1 DEF Claims
  <1>15. StageOK(tx, rows, journal)
    BY <1>1, <1>7, <1>11, <1>12, <1>14 DEF StageOK
  <1>16. ASSUME NEW t \in Sessions \ {s} PROVE Apart(tx, session[t], rows)
    <2>1. \A u \in locked \cup moved : u \notin LocksOf(session[t])
      BY <1>1, LocksSeen DEF LockedByOther
    <2>2. DOMAIN writes \ DOMAIN rows = {}
      BY <1>7, <1>11
    <2> QED BY <2>1, <2>2, ReadyApart DEF tx
  <1> QED BY <1>4, <1>13, <1>15, <1>16, OwnStep

LEMMA LockRowKeeps ==
  ASSUME TxInv, NEW s \in Sessions, LockRow(s)
  PROVE  TxInv'
  <1> DEFINE old == session[s]
             u == old.u
  <1>1. /\ old.at = "lock" /\ ~LockedByOther(s, u) /\ UNCHANGED <<rows, journal, commits>>
    BY Zenon DEF LockRow
  <1>2. CASE ~InProgress(u)
    <2> DEFINE tx == [old EXCEPT !.at = "overtaken"]
    <2>1. session' = [session EXCEPT ![s] = tx]
      BY <1>2, Zenon DEF LockRow
    <2>2. StageOK(tx, rows, journal) /\ \A t \in Sessions \ {s} : Apart(tx, session[t], rows)
      BY <1>1, StageMoves
    <2> HIDE DEF tx
    <2> QED BY <1>1, <2>1, <2>2, OwnStep
  <1>3. CASE InProgress(u)
    <2> DEFINE change == old.change
               entry == old.entry
               row == Changed(rows[u], change)
               writes == [v \in {u} |-> row]
               tx == Committing(writes, {u}, {}, entry, change.id)
    <2>1. session' = [session EXCEPT ![s] = tx]
      BY <1>3, Zenon DEF LockRow
    <2>2. /\ StageOK(old, rows, journal)
          /\ \A t \in Sessions \ {s} : Apart(old, session[t], rows)
      BY DEF TxInv
    <2>3. ChangeOK(u, change, entry, rows, journal)
      BY <1>1, <2>2 DEF StageOK
    <2>4. u \in DOMAIN rows /\ rows[u].status = StatusInProgress
      BY <1>3 DEF InProgress
    <2>5. rows[u] \in DBRow /\ change \in Change /\ entry \in Entry \cup {NoEntry}
      BY <2>3, <2>4 DEF TxInv, RowsOK, ChangeOK
    <2>6. row \in DBRow
      BY <2>5, ChangedRowFacts
    <2>7. DOMAIN writes = {u} /\ writes[u] = row /\ writes \in [{u} -> DBRow]
      BY <2>6
    <2>8. /\ tx.at = "commit" /\ tx.writes = writes /\ tx.locked = {u} /\ tx.moved = {}
          /\ tx.entry = entry /\ tx.id = change.id
      BY DEF Committing
    <2>9. (Holds(tx) <=> Holds(old)) /\ IDOf(tx) = IDOf(old)
      <3> HIDE DEF tx, change
      <3>1. (Holds(tx) <=> entry # NoEntry) /\ IDOf(tx) = change.id
        BY <2>8 DEF Holds, IDOf
      <3> QED BY <1>1, <3>1 DEF Holds, IDOf, change
    <2>10. Completes(tx, rows, journal)
      <3> HIDE DEF tx, writes, change, entry, u
      <3> QED BY <2>3, <2>4, <2>5, <2>7, <2>8 DEF Completes
    <2>11. StageOK(tx, rows, journal)
      <3>1. Holds(old) => /\ IDOf(old) \in QuoteIDs \ DOMAIN journal
                          /\ \A q \in DOMAIN journal : ~SameQuote(journal[q], old.entry)
        BY <2>2 DEF StageOK
      <3> HIDE DEF tx, writes, row, change, u, old
      <3> QED BY <2>4, <2>5, <2>7, <2>8, <2>9, <2>10, <3>1 DEF StageOK
    <2>12. ASSUME NEW t \in Sessions \ {s} PROVE Apart(tx, session[t], rows)
      <3>1. u \notin LocksOf(session[t])
        BY <1>1, LocksSeen DEF LockedByOther
      <3>2. LocksOf(tx) = {u} /\ WritesOf(tx) = {u}
        <4> HIDE DEF tx, writes
        <4> QED BY <2>7, <2>8 DEF LocksOf, MovedOf, WritesOf
      <3>3. Holds(tx) /\ Holds(session[t]) =>
              IDOf(tx) # IDOf(session[t]) /\ ~SameQuote(entry, session[t].entry)
        <4> HIDE DEF tx
        <4> QED BY <2>2, <2>9 DEF Apart
      <3> HIDE DEF tx, writes, u, entry
      <3> QED BY <2>4, <2>8, <3>1, <3>2, <3>3 DEF Apart
    <2> HIDE DEF tx
    <2> QED BY <1>1, <2>1, <2>11, <2>12, OwnStep
  <1> QED BY <1>2, <1>3

-----------------------------------------------------------------------------
(* The commit.                                                             *)

\* What a transaction that is ready to commit writes into row u.
LEMMA WriteFacts ==
  ASSUME TxInv, NEW s \in Sessions, session[s].at = "commit",
         NEW u \in DOMAIN session[s].writes
  PROVE  LET tx == session[s]
             row == tx.writes[u]
         IN /\ u \in UpdateIDs /\ row \in DBRow /\ row.createdAt \in Times
            /\ row.quoteID \in DOMAIN journal \cup {0}
                 \cup IF tx.entry = NoEntry THEN {} ELSE {tx.id}
            /\ u \in DOMAIN rows => row.pair = rows[u].pair /\ row.key = rows[u].key
  <1> DEFINE tx == session[s]
             row == tx.writes[u]
  <1>1. /\ StageOK(tx, rows, journal) /\ tx.at = "commit" /\ DOMAIN rows \subseteq UpdateIDs
        /\ \A v \in DOMAIN rows : /\ rows[v] \in DBRow /\ rows[v].createdAt \in Times
                                  /\ rows[v].quoteID \in DOMAIN journal \cup {0}
    BY DEF TxInv, RowsOK
  <1>2. CASE Inserts(tx, rows)
    <2>1. PICK v \in UpdateIDs, p \in Pairs, k \in Keys \cup {NoKey}, now \in Times :
            /\ DOMAIN tx.writes = {v} /\ tx.writes[v] = Tables!NewUpdateRequest(p, k, now)
            /\ v \notin DOMAIN rows
      BY <1>2 DEF Inserts
    <2>2. u = v /\ row = Tables!NewUpdateRequest(p, k, now)
      BY <2>1
    <2>3. row \in DBRow /\ row.createdAt = now /\ row.quoteID = 0
      BY <2>2, NewRowFacts, RowKinds
    <2> QED BY <2>1, <2>2, <2>3
  <1>3. CASE Claims(tx, rows)
    <2>1. PICK now \in Times : /\ u \in DOMAIN rows /\ row = Tables!ClaimedRow(rows[u], now)
                               /\ row.attempts <= MaxInt
      BY <1>3 DEF Claims
    <2>2. rows[u] \in RowWith(QuoteIDs \cup {0})
      BY <1>1, <2>1, RowKinds
    <2> HIDE DEF row
    <2>3. /\ row \in DBRow /\ row.pair = rows[u].pair /\ row.key = rows[u].key
          /\ row.createdAt = rows[u].createdAt /\ row.quoteID = rows[u].quoteID
      BY <2>1, <2>2, ClaimedRowFacts, RowKinds
    <2>4. rows[u].createdAt \in Times /\ rows[u].quoteID \in DOMAIN journal \cup {0}
      BY <1>1, <2>1
    <2> QED BY <1>1, <2>1, <2>3, <2>4 DEF row
  <1>4. CASE Completes(tx, rows, journal)
    <2>1. PICK v \in DOMAIN rows, change \in Change :
            /\ DOMAIN tx.writes = {v} /\ tx.writes[v] = Changed(rows[v], change)
            /\ tx.id = change.id
            /\ ChangeOK(v, change, tx.entry, rows, journal)
      BY <1>4 DEF Completes
    <2>2. u = v /\ row = Changed(rows[u], change) /\ u \in DOMAIN rows
      BY <2>1
    <2> HIDE DEF row
    <2>3. /\ row \in DBRow /\ row.pair = rows[u].pair /\ row.key = rows[u].key
          /\ row.createdAt = rows[u].createdAt
          /\ row.quoteID = IF change.kind = "succeed" THEN change.id ELSE rows[u].quoteID
      BY <1>1, <2>2, ChangedRowFacts
    <2>4. row.quoteID \in DOMAIN journal \cup {0}
                 \cup IF tx.entry = NoEntry THEN {} ELSE {tx.id}
      BY <1>1, <2>1, <2>2, <2>3 DEF ChangeOK
    <2>5. rows[u].createdAt \in Times
      BY <1>1, <2>2
    <2> QED BY <1>1, <2>2, <2>3, <2>4, <2>5 DEF row
  <1> QED BY <1>1, <1>2, <1>3, <1>4 DEF StageOK

\* A commit writes no more rows than there are, and one.
LEMMA WritesFinite ==
  ASSUME TxInv, NEW s \in Sessions, session[s].at = "commit"
  PROVE  IsFiniteSet(DOMAIN session[s].writes)
  <1> DEFINE tx == session[s]
  <1>1. StageOK(tx, rows, journal) /\ IsFiniteSet(DOMAIN rows)
    BY DEF TxInv, RowsOK
  <1>2. \/ \E u : DOMAIN tx.writes = {u}
        \/ DOMAIN tx.writes \subseteq DOMAIN rows
    BY <1>1 DEF StageOK, Inserts, Claims, Completes
  <1> QED BY <1>1, <1>2, FS_Singleton, FS_Subset

\* The committed rows after a commit of s, set beside those before.
LEMMA CommitRows ==
  ASSUME TxInv, NEW s \in Sessions, Commit(s)
  PROVE  LET tx == session[s] IN
         /\ tx.at = "commit" /\ StageOK(tx, rows, journal)
         /\ DOMAIN rows' = DOMAIN rows \cup DOMAIN tx.writes
         /\ \A u \in DOMAIN tx.writes : rows'[u] = tx.writes[u]
         /\ \A u \in DOMAIN rows \ DOMAIN tx.writes : rows'[u] = rows[u]
         /\ \A u \in DOMAIN rows : rows'[u].pair = rows[u].pair /\ rows'[u].key = rows[u].key
  <1> DEFINE tx == session[s]
  <1>1. tx.at = "commit" /\ StageOK(tx, rows, journal)
    BY DEF Commit, TxInv
  <1>2. rows' = [u \in DOMAIN rows \cup DOMAIN tx.writes |->
                   IF u \in DOMAIN tx.writes THEN tx.writes[u] ELSE rows[u]]
    BY Zenon DEF Commit
  <1>3. /\ DOMAIN rows' = DOMAIN rows \cup DOMAIN tx.writes
        /\ \A u \in DOMAIN tx.writes : rows'[u] = tx.writes[u]
        /\ \A u \in DOMAIN rows \ DOMAIN tx.writes : rows'[u] = rows[u]
    BY <1>2
  <1>4. \A u \in DOMAIN rows : rows'[u].pair = rows[u].pair /\ rows'[u].key = rows[u].key
    BY <1>1, <1>3, WriteFacts
  <1> QED BY <1>1, <1>3, <1>4

\* The journal after a commit of s: what it was, and the quote s inserted.
LEMMA CommitJournal ==
  ASSUME TxInv, NEW s \in Sessions, Commit(s)
  PROVE  LET tx == session[s] IN
         /\ \A q \in DOMAIN journal : q \in DOMAIN journal' /\ journal'[q] = journal[q]
         /\ tx.entry = NoEntry => journal' = journal /\ commits' = commits
         /\ tx.entry # NoEntry =>
              /\ Holds(tx) /\ IDOf(tx) = tx.id
              /\ tx.id \in QuoteIDs \ DOMAIN journal /\ tx.entry \in Entry
              /\ \A q \in DOMAIN journal : ~SameQuote(journal[q], tx.entry)
              /\ DOMAIN journal' = DOMAIN journal \cup {tx.id}
              /\ journal'[tx.id] = tx.entry
              /\ commits' = Append(commits, tx.id)
  <1> DEFINE tx == session[s]
  <1>1. tx.at = "commit" /\ StageOK(tx, rows, journal)
    BY CommitRows
  <1>2. CASE tx.entry = NoEntry
    BY <1>2 DEF Commit
  <1>3. CASE tx.entry # NoEntry
    <2>1. /\ journal' = [q \in DOMAIN journal \cup {tx.id} |->
                           IF q = tx.id THEN tx.entry ELSE journal[q]]
          /\ commits' = Append(commits, tx.id)
      BY <1>3, Zenon DEF Commit
    <2>2. Holds(tx) /\ IDOf(tx) = tx.id
      BY <1>1, <1>3 DEF Holds, IDOf
    <2>3. /\ tx.id \in QuoteIDs \ DOMAIN journal /\ tx.entry \in Entry
          /\ \A q \in DOMAIN journal : ~SameQuote(journal[q], tx.entry)
      BY <1>1, <1>3, <2>2 DEF StageOK
    <2> HIDE DEF tx
    <2>4. /\ DOMAIN journal' = DOMAIN journal \cup {tx.id}
          /\ journal'[tx.id] = tx.entry
          /\ \A q \in DOMAIN journal : q \in DOMAIN journal' /\ journal'[q] = journal[q]
      BY <2>1, <2>3
    <2> QED BY <1>3, <2>1, <2>2, <2>3, <2>4 DEF tx
  <1> QED BY <1>2, <1>3

LEMMA CommitRowsOK ==
  ASSUME TxInv, NEW s \in Sessions, Commit(s)
  PROVE  RowsOK'
  <1> DEFINE tx == session[s]
  <1>1. /\ tx.at = "commit"
        /\ DOMAIN rows' = DOMAIN rows \cup DOMAIN tx.writes
        /\ \A u \in DOMAIN tx.writes : rows'[u] = tx.writes[u]
        /\ \A u \in DOMAIN rows \ DOMAIN tx.writes : rows'[u] = rows[u]
    BY CommitRows
  <1>2. /\ DOMAIN journal \subseteq DOMAIN journal'
        /\ tx.entry # NoEntry => tx.id \in DOMAIN journal'
    BY CommitJournal
  <1>3. /\ DOMAIN rows \subseteq UpdateIDs /\ IsFiniteSet(DOMAIN rows)
        /\ \A u \in DOMAIN rows : /\ rows[u] \in DBRow /\ rows[u].createdAt \in Times
                                  /\ rows[u].quoteID \in DOMAIN journal \cup {0}
    BY DEF TxInv, RowsOK
  <1>4. ASSUME NEW u \in DOMAIN rows'
        PROVE  /\ u \in UpdateIDs /\ rows'[u] \in DBRow /\ rows'[u].createdAt \in Times
               /\ rows'[u].quoteID \in DOMAIN journal' \cup {0}
    <2>1. CASE u \in DOMAIN tx.writes
      BY <1>1, <1>2, <2>1, WriteFacts
    <2>2. CASE u \notin DOMAIN tx.writes
      BY <1>1, <1>2, <1>3, <2>2
    <2> QED BY <2>1, <2>2
  <1>5. IsFiniteSet(DOMAIN rows')
    <2>1. IsFiniteSet(DOMAIN tx.writes)
      BY <1>1, WritesFinite
    <2>2. IsFiniteSet(DOMAIN rows \cup DOMAIN tx.writes)
      BY <1>3, <2>1, FS_Union, Zenon
    <2> QED BY <1>1, <2>2
  <1>6. rows' \in [DOMAIN rows' -> DBRow]
    <2>1. rows' = [u \in DOMAIN rows \cup DOMAIN tx.writes |->
                     IF u \in DOMAIN tx.writes THEN tx.writes[u] ELSE rows[u]]
      BY Zenon DEF Commit
    <2> QED BY <1>1, <1>4, <2>1
  <1> QED BY <1>4, <1>5, <1>6 DEF RowsOK

LEMMA CommitJournalOK ==
  ASSUME TxInv, NEW s \in Sessions, Commit(s)
  PROVE  JournalOK'
  <1> DEFINE tx == session[s]
             id == tx.id
  <1>1. CASE tx.entry = NoEntry
    <2>1. journal' = journal /\ commits' = commits
      BY <1>1, CommitJournal
    <2> QED BY <2>1 DEF TxInv, JournalOK
  <1>2. CASE tx.entry # NoEntry
    <2>1. /\ id \in QuoteIDs \ DOMAIN journal /\ tx.entry \in Entry
          /\ \A q \in DOMAIN journal : ~SameQuote(journal[q], tx.entry)
          /\ DOMAIN journal' = DOMAIN journal \cup {id}
          /\ journal'[id] = tx.entry /\ \A q \in DOMAIN journal : journal'[q] = journal[q]
          /\ commits' = Append(commits, id)
      BY <1>2, CommitJournal
    <2>2. journal' = [q \in DOMAIN journal \cup {id} |->
                        IF q = id THEN tx.entry ELSE journal[q]]
      BY <1>2, Zenon DEF Commit
    <2>3. /\ DOMAIN journal \subseteq QuoteIDs /\ journal \in [DOMAIN journal -> Entry]
          /\ commits \in Seq(DOMAIN journal)
          /\ \A q \in DOMAIN journal : \E i \in DOMAIN commits : commits[i] = q
          /\ \A i, j \in DOMAIN commits : commits[i] = commits[j] => i = j
          /\ \A q, r \in DOMAIN journal : SameQuote(journal[q], journal[r]) => q = r
          /\ IsFiniteSet(DOMAIN journal) /\ Len(commits) = Cardinality(DOMAIN journal)
      BY DEF TxInv, JournalOK
    <2> DEFINE ids == DOMAIN journal
               n == Len(commits)
    <2> HIDE DEF tx, id
    <2>4. /\ DOMAIN journal' \subseteq QuoteIDs
          /\ journal' \in [DOMAIN journal' -> Entry]
      BY <2>1, <2>2, <2>3
    <2>5. /\ commits' \in Seq(ids \cup {id}) /\ Len(commits') = n + 1
          /\ n \in Nat /\ DOMAIN commits' = 1..(n + 1) /\ DOMAIN commits = 1..n
          /\ commits'[n + 1] = id /\ \A i \in 1..n : commits'[i] = commits[i]
      BY <2>1, <2>3
    <2>6. \A i \in 1..n : commits[i] \in ids
      BY <2>3
    <2>7. \A q \in DOMAIN journal' : \E i \in DOMAIN commits' : commits'[i] = q
      <3> SUFFICES ASSUME NEW q \in ids \cup {id}
                   PROVE  \E i \in 1..(n + 1) : commits'[i] = q
        BY <2>1, <2>5
      <3>1. CASE q = id
        BY <2>5, <3>1
      <3>2. CASE q \in ids
        <4>1. PICK i \in 1..n : commits[i] = q
          BY <2>3, <2>5, <3>2
        <4>2. i \in 1..(n + 1) /\ commits'[i] = q
          BY <2>5, <4>1
        <4> QED BY <4>2
      <3> QED BY <3>1, <3>2
    <2>8. \A i, j \in DOMAIN commits' : commits'[i] = commits'[j] => i = j
      <3> SUFFICES ASSUME NEW i \in 1..(n + 1), NEW j \in 1..(n + 1),
                          commits'[i] = commits'[j]
                   PROVE  i = j
        BY <2>5
      <3>1. CASE i \in 1..n /\ j \in 1..n
        BY <2>3, <2>5, <3>1
      <3>2. CASE i = n + 1 \/ j = n + 1
        BY <2>1, <2>5, <2>6, <3>2
      <3> QED BY <2>5, <3>1, <3>2
    <2>9. \A q, r \in DOMAIN journal' : SameQuote(journal'[q], journal'[r]) => q = r
      BY <2>1, <2>3, SameQuoteSym
    <2>10. IsFiniteSet(DOMAIN journal') /\ Len(commits') = Cardinality(DOMAIN journal')
      BY <2>1, <2>3, <2>5, FS_AddElement
    <2> QED BY <2>1, <2>4, <2>5, <2>7, <2>8, <2>9, <2>10 DEF JournalOK
  <1> QED BY <1>1, <1>2

\* A change that is in order stays so while the tables grow.
LEMMA ChangeSurvives ==
  ASSUME NEW table, NEW book, NEW table2, NEW book2,
         \A v \in DOMAIN table : v \in DOMAIN table2 /\ table2[v].pair = table[v].pair,
         \A q \in DOMAIN book : q \in DOMAIN book2 /\ book2[q] = book[q],
         NEW u, NEW change, NEW entry, ChangeOK(u, change, entry, table, book)
  PROVE  ChangeOK(u, change, entry, table2, book2)
  BY DEF ChangeOK

\* The stages of the others survive a commit of s, apart from which they are.
LEMMA CommitStage ==
  ASSUME TxInv, NEW s \in Sessions, Commit(s), NEW t \in Sessions \ {s}
  PROVE  StageOK(session[t], rows', journal')
  <1> DEFINE a == session[s]
             b == session[t]
  <1>1. StageOK(b, rows, journal) /\ Apart(a, b, rows)
    BY DEF TxInv
  <1>2. /\ a.at = "commit" /\ StageOK(a, rows, journal)
        /\ DOMAIN rows' = DOMAIN rows \cup DOMAIN a.writes
        /\ \A u \in DOMAIN a.writes : rows'[u] = a.writes[u]
        /\ \A u \in DOMAIN rows \ DOMAIN a.writes : rows'[u] = rows[u]
        /\ \A u \in DOMAIN rows : /\ u \in DOMAIN rows'
                                  /\ rows'[u].pair = rows[u].pair
                                  /\ rows'[u].key = rows[u].key
    BY CommitRows
  <1>3. \A q \in DOMAIN journal : q \in DOMAIN journal' /\ journal'[q] = journal[q]
    BY CommitJournal
  <1> HIDE DEF a, b
  <1>4. ASSUME NEW u, NEW change, NEW entry, ChangeOK(u, change, entry, rows, journal)
        PROVE  ChangeOK(u, change, entry, rows', journal')
    BY <1>2, <1>3, <1>4, ChangeSurvives
  <1>5. ASSUME b.at = "select"
        PROVE  /\ b.u \in DOMAIN rows'
               /\ b.rate \in Entry /\ b.rate.pair = rows'[b.u].pair
               /\ \E q \in DOMAIN journal' : SameQuote(journal'[q], b.rate)
    BY <1>1, <1>2, <1>3, <1>5 DEF StageOK
  <1>6. ASSUME b.at = "claim"
        PROVE  /\ b.now \in Times
               /\ DOMAIN b.due \subseteq DOMAIN rows' /\ DOMAIN b.stuck \subseteq DOMAIN rows'
    BY <1>1, <1>2, <1>6 DEF StageOK
  <1>7. ASSUME b.at = "commit"
        PROVE  /\ b.writes \in [DOMAIN b.writes -> DBRow]
               /\ DOMAIN b.writes \subseteq b.locked
               /\ DOMAIN b.writes = b.locked \/ Cardinality(DOMAIN b.writes) = BatchSize
               /\ b.locked \subseteq DOMAIN rows' \cup DOMAIN b.writes
               /\ b.moved \subseteq DOMAIN rows'
               /\ b.entry \in Entry \cup {NoEntry}
               /\ Inserts(b, rows') \/ Claims(b, rows') \/ Completes(b, rows', journal')
    <2>1. /\ b.writes \in [DOMAIN b.writes -> DBRow]
          /\ DOMAIN b.writes \subseteq b.locked
          /\ DOMAIN b.writes = b.locked \/ Cardinality(DOMAIN b.writes) = BatchSize
          /\ b.locked \subseteq DOMAIN rows \cup DOMAIN b.writes
          /\ b.moved \subseteq DOMAIN rows
          /\ b.entry \in Entry \cup {NoEntry}
          /\ Inserts(b, rows) \/ Claims(b, rows) \/ Completes(b, rows, journal)
      BY <1>1, <1>7 DEF StageOK
    <2>2. \A u \in DOMAIN b.writes : u \notin DOMAIN a.writes
      <3>1. DOMAIN a.writes \subseteq a.locked
        BY <1>2 DEF StageOK
      <3> QED BY <1>1, <1>2, <1>7, <2>1, <3>1 DEF Apart, LocksOf
    <2>3. \A u \in DOMAIN b.writes : u \in DOMAIN rows =>
            u \in DOMAIN rows' /\ rows'[u] = rows[u]
      BY <1>2, <2>2
    <2>4. CASE Inserts(b, rows)
      <3>1. PICK u \in UpdateIDs, p \in Pairs, k \in Keys \cup {NoKey}, now \in Times :
              /\ DOMAIN b.writes = {u}
              /\ b.writes[u] = Tables!NewUpdateRequest(p, k, now)
              /\ b.entry = NoEntry
              /\ u \notin DOMAIN rows
              /\ k # NoKey => \A v \in DOMAIN rows : rows[v].key # k
        BY <2>4 DEF Inserts
      <3>2. u \notin DOMAIN rows'
        BY <1>2, <2>2, <3>1
      <3>3. b.writes[u].key = k
        BY <3>1 DEF Tables!NewUpdateRequest
      <3>4. ASSUME k # NoKey, NEW v \in DOMAIN rows' PROVE rows'[v].key # k
        <4>1. CASE v \in DOMAIN rows
          BY <1>2, <3>1, <3>4, <4>1
        <4>2. CASE v \notin DOMAIN rows
          <5>1. v \in WritesOf(a) \ DOMAIN rows /\ u \in WritesOf(b) \ DOMAIN rows
            BY <1>2, <1>7, <3>1, <3>4, <4>2 DEF WritesOf
          <5>2. a.writes[v].key = b.writes[u].key => a.writes[v].key = NoKey
            BY <1>1, <5>1 DEF Apart
          <5> QED BY <1>2, <3>3, <3>4, <4>2, <5>2
        <4> QED BY <4>1, <4>2
      <3>5. Inserts(b, rows')
        BY <3>1, <3>2, <3>4 DEF Inserts
      <3> QED BY <1>2, <2>1, <3>5
    <2>5. CASE Claims(b, rows)
      <3>1. Claims(b, rows')
        BY <1>2, <2>3, <2>5 DEF Claims
      <3> QED BY <1>2, <2>1, <3>1
    <2>6. CASE Completes(b, rows, journal)
      <3>1. PICK u \in DOMAIN rows, change \in Change :
              /\ DOMAIN b.writes = {u} /\ b.writes[u] = Changed(rows[u], change)
              /\ rows[u].status = StatusInProgress
              /\ b.id = change.id
              /\ ChangeOK(u, change, b.entry, rows, journal)
        BY <2>6 DEF Completes
      <3>2. u \in DOMAIN rows' /\ rows'[u] = rows[u]
        BY <2>3, <3>1
      <3>3. Completes(b, rows', journal')
        BY <1>4, <3>1, <3>2 DEF Completes
      <3> QED BY <1>2, <2>1, <3>3
    <2> QED BY <2>1, <2>4, <2>5, <2>6
  <1>8. ASSUME Holds(b)
        PROVE  /\ IDOf(b) \in QuoteIDs \ DOMAIN journal'
               /\ \A q \in DOMAIN journal' : ~SameQuote(journal'[q], b.entry)
    <2>1. /\ IDOf(b) \in QuoteIDs \ DOMAIN journal
          /\ \A q \in DOMAIN journal : ~SameQuote(journal[q], b.entry)
      BY <1>1, <1>8 DEF StageOK
    <2>2. CASE a.entry = NoEntry
      <3>1. journal' = journal
        BY <2>2, CommitJournal DEF a
      <3> QED BY <2>1, <3>1
    <2>3. CASE a.entry # NoEntry
      <3>1. /\ Holds(a) /\ IDOf(a) = a.id /\ DOMAIN journal' = DOMAIN journal \cup {a.id}
            /\ journal'[a.id] = a.entry
        BY <2>3, CommitJournal DEF a
      <3>2. IDOf(a) # IDOf(b) /\ ~SameQuote(a.entry, b.entry)
        BY <1>1, <1>8, <3>1 DEF Apart
      <3> QED BY <1>3, <2>1, <3>1, <3>2
    <2> QED BY <2>2, <2>3
  <1>9. StageOK(b, rows', journal')
    BY <1>1, <1>4, <1>5, <1>6, <1>7, <1>8 DEF StageOK
  <1> QED BY <1>9 DEF b

LEMMA CommitKeeps ==
  ASSUME TxInv, NEW s \in Sessions, Commit(s)
  PROVE  TxInv'
  <1>1. RowsOK' /\ JournalOK'
    BY CommitRowsOK, CommitJournalOK
  <1>2. /\ DOMAIN session' = Sessions /\ session'[s] = Idle
        /\ \A t \in Sessions \ {s} : session'[t] = session[t]
    BY DEF Commit, TxInv
  <1>3. StageOK(Idle, rows', journal') /\ Idle.at \notin {"overtaken", "commit"} /\ ~Holds(Idle)
    BY DEF StageOK, Idle, Holds
  <1>4. \A t \in Sessions : StageOK(session'[t], rows', journal')
    BY <1>2, <1>3, CommitStage
  <1>5. DOMAIN rows \subseteq DOMAIN rows'
    BY CommitRows
  <1>6. ASSUME NEW a \in Sessions, NEW b \in Sessions, a # b
        PROVE  Apart(session'[a], session'[b], rows')
    <2>1. CASE a = s
      BY <1>2, <1>3, <2>1, FreeApart
    <2>2. CASE b = s
      <3>1. Apart(Idle, session'[a], rows')
        BY <1>3, FreeApart
      <3> QED BY <1>2, <2>2, <3>1, ApartSym
    <2>3. CASE a # s /\ b # s
      <3>1. Apart(session[a], session[b], rows)
        BY <1>6 DEF TxInv
      <3>2. Apart(session[a], session[b], rows')
        BY <1>5, <3>1 DEF Apart
      <3> QED BY <1>2, <2>3, <3>2
    <2> QED BY <2>1, <2>2, <2>3
  <1> QED BY <1>1, <1>2, <1>4, <1>6 DEF TxInv

-----------------------------------------------------------------------------
(* The invariant.                                                          *)

\* An empty database, and every connection idle.
LEMMA InitKeeps == TxInit => TxInv
  <1> SUFFICES ASSUME TxInit PROVE TxInv
    OBVIOUS
  <1>1. DOMAIN rows = {} /\ DOMAIN journal = {} /\ commits = <<>>
    BY DEF TxInit
  <1>2. rows \in [DOMAIN rows -> DBRow] /\ journal \in [DOMAIN journal -> Entry]
    BY DEF TxInit
  <1>3. RowsOK
    BY <1>1, <1>2, FS_EmptySet DEF RowsOK
  <1>4. JournalOK
    BY <1>1, <1>2, FS_EmptySet DEF JournalOK
  <1>5. DOMAIN session = Sessions /\ \A s \in Sessions : session[s] = Idle
    BY DEF TxInit
  <1>6. StageOK(Idle, rows, journal) /\ Apart(Idle, Idle, rows)
    BY FreeApart DEF StageOK, Idle, Holds
  <1> QED BY <1>3, <1>4, <1>5, <1>6 DEF TxInv

\* The calls of the repository's methods.
LEMMA BeginKeeps ==
  ASSUME TxInv, NEW s \in Sessions, Begin(s)
  PROVE  TxInv'
  <1>1. CASE \E u \in UpdateIDs, p \in Pairs, k \in Keys \cup {NoKey},
                now \in CreationTimes : InsertUpdate(s, u, p, k, now)
    BY <1>1, InsertUpdateKeeps
  <1>2. CASE \E now \in Times : ClaimSnapshot(s, now)
    BY <1>2, ClaimSnapshotKeeps
  <1>3. ASSUME NEW u \in DOMAIN rows, NEW provider \in Providers, NEW quotedAt \in Times,
               UpsertQuote(s, u, [pair |-> rows[u].pair, provider |-> provider,
                                  quotedAt |-> quotedAt, staleAfter |-> quotedAt])
        PROVE  TxInv'
    <2> DEFINE rate == [pair |-> rows[u].pair, provider |-> provider,
                        quotedAt |-> quotedAt, staleAfter |-> quotedAt]
    <2>1. rows[u] \in DBRow
      BY DEF TxInv, RowsOK
    <2>2. rate \in Entry /\ rate.pair = rows[u].pair
      BY <2>1 DEF Entry, DBRow
    <2>3. UpsertQuote(s, u, rate)
      BY <1>3
    <2> HIDE DEF rate
    <2> QED BY <2>2, <2>3, UpsertQuoteKeeps
  <1>4. CASE \E u \in DOMAIN rows, id \in DOMAIN journal :
               journal[id].pair = rows[u].pair /\ BeginReuse(s, u, id)
    BY <1>4, BeginReuseKeeps
  <1>5. CASE \E u \in DOMAIN rows, code \in Codes, retryable \in BOOLEAN :
               \E nextAttemptAt \in IF retryable THEN Times ELSE {0} :
                 BeginFailure(s, u, code, retryable, nextAttemptAt)
    BY <1>5, BeginFailureKeeps
  <1> QED BY <1>1, <1>2, <1>3, <1>4, <1>5, Zenon DEF Begin

LEMMA StepKeeps == TxInv /\ [TxNext]_txVars => TxInv'
  <1> SUFFICES ASSUME TxInv, [TxNext]_txVars PROVE TxInv'
    OBVIOUS
  <1>1. CASE TxNext
    <2>1. PICK s \in Sessions :
            \/ Begin(s) \/ ClaimRows(s) \/ SelectWinner(s) \/ MatchRow(s) \/ LockRow(s)
            \/ Commit(s) \/ Rollback(s)
      BY <1>1, Zenon DEF TxNext
    <2> QED BY <2>1, BeginKeeps, ClaimRowsKeeps, SelectWinnerKeeps, MatchRowKeeps,
               LockRowKeeps, CommitKeeps, RollbackKeeps
  <1>2. CASE UNCHANGED txVars
    BY <1>2 DEF txVars, TxInv, RowsOK, JournalOK
  <1> QED BY <1>1, <1>2

\* Every transaction, at every statement, holds what it needs and keeps out of
\* the way of the others, whatever those do and however they end.
THEOREM TxInvariant == TxSpec => []TxInv
  <1>1. TxInit => TxInv
    BY InitKeeps
  <1>2. TxInv /\ [TxNext]_txVars => TxInv'
    BY StepKeeps
  <1> QED BY <1>1, <1>2, PTL DEF TxSpec

\* A step of one connection leaves the transactions of the others as they are.
LEMMA StepIsOwn ==
  ASSUME TxInv, NEW t \in Sessions,
         \/ Begin(t) \/ ClaimRows(t) \/ SelectWinner(t) \/ MatchRow(t) \/ LockRow(t)
         \/ Commit(t) \/ Rollback(t),
         NEW s \in Sessions, s # t
  PROVE  session'[s] = session[s]
  <1>1. \E tx : session' = [session EXCEPT ![t] = tx]
    BY Zenon DEF Begin, InsertUpdate, ClaimSnapshot, UpsertQuote, BeginReuse, BeginFailure,
                 ClaimRows, SelectWinner, MatchRow, LockRow, Commit, Rollback
  <1> QED BY <1>1 DEF TxInv

\* Nothing but its own statement ends the snapshot stage of a claim in writes.
LEMMA ClaimEnds ==
  ASSUME TxInv, [TxNext]_txVars, NEW s \in Sessions,
         session[s].at = "claim", session'[s].at = "commit"
  PROVE  ClaimRows(s)
  <1>1. CASE UNCHANGED txVars
    BY <1>1 DEF txVars
  <1>2. ASSUME NEW t \in Sessions,
               \/ Begin(t) \/ ClaimRows(t) \/ SelectWinner(t) \/ MatchRow(t) \/ LockRow(t)
               \/ Commit(t) \/ Rollback(t)
        PROVE  ClaimRows(s)
    <2>1. t # s => session'[s] = session[s]
      BY <1>2, StepIsOwn
    <2>2. t = s
      BY <2>1
    <2>3. ~Begin(s)
      <3>1. Begin(s) => session[s] = Idle
        BY Zenon DEF Begin, InsertUpdate, ClaimSnapshot, UpsertQuote, BeginReuse,
                     BeginFailure
      <3>2. Idle.at # "claim"
        BY DEF Idle
      <3> QED BY <3>1, <3>2
    <2>4. ~SelectWinner(s) /\ ~MatchRow(s) /\ ~LockRow(s) /\ ~Commit(s)
      BY Zenon DEF SelectWinner, MatchRow, LockRow, Commit
    <2>5. ~Rollback(s)
      BY DEF Rollback, Idle, TxInv
    <2> QED BY <1>2, <2>2, <2>3, <2>4, <2>5
  <1> QED BY <1>1, <1>2, Zenon DEF TxNext

\* A claim that comes back short leaves a candidate only to a transaction that
\* writes it, to a full claim that locked it, or to one that ran into it.
THEOREM ShortClaimsDrain == TxSpec => ShortClaimDrains
  <1>1. TxInv /\ [TxNext]_txVars =>
          [\A s \in Sessions :
             /\ session[s].at = "claim" /\ session'[s].at = "commit"
             /\ Cardinality(DOMAIN session'[s].writes) < BatchSize
             => \A u \in Candidates(s) \ DOMAIN session'[s].writes :
                  \E t \in Sessions \ {s} :
                    \/ u \in Writes(t) \cup Moved(t)
                    \/ u \in Locked(t) /\ Cardinality(Writes(t)) = BatchSize]_txVars
    <2> SUFFICES ASSUME TxInv, [TxNext]_txVars, NEW s \in Sessions,
                        session[s].at = "claim", session'[s].at = "commit",
                        Cardinality(DOMAIN session'[s].writes) < BatchSize,
                        NEW u \in Candidates(s) \ DOMAIN session'[s].writes
                 PROVE  \E t \in Sessions \ {s} :
                          \/ u \in Writes(t) \cup Moved(t)
                          \/ u \in Locked(t) /\ Cardinality(Writes(t)) = BatchSize
      BY Zenon
    <2>1. ClaimRows(s)
      BY ClaimEnds
    <2>2. PICK S, L, X :
            /\ \A v \in Candidates(s) \ S : LockedByOther(s, v) \/ Cardinality(S) = BatchSize
            /\ session' = [session EXCEPT ![s] =
                 Committing([v \in S |-> Tables!ClaimedRow(rows[v], session[s].now)], L, X,
                            NoEntry, 0)]
      BY <2>1, ClaimFacts, Zenon
    <2>3. DOMAIN session'[s].writes = S
      BY <2>2 DEF TxInv, Committing
    <2>4. BatchSize \in Nat
      BY TransactionAssumption
    <2>5. LockedByOther(s, u)
      BY <2>2, <2>3, <2>4
    <2>6. PICK t \in Sessions \ {s} : u \in Locked(t)
      BY <2>5 DEF LockedByOther
    <2>7. CASE u \in Moved(t)
      BY <2>7
    <2>8. CASE u \notin Moved(t)
      <3>1. session[t].at = "commit" /\ u \in session[t].locked
        BY <2>6, <2>8 DEF Locked
      <3>2. \/ DOMAIN session[t].writes = session[t].locked
            \/ Cardinality(DOMAIN session[t].writes) = BatchSize
        BY <3>1 DEF TxInv, StageOK
      <3> QED BY <2>6, <3>1, <3>2 DEF Writes
    <2> QED BY <2>7, <2>8
  <1> QED BY <1>1, TxInvariant, PTL DEF TxSpec, ShortClaimDrains

\* What is committed, and what each open transaction works on, has its type.
THEOREM TxTypesCorrect == TxSpec => []TxTypeOK
  <1>1. TxInv => TxTypeOK
    <2> SUFFICES ASSUME TxInv PROVE TxTypeOK
      OBVIOUS
    <2>1. /\ DOMAIN rows \subseteq UpdateIDs /\ rows \in [DOMAIN rows -> DBRow]
          /\ DOMAIN journal \subseteq QuoteIDs /\ journal \in [DOMAIN journal -> Entry]
          /\ commits \in Seq(DOMAIN journal) /\ Len(commits) = Cardinality(DOMAIN journal)
      BY DEF TxInv, RowsOK, JournalOK
    <2>2. ASSUME NEW s \in Sessions
          PROVE  LET tx == session[s] IN
                 \/ tx = Idle
                 \/ tx.at = "select" /\ tx.u \in DOMAIN rows /\ tx.rate \in Entry
                 \/ /\ tx.at \in {"update", "lock", "refused", "overtaken"}
                    /\ tx.u \in DOMAIN rows
                    /\ tx.change \in Change /\ tx.entry \in Entry \cup {NoEntry}
                 \/ /\ tx.at = "claim" /\ tx.now \in Times
                    /\ DOMAIN tx.due \subseteq DOMAIN rows
                    /\ DOMAIN tx.stuck \subseteq DOMAIN rows
                 \/ /\ tx.at = "commit" /\ tx.writes \in [DOMAIN tx.writes -> DBRow]
                    /\ DOMAIN tx.writes \subseteq tx.locked
                    /\ tx.moved \subseteq DOMAIN rows
                    /\ tx.entry \in Entry \cup {NoEntry}
      <3>1. StageOK(session[s], rows, journal)
        BY DEF TxInv
      <3> QED BY <3>1 DEF StageOK, ChangeOK
    <2> QED BY <2>1, <2>2 DEF TxTypeOK
  <1> QED BY <1>1, TxInvariant, PTL

-----------------------------------------------------------------------------
(* The tables QuoteStore sees: an id there is a position in the order of   *)
(* the commits.                                                            *)

TableRows == [u \in DOMAIN rows |-> [rows[u] EXCEPT !.quoteID = Position(@)]]

TableQuotes == [i \in DOMAIN commits |-> journal[commits[i]]]

PositionIn(seq, id) == IF id = 0 THEN 0 ELSE CHOOSE i \in DOMAIN seq : seq[i] = id

SeenRow(row, seq) == [row EXCEPT !.quoteID = PositionIn(seq, row.quoteID)]

LEMMA TableRowsDef ==
  TableRows = [u \in DOMAIN rows |-> SeenRow(rows[u], commits)]
  <1>1. \A u \in DOMAIN rows :
          [rows[u] EXCEPT !.quoteID = Position(@)] = SeenRow(rows[u], commits)
    BY Zenon DEF SeenRow, Position, PositionIn
  <1> QED BY <1>1 DEF TableRows

\* The same after a step.
LEMMA TableRowsNext ==
  TableRows' = [u \in DOMAIN rows' |-> SeenRow(rows'[u], commits')]
  <1>1. \A u \in DOMAIN rows' :
          [rows[u] EXCEPT !.quoteID = Position(@)]' = SeenRow(rows'[u], commits')
    BY Zenon DEF SeenRow, Position, PositionIn
  <1> QED BY <1>1 DEF TableRows

\* Each committed id has one position, and 0 stays 0.
LEMMA PositionFacts ==
  /\ \A seq : PositionIn(seq, 0) = 0
  /\ JournalOK => \A id \in DOMAIN journal :
       /\ PositionIn(commits, id) \in DOMAIN commits /\ PositionIn(commits, id) \in Nat
       /\ commits[PositionIn(commits, id)] = id
       /\ \A i \in DOMAIN commits : commits[i] = id => i = PositionIn(commits, id)
  <1>1. \A seq : PositionIn(seq, 0) = 0
    BY DEF PositionIn
  <1>2. ASSUME JournalOK, NEW id \in DOMAIN journal
        PROVE  /\ PositionIn(commits, id) \in DOMAIN commits
               /\ PositionIn(commits, id) \in Nat
               /\ commits[PositionIn(commits, id)] = id
               /\ \A i \in DOMAIN commits : commits[i] = id => i = PositionIn(commits, id)
    <2> DEFINE p == PositionIn(commits, id)
    <2>1. id # 0
      BY <1>2, TransactionAssumption DEF JournalOK
    <2>2. p = CHOOSE i \in DOMAIN commits : commits[i] = id
      BY <2>1 DEF PositionIn
    <2>3. \E i \in DOMAIN commits : commits[i] = id
      BY <1>2 DEF JournalOK
    <2> HIDE DEF p
    <2>4. p \in DOMAIN commits /\ commits[p] = id
      BY <2>2, <2>3
    <2>5. p \in Nat
      BY <1>2, <2>4 DEF JournalOK
    <2>6. \A i \in DOMAIN commits : commits[i] = id => i = p
      BY <1>2, <2>4 DEF JournalOK
    <2> QED BY <2>4, <2>5, <2>6 DEF p
  <1> QED BY <1>1, <1>2

\* A commit moves no quote.
LEMMA PositionStable ==
  ASSUME TxInv, NEW s \in Sessions, Commit(s), NEW id \in DOMAIN journal \cup {0}
  PROVE  PositionIn(commits', id) = PositionIn(commits, id)
  <1> DEFINE tx == session[s]
  <1>1. CASE id = 0
    BY <1>1, PositionFacts
  <1>2. CASE id \in DOMAIN journal
    <2>1. JournalOK /\ JournalOK'
      BY CommitJournalOK DEF TxInv
    <2>2. /\ PositionIn(commits, id) \in DOMAIN commits
          /\ commits[PositionIn(commits, id)] = id
      BY <1>2, <2>1, PositionFacts
    <2>3. commits' = commits \/ commits' = Append(commits, tx.id)
      BY CommitJournal
    <2>4. commits \in Seq(DOMAIN journal)
      BY <2>1 DEF JournalOK
    <2>5. \A i \in DOMAIN commits : i \in DOMAIN commits' /\ commits'[i] = commits[i]
      <3> HIDE DEF tx
      <3> QED BY <2>3, <2>4
    <2>6. id # 0 /\ \A i, j \in DOMAIN commits' : commits'[i] = commits'[j] => i = j
      BY <1>2, <2>1, TransactionAssumption DEF JournalOK
    <2> DEFINE p == PositionIn(commits, id)
               q == PositionIn(commits', id)
    <2>7. p \in DOMAIN commits' /\ commits'[p] = id
      BY <2>2, <2>5
    <2>8. q = CHOOSE i \in DOMAIN commits' : commits'[i] = id
      BY <2>6 DEF PositionIn
    <2> HIDE DEF p, q
    <2>9. q \in DOMAIN commits' /\ commits'[q] = id
      BY <2>7, <2>8
    <2> QED BY <2>6, <2>7, <2>9 DEF p, q
  <1> QED BY <1>1, <1>2

\* A committed row and the row QuoteStore sees, column by column.
LEMMA SeenFacts ==
  ASSUME NEW row \in DBRow, NEW seq, PositionIn(seq, row.quoteID) \in Nat
  PROVE  LET seen == SeenRow(row, seq) IN
           /\ seen \in RowWith(Nat)
           /\ seen.pair = row.pair /\ seen.key = row.key /\ seen.status = row.status
           /\ seen.attempts = row.attempts /\ seen.createdAt = row.createdAt
           /\ seen.nextAttemptAt = row.nextAttemptAt /\ seen.lockedAt = row.lockedAt
           /\ seen.quoteID = PositionIn(seq, row.quoteID)
           /\ seen.reused = row.reused /\ seen.errorCode = row.errorCode
  <1> DEFINE p == PositionIn(seq, row.quoteID)
             seen == [row EXCEPT !.quoteID = p]
  <1>1. row \in RowWith(QuoteIDs \cup {0})
    BY RowKinds
  <1> HIDE DEF p
  <1>2. seen \in RowWith(Nat)
    BY <1>1 DEF RowWith, p
  <1>3. /\ seen.pair = row.pair /\ seen.key = row.key /\ seen.status = row.status
        /\ seen.attempts = row.attempts /\ seen.createdAt = row.createdAt
        /\ seen.nextAttemptAt = row.nextAttemptAt /\ seen.lockedAt = row.lockedAt
        /\ seen.quoteID = p
        /\ seen.reused = row.reused /\ seen.errorCode = row.errorCode
    BY <1>1 DEF RowWith
  <1> QED BY <1>2, <1>3, Zenon DEF SeenRow, p

\* What a statement makes of a committed row, QuoteStore's action makes of the
\* row it sees.
LEMMA SeenNew ==
  ASSUME NEW p \in Pairs, NEW k \in Keys \cup {NoKey}, NEW now \in Times, NEW seq
  PROVE  SeenRow(Tables!NewUpdateRequest(p, k, now), seq) = Tables!NewUpdateRequest(p, k, now)
  <1> DEFINE row == Tables!NewUpdateRequest(p, k, now)
             seen == SeenRow(row, seq)
  <1>1. row \in DBRow /\ row.quoteID = 0
    BY NewRowFacts, RowKinds
  <1>2. row \in RowWith(Nat)
    BY NewRowFacts
  <1> HIDE DEF row
  <1>3. PositionIn(seq, row.quoteID) = 0
    BY <1>1, PositionFacts
  <1>4. /\ seen \in RowWith(Nat)
        /\ seen.pair = row.pair /\ seen.key = row.key /\ seen.status = row.status
        /\ seen.attempts = row.attempts /\ seen.createdAt = row.createdAt
        /\ seen.nextAttemptAt = row.nextAttemptAt /\ seen.lockedAt = row.lockedAt
        /\ seen.quoteID = 0
        /\ seen.reused = row.reused /\ seen.errorCode = row.errorCode
    BY <1>1, <1>3, SeenFacts
  <1> HIDE DEF seen
  <1>5. seen = row
    BY <1>1, <1>2, <1>4, SameRow
  <1> QED BY <1>5 DEF row, seen

LEMMA SeenClaimed ==
  ASSUME NEW row \in DBRow, NEW now \in Times, NEW seq, PositionIn(seq, row.quoteID) \in Nat,
         Tables!ClaimedRow(row, now).attempts <= MaxInt
  PROVE  /\ SeenRow(Tables!ClaimedRow(row, now), seq) = Tables!ClaimedRow(SeenRow(row, seq), now)
         /\ Tables!ClaimedRow(SeenRow(row, seq), now).attempts <= MaxInt
  <1> DEFINE seen == SeenRow(row, seq)
             claimed == Tables!ClaimedRow(row, now)
             a == SeenRow(claimed, seq)
             b == Tables!ClaimedRow(seen, now)
  <1>1. row \in RowWith(QuoteIDs \cup {0})
    BY RowKinds
  <1>2. /\ seen \in RowWith(Nat)
        /\ seen.pair = row.pair /\ seen.key = row.key /\ seen.status = row.status
        /\ seen.attempts = row.attempts /\ seen.createdAt = row.createdAt
        /\ seen.nextAttemptAt = row.nextAttemptAt
        /\ seen.quoteID = PositionIn(seq, row.quoteID)
        /\ seen.reused = row.reused /\ seen.errorCode = row.errorCode
    BY SeenFacts
  <1>3. /\ claimed.pair = row.pair /\ claimed.key = row.key
        /\ claimed.status = StatusInProgress
        /\ claimed.attempts = IF row.status = StatusPending THEN row.attempts + 1
                                                            ELSE row.attempts
        /\ claimed.createdAt = row.createdAt
        /\ claimed.nextAttemptAt = row.nextAttemptAt /\ claimed.lockedAt = now
        /\ claimed.quoteID = row.quoteID
        /\ claimed.reused = row.reused /\ claimed.errorCode = row.errorCode
        /\ claimed \in DBRow
    BY <1>1, ClaimedRowFacts, RowKinds
  <1> HIDE DEF seen, claimed
  <1>4. /\ b.pair = seen.pair /\ b.key = seen.key
        /\ b.status = StatusInProgress
        /\ b.attempts = IF seen.status = StatusPending THEN seen.attempts + 1
                                                       ELSE seen.attempts
        /\ b.createdAt = seen.createdAt
        /\ b.nextAttemptAt = seen.nextAttemptAt /\ b.lockedAt = now
        /\ b.quoteID = seen.quoteID
        /\ b.reused = seen.reused /\ b.errorCode = seen.errorCode
        /\ b.attempts <= MaxInt => b \in RowWith(Nat)
    BY <1>2, ClaimedRowFacts
  <1>5. b.attempts = claimed.attempts /\ b.attempts <= MaxInt
    <2>1. b.attempts = claimed.attempts
      BY <1>2, <1>3, <1>4
    <2> QED BY <2>1 DEF claimed
  <1>6. /\ a \in RowWith(Nat)
        /\ a.pair = claimed.pair /\ a.key = claimed.key /\ a.status = claimed.status
        /\ a.attempts = claimed.attempts /\ a.createdAt = claimed.createdAt
        /\ a.nextAttemptAt = claimed.nextAttemptAt /\ a.lockedAt = claimed.lockedAt
        /\ a.quoteID = PositionIn(seq, claimed.quoteID)
        /\ a.reused = claimed.reused /\ a.errorCode = claimed.errorCode
    BY <1>3, SeenFacts
  <1> HIDE DEF a, b
  <1>7. /\ a.pair = b.pair /\ a.key = b.key /\ a.status = b.status
        /\ a.attempts = b.attempts /\ a.createdAt = b.createdAt
        /\ a.nextAttemptAt = b.nextAttemptAt /\ a.lockedAt = b.lockedAt
        /\ a.quoteID = b.quoteID /\ a.reused = b.reused /\ a.errorCode = b.errorCode
    BY <1>2, <1>3, <1>4, <1>5, <1>6, Zenon
  <1>8. a = b
    BY <1>4, <1>5, <1>6, <1>7, SameRow
  <1> QED BY <1>5, <1>8 DEF seen, claimed, a, b

LEMMA SeenSucceeded ==
  ASSUME NEW row \in DBRow, NEW id \in QuoteIDs, NEW reused \in BOOLEAN,
         NEW seq, PositionIn(seq, row.quoteID) \in Nat,
         NEW seq2, PositionIn(seq2, id) \in Nat
  PROVE  SeenRow(Tables!SucceededRow(row, id, reused), seq2) =
           Tables!SucceededRow(SeenRow(row, seq), PositionIn(seq2, id), reused)
  <1> DEFINE seen == SeenRow(row, seq)
             done == Tables!SucceededRow(row, id, reused)
             a == SeenRow(done, seq2)
             b == Tables!SucceededRow(seen, PositionIn(seq2, id), reused)
             Q == QuoteIDs \cup {0}
  <1>1. row \in RowWith(Q) /\ id \in Q
    BY RowKinds
  <1>2. /\ seen \in RowWith(Nat)
        /\ seen.pair = row.pair /\ seen.key = row.key
        /\ seen.attempts = row.attempts /\ seen.createdAt = row.createdAt
        /\ seen.nextAttemptAt = row.nextAttemptAt /\ seen.lockedAt = row.lockedAt
    BY SeenFacts
  <1>3. /\ done \in DBRow
        /\ done.pair = row.pair /\ done.key = row.key
        /\ done.status = StatusSucceeded /\ done.attempts = row.attempts
        /\ done.createdAt = row.createdAt
        /\ done.nextAttemptAt = row.nextAttemptAt /\ done.lockedAt = row.lockedAt
        /\ done.quoteID = id /\ done.reused = reused /\ done.errorCode = NoError
    <2> HIDE DEF Q, seen
    <2>1. done \in RowWith(Q)
      BY <1>1, SucceededRowFacts
    <2>2. done \in DBRow
      BY <2>1, RowKinds DEF Q
    <2>3. /\ done.pair = row.pair /\ done.key = row.key
          /\ done.status = StatusSucceeded /\ done.attempts = row.attempts
          /\ done.createdAt = row.createdAt
          /\ done.nextAttemptAt = row.nextAttemptAt /\ done.lockedAt = row.lockedAt
          /\ done.quoteID = id /\ done.reused = reused /\ done.errorCode = NoError
      BY <1>1, SucceededRowFacts
    <2> QED BY <2>2, <2>3, Zenon
  <1> HIDE DEF seen, done, Q
  <1>4. /\ b \in RowWith(Nat)
        /\ b.pair = seen.pair /\ b.key = seen.key
        /\ b.status = StatusSucceeded /\ b.attempts = seen.attempts
        /\ b.createdAt = seen.createdAt
        /\ b.nextAttemptAt = seen.nextAttemptAt /\ b.lockedAt = seen.lockedAt
        /\ b.quoteID = PositionIn(seq2, id) /\ b.reused = reused /\ b.errorCode = NoError
    BY <1>2, SucceededRowFacts
  <1>5. /\ a \in RowWith(Nat)
        /\ a.pair = done.pair /\ a.key = done.key /\ a.status = done.status
        /\ a.attempts = done.attempts /\ a.createdAt = done.createdAt
        /\ a.nextAttemptAt = done.nextAttemptAt /\ a.lockedAt = done.lockedAt
        /\ a.quoteID = PositionIn(seq2, done.quoteID)
        /\ a.reused = done.reused /\ a.errorCode = done.errorCode
    BY <1>3, SeenFacts
  <1> HIDE DEF a, b
  <1>6. /\ a.pair = b.pair /\ a.key = b.key /\ a.status = b.status
        /\ a.attempts = b.attempts /\ a.createdAt = b.createdAt
        /\ a.nextAttemptAt = b.nextAttemptAt /\ a.lockedAt = b.lockedAt
        /\ a.quoteID = b.quoteID /\ a.reused = b.reused /\ a.errorCode = b.errorCode
    BY <1>2, <1>3, <1>4, <1>5, Zenon
  <1>7. a = b
    BY <1>4, <1>5, <1>6, SameRow
  <1> QED BY <1>7 DEF seen, done, a, b

\* The instant a failure that is not retried is given does not matter.
LEMMA SeenFailed ==
  ASSUME NEW row \in DBRow, NEW code \in ErrorCodes, NEW retryable \in BOOLEAN,
         NEW at \in Nat, NEW at2 \in Nat, retryable => at2 = at,
         NEW seq, PositionIn(seq, row.quoteID) \in Nat
  PROVE  SeenRow(Tables!FailedRow(row, code, retryable, at), seq) =
           Tables!FailedRow(SeenRow(row, seq), code, retryable, at2)
  <1> DEFINE seen == SeenRow(row, seq)
             done == Tables!FailedRow(row, code, retryable, at)
             a == SeenRow(done, seq)
             b == Tables!FailedRow(seen, code, retryable, at2)
  <1>1. row \in RowWith(QuoteIDs \cup {0})
    BY RowKinds
  <1>2. /\ seen \in RowWith(Nat)
        /\ seen.pair = row.pair /\ seen.key = row.key
        /\ seen.attempts = row.attempts /\ seen.createdAt = row.createdAt
        /\ seen.nextAttemptAt = row.nextAttemptAt /\ seen.lockedAt = row.lockedAt
        /\ seen.quoteID = PositionIn(seq, row.quoteID)
        /\ seen.reused = row.reused
    BY SeenFacts
  <1>3. /\ done \in DBRow
        /\ done.pair = row.pair /\ done.key = row.key
        /\ done.status = IF retryable THEN StatusPending ELSE StatusFailed
        /\ done.attempts = row.attempts /\ done.createdAt = row.createdAt
        /\ done.nextAttemptAt = IF retryable THEN at ELSE row.nextAttemptAt
        /\ done.lockedAt = row.lockedAt /\ done.quoteID = row.quoteID
        /\ done.reused = row.reused /\ done.errorCode = code
    BY <1>1, FailedRowFacts, RowKinds
  <1> HIDE DEF seen, done
  <1>4. /\ b \in RowWith(Nat)
        /\ b.pair = seen.pair /\ b.key = seen.key
        /\ b.status = IF retryable THEN StatusPending ELSE StatusFailed
        /\ b.attempts = seen.attempts /\ b.createdAt = seen.createdAt
        /\ b.nextAttemptAt = IF retryable THEN at2 ELSE seen.nextAttemptAt
        /\ b.lockedAt = seen.lockedAt /\ b.quoteID = seen.quoteID
        /\ b.reused = seen.reused /\ b.errorCode = code
    BY <1>2, FailedRowFacts
  <1>5. /\ a \in RowWith(Nat)
        /\ a.pair = done.pair /\ a.key = done.key /\ a.status = done.status
        /\ a.attempts = done.attempts /\ a.createdAt = done.createdAt
        /\ a.nextAttemptAt = done.nextAttemptAt /\ a.lockedAt = done.lockedAt
        /\ a.quoteID = PositionIn(seq, done.quoteID)
        /\ a.reused = done.reused /\ a.errorCode = done.errorCode
    BY <1>2, <1>3, SeenFacts
  <1> HIDE DEF a, b
  <1>6. /\ a.pair = b.pair /\ a.key = b.key /\ a.status = b.status
        /\ a.attempts = b.attempts /\ a.createdAt = b.createdAt
        /\ a.nextAttemptAt = b.nextAttemptAt /\ a.lockedAt = b.lockedAt
        /\ a.quoteID = b.quoteID /\ a.reused = b.reused /\ a.errorCode = b.errorCode
    BY <1>2, <1>3, <1>4, <1>5, Zenon
  <1>7. a = b
    BY <1>4, <1>5, <1>6, SameRow
  <1> QED BY <1>7 DEF seen, done, a, b

-----------------------------------------------------------------------------
(* A commit is one of QuoteStore's actions.                                *)

LEMMA TableFacts ==
  ASSUME TxInv
  PROVE  /\ DOMAIN TableRows = DOMAIN rows
         /\ \A u \in DOMAIN rows :
              /\ rows[u] \in DBRow
              /\ PositionIn(commits, rows[u].quoteID) \in Nat
              /\ TableRows[u] = SeenRow(rows[u], commits)
              /\ TableRows[u].pair = rows[u].pair /\ TableRows[u].key = rows[u].key
              /\ TableRows[u].status = rows[u].status
  <1>1. DOMAIN TableRows = DOMAIN rows
    BY TableRowsDef
  <1>2. ASSUME NEW u \in DOMAIN rows
        PROVE  /\ rows[u] \in DBRow
               /\ PositionIn(commits, rows[u].quoteID) \in Nat
               /\ TableRows[u] = SeenRow(rows[u], commits)
               /\ TableRows[u].pair = rows[u].pair /\ TableRows[u].key = rows[u].key
               /\ TableRows[u].status = rows[u].status
    <2>1. rows[u] \in DBRow /\ rows[u].quoteID \in DOMAIN journal \cup {0} /\ JournalOK
      BY DEF TxInv, RowsOK
    <2>2. PositionIn(commits, rows[u].quoteID) \in Nat
      BY <2>1, PositionFacts
    <2>3. TableRows[u] = SeenRow(rows[u], commits)
      BY TableRowsDef
    <2>4. /\ SeenRow(rows[u], commits).pair = rows[u].pair
          /\ SeenRow(rows[u], commits).key = rows[u].key
          /\ SeenRow(rows[u], commits).status = rows[u].status
      BY <2>1, <2>2, SeenFacts
    <2> QED BY <2>1, <2>2, <2>3, <2>4
  <1> QED BY <1>1, <1>2

\* The rows QuoteStore sees change where the transaction wrote.
LEMMA CommitTable ==
  ASSUME TxInv, NEW s \in Sessions, Commit(s)
  PROVE  LET tx == session[s] IN
         TableRows' = [u \in DOMAIN TableRows \cup DOMAIN tx.writes |->
                         IF u \in DOMAIN tx.writes THEN SeenRow(tx.writes[u], commits')
                                                   ELSE TableRows[u]]
  <1> DEFINE tx == session[s]
  <1>1. /\ DOMAIN rows' = DOMAIN rows \cup DOMAIN tx.writes
        /\ \A u \in DOMAIN tx.writes : rows'[u] = tx.writes[u]
        /\ \A u \in DOMAIN rows \ DOMAIN tx.writes : rows'[u] = rows[u]
    BY CommitRows
  <1>2. DOMAIN TableRows = DOMAIN rows
        /\ \A u \in DOMAIN rows : TableRows[u] = SeenRow(rows[u], commits)
    BY TableFacts
  <1>3. \A u \in DOMAIN rows : SeenRow(rows[u], commits') = SeenRow(rows[u], commits)
    <2> SUFFICES ASSUME NEW u \in DOMAIN rows
                 PROVE  SeenRow(rows[u], commits') = SeenRow(rows[u], commits)
      OBVIOUS
    <2>1. rows[u].quoteID \in DOMAIN journal \cup {0}
      BY DEF TxInv, RowsOK
    <2>2. PositionIn(commits', rows[u].quoteID) = PositionIn(commits, rows[u].quoteID)
      BY <2>1, PositionStable
    <2> QED BY <2>2, Zenon DEF SeenRow
  <1> HIDE DEF tx
  <1>4. \A u \in DOMAIN rows' :
          SeenRow(rows'[u], commits') =
            IF u \in DOMAIN tx.writes THEN SeenRow(tx.writes[u], commits') ELSE TableRows[u]
    <2> SUFFICES ASSUME NEW u \in DOMAIN rows'
                 PROVE  SeenRow(rows'[u], commits') =
                          IF u \in DOMAIN tx.writes THEN SeenRow(tx.writes[u], commits')
                                                    ELSE TableRows[u]
      OBVIOUS
    <2>1. CASE u \in DOMAIN tx.writes
      BY <1>1, <2>1
    <2>2. CASE u \notin DOMAIN tx.writes
      BY <1>1, <1>2, <1>3, <2>2
    <2> QED BY <2>1, <2>2
  <1>5. TableRows' = [u \in DOMAIN TableRows \cup DOMAIN tx.writes |->
                        IF u \in DOMAIN tx.writes THEN SeenRow(tx.writes[u], commits')
                                                  ELSE TableRows[u]]
    BY <1>1, <1>2, <1>4, TableRowsNext
  <1> QED BY <1>5 DEF tx

\* The quotes QuoteStore sees: one more at the end, or none.
LEMMA CommitQuotes ==
  ASSUME TxInv, NEW s \in Sessions, Commit(s)
  PROVE  LET tx == session[s] IN
         /\ tx.entry = NoEntry => TableQuotes' = TableQuotes
         /\ tx.entry # NoEntry =>
              /\ TableQuotes' = Append(TableQuotes, tx.entry)
              /\ PositionIn(commits', tx.id) = Len(TableQuotes) + 1
  <1> DEFINE tx == session[s]
             id == tx.id
             n == Len(commits)
  <1>1. CASE tx.entry = NoEntry
    BY <1>1, CommitJournal DEF TableQuotes
  <1>2. CASE tx.entry # NoEntry
    <2>1. /\ id \in QuoteIDs \ DOMAIN journal
          /\ DOMAIN journal' = DOMAIN journal \cup {id}
          /\ journal'[id] = tx.entry /\ \A q \in DOMAIN journal : journal'[q] = journal[q]
          /\ commits' = Append(commits, id)
      BY <1>2, CommitJournal
    <2>2. commits \in Seq(DOMAIN journal) /\ JournalOK'
      BY CommitJournalOK DEF TxInv, JournalOK
    <2> HIDE DEF tx, id, n
    <2>3. /\ DOMAIN commits = 1..n /\ DOMAIN commits' = 1..(n + 1) /\ n \in Nat
          /\ \A i \in 1..n : commits'[i] = commits[i] /\ commits[i] \in DOMAIN journal
          /\ commits'[n + 1] = id
      BY <2>1, <2>2 DEF n
    <2>4. PositionIn(commits', id) = n + 1
      <3>1. id \in DOMAIN journal' /\ n + 1 \in DOMAIN commits'
        BY <2>1, <2>3
      <3>2. id # 0
        BY <2>1, TransactionAssumption
      <3>3. \A i \in DOMAIN commits' : commits'[i] = id => i = n + 1
        BY <2>2, <2>3, <3>1 DEF JournalOK
      <3>4. PositionIn(commits', id) = CHOOSE i \in DOMAIN commits' : commits'[i] = id
        BY <3>2 DEF PositionIn
      <3> QED BY <2>3, <3>1, <3>3, <3>4
    <2>5. Len(TableQuotes) = n /\ DOMAIN TableQuotes = 1..n
      BY <2>3 DEF TableQuotes
    <2>6. Append(TableQuotes, tx.entry) =
            [i \in 1..(n + 1) |-> IF i = n + 1 THEN tx.entry ELSE TableQuotes[i]]
      BY <2>3, <2>5 DEF TableQuotes
    <2>7. TableQuotes' =
            [i \in 1..(n + 1) |-> IF i = n + 1 THEN tx.entry ELSE TableQuotes[i]]
      BY <2>1, <2>3 DEF TableQuotes
    <2> QED BY <1>2, <2>4, <2>5, <2>6, <2>7 DEF tx, id
  <1> QED BY <1>1, <1>2

LEMMA InsertIsCreate ==
  ASSUME TxInv, NEW s \in Sessions, Commit(s), Inserts(session[s], rows)
  PROVE  Tables!Create
  <1> DEFINE tx == session[s]
  <1>1. PICK u \in UpdateIDs, p \in Pairs, k \in Keys \cup {NoKey}, now \in Times :
          /\ DOMAIN tx.writes = {u} /\ tx.writes[u] = Tables!NewUpdateRequest(p, k, now)
          /\ tx.entry = NoEntry
          /\ u \notin DOMAIN rows
          /\ k # NoKey => \A v \in DOMAIN rows : rows[v].key # k
    BY DEF Inserts
  <1>2. TableRows' = [v \in DOMAIN TableRows \cup DOMAIN tx.writes |->
                        IF v \in DOMAIN tx.writes THEN SeenRow(tx.writes[v], commits')
                                                  ELSE TableRows[v]]
    BY CommitTable
  <1>3. TableQuotes' = TableQuotes
    BY <1>1, CommitQuotes
  <1> HIDE DEF tx
  <1>4. SeenRow(tx.writes[u], commits') = Tables!NewUpdateRequest(p, k, now)
    BY <1>1, SeenNew
  <1>5. TableRows' = [v \in DOMAIN TableRows \cup {u} |->
                        IF v = u THEN Tables!NewUpdateRequest(p, k, now) ELSE TableRows[v]]
    BY <1>1, <1>2, <1>4
  <1>6. DOMAIN TableRows = DOMAIN rows /\ \A v \in DOMAIN rows : TableRows[v].key = rows[v].key
    BY TableFacts
  <1>7. k # NoKey => \A v \in DOMAIN TableRows : TableRows[v].key # k
    BY <1>1, <1>6
  <1>8. ~Tables!KeyTaken(k)
    BY <1>7, Zenon DEF Tables!KeyTaken, TableRows
  <1>9. u \notin DOMAIN TableRows
    BY <1>1, <1>6
  <1>10. Tables!CreateUpdateRequest(u, p, k, now)
    BY <1>3, <1>5, <1>8, <1>9, Zenon DEF Tables!CreateUpdateRequest, TableRows, TableQuotes
  <1> QED BY <1>10, Zenon DEF Tables!Create

\* QuoteStore may select the batch: the rest of the candidates it skips.
LEMMA BatchSelected ==
  ASSUME TxInv, NEW now \in Times, NEW S, Cardinality(S) <= BatchSize,
         S \subseteq DOMAIN rows,
         \A u \in S : \/ /\ rows[u].status = StatusPending
                         /\ rows[u].nextAttemptAt <= now
                      \/ /\ rows[u].status = StatusInProgress
                         /\ rows[u].lockedAt < now - VisibilityTimeout
  PROVE  \E skipped \in SUBSET DOMAIN TableRows :
           Tables!ClaimSelects(S, skipped, now, now - VisibilityTimeout)
  <1> DEFINE due == Tables!Due(now)
             stuck == Tables!Stuck(now - VisibilityTimeout)
             skipped == (due \cup stuck) \ S
  <1>1. S \subseteq due \cup stuck /\ due \cup stuck \subseteq DOMAIN rows
    BY CandidateFacts DEF TxInv
  <1>2. IsFiniteSet(S)
    BY FS_Subset DEF TxInv, RowsOK
  <1>3. BatchSize \in Nat
    BY TransactionAssumption
  <1>4. ASSUME NEW T \in SUBSET S, NEW column
        PROVE  Tables!Limited(T, T, BatchSize, column)
    <2>1. /\ Cardinality(T) \in Nat /\ Cardinality(S) \in Nat
          /\ Cardinality(T) <= Cardinality(S)
      BY <1>2, FS_Subset, FS_CardinalityType
    <2>2. Cardinality(T) <= BatchSize
      BY <1>2, <1>3, <2>1
    <2>3. Cardinality(T) = IF Cardinality(T) < BatchSize THEN Cardinality(T) ELSE BatchSize
      BY <1>3, <2>1, <2>2
    <2>4. Tables!Cardinality(T) = Cardinality(T)
      BY Zenon DEF Tables!Cardinality, Cardinality
    <2> QED BY <2>3, <2>4, Zenon DEF Tables!Limited
  <1>5. due \ skipped = due \cap S /\ stuck \ skipped = stuck \cap S
        /\ (due \cap S) \cup (stuck \cap S) = S
    BY <1>1
  <1>6. Tables!ClaimSelects(S, skipped, now, now - VisibilityTimeout)
    <2>1. /\ Tables!Limited(due \cap S, due \cap S, BatchSize, "nextAttemptAt")
          /\ Tables!Limited(stuck \cap S, stuck \cap S, BatchSize, "lockedAt")
          /\ Tables!Limited(S, S, BatchSize, "nextAttemptAt")
      BY <1>4
    <2> HIDE DEF due, stuck, skipped
    <2>2. /\ Tables!Limited(due \cap S, due \ skipped, BatchSize, "nextAttemptAt")
          /\ Tables!Limited(stuck \cap S, stuck \ skipped, BatchSize, "lockedAt")
          /\ Tables!Limited(S, (due \cap S) \cup (stuck \cap S), BatchSize, "nextAttemptAt")
          /\ due \cap S \in SUBSET (due \ skipped)
          /\ stuck \cap S \in SUBSET (stuck \ skipped)
      BY <1>5, <2>1
    <2> QED BY <2>2, Zenon DEF Tables!ClaimSelects, due, stuck
  <1>7. skipped \in SUBSET DOMAIN TableRows
    BY <1>1, TableFacts
  <1> HIDE DEF skipped
  <1> QED BY <1>6, <1>7, Zenon

LEMMA ClaimIsClaim ==
  ASSUME TxInv, NEW s \in Sessions, Commit(s), Claims(session[s], rows)
  PROVE  Tables!Claim \/ UNCHANGED <<TableRows, TableQuotes>>
  <1> DEFINE tx == session[s]
             S == DOMAIN tx.writes
  <1>1. PICK now \in Times :
          /\ tx.entry = NoEntry
          /\ DOMAIN tx.writes \subseteq DOMAIN rows
          /\ Cardinality(DOMAIN tx.writes) <= BatchSize
          /\ \A u \in DOMAIN tx.writes :
               /\ \/ /\ rows[u].status = StatusPending
                     /\ rows[u].nextAttemptAt <= now
                  \/ /\ rows[u].status = StatusInProgress
                     /\ rows[u].lockedAt < now - VisibilityTimeout
               /\ tx.writes[u] = Tables!ClaimedRow(rows[u], now)
               /\ tx.writes[u].attempts <= MaxInt
    BY DEF Claims
  <1>2. TableRows' = [u \in DOMAIN TableRows \cup S |->
                        IF u \in S THEN SeenRow(tx.writes[u], commits') ELSE TableRows[u]]
    BY CommitTable
  <1>3. TableQuotes' = TableQuotes /\ commits' = commits
    BY <1>1, CommitQuotes, CommitJournal
  <1>4. PICK skipped \in SUBSET DOMAIN TableRows :
          Tables!ClaimSelects(S, skipped, now, now - VisibilityTimeout)
    BY <1>1, BatchSelected
  <1> HIDE DEF tx
  <1>5. /\ DOMAIN TableRows = DOMAIN rows
        /\ \A u \in DOMAIN rows : /\ rows[u] \in DBRow
                                  /\ PositionIn(commits, rows[u].quoteID) \in Nat
                                  /\ TableRows[u] = SeenRow(rows[u], commits)
    BY TableFacts
  <1>6. ASSUME NEW u \in S
        PROVE  /\ SeenRow(tx.writes[u], commits') = Tables!ClaimedRow(TableRows[u], now)
               /\ Tables!ClaimedRow(TableRows[u], now).attempts <= MaxInt
    <2>1. /\ u \in DOMAIN rows /\ tx.writes[u] = Tables!ClaimedRow(rows[u], now)
          /\ Tables!ClaimedRow(rows[u], now).attempts <= MaxInt
      BY <1>1
    <2>2. /\ SeenRow(Tables!ClaimedRow(rows[u], now), commits) =
               Tables!ClaimedRow(SeenRow(rows[u], commits), now)
          /\ Tables!ClaimedRow(SeenRow(rows[u], commits), now).attempts <= MaxInt
      BY <1>5, <2>1, SeenClaimed
    <2> QED BY <1>3, <1>5, <2>1, <2>2
  <1>7. S \subseteq DOMAIN TableRows
    BY <1>1, <1>5
  <1> HIDE DEF S
  <1>8. TableRows' = [u \in DOMAIN TableRows |->
                        IF u \in S THEN Tables!ClaimedRow(TableRows[u], now)
                                   ELSE TableRows[u]]
    BY <1>2, <1>6, <1>7
  <1>9. CASE S = {}
    <2>1. TableRows = [u \in DOMAIN TableRows |-> TableRows[u]]
      BY DEF TableRows
    <2>2. TableRows' = TableRows
      BY <1>8, <1>9, <2>1
    <2> QED BY <1>3, <2>2
  <1>10. CASE S # {}
    <2>1. \A u \in S : Tables!ClaimedRow(TableRows[u], now).attempts <= MaxInt
      BY <1>6
    <2>2. Tables!ClaimBatch(S, skipped, now)
      BY <1>3, <1>4, <1>8, <2>1, Zenon DEF Tables!ClaimBatch, TableRows, TableQuotes
    <2>3. S \in SUBSET DOMAIN TableRows
      BY <1>7
    <2> QED BY <1>10, <2>2, <2>3, Zenon DEF Tables!Claim, TableRows
  <1> QED BY <1>9, <1>10

\* The commit of a completion replaces one row in progress.
LEMMA CompletionFacts ==
  ASSUME TxInv, NEW s \in Sessions, Commit(s), NEW u \in DOMAIN rows, NEW change \in Change,
         DOMAIN session[s].writes = {u},
         session[s].writes[u] = Changed(rows[u], change),
         rows[u].status = StatusInProgress
  PROVE  /\ Tables!IsInProgress(u) /\ u \in DOMAIN TableRows
         /\ TableRows' = [TableRows EXCEPT ![u] = SeenRow(Changed(rows[u], change), commits')]
  <1> DEFINE tx == session[s]
  <1>1. TableRows' = [v \in DOMAIN TableRows \cup DOMAIN tx.writes |->
                        IF v \in DOMAIN tx.writes THEN SeenRow(tx.writes[v], commits')
                                                  ELSE TableRows[v]]
    BY CommitTable
  <1>2. u \in DOMAIN TableRows /\ TableRows[u].status = StatusInProgress
    BY TableFacts
  <1>3. Tables!IsInProgress(u)
    BY <1>2, SameDomain, Zenon DEF Tables!IsInProgress, TableRows
  <1> HIDE DEF tx
  <1>4. DOMAIN tx.writes = {u} /\ tx.writes[u] = Changed(rows[u], change)
    BY DEF tx
  <1>5. TableRows = [v \in DOMAIN TableRows |-> TableRows[v]]
    BY DEF TableRows
  <1>6. TableRows' = [TableRows EXCEPT ![u] = SeenRow(Changed(rows[u], change), commits')]
    BY <1>1, <1>2, <1>4, <1>5
  <1> QED BY <1>2, <1>3, <1>6

LEMMA FailureIsFail ==
  ASSUME TxInv, NEW s \in Sessions, Commit(s), NEW u \in DOMAIN rows, NEW change \in Change,
         DOMAIN session[s].writes = {u},
         session[s].writes[u] = Changed(rows[u], change),
         rows[u].status = StatusInProgress,
         ChangeOK(u, change, session[s].entry, rows, journal),
         change.kind = "fail"
  PROVE  Tables!Fail
  <1>1. /\ session[s].entry = NoEntry
        /\ change.retryable = TRUE => change.nextAttemptAt \in Times
    BY DEF ChangeOK
  <1>2. TableQuotes' = TableQuotes /\ commits' = commits
    BY <1>1, CommitQuotes, CommitJournal
  <1>3. change.code \in ErrorCodes /\ change.retryable \in BOOLEAN /\ change.nextAttemptAt \in Nat
    BY ChangeKinds
  <1> DEFINE code == change.code
             retryable == change.retryable
             at == change.nextAttemptAt
  <1>4. PICK at2 \in Times : retryable => at2 = at
    <2>1. rows[u].createdAt \in Times
      BY DEF TxInv, RowsOK
    <2>2. CASE retryable = TRUE
      BY <1>1, <2>2
    <2>3. CASE retryable = FALSE
      BY <2>1, <2>3
    <2> QED BY <1>3, <2>2, <2>3, Zenon
  <1>5. at2 \in Nat
    BY <1>4, TransactionAssumption
  <1>6. /\ Tables!IsInProgress(u) /\ u \in DOMAIN TableRows
        /\ TableRows' = [TableRows EXCEPT ![u] = SeenRow(Changed(rows[u], change), commits')]
    BY CompletionFacts
  <1>7. Changed(rows[u], change) = Tables!FailedRow(rows[u], code, retryable, at)
    BY DEF Changed
  <1>8. /\ rows[u] \in DBRow /\ PositionIn(commits, rows[u].quoteID) \in Nat
        /\ TableRows[u] = SeenRow(rows[u], commits)
    BY TableFacts
  <1>9. retryable => at2 = at
    BY <1>4
  <1>10. code \in ErrorCodes /\ retryable \in BOOLEAN /\ at \in Nat
    BY <1>3, Zenon
  <1> HIDE DEF code, retryable, at
  <1>11. SeenRow(Tables!FailedRow(rows[u], code, retryable, at), commits) =
           Tables!FailedRow(SeenRow(rows[u], commits), code, retryable, at2)
    BY <1>5, <1>8, <1>9, <1>10, SeenFailed
  <1>12. TableRows' = [TableRows EXCEPT ![u] =
                         Tables!FailedRow(TableRows[u], code, retryable, at2)]
    BY <1>2, <1>6, <1>7, <1>8, <1>11, Zenon
  <1>13. Tables!CompleteFailure(u, code, retryable, at2)
    BY <1>2, <1>6, <1>12, Zenon DEF Tables!CompleteFailure, TableRows, TableQuotes
  <1>14. u \in DOMAIN TableRows /\ code \in Tables!ErrorCodes
    BY <1>6, <1>10, SameDomain
  <1>15. \E v \in DOMAIN TableRows, c \in Tables!ErrorCodes, r \in BOOLEAN, t \in Times :
           Tables!CompleteFailure(v, c, r, t)
    BY <1>4, <1>10, <1>13, <1>14, Zenon
  <1> QED BY <1>15, Zenon DEF Tables!Fail, TableRows

\* The row of a success, seen by QuoteStore.
LEMMA SuccessRow ==
  ASSUME TxInv, NEW s \in Sessions, Commit(s), NEW u \in DOMAIN rows, NEW change \in Change,
         DOMAIN session[s].writes = {u},
         session[s].writes[u] = Changed(rows[u], change),
         rows[u].status = StatusInProgress,
         change.kind = "succeed", PositionIn(commits', change.id) \in Nat,
         NEW reused \in BOOLEAN, change.reused = reused
  PROVE  TableRows' = [TableRows EXCEPT ![u] =
           Tables!SucceededRow(TableRows[u], PositionIn(commits', change.id), reused)]
  <1>1. TableRows' = [TableRows EXCEPT ![u] = SeenRow(Changed(rows[u], change), commits')]
    BY CompletionFacts
  <1>2. change.id \in QuoteIDs
    BY ChangeKinds
  <1>3. Changed(rows[u], change) = Tables!SucceededRow(rows[u], change.id, reused)
    BY DEF Changed
  <1>4. /\ rows[u] \in DBRow /\ PositionIn(commits, rows[u].quoteID) \in Nat
        /\ TableRows[u] = SeenRow(rows[u], commits)
    BY TableFacts
  <1>5. SeenRow(Tables!SucceededRow(rows[u], change.id, reused), commits') =
          Tables!SucceededRow(SeenRow(rows[u], commits), PositionIn(commits', change.id),
                              reused)
    BY <1>2, <1>4, SeenSucceeded
  <1> QED BY <1>1, <1>3, <1>4, <1>5, Zenon

LEMMA ReuseIsReuse ==
  ASSUME TxInv, NEW s \in Sessions, Commit(s), NEW u \in DOMAIN rows, NEW change \in Change,
         DOMAIN session[s].writes = {u},
         session[s].writes[u] = Changed(rows[u], change),
         rows[u].status = StatusInProgress,
         ChangeOK(u, change, session[s].entry, rows, journal),
         change.kind = "succeed", change.reused = TRUE
  PROVE  Tables!SucceedReuse
  <1>0. PICK q : q = PositionIn(commits', change.id)
    OBVIOUS
  <1>1. session[s].entry = NoEntry /\ change.id \in DOMAIN journal
        /\ journal[change.id].pair = rows[u].pair
    BY DEF ChangeOK
  <1>2. TableQuotes' = TableQuotes /\ commits' = commits
    BY <1>1, CommitQuotes, CommitJournal
  <1>3. q \in DOMAIN commits /\ q \in Nat /\ commits[q] = change.id
    BY <1>0, <1>1, <1>2, PositionFacts DEF TxInv
  <1>4. /\ Tables!IsInProgress(u) /\ u \in DOMAIN TableRows
        /\ TableRows[u].pair = rows[u].pair
    BY CompletionFacts, TableFacts
  <1>5. TableRows' = [TableRows EXCEPT ![u] = Tables!SucceededRow(TableRows[u], q, TRUE)]
    BY <1>0, <1>3, SuccessRow, ZenonT(40)
  <1>6. q \in DOMAIN TableQuotes /\ TableQuotes[q] = journal[change.id]
    BY <1>3 DEF TableQuotes
  <1>7. TableRows' = [TableRows EXCEPT ![u] = Tables!SucceededRow(@, q, TRUE)]
    BY <1>5, Zenon
  <1>8. Tables!CompleteSuccessReuse(u, q)
    BY <1>2, <1>4, <1>6, <1>7, Zenon DEF Tables!CompleteSuccessReuse, TableRows, TableQuotes
  <1>9. TableQuotes[q].pair = TableRows[u].pair
    BY <1>1, <1>4, <1>6
  <1>10. q \in Tables!QuotesOf(TableRows[u].pair)
    BY <1>6, <1>9, Zenon DEF Tables!QuotesOf, TableQuotes
  <1>11. \E v \in DOMAIN TableRows : \E p \in Tables!QuotesOf(TableRows[v].pair) :
           Tables!CompleteSuccessReuse(v, p)
    BY <1>4, <1>8, <1>10, Zenon
  <1> QED BY <1>11, Zenon DEF Tables!SucceedReuse, TableRows

\* The quotes that stand in the way of rate, by position.
LEMMA DuplicatesFacts ==
  ASSUME TxInv, NEW rate, NEW i
  PROVE  i \in Tables!Duplicates(rate) <=>
           i \in DOMAIN commits /\ SameQuote(journal[commits[i]], rate)
  <1>1. Tables!Duplicates(rate) =
          {j \in DOMAIN TableQuotes : /\ TableQuotes[j].provider = rate.provider
                                      /\ TableQuotes[j].pair     = rate.pair
                                      /\ TableQuotes[j].quotedAt = rate.quotedAt}
    BY Zenon DEF Tables!Duplicates, TableQuotes
  <1> QED BY <1>1 DEF TableQuotes, SameQuote

\* A success with a quote, inserted by the transaction or found in the journal,
\* is the upsert of that quote: its id is the position the upsert yields.
LEMMA SuccessIsSucceed ==
  ASSUME TxInv, NEW s \in Sessions, Commit(s), NEW u \in DOMAIN rows, NEW change \in Change,
         DOMAIN session[s].writes = {u},
         session[s].writes[u] = Changed(rows[u], change),
         rows[u].status = StatusInProgress,
         session[s].id = change.id,
         ChangeOK(u, change, session[s].entry, rows, journal),
         change.kind = "succeed", change.reused = FALSE
  PROVE  Tables!Succeed
  <1> DEFINE tx == session[s]
  <1>1. PICK q : q = PositionIn(commits', change.id)
    OBVIOUS
  <1>2. PICK rate \in Entry :
          /\ rate.pair = rows[u].pair /\ q \in Nat
          /\ TableQuotes' = Tables!UpsertedQuotes(rate) /\ q = Tables!UpsertedID(rate)
    <2>1. CASE tx.entry = NoEntry
      <3>1. change.id \in DOMAIN journal /\ journal[change.id].pair = rows[u].pair
        BY <2>1 DEF ChangeOK
      <3>2. TableQuotes' = TableQuotes /\ commits' = commits
        BY <2>1, CommitQuotes, CommitJournal
      <3>3. PICK rate : rate = journal[change.id]
        OBVIOUS
      <3>4. rate \in Entry
        BY <3>1, <3>3 DEF TxInv, JournalOK
      <3>5. q \in DOMAIN commits /\ q \in Nat /\ commits[q] = change.id
        BY <1>1, <3>1, <3>2, PositionFacts DEF TxInv
      <3>6. q \in Tables!Duplicates(rate)
        BY <3>3, <3>5, DuplicatesFacts DEF SameQuote
      <3>7. \A i \in Tables!Duplicates(rate) : i = q
        <4> SUFFICES ASSUME NEW i \in Tables!Duplicates(rate) PROVE i = q
          OBVIOUS
        <4>1. i \in DOMAIN commits /\ SameQuote(journal[commits[i]], journal[change.id])
          BY <3>3, DuplicatesFacts
        <4>2. commits[i] \in DOMAIN journal
          BY <4>1 DEF TxInv, JournalOK
        <4>3. commits[i] = change.id
          BY <3>1, <4>1, <4>2 DEF TxInv, JournalOK
        <4> QED BY <3>5, <4>1, <4>3 DEF TxInv, JournalOK
      <3>8. Tables!Duplicates(rate) # {}
        BY <3>6
      <3>9. Tables!UpsertedQuotes(rate) = TableQuotes
        BY <3>8, Zenon DEF Tables!UpsertedQuotes, TableQuotes
      <3>10. Tables!UpsertedID(rate) = CHOOSE i \in Tables!Duplicates(rate) : TRUE
        BY <3>8, Zenon DEF Tables!UpsertedID
      <3>11. Tables!UpsertedID(rate) = q
        BY <3>6, <3>7, <3>10
      <3> QED BY <3>1, <3>2, <3>3, <3>4, <3>5, <3>9, <3>11
    <2>2. CASE tx.entry # NoEntry
      <3>1. PICK rate : rate = tx.entry
        OBVIOUS
      <3>2. /\ rate \in Entry /\ rate.pair = rows[u].pair
            /\ \A r \in DOMAIN journal : ~SameQuote(journal[r], rate)
        BY <2>2, <3>1, CommitJournal DEF ChangeOK
      <3>3. TableQuotes' = Append(TableQuotes, rate) /\ q = Len(TableQuotes) + 1
        BY <1>1, <2>2, <3>1, CommitQuotes
      <3>4. commits \in Seq(DOMAIN journal)
        BY DEF TxInv, JournalOK
      <3>5. Tables!Duplicates(rate) = {}
        <4> SUFFICES ASSUME NEW i \in Tables!Duplicates(rate) PROVE FALSE
          OBVIOUS
        <4>1. i \in DOMAIN commits /\ SameQuote(journal[commits[i]], rate)
          BY DuplicatesFacts
        <4>2. commits[i] \in DOMAIN journal
          BY <3>4, <4>1
        <4> QED BY <3>2, <4>1, <4>2
      <3>6. Tables!UpsertedQuotes(rate) = Append(TableQuotes, rate)
        BY <3>5 DEF Tables!UpsertedQuotes, TableQuotes
      <3>7. Tables!UpsertedID(rate) = Len(TableQuotes) + 1
        BY <3>5 DEF Tables!UpsertedID, TableQuotes
      <3>8. Len(TableQuotes) \in Nat
        BY <3>4 DEF TableQuotes
      <3>9. q \in Nat
        BY <3>3, <3>8
      <3> QED BY <3>2, <3>3, <3>6, <3>7, <3>9
    <2> QED BY <2>1, <2>2
  <1>3. /\ Tables!IsInProgress(u) /\ u \in DOMAIN TableRows
        /\ TableRows[u].pair = rows[u].pair
    BY CompletionFacts, TableFacts
  <1>4. TableRows' = [TableRows EXCEPT ![u] = Tables!SucceededRow(TableRows[u], q, FALSE)]
    <2>1. PositionIn(commits', change.id) \in Nat
      BY <1>1, <1>2
    <2> QED BY <1>1, <2>1, SuccessRow, ZenonT(40)
  <1>5. TableRows' = [TableRows EXCEPT ![u] = Tables!SucceededRow(@, q, FALSE)]
    BY <1>4, Zenon
  <1>6. PICK provider \in Providers, quotedAt \in Times, staleAfter \in Times :
          rate = [pair |-> rows[u].pair, provider |-> provider,
                  quotedAt |-> quotedAt, staleAfter |-> staleAfter]
    BY <1>2 DEF Entry
  <1>7. rate = [pair |-> TableRows[u].pair, provider |-> provider,
                quotedAt |-> quotedAt, staleAfter |-> staleAfter]
    BY <1>3, <1>6
  <1>8. Tables!CompleteSuccess(u, [pair |-> TableRows[u].pair, provider |-> provider,
                                   quotedAt |-> quotedAt, staleAfter |-> staleAfter])
    <2>1. ASSUME NEW r, r = rate
          PROVE  TableQuotes' = Tables!UpsertedQuotes(r) /\ q = Tables!UpsertedID(r)
      BY <1>2, <2>1
    <2>2. /\ TableQuotes' = Tables!UpsertedQuotes([pair |-> TableRows[u].pair,
                 provider |-> provider, quotedAt |-> quotedAt, staleAfter |-> staleAfter])
          /\ q = Tables!UpsertedID([pair |-> TableRows[u].pair,
                 provider |-> provider, quotedAt |-> quotedAt, staleAfter |-> staleAfter])
      BY <1>7, <2>1, Zenon
    <2> QED BY <1>3, <1>5, <2>2, Zenon DEF Tables!CompleteSuccess, TableRows, TableQuotes
  <1>9. u \in DOMAIN TableRows
    BY <1>3
  <1> QED BY <1>8, <1>9, Zenon DEF Tables!Succeed, TableRows

LEMMA CompletionIsCompletion ==
  ASSUME TxInv, NEW s \in Sessions, Commit(s), Completes(session[s], rows, journal)
  PROVE  Tables!Succeed \/ Tables!SucceedReuse \/ Tables!Fail
  <1>1. PICK u \in DOMAIN rows, change \in Change :
          /\ DOMAIN session[s].writes = {u}
          /\ session[s].writes[u] = Changed(rows[u], change)
          /\ rows[u].status = StatusInProgress
          /\ session[s].id = change.id
          /\ ChangeOK(u, change, session[s].entry, rows, journal)
    BY DEF Completes
  <1>2. CASE change.kind = "fail"
    BY <1>1, <1>2, FailureIsFail
  <1>3. CASE change.kind = "succeed" /\ change.reused = TRUE
    BY <1>1, <1>3, ReuseIsReuse
  <1>4. CASE change.kind = "succeed" /\ change.reused = FALSE
    BY <1>1, <1>4, SuccessIsSucceed
  <1>5. \/ change.kind = "fail"
        \/ change.kind = "succeed" /\ change.reused \in BOOLEAN
    BY ChangeKinds
  <1> QED BY <1>2, <1>3, <1>4, <1>5, Zenon

-----------------------------------------------------------------------------
(* The refinement.                                                         *)

LEMMA InitRefines == TxInit => Tables!StoreInit
  <1> SUFFICES ASSUME TxInit PROVE Tables!StoreInit
    OBVIOUS
  <1>1. TableRows = [u \in {} |-> NoKey]
    BY DEF TxInit, TableRows
  <1>2. TableQuotes = << >>
    BY DEF TxInit, TableQuotes
  <1> QED BY <1>1, <1>2, Zenon DEF Tables!StoreInit, TableRows, TableQuotes

\* Only a commit is seen: every other step leaves both tables as they were.
LEMMA StepRefines ==
  TxInv /\ [TxNext]_txVars => [Tables!StoreNext]_(Tables!storeVars)
  <1> SUFFICES ASSUME TxInv, [TxNext]_txVars
               PROVE  Tables!StoreNext \/ UNCHANGED <<TableRows, TableQuotes>>
    BY Zenon DEF Tables!storeVars, TableRows, TableQuotes
  <1>1. CASE UNCHANGED <<rows, journal, commits>>
    <2>1. TableRows' = TableRows
      BY <1>1, TableRowsDef, TableRowsNext
    <2> QED BY <1>1, <2>1 DEF TableQuotes
  <1>2. ASSUME NEW s \in Sessions, Commit(s)
        PROVE  Tables!StoreNext \/ UNCHANGED <<TableRows, TableQuotes>>
    <2>1. \/ Inserts(session[s], rows) \/ Claims(session[s], rows)
          \/ Completes(session[s], rows, journal)
      BY <1>2, CommitRows DEF StageOK
    <2>2. CASE Inserts(session[s], rows)
      BY <1>2, <2>2, InsertIsCreate DEF Tables!StoreNext
    <2>3. CASE Claims(session[s], rows)
      BY <1>2, <2>3, ClaimIsClaim DEF Tables!StoreNext
    <2>4. CASE Completes(session[s], rows, journal)
      BY <1>2, <2>4, CompletionIsCompletion DEF Tables!StoreNext
    <2> QED BY <2>1, <2>2, <2>3, <2>4
  <1>3. CASE TxNext
    <2>1. PICK s \in Sessions :
            \/ Begin(s) \/ ClaimRows(s) \/ SelectWinner(s) \/ MatchRow(s) \/ LockRow(s)
            \/ Commit(s) \/ Rollback(s)
      BY <1>3, Zenon DEF TxNext
    <2>2. Begin(s) => UNCHANGED <<rows, journal, commits>>
      BY Zenon DEF Begin, InsertUpdate, ClaimSnapshot, UpsertQuote, BeginReuse, BeginFailure
    <2>3. ClaimRows(s) \/ SelectWinner(s) \/ MatchRow(s) \/ LockRow(s) \/ Rollback(s) =>
            UNCHANGED <<rows, journal, commits>>
      BY Zenon DEF ClaimRows, SelectWinner, MatchRow, LockRow, Rollback
    <2> QED BY <1>1, <1>2, <2>1, <2>2, <2>3
  <1>4. CASE UNCHANGED txVars
    BY <1>1, <1>4 DEF txVars
  <1> QED BY <1>3, <1>4

\* The interleaved, abortable statements of any number of connections change
\* the committed tables only as QuoteStore's atomic actions do: what is proved
\* of those holds of the database under READ COMMITTED.
THEOREM TransactionsImplement == TxSpec => ImplementsTables
  <1>1. TxInit => Tables!StoreInit
    BY InitRefines
  <1>2. TxInv /\ [TxNext]_txVars => [Tables!StoreNext]_(Tables!storeVars)
    BY StepRefines
  <1> QED BY <1>1, <1>2, TxInvariant, PTL DEF TxSpec, ImplementsTables, Tables!StoreSpec
-----------------------------------------------------------------------------
(* What is proved of QuoteStore holds of the committed tables.             *)

Store == INSTANCE QuoteStoreProofs
  WITH updates <- [u \in DOMAIN rows |-> [rows[u] EXCEPT !.quoteID = Position(@)]],
       quotes  <- [i \in DOMAIN commits |-> journal[commits[i]]]

\* Tables and Store mean the same actions of the same tables.
LEMMA SameCreate == Tables!Create <=> Store!Create
  BY Zenon DEF Tables!Create, Store!Create, Tables!CreateUpdateRequest,
     Store!CreateUpdateRequest, Tables!KeyTaken, Store!KeyTaken,
     Tables!NewUpdateRequest, Store!NewUpdateRequest, Tables!StatusPending,
     Store!StatusPending, Tables!NoError, Store!NoError

LEMMA SameClaim == Tables!Claim <=> Store!Claim
  BY Zenon DEF Tables!Claim, Store!Claim, Tables!ClaimBatch, Store!ClaimBatch,
     Tables!ClaimSelects, Store!ClaimSelects, Tables!Due, Store!Due, Tables!Stuck,
     Store!Stuck, Tables!Limited, Store!Limited, Tables!ClaimedRow, Store!ClaimedRow,
     Tables!StatusPending, Store!StatusPending, Tables!StatusInProgress,
     Store!StatusInProgress, Tables!Cardinality, Store!Cardinality

LEMMA SameSucceed == Tables!Succeed <=> Store!Succeed
  BY Zenon DEF Tables!Succeed, Store!Succeed, Tables!CompleteSuccess,
     Store!CompleteSuccess, Tables!IsInProgress, Store!IsInProgress,
     Tables!UpsertedQuotes, Store!UpsertedQuotes, Tables!UpsertedID, Store!UpsertedID,
     Tables!Duplicates, Store!Duplicates, Tables!SucceededRow, Store!SucceededRow,
     Tables!StatusInProgress, Store!StatusInProgress, Tables!StatusSucceeded,
     Store!StatusSucceeded, Tables!NoError, Store!NoError

LEMMA SameSucceedReuse == Tables!SucceedReuse <=> Store!SucceedReuse
  BY Zenon DEF Tables!SucceedReuse, Store!SucceedReuse, Tables!CompleteSuccessReuse,
     Store!CompleteSuccessReuse, Tables!IsInProgress, Store!IsInProgress,
     Tables!QuotesOf, Store!QuotesOf, Tables!SucceededRow, Store!SucceededRow,
     Tables!StatusInProgress, Store!StatusInProgress, Tables!StatusSucceeded,
     Store!StatusSucceeded, Tables!NoError, Store!NoError

LEMMA SameFail == Tables!Fail <=> Store!Fail
  BY Zenon DEF Tables!Fail, Store!Fail, Tables!CompleteFailure, Store!CompleteFailure,
     Tables!IsInProgress, Store!IsInProgress, Tables!FailedRow, Store!FailedRow,
     Tables!ErrorCodes, Store!ErrorCodes, Tables!RateLimitedError,
     Store!RateLimitedError, Tables!MalformedResponse, Store!MalformedResponse,
     Tables!InternalError, Store!InternalError, Tables!ProviderError,
     Store!ProviderError, Tables!AttemptsExhaustedCode, Store!AttemptsExhaustedCode,
     Tables!StatusPending, Store!StatusPending, Tables!StatusInProgress,
     Store!StatusInProgress, Tables!StatusFailed, Store!StatusFailed

LEMMA SameStoreInit == Tables!StoreInit <=> Store!StoreInit
  BY Zenon DEF Tables!StoreInit, Store!StoreInit

LEMMA SameSpec == Tables!StoreSpec => Store!StoreSpec
<1>1. Tables!StoreNext <=> Store!StoreNext
  BY SameCreate, SameClaim, SameSucceed, SameSucceedReuse, SameFail, Zenon
     DEF Tables!StoreNext, Store!StoreNext
<1>2. [Tables!StoreNext]_(Tables!storeVars) => [Store!StoreNext]_(Store!storeVars)
  BY <1>1, Zenon DEF Tables!storeVars, Store!storeVars
<1>3. QED
  BY <1>2, SameStoreInit, PTL DEF Tables!StoreSpec, Store!StoreSpec

\* What QuoteStore assumes of its constants is assumed here.
LEMMA StoreAssumed ==
  /\ Times \subseteq Nat
  /\ BatchSize \in Nat \ {0}
  /\ VisibilityTimeout \in Nat \ {0}
  /\ MaxInt \in Nat
  /\ NoKey \notin Keys
BY TransactionAssumption DEF TransactionAssumption

\* Under READ COMMITTED, with waits and rollbacks at any statement, clients are
\* kept their promise: one request per key, one answer per request, unchanged for
\* ever, and a latest quote that never moves back.
THEOREM TransactionsKeepPromise == TxSpec => Store!KeepsPromise
<1>1. TxSpec => Store!StoreSpec
  BY TransactionsImplement, SameSpec, PTL DEF ImplementsTables
<1>2. Store!StoreSpec => Store!KeepsPromise
  BY Store!StoreKeepsPromise, StoreAssumed, PTL
<1>3. QED
  BY <1>1, <1>2, PTL

\* The committed tables stay consistent: a succeeded row has its quote, errors
\* tell the row's history, and no quote is in the journal twice.
THEOREM CommittedConsistent ==
  TxSpec => [](Store!ResultLinked /\ Store!ErrorExplains /\ Store!JournalUnique)
<1>1. TxSpec => Store!StoreSpec
  BY TransactionsImplement, SameSpec, PTL DEF ImplementsTables
<1>2. Store!StoreSpec => []Store!ResultLinked
  BY Store!ResultsLinked, StoreAssumed, PTL
<1>3. Store!StoreSpec => []Store!ErrorExplains
  BY Store!ErrorsExplain, StoreAssumed, PTL
<1>4. Store!StoreSpec => []Store!JournalUnique
  BY Store!JournalHasNoDuplicates, StoreAssumed, PTL
<1>5. QED
  BY <1>1, <1>2, <1>3, <1>4, PTL
=============================================================================
