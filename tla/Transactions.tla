---------------------------- MODULE Transactions ----------------------------
(***************************************************************************)
(* The statements behind QuoteStore's actions.  Each method of the         *)
(* PostgreSQL repository runs on a connection of the pool, one statement   *)
(* after the other, at READ COMMITTED: a statement sees what was committed *)
(* when it began, waits for a row or a unique key another transaction      *)
(* holds, looks at the row again when it gets it, and what it wrote is     *)
(* seen by nobody before the commit.  A transaction may end without one at *)
(* any point: a statement fails, the context ends, the connection or the   *)
(* server is lost.                                                         *)
(*                                                                         *)
(* A transaction that waits is one whose next step is not enabled.  The id *)
(* a quote draws is any unused one: only its position in the order of      *)
(* commits, kept in commits, means something to QuoteStore.                *)
(***************************************************************************)
EXTENDS QuoteDomain, Sequences, FiniteSets

CONSTANTS
  Sessions,           \* connections of the pool, over all replicas
  QuoteIDs,           \* values of the BIGSERIAL quotes.id
  NoEntry,            \* no quote inserted
  Codes,              \* error codes a caller passes
  CreationTimes,      \* instants requests are created at
  UpdateIDs, Pairs, Keys, NoKey, Providers, Times, BatchSize,
  VisibilityTimeout, MaxInt   \* all as in QuoteStore

ASSUME TransactionAssumption ==
  /\ Times \subseteq Nat
  /\ BatchSize \in Nat \ {0} /\ VisibilityTimeout \in Nat \ {0} /\ MaxInt \in Nat
  /\ NoKey \notin Keys /\ 0 \notin QuoteIDs /\ Codes \subseteq ErrorCodes
  /\ CreationTimes \subseteq Times
  /\ NoEntry \notin [pair: Pairs, provider: Providers, quotedAt: Times, staleAfter: Times]

VARIABLES
  rows,     \* committed rows of quote_updates
  journal,  \* committed rows of quotes
  commits,  \* history: ids of the journal, in the order of their commits
  session   \* the transaction of each connection

txVars == <<rows, journal, commits, session>>

\* The position an id has in QuoteStore's journal; a NULL has none.
Position(id) ==
  IF id = 0 THEN 0 ELSE CHOOSE i \in DOMAIN commits : commits[i] = id

Tables == INSTANCE QuoteStore
  WITH updates <- [u \in DOMAIN rows |-> [rows[u] EXCEPT !.quoteID = Position(@)]],
       quotes  <- [i \in DOMAIN commits |-> journal[commits[i]]]

-----------------------------------------------------------------------------
(* What a transaction is doing, and what it holds until it ends.           *)

Idle == [at |-> "idle"]

\* It looks for the quote that made its insert do nothing.
Selecting(u, rate) == [at |-> "select", u |-> u, rate |-> rate]

\* It is about to UPDATE row u with change; entry is a quote it inserted.
Updating(u, change, entry) ==
  [at |-> "update", u |-> u, change |-> change, entry |-> entry]

\* ClaimBatch has its snapshot: the columns the candidates are ordered by.
Claiming(now, due, stuck) == [at |-> "claim", now |-> now, due |-> due, stuck |-> stuck]

\* Every statement is done.  It holds the locks of the rows it chose and of those
\* that had moved on, out of its condition, when it got them.
Committing(writes, locked, moved, entry, id) ==
  [at |-> "commit", writes |-> writes, locked |-> locked, moved |-> moved,
   entry |-> entry, id |-> id]

\* Change made of a row, completeSuccessTx or CompleteFailure.
Success(id, reused) == [kind |-> "succeed", id |-> id, reused |-> reused]
Failed(code, retryable, nextAttemptAt) ==
  [kind |-> "fail", id |-> 0, code |-> code, retryable |-> retryable,
   nextAttemptAt |-> nextAttemptAt]

Changed(row, change) ==
  IF change.kind = "succeed"
    THEN Tables!SucceededRow(row, change.id, change.reused)
    ELSE Tables!FailedRow(row, change.code, change.retryable, change.nextAttemptAt)

\* Rows a transaction holds for nothing: they no longer matched its condition.
Moved(s) ==
  IF session[s].at = "commit" THEN session[s].moved
  ELSE IF session[s].at = "overtaken" THEN {session[s].u} ELSE {}

Locked(s) ==
  IF session[s].at = "commit" THEN session[s].locked \cup Moved(s) ELSE Moved(s)

Writes(s) == IF session[s].at = "commit" THEN DOMAIN session[s].writes ELSE {}

HasEntry(s) ==
  /\ session[s].at \in {"update", "lock", "refused", "overtaken", "commit"}
  /\ session[s].entry # NoEntry

EntryID(s) == IF session[s].at = "commit" THEN session[s].id ELSE session[s].change.id

LockedByOther(s, u) == \E t \in Sessions \ {s} : u \in Locked(t)

SameQuote(q, r) ==
  q.provider = r.provider /\ q.pair = r.pair /\ q.quotedAt = r.quotedAt

TxInit ==
  /\ rows = [u \in {} |-> NoKey] /\ journal = [q \in {} |-> NoKey]
  /\ commits = <<>>
  /\ session = [s \in Sessions |-> Idle]

-----------------------------------------------------------------------------
(* CreateUpdateRequest: one INSERT, its own transaction.  It waits for an  *)
(* uncommitted row with its key; a committed one makes it fail.            *)

KeyOpen(k) ==
  k # NoKey /\ \E t \in Sessions : \E v \in Writes(t) :
                 v \notin DOMAIN rows /\ session[t].writes[v].key = k

InsertUpdate(s, u, p, k, now) ==
  /\ session[s] = Idle
  /\ u \notin DOMAIN rows /\ \A t \in Sessions : u \notin Writes(t)
  /\ ~KeyOpen(k) /\ ~Tables!KeyTaken(k)
  /\ session' = [session EXCEPT ![s] =
       Committing([v \in {u} |-> Tables!NewUpdateRequest(p, k, now)], {u}, {},
                  NoEntry, 0)]
  /\ UNCHANGED <<rows, journal, commits>>

-----------------------------------------------------------------------------
(* ClaimBatch: one statement, whose candidates are those of its snapshot.  *)

ClaimSnapshot(s, now) ==
  /\ session[s] = Idle
  /\ LET due == Tables!Due(now)
         stuck == Tables!Stuck(now - VisibilityTimeout)
     IN session' = [session EXCEPT ![s] =
          Claiming(now, [u \in due |-> rows[u].nextAttemptAt],
                        [u \in stuck |-> rows[u].lockedAt])]
  /\ UNCHANGED <<rows, journal, commits>>

\* S is what ORDER BY value LIMIT n takes from C.
Limited(S, C, n, value) ==
  /\ S \subseteq C
  /\ Cardinality(S) = IF Cardinality(C) < n THEN Cardinality(C) ELSE n
  /\ \A u \in S, v \in C \ S : value[u] <= value[v]

\* FOR UPDATE SKIP LOCKED: not held by another, and still matching.
Lockable(s, candidates, matching) ==
  {u \in DOMAIN candidates \cap matching : ~LockedByOther(s, u)}

\* Mutant: the LIMIT is taken before the locked rows are skipped.
Half_LimitFirst(s, candidates, matching) ==
  {P \cap Lockable(s, candidates, matching) :
     P \in {P \in SUBSET DOMAIN candidates :
              Limited(P, DOMAIN candidates, BatchSize, candidates)}}

\* What one half of the claim locks: up to a batch of the lockable candidates.
Half(s, candidates, matching) ==
  {P \in SUBSET Lockable(s, candidates, matching) :
     Limited(P, Lockable(s, candidates, matching), BatchSize, candidates)}

\* Candidates that are locked only to find that they match no more: any of
\* them, for the scan stops at its LIMIT.
Overtaken(s, candidates, matching) ==
  {u \in DOMAIN candidates \ matching : ~LockedByOther(s, u)}

\* Both halves lock up to a batch each; the locks of those the outer LIMIT
\* drops are held to the end as well.
ClaimRows(s) ==
  /\ session[s].at = "claim"
  /\ LET now == session[s].now
         due == Tables!Due(now)
         stuck == Tables!Stuck(now - VisibilityTimeout)
     IN \E P \in Half(s, session[s].due, due), K \in Half(s, session[s].stuck, stuck) :
        \E S \in SUBSET (P \cup K),
           X \in SUBSET (Overtaken(s, session[s].due, due)
                           \cup Overtaken(s, session[s].stuck, stuck)) :
          /\ Limited(S, P \cup K, BatchSize, [u \in P \cup K |-> rows[u].nextAttemptAt])
          /\ \A u \in S : Tables!ClaimedRow(rows[u], now).attempts <= MaxInt
          /\ session' = [session EXCEPT ![s] =
               Committing([u \in S |-> Tables!ClaimedRow(rows[u], now)], P \cup K, X,
                          NoEntry, 0)]
  /\ UNCHANGED <<rows, journal, commits>>

-----------------------------------------------------------------------------
(* upsertQuote: the insert waits for an open insert of the same quote, so  *)
(* that a conflict is one with a committed row, which the select finds.    *)

QuoteOpen(rate) ==
  \E t \in Sessions : HasEntry(t) /\ SameQuote(session[t].entry, rate)

Won(rate) == {q \in DOMAIN journal : SameQuote(journal[q], rate)}

Taken(rate) ==
  Won(rate) # {} \/ \E t \in Sessions : HasEntry(t) /\ SameQuote(session[t].entry, rate)

UsedIDs == DOMAIN journal \cup {EntryID(t) : t \in {t \in Sessions : HasEntry(t)}}

UpsertQuote(s, u, rate) ==
  /\ session[s] = Idle
  /\ ~QuoteOpen(rate)
  /\ \/ /\ Taken(rate)
        /\ session' = [session EXCEPT ![s] = Selecting(u, rate)]
     \/ /\ ~Taken(rate)
        /\ \E id \in QuoteIDs \ UsedIDs :
             session' = [session EXCEPT ![s] = Updating(u, Success(id, FALSE), rate)]
  /\ UNCHANGED <<rows, journal, commits>>

\* Mutant: the empty result of the insert is taken for an id.
SelectWinner_Skipped(s) ==
  /\ session[s].at = "select"
  /\ session' = [session EXCEPT ![s] =
                   Updating(session[s].u, Success(0, FALSE), NoEntry)]
  /\ UNCHANGED <<rows, journal, commits>>

SelectWinner(s) ==
  /\ session[s].at = "select"
  /\ \E id \in Won(session[s].rate) :
       session' = [session EXCEPT ![s] =
                     Updating(session[s].u, Success(id, FALSE), NoEntry)]
  /\ UNCHANGED <<rows, journal, commits>>

-----------------------------------------------------------------------------
(* The UPDATE ... WHERE id = u AND status = 'in_progress' of every         *)
(* completion, and what it does when no row matches.                       *)

BeginReuse(s, u, id) ==
  /\ session[s] = Idle
  /\ id \in DOMAIN journal
  /\ session' = [session EXCEPT ![s] = Updating(u, Success(id, TRUE), NoEntry)]
  /\ UNCHANGED <<rows, journal, commits>>

BeginFailure(s, u, code, retryable, nextAttemptAt) ==
  /\ session[s] = Idle
  /\ session' = [session EXCEPT ![s] =
                   Updating(u, Failed(code, retryable, nextAttemptAt), NoEntry)]
  /\ UNCHANGED <<rows, journal, commits>>

InProgress(u) == u \in DOMAIN rows /\ rows[u].status = StatusInProgress

\* The snapshot has a matching row, which the statement goes on to lock, or
\* not: then diagnoseTransitionFailure explains it and the method returns.
MatchRow(s) ==
  /\ session[s].at = "update"
  /\ session' = [session EXCEPT ![s].at =
                   IF InProgress(session[s].u) THEN "lock" ELSE "refused"]
  /\ UNCHANGED <<rows, journal, commits>>

\* The lock is there, after a wait perhaps: the row is matched again.  One that
\* has moved on is refused like one that never matched, but stays locked.
LockRow(s) ==
  LET tx == session[s] IN
  /\ tx.at = "lock"
  /\ ~LockedByOther(s, tx.u)
  /\ session' = [session EXCEPT ![s] =
       IF InProgress(tx.u)
         THEN Committing([v \in {tx.u} |-> Changed(rows[tx.u], tx.change)], {tx.u}, {},
                         tx.entry, tx.change.id)
         ELSE [tx EXCEPT !.at = "overtaken"]]
  /\ UNCHANGED <<rows, journal, commits>>

-----------------------------------------------------------------------------
(* The end of a transaction.                                               *)

Commit(s) ==
  LET tx == session[s] IN
  /\ tx.at = "commit"
  /\ rows' = [u \in DOMAIN rows \cup DOMAIN tx.writes |->
                IF u \in DOMAIN tx.writes THEN tx.writes[u] ELSE rows[u]]
  /\ IF tx.entry = NoEntry
       THEN UNCHANGED <<journal, commits>>
       ELSE /\ journal' = [q \in DOMAIN journal \cup {tx.id} |->
                             IF q = tx.id THEN tx.entry ELSE journal[q]]
            /\ commits' = Append(commits, tx.id)
  /\ session' = [session EXCEPT ![s] = Idle]

\* Mutant: what upsertQuote inserted stays when the update is refused.
Rollback_KeepsQuote(s) ==
  /\ session[s].at # "idle"
  /\ session' = [session EXCEPT ![s] = Idle]
  /\ IF HasEntry(s)
       THEN /\ journal' = [q \in DOMAIN journal \cup {EntryID(s)} |->
                             IF q = EntryID(s) THEN session[s].entry ELSE journal[q]]
            /\ commits' = Append(commits, EntryID(s))
       ELSE UNCHANGED <<journal, commits>>
  /\ UNCHANGED rows

\* The deferred Rollback, or the server's when the connection is gone.
Rollback(s) ==
  /\ session[s].at # "idle"
  /\ session' = [session EXCEPT ![s] = Idle]
  /\ UNCHANGED <<rows, journal, commits>>

-----------------------------------------------------------------------------
(* The most general callers, as in QuoteStore.  Nothing in the database    *)
(* reads stale_after, so one value of it is enough, and a failure that is  *)
(* not retried does not use the instant it is given.                       *)

Begin(s) ==
  \/ \E u \in UpdateIDs, p \in Pairs, k \in Keys \cup {NoKey}, now \in CreationTimes :
       InsertUpdate(s, u, p, k, now)
  \/ \E now \in Times : ClaimSnapshot(s, now)
  \/ \E u \in DOMAIN rows, provider \in Providers, quotedAt \in Times :
       UpsertQuote(s, u, [pair |-> rows[u].pair, provider |-> provider,
                          quotedAt |-> quotedAt, staleAfter |-> quotedAt])
  \/ \E u \in DOMAIN rows, id \in DOMAIN journal :
       journal[id].pair = rows[u].pair /\ BeginReuse(s, u, id)
  \/ \E u \in DOMAIN rows, code \in Codes, retryable \in BOOLEAN :
       \E nextAttemptAt \in IF retryable THEN Times ELSE {0} :
         BeginFailure(s, u, code, retryable, nextAttemptAt)

TxNext ==
  \E s \in Sessions :
    \/ Begin(s) \/ ClaimRows(s) \/ SelectWinner(s) \/ MatchRow(s) \/ LockRow(s)
    \/ Commit(s) \/ Rollback(s)

TxSpec == TxInit /\ [][TxNext]_txVars

-----------------------------------------------------------------------------
(* What the statements guarantee.                                          *)

\* The committed tables, whatever the transactions in flight do or fail to
\* do, change only as QuoteStore's atomic actions change them: no lost update
\* of a row two transactions write, no double claim, no half of CompleteSuccess,
\* no quote inserted twice.
ImplementsTables == Tables!StoreSpec

Entry == [pair: Pairs, provider: Providers, quotedAt: Times, staleAfter: Times]

Change == [kind: {"succeed"}, id: QuoteIDs, reused: BOOLEAN]
     \cup [kind: {"fail"}, id: {0}, code: ErrorCodes, retryable: BOOLEAN,
           nextAttemptAt: Times \cup {0}]

DBRow == [pair: Pairs, key: Keys \cup {NoKey}, status: Statuses, attempts: 0..MaxInt,
          createdAt: Nat, nextAttemptAt: Nat, lockedAt: Nat,
          quoteID: QuoteIDs \cup {0}, reused: BOOLEAN,
          errorCode: ErrorCodes \cup {NoError}]

\* Type invariant; an open transaction writes only what it has locked.
TxTypeOK ==
  /\ DOMAIN rows \subseteq UpdateIDs /\ rows \in [DOMAIN rows -> DBRow]
  /\ DOMAIN journal \subseteq QuoteIDs /\ journal \in [DOMAIN journal -> Entry]
  /\ commits \in Seq(DOMAIN journal) /\ Len(commits) = Cardinality(DOMAIN journal)
  /\ \A s \in Sessions : LET tx == session[s] IN
       \/ tx = Idle
       \/ tx.at = "select" /\ tx.u \in DOMAIN rows /\ tx.rate \in Entry
       \/ /\ tx.at \in {"update", "lock", "refused", "overtaken"} /\ tx.u \in DOMAIN rows
          /\ tx.change \in Change /\ tx.entry \in Entry \cup {NoEntry}
       \/ /\ tx.at = "claim" /\ tx.now \in Times
          /\ DOMAIN tx.due \subseteq DOMAIN rows /\ DOMAIN tx.stuck \subseteq DOMAIN rows
       \/ /\ tx.at = "commit" /\ tx.writes \in [DOMAIN tx.writes -> DBRow]
          /\ DOMAIN tx.writes \subseteq tx.locked /\ tx.moved \subseteq DOMAIN rows
          /\ tx.entry \in Entry \cup {NoEntry}

\* The rows a claim at its locks still has to choose from.
Candidates(s) ==
  LET now == session[s].now IN
  (DOMAIN session[s].due \cap Tables!Due(now))
    \cup (DOMAIN session[s].stuck \cap Tables!Stuck(now - VisibilityTimeout))

\* Dispatcher.Run stops claiming at a batch that is not full.  Every candidate
\* such a claim passed over is then in the hands of another transaction: one that
\* writes it, a claim with a full batch, whose dispatcher claims again, or one
\* that ran into it while it moved on.  The locks both LIMITs leave behind never
\* hide a row from everybody.
ShortClaimDrains ==
  [][\A s \in Sessions :
       /\ session[s].at = "claim" /\ session'[s].at = "commit"
       /\ Cardinality(DOMAIN session'[s].writes) < BatchSize
       => \A u \in Candidates(s) \ DOMAIN session'[s].writes :
            \E t \in Sessions \ {s} :
              \/ u \in Writes(t) \cup Moved(t)
              \/ u \in Locked(t) /\ Cardinality(Writes(t)) = BatchSize]_txVars
=============================================================================
