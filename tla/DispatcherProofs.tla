-------------------------- MODULE DispatcherProofs --------------------------
(***************************************************************************)
(* Proofs about Dispatcher, for any number of replicas, requests, pairs,   *)
(* clock offsets and timeouts.  PipelineInv is what holds whatever the     *)
(* timeouts are; LeaseInv is what a visibility timeout long enough adds.   *)
(***************************************************************************)
EXTENDS Dispatcher, QuoteStoreProofs

Results == [kind: {"reuse"}, q: Nat]
      \cup [kind: {"fresh"}, rate: Quote]
      \cup [kind: {"error"}, code: ErrorCodes, retryable: BOOLEAN, retryAfter: Nat]
      \cup [kind: {"unclassified", "panic", "unresolved"}]

Task == [st: {"none", "queued", "flying", "resolved"}, attempts: 0..MaxInt,
         lockedAt: Nat, deadline: Nat, res: Results, since: Nat]

Flight == [st: {"none", "read", "allow", "call"}, deadline: Nat]

Pass == [phase: {"idle", "claiming", "working"}, now: Nat, deadline: Nat]

\* Types of the replicas' variables.
ReplicaTypes ==
  /\ clock \in Nat
  /\ task \in [Replicas -> [UpdateIDs -> Task]]
  /\ flight \in [Replicas -> [Pairs -> Flight]]
  /\ blockedUntil \in [Replicas -> Nat]
  /\ called \subseteq DOMAIN updates
  /\ pass \in [Replicas -> Pass]

\* A pass read its clock when its context's deadline was set.
PassesTimed ==
  \A r \in Replicas : pass[r].phase # "idle" =>
    /\ pass[r].now <= Now(r)
    /\ pass[r].now + PassTimeout = pass[r].deadline + Offset[r]

\* A goroutine works for the pass that started it, on a row that is there.
TasksOfPasses ==
  \A r \in Replicas, u \in UpdateIDs : task[r][u].st # "none" =>
    /\ u \in DOMAIN updates
    /\ pass[r].phase = "working"
    /\ task[r][u].lockedAt = pass[r].now
    /\ task[r][u].deadline = pass[r].deadline

\* A result is of its row's pair, and a quote to be reused is in the journal and
\* was fresh after the claim.  now is the clock, journal the table of quotes.
ResultOK(t, p, now, journal) ==
  /\ t.since <= now
  /\ t.deadline <= t.since + PassTimeout
  /\ t.res.kind = "reuse" => /\ t.res.q \in DOMAIN journal
                             /\ journal[t.res.q].pair = p
                             /\ journal[t.res.q].staleAfter > t.lockedAt
  /\ t.res.kind = "fresh" => t.res.rate.pair = p

ResultsOK ==
  \A r \in Replicas, u \in UpdateIDs :
    task[r][u].st = "resolved" => ResultOK(task[r][u], updates[u].pair, clock, quotes)

\* A flight is up exactly as long as a request waits for it.
FlightsLed ==
  \A r \in Replicas, p \in Pairs :
    flight[r][p].st # "none" <=> \E u \in UpdateIDs : u \in Coalesced(r, p)

PipelineInv ==
  /\ StoreInv
  /\ ReplicaTypes
  /\ PassesTimed
  /\ TasksOfPasses
  /\ ResultsOK
  /\ FlightsLed

-----------------------------------------------------------------------------
(* What the statements of the repository leave alone.                      *)

\* Rows stay, with their pair and their age, and the journal only grows.
Grows ==
  /\ DOMAIN updates \subseteq DOMAIN updates'
  /\ \A u \in DOMAIN updates : updates'[u].pair = updates[u].pair
  /\ \A i \in DOMAIN quotes : i \in DOMAIN quotes' /\ quotes'[i] = quotes[i]

LEMMA UnchangedGrows == UNCHANGED storeVars => Grows
BY DEF storeVars, Grows

LEMMA CreateGrows ==
  ASSUME NEW u, NEW p, NEW k, NEW now, CreateUpdateRequest(u, p, k, now)
  PROVE  Grows /\ UNCHANGED quotes /\ \A v \in DOMAIN updates : updates'[v] = updates[v]
BY DEF CreateUpdateRequest, Grows

\* What a claim does to the rows of its batch.
LEMMA ClaimFacts ==
  ASSUME StoreInv, NEW S, NEW skipped, NEW now \in Nat, ClaimBatch(S, skipped, now)
  PROVE  /\ Grows /\ UNCHANGED quotes
         /\ DOMAIN updates' = DOMAIN updates
         /\ S \subseteq DOMAIN updates
         /\ \A v \in DOMAIN updates \ S : updates'[v] = updates[v]
         /\ \A v \in S : /\ \/ updates[v].status = StatusPending
                            \/ /\ updates[v].status = StatusInProgress
                               /\ updates[v].lockedAt < now - VisibilityTimeout
                         /\ updates'[v].status = StatusInProgress
                         /\ updates'[v].lockedAt = now
                         /\ updates'[v].pair = updates[v].pair
                         /\ updates'[v].reused = updates[v].reused
                         /\ updates'[v].attempts \in 0..MaxInt
                         /\ updates'[v].attempts =
                              IF updates[v].status = StatusPending
                                THEN updates[v].attempts + 1 ELSE updates[v].attempts
<1>1. /\ updates' = [u \in DOMAIN updates |->
                       IF u \in S THEN ClaimedRow(updates[u], now) ELSE updates[u]]
      /\ \A u \in S : ClaimedRow(updates[u], now).attempts <= MaxInt
      /\ UNCHANGED quotes
  BY DEF ClaimBatch
<1>2. \A u \in S : /\ u \in DOMAIN updates
                   /\ \/ updates[u].status = StatusPending
                      \/ /\ updates[u].status = StatusInProgress
                         /\ updates[u].lockedAt < now - VisibilityTimeout
  BY DEF ClaimBatch, ClaimSelects, Limited, Due, Stuck
<1>3. ASSUME NEW v \in S
      PROVE  /\ updates'[v].status = StatusInProgress
             /\ updates'[v].lockedAt = now
             /\ updates'[v].pair = updates[v].pair
             /\ updates'[v].reused = updates[v].reused
             /\ updates'[v].attempts \in 0..MaxInt
             /\ updates'[v].attempts = IF updates[v].status = StatusPending
                                         THEN updates[v].attempts + 1 ELSE updates[v].attempts
  <2>1. updates[v] \in Row /\ updates'[v] = ClaimedRow(updates[v], now)
    BY <1>1, <1>2 DEF StoreInv, TypeOK
  <2>2. ClaimedRow(updates[v], now) \in Row
    BY <1>1, <2>1, ClaimedRowFacts
  <2>3. /\ ClaimedRow(updates[v], now).status = StatusInProgress
        /\ ClaimedRow(updates[v], now).lockedAt = now
        /\ ClaimedRow(updates[v], now).pair = updates[v].pair
        /\ ClaimedRow(updates[v], now).attempts =
             IF updates[v].status = StatusPending
               THEN updates[v].attempts + 1 ELSE updates[v].attempts
    BY <2>1 DEF ClaimedRow, Row
  <2>4. ClaimedRow(updates[v], now).reused = updates[v].reused
    BY <1>1, <2>1, ClaimedRowFacts
  <2>5. ClaimedRow(updates[v], now).attempts \in 0..MaxInt
    BY <2>2 DEF Row
  <2>6. QED
    BY <2>1, <2>3, <2>4, <2>5
<1>4. /\ DOMAIN updates' = DOMAIN updates
      /\ \A v \in DOMAIN updates \ S : updates'[v] = updates[v]
  BY <1>1
<1>5. Grows
  BY <1>1, <1>2, <1>3, <1>4 DEF Grows
<1>6. QED
  BY <1>1, <1>2, <1>3, <1>4, <1>5

-----------------------------------------------------------------------------
(* What a worker's write does to its row.                                  *)

\* The row of a claimed request after its outcome was written, over a journal
\* that holds what it held.
Written(u) ==
  /\ StoreInv'
  /\ Grows
  /\ DOMAIN updates' = DOMAIN updates
  /\ \A v \in DOMAIN updates \ {u} : updates'[v] = updates[v]
  /\ u \in DOMAIN updates
  /\ updates[u].status = StatusInProgress
  /\ updates'[u].attempts = updates[u].attempts
  /\ updates'[u].lockedAt = updates[u].lockedAt
  /\ updates'[u].createdAt = updates[u].createdAt

LEMMA SucceedWrites ==
  ASSUME StoreInv, NEW u, NEW rate \in Quote, CompleteSuccess(u, rate),
         rate.pair = updates[u].pair
  PROVE  Written(u) /\ updates'[u].status = StatusSucceeded /\ ~updates'[u].reused
<1>1. /\ u \in DOMAIN updates
      /\ updates[u].status = StatusInProgress
      /\ quotes' = UpsertedQuotes(rate)
      /\ updates' = [updates EXCEPT ![u] = SucceededRow(updates[u], UpsertedID(rate), FALSE)]
  BY DEF CompleteSuccess, IsInProgress
<1>2. /\ updates \in [DOMAIN updates -> Row]
      /\ quotes \in Seq(Quote)
  BY DEF StoreInv, TypeOK
<1>3. /\ updates'[u] = SucceededRow(updates[u], UpsertedID(rate), FALSE)
      /\ DOMAIN updates' = DOMAIN updates
      /\ \A v \in DOMAIN updates \ {u} : updates'[v] = updates[v]
  BY <1>1
<1>4. updates[u] \in Row
  BY <1>1, <1>2
<1>5. /\ updates'[u].pair = updates[u].pair
      /\ updates'[u].attempts = updates[u].attempts
      /\ updates'[u].lockedAt = updates[u].lockedAt
      /\ updates'[u].createdAt = updates[u].createdAt
      /\ updates'[u].status = StatusSucceeded
  BY <1>3, <1>4 DEF SucceededRow, Row
<1>6. ~updates'[u].reused
  BY <1>3, <1>4, Zenon DEF SucceededRow, Row
<1>7. \A i \in DOMAIN quotes : i \in DOMAIN quotes' /\ quotes'[i] = quotes[i]
  <2>1. \/ quotes' = quotes
        \/ quotes' = Append(quotes, rate)
    BY <1>1, <1>2, UpsertFacts
  <2>2. QED
    BY <2>1, <1>2
<1>8. StoreInv'
  BY SucceedKeepsInv
<1>9. QED
  BY <1>1, <1>3, <1>5, <1>6, <1>7, <1>8 DEF Written, Grows

LEMMA ReuseWrites ==
  ASSUME StoreInv, NEW u, NEW q \in QuotesOf(updates[u].pair),
         CompleteSuccessReuse(u, q)
  PROVE  /\ Written(u) /\ updates'[u].status = StatusSucceeded
         /\ updates'[u].quoteID = q
<1>1. /\ u \in DOMAIN updates
      /\ updates[u].status = StatusInProgress
      /\ updates' = [updates EXCEPT ![u] = SucceededRow(updates[u], q, TRUE)]
      /\ UNCHANGED quotes
  BY DEF CompleteSuccessReuse, IsInProgress
<1>2. updates \in [DOMAIN updates -> Row]
  BY DEF StoreInv, TypeOK
<1>3. /\ updates'[u] = SucceededRow(updates[u], q, TRUE)
      /\ DOMAIN updates' = DOMAIN updates
      /\ \A v \in DOMAIN updates \ {u} : updates'[v] = updates[v]
  BY <1>1
<1>4. updates[u] \in Row
  BY <1>1, <1>2
<1>5. /\ updates'[u].pair = updates[u].pair
      /\ updates'[u].attempts = updates[u].attempts
      /\ updates'[u].lockedAt = updates[u].lockedAt
      /\ updates'[u].createdAt = updates[u].createdAt
      /\ updates'[u].status = StatusSucceeded
      /\ updates'[u].quoteID = q
  BY <1>3, <1>4 DEF SucceededRow, Row
<1>6. StoreInv'
  BY ReuseKeepsInv
<1>7. QED
  BY <1>1, <1>3, <1>5, <1>6 DEF Written, Grows

LEMMA FailWrites ==
  ASSUME StoreInv, NEW u, NEW code \in ErrorCodes, NEW retryable \in BOOLEAN,
         NEW t \in Nat, CompleteFailure(u, code, retryable, t)
  PROVE  /\ Written(u) /\ updates'[u].reused = updates[u].reused
         /\ updates'[u].status = IF retryable THEN StatusPending ELSE StatusFailed
<1>1. /\ u \in DOMAIN updates
      /\ updates[u].status = StatusInProgress
      /\ updates' = [updates EXCEPT ![u] = FailedRow(updates[u], code, retryable, t)]
      /\ UNCHANGED quotes
  BY DEF CompleteFailure, IsInProgress
<1>2. updates \in [DOMAIN updates -> Row]
  BY DEF StoreInv, TypeOK
<1>3. /\ updates'[u] = FailedRow(updates[u], code, retryable, t)
      /\ DOMAIN updates' = DOMAIN updates
      /\ \A v \in DOMAIN updates \ {u} : updates'[v] = updates[v]
  BY <1>1
<1>4. updates[u] \in Row
  BY <1>1, <1>2
<1>5. /\ updates'[u].lockedAt = updates[u].lockedAt
      /\ updates'[u].createdAt = updates[u].createdAt
  BY <1>3, <1>4 DEF FailedRow, Row
<1>6. /\ updates'[u].pair = updates[u].pair
      /\ updates'[u].attempts = updates[u].attempts
      /\ updates'[u].reused = updates[u].reused
      /\ updates'[u].status = IF retryable THEN StatusPending ELSE StatusFailed
  BY <1>3, <1>4, FailedRowFacts
<1>7. StoreInv'
  BY FailKeepsInv
<1>8. QED
  BY <1>1, <1>3, <1>5, <1>6, <1>7 DEF Written, Grows

\* The wait before the next attempt is a duration.
LEMMA DelayIsNat ==
  ASSUME NEW attempts \in 0..MaxInt, NEW retryAfter \in Nat
  PROVE  Delay(attempts, retryAfter) \in Nat
<1>1. MaxInt \in Nat /\ BaseBackoff \in Nat /\ MaxBackoff \in Nat
  BY StoreAssumption, WorkerAssumption DEF StoreAssumption, WorkerAssumption
<1> DEFINE shift == IF attempts > 1 THEN attempts - 1 ELSE 0
           grown == BaseBackoff * (2 ^ shift)
           delay == IF grown > MaxBackoff THEN MaxBackoff ELSE grown
<1>2. shift \in 0..MaxInt
  BY <1>1
<1> HIDE DEF shift
<1>3. 2 ^ shift \in Nat
  BY <1>2, PowersAssumption DEF PowersAssumption
<1>4. ASSUME NEW n \in Nat, NEW m \in Nat PROVE n * m \in Nat
  OBVIOUS
<1>5. grown \in Nat
  BY <1>1, <1>3, <1>4
<1> HIDE DEF grown
<1>6. delay \in Nat
  BY <1>1, <1>5
<1>7. Delay(attempts, retryAfter) = IF retryAfter > delay THEN retryAfter ELSE delay
  BY DEF Delay, shift, grown
<1> HIDE DEF delay
<1>8. QED
  BY <1>6, <1>7

\* The instant a failure is retried at is one.
LEMMA RetryIsNat ==
  ASSUME NEW now \in Nat, NEW delay \in Nat, NEW j \in JitterQuarters
  PROVE  now + (delay * j) \div 4 \in Nat
<1>1. j \in Nat
  BY WorkerAssumption DEF WorkerAssumption
<1>2. delay * j \in Nat
  BY <1>1
<1>3. ASSUME NEW n \in Nat PROVE n \div 4 \in Nat
  OBVIOUS
<1>4. QED
  BY <1>2, <1>3

\* What the types say of one goroutine.
LEMMA TaskTypes ==
  ASSUME ReplicaTypes, NEW r \in Replicas, NEW u \in UpdateIDs
  PROVE  /\ task[r][u] \in Task
         /\ task[r][u].attempts \in 0..MaxInt
         /\ task[r][u].lockedAt \in Nat /\ task[r][u].deadline \in Nat
         /\ task[r][u].since \in Nat /\ task[r][u].res \in Results
<1>1. task[r][u] \in Task
  BY DEF ReplicaTypes
<1>2. QED
  BY <1>1 DEF Task

\* A replica's clock is ahead by at most MaxSkew.
LEMMA OffsetIsNat ==
  ASSUME NEW r \in Replicas
  PROVE  Offset[r] \in Nat /\ Offset[r] <= MaxSkew /\ MaxSkew \in Nat
BY WorkerAssumption DEF WorkerAssumption

\* A recorded failure ends the row, or hands it back while both budgets last.
LEMMA FailureRecorded ==
  ASSUME StoreInv, NEW u, NEW attempts \in 0..MaxInt, NEW now \in Nat,
         NEW code \in ErrorCodes, NEW retryable \in BOOLEAN, NEW retryAfter \in Nat,
         RecordFailure(u, attempts, now, code, retryable, retryAfter)
  PROVE  /\ Written(u) /\ updates'[u].reused = updates[u].reused
         /\ \/ updates'[u].status = StatusFailed
            \/ updates'[u].status = StatusPending /\ BudgetLeft(u, attempts, now)
         /\ Times = Nat => Fail
<1> DEFINE retries == retryable /\ BudgetLeft(u, attempts, now)
           what == IF retryable /\ ~retries THEN AttemptsExhaustedCode ELSE code
<1>1. PICK j \in JitterQuarters :
        CompleteFailure(u, what, retries,
                        now + (Delay(attempts, retryAfter) * j) \div 4)
  BY Zenon DEF RecordFailure
<1> DEFINE at == now + (Delay(attempts, retryAfter) * j) \div 4
<1>2. at \in Nat
  BY DelayIsNat, RetryIsNat
<1>3. what \in ErrorCodes /\ retries \in BOOLEAN
  BY DEF ErrorCodes, BudgetLeft
<1>4. u \in DOMAIN updates
  BY <1>1, Zenon DEF CompleteFailure, IsInProgress
<1>5. Times = Nat => Fail
  BY <1>1, <1>2, <1>3, <1>4, Zenon DEF Fail
<1>6. retries => BudgetLeft(u, attempts, now)
  OBVIOUS
<1> HIDE DEF retries, what, at
<1>7. CompleteFailure(u, what, retries, at)
  BY <1>1 DEF retries, what, at
<1>8. /\ Written(u) /\ updates'[u].reused = updates[u].reused
      /\ updates'[u].status = IF retries THEN StatusPending ELSE StatusFailed
  BY <1>2, <1>3, <1>7, FailWrites
<1>9. QED
  BY <1>5, <1>6, <1>8, Zenon

\* What Process writes for a resolved request.
LEMMA RecordFacts ==
  ASSUME PipelineInv, NEW r \in Replicas, NEW u \in UpdateIDs,
         task[r][u].st = "resolved", Record(r, u)
  PROVE  /\ Written(u)
         /\ \/ /\ updates'[u].status = StatusSucceeded
               /\ updates'[u].reused =>
                    /\ updates'[u].quoteID \in DOMAIN quotes
                    /\ quotes[updates'[u].quoteID].staleAfter > task[r][u].lockedAt
            \/ /\ updates'[u].status = StatusFailed
               /\ updates'[u].reused = updates[u].reused
            \/ /\ updates'[u].status = StatusPending
               /\ updates'[u].reused = updates[u].reused
               /\ \E at \in task[r][u].since..clock :
                    BudgetLeft(u, task[r][u].attempts, at + Offset[r])
         /\ Times = Nat => Succeed \/ SucceedReuse \/ Fail
<1> DEFINE t == task[r][u]
<1>i. StoreInv /\ ReplicaTypes /\ ResultOK(t, updates[u].pair, clock, quotes) /\ u \in DOMAIN updates
  BY DEF PipelineInv, ResultsOK, TasksOfPasses
<1>t. t.attempts \in 0..MaxInt /\ t.since \in Nat /\ t.res \in Results
  BY <1>i, TaskTypes
<1>c. clock \in Nat /\ Offset[r] \in Nat
  BY <1>i, OffsetIsNat DEF ReplicaTypes
<1>1. CASE t.res.kind = "reuse" /\ CompleteSuccessReuse(u, t.res.q)
  <2>1. t.res.q \in QuotesOf(updates[u].pair) /\ quotes[t.res.q].staleAfter > t.lockedAt
    BY <1>1, <1>i DEF ResultOK, QuotesOf
  <2>2. /\ Written(u) /\ updates'[u].status = StatusSucceeded
        /\ updates'[u].quoteID = t.res.q
    BY <1>1, <1>i, <2>1, ReuseWrites
  <2>3. SucceedReuse
    BY <1>1, <1>i, <2>1, Zenon DEF SucceedReuse
  <2>4. t.res.q \in DOMAIN quotes
    BY <2>1 DEF QuotesOf
  <2>5. QED
    BY <2>1, <2>2, <2>3, <2>4
<1>2. CASE t.res.kind = "fresh" /\ CompleteSuccess(u, t.res.rate)
  <2>1. t.res.rate \in Quote /\ t.res.rate.pair = updates[u].pair
    BY <1>2, <1>i, <1>t DEF Results, ResultOK
  <2>2. Written(u) /\ updates'[u].status = StatusSucceeded /\ ~updates'[u].reused
    BY <1>2, <1>i, <2>1, SucceedWrites
  <2>3. Succeed
    <3>1. t.res.rate = [pair |-> updates[u].pair, provider |-> t.res.rate.provider,
                        quotedAt |-> t.res.rate.quotedAt,
                        staleAfter |-> t.res.rate.staleAfter]
      BY <2>1 DEF Quote
    <3>2. /\ t.res.rate.provider \in Providers /\ t.res.rate.quotedAt \in Times
          /\ t.res.rate.staleAfter \in Times
      BY <2>1 DEF Quote
    <3>3. QED
      BY <1>2, <1>i, <3>1, <3>2 DEF Succeed
  <2>4. QED
    BY <2>2, <2>3, Zenon
<1>3. ASSUME NEW at \in t.since..clock, t.res.kind = "error",
             RecordFailure(u, t.attempts, at + Offset[r], t.res.code, t.res.retryable,
                           t.res.retryAfter)
      PROVE  /\ Written(u) /\ updates'[u].reused = updates[u].reused
             /\ \/ updates'[u].status = StatusFailed
                \/ /\ updates'[u].status = StatusPending
                   /\ BudgetLeft(u, t.attempts, at + Offset[r])
             /\ Times = Nat => Fail
  <2>1. at + Offset[r] \in Nat
    BY <1>t, <1>c
  <2>2. t.res.code \in ErrorCodes /\ t.res.retryable \in BOOLEAN /\ t.res.retryAfter \in Nat
    BY <1>t, <1>3 DEF Results
  <2>3. QED
    BY <1>i, <1>t, <1>3, <2>1, <2>2, FailureRecorded
<1>4. ASSUME NEW at \in t.since..clock, t.res.kind = "unclassified",
             RecordFailure(u, t.attempts, at + Offset[r], InternalError, FALSE, 0)
      PROVE  /\ Written(u) /\ updates'[u].reused = updates[u].reused
             /\ \/ updates'[u].status = StatusFailed
                \/ /\ updates'[u].status = StatusPending
                   /\ BudgetLeft(u, t.attempts, at + Offset[r])
             /\ Times = Nat => Fail
  <2>1. at + Offset[r] \in Nat
    BY <1>t, <1>c
  <2>2. InternalError \in ErrorCodes /\ FALSE \in BOOLEAN /\ 0 \in Nat
    BY DEF ErrorCodes
  <2>3. QED
    BY <1>i, <1>t, <1>4, <2>1, <2>2, FailureRecorded
<1>5. CASE \E at \in t.since..clock :
             \/ /\ t.res.kind = "error"
                /\ RecordFailure(u, t.attempts, at + Offset[r], t.res.code,
                                 t.res.retryable, t.res.retryAfter)
             \/ /\ t.res.kind = "unclassified"
                /\ RecordFailure(u, t.attempts, at + Offset[r], InternalError, FALSE, 0)
  BY <1>3, <1>4, <1>5, Zenon
<1>6. QED
  BY <1>1, <1>2, <1>5, Zenon DEF Record

-----------------------------------------------------------------------------
(* What a step does to the goroutines, kind by kind.                       *)

\* A result stays right while time passes and the journal grows.
LEMMA ResultSurvives ==
  ASSUME NEW t \in Task, NEW p, NEW now \in Nat, NEW later \in Nat, now <= later,
         NEW journal, NEW longer,
         \A i \in DOMAIN journal : i \in DOMAIN longer /\ longer[i] = journal[i],
         ResultOK(t, p, now, journal)
  PROVE  ResultOK(t, p, later, longer)
<1>1. t.since \in Nat
  BY DEF Task
<1>2. QED
  BY <1>1 DEF ResultOK

\* Every goroutine stays as it is: requests are inserted, passes start and end
\* without any, flights move on, time passes.
LEMMA TasksKept ==
  ASSUME PipelineInv, StoreInv', ReplicaTypes', PassesTimed', Grows,
         task' = task, clock <= clock',
         \A r \in Replicas, p \in Pairs :
           flight'[r][p].st # "none" <=> flight[r][p].st # "none",
         \A r \in Replicas : \/ pass'[r] = pass[r]
                             \/ \A u \in UpdateIDs : task[r][u].st = "none"
  PROVE  PipelineInv'
<1>i. /\ ReplicaTypes /\ TasksOfPasses /\ ResultsOK /\ FlightsLed
      /\ clock \in Nat /\ clock' \in Nat
  BY DEF PipelineInv, ReplicaTypes
<1>1. TasksOfPasses'
  BY <1>i DEF TasksOfPasses, Grows
<1>2. ResultsOK'
  <2> SUFFICES ASSUME NEW r \in Replicas, NEW u \in UpdateIDs, task[r][u].st = "resolved"
               PROVE  ResultOK(task[r][u], updates'[u].pair, clock', quotes')
    BY DEF ResultsOK
  <2>1. /\ u \in DOMAIN updates /\ updates'[u].pair = updates[u].pair
        /\ ResultOK(task[r][u], updates[u].pair, clock, quotes)
    BY <1>i DEF TasksOfPasses, ResultsOK, Grows
  <2>2. task[r][u] \in Task
    BY <1>i, TaskTypes
  <2>3. QED
    BY <1>i, <2>1, <2>2, ResultSurvives DEF Grows
<1>3. FlightsLed'
  <2> SUFFICES ASSUME NEW r \in Replicas, NEW p \in Pairs
               PROVE  flight'[r][p].st # "none" <=> \E u \in UpdateIDs : u \in Coalesced(r, p)'
    BY DEF FlightsLed
  <2>1. \A u \in UpdateIDs : u \in Coalesced(r, p)' <=> u \in Coalesced(r, p)
    BY <1>i DEF TasksOfPasses, Coalesced, Grows
  <2>2. QED
    BY <1>i, <2>1 DEF FlightsLed
<1>4. QED
  BY <1>1, <1>2, <1>3 DEF PipelineInv

\* One resolved goroutine is gone.
LEMMA TaskDropped ==
  ASSUME PipelineInv, StoreInv', Grows, NEW r \in Replicas, NEW u \in UpdateIDs,
         task[r][u].st = "resolved", task' = [task EXCEPT ![r][u] = NoTask],
         UNCHANGED <<clock, flight, blockedUntil, called, pass>>
  PROVE  PipelineInv'
<1>i. /\ ReplicaTypes /\ PassesTimed /\ TasksOfPasses /\ ResultsOK /\ FlightsLed
      /\ clock \in Nat
  BY DEF PipelineInv, ReplicaTypes
<1>t. NoTask \in Task /\ NoTask.st = "none"
  <2>1. 0 \in 0..MaxInt
    BY StoreAssumption DEF StoreAssumption
  <2>2. QED
    BY <2>1 DEF NoTask, Task, Unresolved, Results
<1>1. /\ task' \in [Replicas -> [UpdateIDs -> Task]]
      /\ \A s \in Replicas, v \in UpdateIDs :
           task'[s][v] = IF s = r /\ v = u THEN NoTask ELSE task[s][v]
  BY <1>i, <1>t DEF ReplicaTypes
<1>2. ReplicaTypes'
  BY <1>i, <1>1 DEF ReplicaTypes, Grows
<1>3. PassesTimed'
  BY <1>i DEF PassesTimed, Now
<1>4. TasksOfPasses'
  BY <1>i, <1>1, <1>t DEF TasksOfPasses, Grows
<1>5. ResultsOK'
  <2> SUFFICES ASSUME NEW s \in Replicas, NEW v \in UpdateIDs, task'[s][v].st = "resolved"
               PROVE  ResultOK(task'[s][v], updates'[v].pair, clock', quotes')
    BY DEF ResultsOK
  <2>0. task'[s][v] = task[s][v]
    BY <1>1, <1>t
  <2>1. /\ v \in DOMAIN updates /\ updates'[v].pair = updates[v].pair
        /\ ResultOK(task[s][v], updates[v].pair, clock, quotes)
    BY <1>i, <2>0 DEF TasksOfPasses, ResultsOK, Grows
  <2>2. task[s][v] \in Task
    BY <1>i, TaskTypes
  <2>3. QED
    BY <1>i, <2>0, <2>1, <2>2, ResultSurvives DEF Grows
<1>6. FlightsLed'
  <2> SUFFICES ASSUME NEW s \in Replicas, NEW p \in Pairs
               PROVE  flight'[s][p].st # "none" <=> \E v \in UpdateIDs : v \in Coalesced(s, p)'
    BY DEF FlightsLed
  <2>1. \A v \in UpdateIDs : v \in Coalesced(s, p)' <=> v \in Coalesced(s, p)
    BY <1>i, <1>1, <1>t DEF TasksOfPasses, Coalesced, Grows
  <2>2. QED
    BY <1>i, <2>1 DEF FlightsLed
<1>7. QED
  BY <1>2, <1>3, <1>4, <1>5, <1>6 DEF PipelineInv

\* StartTask moves one goroutine and leaves what its claim gave it.
LEMMA StartedTasks ==
  ASSUME ReplicaTypes, NEW r \in Replicas, NEW u \in UpdateIDs, StartTask(r, u)
  PROVE  /\ task' \in [Replicas -> [UpdateIDs -> Task]]
         /\ \A s \in Replicas, v \in UpdateIDs :
              IF s = r /\ v = u
                THEN /\ task'[s][v].st = "flying"
                     /\ task'[s][v].attempts = task[s][v].attempts
                     /\ task'[s][v].lockedAt = task[s][v].lockedAt
                     /\ task'[s][v].deadline = task[s][v].deadline
                ELSE task'[s][v] = task[s][v]
<1>i. ReplicaTypes /\ task' = [task EXCEPT ![r][u].st = "flying"]
  BY DEF StartTask
<1>1. task[r][u] \in Task
  BY <1>i, TaskTypes
<1>2. /\ [task[r][u] EXCEPT !.st = "flying"] \in Task
      /\ [task[r][u] EXCEPT !.st = "flying"].st = "flying"
      /\ [task[r][u] EXCEPT !.st = "flying"].attempts = task[r][u].attempts
      /\ [task[r][u] EXCEPT !.st = "flying"].lockedAt = task[r][u].lockedAt
      /\ [task[r][u] EXCEPT !.st = "flying"].deadline = task[r][u].deadline
  BY <1>1 DEF Task
<1>3. task' = [task EXCEPT ![r] = [task[r] EXCEPT ![u] = [task[r][u] EXCEPT !.st = "flying"]]]
  BY <1>i
<1>4. task \in [Replicas -> [UpdateIDs -> Task]]
  BY <1>i DEF ReplicaTypes
<1> DEFINE started == [task[r][u] EXCEPT !.st = "flying"]
<1> HIDE DEF started
<1>5. task' = [task EXCEPT ![r] = [task[r] EXCEPT ![u] = started]]
  BY <1>3 DEF started
<1>6. started \in Task
  BY <1>2 DEF started
<1>7. /\ task' \in [Replicas -> [UpdateIDs -> Task]]
      /\ \A s \in Replicas, v \in UpdateIDs :
           task'[s][v] = IF s = r /\ v = u THEN started ELSE task[s][v]
  BY <1>4, <1>5, <1>6
<1>8. QED
  BY <1>2, <1>7 DEF started

\* A goroutine leads its pair's flight or joins it.
LEMMA StartKeepsInv ==
  ASSUME PipelineInv, NEW r \in Replicas, NEW u \in UpdateIDs, StartTask(r, u),
         UNCHANGED pass
  PROVE  PipelineInv'
<1> DEFINE p == updates[u].pair
<1>i. /\ StoreInv /\ ReplicaTypes /\ PassesTimed /\ TasksOfPasses /\ ResultsOK /\ FlightsLed
      /\ clock \in Nat /\ PassTimeout \in Nat
  BY WorkerAssumption DEF PipelineInv, ReplicaTypes, WorkerAssumption
<1>s. /\ task[r][u].st = "queued"
      /\ task' = [task EXCEPT ![r][u].st = "flying"]
      /\ UNCHANGED <<updates, quotes, clock, blockedUntil, called>>
  BY DEF StartTask, storeVars
<1>p. u \in DOMAIN updates /\ p \in Pairs
  BY <1>i, <1>s DEF TasksOfPasses, StoreInv, TypeOK, Row
<1>1. /\ task' \in [Replicas -> [UpdateIDs -> Task]]
      /\ \A s \in Replicas, v \in UpdateIDs :
           IF s = r /\ v = u
             THEN /\ task'[s][v].st = "flying"
                  /\ task'[s][v].lockedAt = task[s][v].lockedAt
                  /\ task'[s][v].deadline = task[s][v].deadline
             ELSE task'[s][v] = task[s][v]
  BY <1>i, StartedTasks
<1>2. /\ flight' \in [Replicas -> [Pairs -> Flight]]
      /\ \A s \in Replicas, x \in Pairs :
           IF s = r /\ x = p THEN flight'[s][x].st # "none"
                             ELSE flight'[s][x] = flight[s][x]
  <2>1. flight \in [Replicas -> [Pairs -> Flight]]
    BY <1>i DEF ReplicaTypes
  <2>2. CASE flight[r][p].st = "none"
    <3>1. flight' = [flight EXCEPT ![r][p] = [st |-> "read", deadline |-> clock + PassTimeout]]
      BY <2>2 DEF StartTask
    <3>2. [st |-> "read", deadline |-> clock + PassTimeout] \in Flight
      BY <1>i DEF Flight
    <3> QED
      BY <2>1, <3>1, <3>2, <1>p
  <2>3. CASE flight[r][p].st # "none"
    <3>1. flight' = flight
      BY <2>3 DEF StartTask
    <3> QED
      BY <2>1, <2>3, <3>1, <1>p
  <2>4. QED
    BY <2>2, <2>3
<1>3. ReplicaTypes'
  BY <1>i, <1>s, <1>1, <1>2 DEF ReplicaTypes
<1>4. StoreInv'
  BY <1>i, <1>s, StoreInvByRow, StoreInvByRowPrimed, JournalUntouched
<1>5. PassesTimed'
  BY <1>i, <1>s DEF PassesTimed, Now
<1>6. TasksOfPasses'
  BY <1>i, <1>s, <1>1 DEF TasksOfPasses
<1>7. ResultsOK'
  BY <1>i, <1>s, <1>1 DEF ResultsOK
<1>8. FlightsLed'
  <2> SUFFICES ASSUME NEW s \in Replicas, NEW x \in Pairs
               PROVE  flight'[s][x].st # "none" <=> \E v \in UpdateIDs : v \in Coalesced(s, x)'
    BY DEF FlightsLed
  <2>1. CASE s = r /\ x = p
    BY <2>1, <1>s, <1>1, <1>2 DEF Coalesced
  <2>2. CASE ~(s = r /\ x = p)
    <3>1. \A v \in UpdateIDs : v \in Coalesced(s, x)' <=> v \in Coalesced(s, x)
      BY <2>2, <1>s, <1>1 DEF Coalesced
    <3>2. QED
      BY <1>i, <1>2, <2>2, <3>1 DEF FlightsLed
  <2>3. QED
    BY <2>1, <2>2
<1>9. QED
  BY <1>3, <1>4, <1>5, <1>6, <1>7, <1>8 DEF PipelineInv

\* Deliver resolves the coalesced goroutines, which keep what their claim gave them.
LEMMA DeliveredTasks ==
  ASSUME ReplicaTypes, NEW r \in Replicas, NEW p \in Pairs, NEW res \in Results,
         Deliver(r, p, res)
  PROVE  /\ task' \in [Replicas -> [UpdateIDs -> Task]]
         /\ \A s \in Replicas, v \in UpdateIDs :
              IF s = r /\ v \in Coalesced(r, p)
                THEN /\ task[s][v].st = "flying"
                     /\ task'[s][v].st = "resolved"
                     /\ task'[s][v].attempts = task[s][v].attempts
                     /\ task'[s][v].lockedAt = task[s][v].lockedAt
                     /\ task'[s][v].deadline = task[s][v].deadline
                     /\ task'[s][v].since = clock
                     /\ task'[s][v].res = res
                ELSE task'[s][v] = task[s][v]
<1>i. ReplicaTypes /\ clock \in Nat
  BY DEF ReplicaTypes
<1> DEFINE landed(v) == [task[r][v] EXCEPT !.st = "resolved", !.res = res, !.since = clock]
<1>1. task \in [Replicas -> [UpdateIDs -> Task]]
  BY <1>i DEF ReplicaTypes
<1>2. task' = [task EXCEPT ![r] = [u \in UpdateIDs |->
                 IF u \in Coalesced(r, p) THEN landed(u) ELSE task[r][u]]]
  BY DEF Deliver
<1>3. ASSUME NEW v \in UpdateIDs
      PROVE  /\ landed(v) \in Task
             /\ landed(v).st = "resolved" /\ landed(v).since = clock /\ landed(v).res = res
             /\ landed(v).attempts = task[r][v].attempts
             /\ landed(v).lockedAt = task[r][v].lockedAt
             /\ landed(v).deadline = task[r][v].deadline
  <2>1. task[r][v] \in Task
    BY <1>i, TaskTypes
  <2>2. QED
    BY <1>i, <2>1 DEF Task
<1> HIDE DEF landed
<1>4. \A v \in Coalesced(r, p) : v \in UpdateIDs /\ task[r][v].st = "flying"
  BY DEF Coalesced
<1>5. QED
  BY <1>1, <1>2, <1>3, <1>4

\* A flight lands: everything that waited for it is resolved with its result.
LEMMA DeliverKeepsInv ==
  ASSUME PipelineInv, NEW r \in Replicas, NEW p \in Pairs, NEW res \in Results,
         Deliver(r, p, res),
         res.kind = "reuse" => /\ res.q \in QuotesOf(p)
                               /\ quotes[res.q].staleAfter > Now(r),
         res.kind = "fresh" => res.rate.pair = p,
         UNCHANGED <<updates, quotes, clock, pass>>,
         called' = called \/ called' = called \cup Coalesced(r, p),
         blockedUntil' \in [Replicas -> Nat]
  PROVE  PipelineInv'
<1>i. /\ StoreInv /\ ReplicaTypes /\ PassesTimed /\ TasksOfPasses /\ ResultsOK /\ FlightsLed
      /\ clock \in Nat /\ PassTimeout \in Nat
  BY WorkerAssumption DEF PipelineInv, ReplicaTypes, WorkerAssumption
<1>1. /\ task' \in [Replicas -> [UpdateIDs -> Task]]
      /\ \A s \in Replicas, v \in UpdateIDs :
           IF s = r /\ v \in Coalesced(r, p)
             THEN /\ task[s][v].st = "flying"
                  /\ task'[s][v].st = "resolved"
                  /\ task'[s][v].lockedAt = task[s][v].lockedAt
                  /\ task'[s][v].deadline = task[s][v].deadline
                  /\ task'[s][v].since = clock
                  /\ task'[s][v].res = res
             ELSE task'[s][v] = task[s][v]
  BY <1>i, DeliveredTasks
<1>2. /\ flight' \in [Replicas -> [Pairs -> Flight]]
      /\ flight'[r][p].st = "none"
      /\ \A s \in Replicas, x \in Pairs :
           ~(s = r /\ x = p) => flight'[s][x] = flight[s][x]
  <2>1. flight \in [Replicas -> [Pairs -> Flight]]
    BY <1>i DEF ReplicaTypes
  <2>2. NoFlight \in Flight /\ NoFlight.st = "none"
    BY DEF NoFlight, Flight
  <2>3. QED
    BY <2>1, <2>2 DEF Deliver
<1>3. ReplicaTypes'
  <2>1. Coalesced(r, p) \subseteq DOMAIN updates
    BY <1>i DEF Coalesced, TasksOfPasses
  <2>2. QED
    BY <1>i, <1>1, <1>2, <2>1 DEF ReplicaTypes
<1>4. StoreInv'
  BY <1>i, StoreInvByRow, StoreInvByRowPrimed, JournalUntouched
<1>5. PassesTimed'
  BY <1>i DEF PassesTimed, Now
<1>6. TasksOfPasses'
  BY <1>i, <1>1 DEF TasksOfPasses
<1>7. ResultsOK'
  <2> SUFFICES ASSUME NEW s \in Replicas, NEW v \in UpdateIDs, task'[s][v].st = "resolved"
               PROVE  ResultOK(task'[s][v], updates[v].pair, clock, quotes)
    BY DEF ResultsOK
  <2>1. CASE s = r /\ v \in Coalesced(r, p)
    <3>1. /\ updates[v].pair = p /\ task[r][v].st # "none"
      BY <2>1 DEF Coalesced
    <3>2. /\ pass[r].phase = "working"
          /\ task[r][v].lockedAt = pass[r].now
          /\ task[r][v].deadline = pass[r].deadline
      BY <1>i, <3>1 DEF TasksOfPasses
    <3>3. /\ pass[r].now <= clock + Offset[r]
          /\ pass[r].now + PassTimeout = pass[r].deadline + Offset[r]
      BY <1>i, <3>2 DEF PassesTimed, Now
    <3>4. /\ pass[r].now \in Nat /\ pass[r].deadline \in Nat /\ Offset[r] \in Nat
      BY <1>i, OffsetIsNat DEF ReplicaTypes, Pass
    <3>5. pass[r].deadline <= clock + PassTimeout
      BY <1>i, <3>3, <3>4
    <3>6. res.kind = "reuse" => quotes[res.q].staleAfter > pass[r].now
      <4>1. ASSUME res.kind = "reuse" PROVE quotes[res.q].staleAfter \in Nat
        <5>1. quotes \in Seq(Quote) /\ res.q \in DOMAIN quotes
          BY <4>1, <1>i DEF StoreInv, TypeOK, QuotesOf
        <5>2. quotes[res.q] \in Quote
          BY <5>1
        <5>3. QED
          BY <5>2, StoreAssumption DEF Quote, StoreAssumption
      <4>2. QED
        BY <4>1, <1>i, <3>3, <3>4 DEF Now
    <3>7. QED
      BY <1>i, <1>1, <2>1, <3>1, <3>2, <3>5, <3>6 DEF ResultOK, QuotesOf
  <2>2. CASE ~(s = r /\ v \in Coalesced(r, p))
    BY <2>2, <1>i, <1>1 DEF ResultsOK
  <2>3. QED
    BY <2>1, <2>2
<1>8. FlightsLed'
  <2> SUFFICES ASSUME NEW s \in Replicas, NEW x \in Pairs
               PROVE  flight'[s][x].st # "none" <=> \E v \in UpdateIDs : v \in Coalesced(s, x)'
    BY DEF FlightsLed
  <2>1. CASE s = r /\ x = p
    BY <2>1, <1>1, <1>2 DEF Coalesced
  <2>2. CASE ~(s = r /\ x = p)
    <3>1. \A v \in UpdateIDs : v \in Coalesced(s, x)' <=> v \in Coalesced(s, x)
      BY <2>2, <1>1 DEF Coalesced
    <3>2. QED
      BY <1>i, <1>2, <2>2, <3>1 DEF FlightsLed
  <2>3. QED
    BY <2>1, <2>2
<1>9. QED
  BY <1>3, <1>4, <1>5, <1>6, <1>7, <1>8 DEF PipelineInv

\* A pass that is claiming has no goroutine yet.
LEMMA ClaimingIsEmpty ==
  ASSUME PipelineInv, NEW r \in Replicas, pass[r].phase # "working", NEW u \in UpdateIDs
  PROVE  task[r][u].st = "none"
BY DEF PipelineInv, TasksOfPasses

\* The goroutines and the pass after a claim has returned batch S.
BatchTaken(r, S) ==
  /\ pass[r].now \in Nat /\ pass[r].deadline \in Nat
  /\ pass[r].phase = "claiming" /\ clock <= pass[r].deadline + CommitLag
  /\ task' \in [Replicas -> [UpdateIDs -> Task]]
  /\ \A s \in Replicas, v \in UpdateIDs :
       IF s = r /\ v \in S
         THEN /\ task'[s][v].st = "queued"
              /\ task'[s][v].attempts = updates'[v].attempts
              /\ task'[s][v].lockedAt = pass[r].now
              /\ task'[s][v].deadline = pass[r].deadline
         ELSE task'[s][v] = task[s][v]
  /\ pass' \in [Replicas -> Pass]
  /\ \A s \in Replicas : s # r => pass'[s] = pass[s]
  /\ S = {} => pass'[r].phase = "idle"
  /\ S # {} => /\ pass'[r].phase = "working"
               /\ pass'[r].now = pass[r].now
               /\ pass'[r].deadline = pass[r].deadline

LEMMA ClaimedFacts ==
  ASSUME PipelineInv, NEW r \in Replicas, Claimed(r)
  PROVE  \E S, skipped \in SUBSET DOMAIN updates :
           ClaimBatch(S, skipped, pass[r].now) /\ BatchTaken(r, S)
<1> DEFINE now == pass[r].now
           deadline == pass[r].deadline
           queued(v) == Queued(updates'[v].attempts, now, deadline)
<1>i. StoreInv /\ ReplicaTypes
  BY DEF PipelineInv
<1>p. /\ pass \in [Replicas -> Pass] /\ pass[r] \in Pass
      /\ task \in [Replicas -> [UpdateIDs -> Task]]
      /\ now \in Nat /\ deadline \in Nat
  BY <1>i DEF ReplicaTypes, Pass
<1>1. PICK S, skipped \in SUBSET DOMAIN updates :
        /\ ClaimBatch(S, skipped, now)
        /\ task' = [task EXCEPT ![r] = [u \in UpdateIDs |->
                      IF u \in S THEN queued(u) ELSE task[r][u]]]
        /\ pass' = [pass EXCEPT ![r] =
                      IF S = {} THEN Idle ELSE [pass[r] EXCEPT !.phase = "working"]]
  BY DEF Claimed
<1>2. ASSUME NEW v \in S
      PROVE  /\ queued(v) \in Task
             /\ queued(v).st = "queued" /\ queued(v).attempts = updates'[v].attempts
             /\ queued(v).lockedAt = now /\ queued(v).deadline = deadline
  <2>1. updates'[v].attempts \in 0..MaxInt
    BY <1>1, <1>i, <1>p, <1>2, ClaimFacts
  <2>2. Unresolved \in Results
    BY DEF Unresolved, Results
  <2>3. QED
    BY <1>p, <2>1, <2>2 DEF Queued, Task
<1>3. /\ task' \in [Replicas -> [UpdateIDs -> Task]]
      /\ \A s \in Replicas, v \in UpdateIDs :
           IF s = r /\ v \in S THEN task'[s][v] = queued(v) ELSE task'[s][v] = task[s][v]
  <2> HIDE DEF queued
  <2>1. QED
    BY <1>1, <1>2, <1>p
<1>4. /\ Idle \in Pass /\ Idle.phase = "idle"
      /\ [pass[r] EXCEPT !.phase = "working"] \in Pass
      /\ [pass[r] EXCEPT !.phase = "working"].phase = "working"
      /\ [pass[r] EXCEPT !.phase = "working"].now = now
      /\ [pass[r] EXCEPT !.phase = "working"].deadline = deadline
  BY <1>p DEF Idle, Pass
<1>5. /\ pass' \in [Replicas -> Pass]
      /\ \A s \in Replicas : s # r => pass'[s] = pass[s]
      /\ pass'[r] = IF S = {} THEN Idle ELSE [pass[r] EXCEPT !.phase = "working"]
  <2> DEFINE after == IF S = {} THEN Idle ELSE [pass[r] EXCEPT !.phase = "working"]
  <2>1. after \in Pass
    BY <1>4
  <2>2. pass' = [pass EXCEPT ![r] = after]
    BY <1>1
  <2> HIDE DEF after
  <2>3. /\ pass' \in [Replicas -> Pass]
        /\ \A s \in Replicas : s # r => pass'[s] = pass[s]
        /\ pass'[r] = after
    BY <2>1, <2>2, <1>p
  <2>4. QED
    BY <2>3 DEF after
<1>6. /\ S = {} => pass'[r].phase = "idle"
      /\ S # {} => /\ pass'[r].phase = "working" /\ pass'[r].now = now
                   /\ pass'[r].deadline = deadline
  BY <1>4, <1>5
<1>7. pass[r].phase = "claiming" /\ clock <= deadline + CommitLag
  BY DEF Claimed, ClaimInTime
<1>8. \A s \in Replicas, v \in UpdateIDs :
        IF s = r /\ v \in S
          THEN /\ task'[s][v].st = "queued" /\ task'[s][v].attempts = updates'[v].attempts
               /\ task'[s][v].lockedAt = now /\ task'[s][v].deadline = deadline
          ELSE task'[s][v] = task[s][v]
  <2> HIDE DEF queued
  <2>1. QED
    BY <1>2, <1>3
<1>9. BatchTaken(r, S)
  BY <1>3, <1>5, <1>6, <1>7, <1>8, <1>p, Zenon DEF BatchTaken
<1>10. QED
  BY <1>1, <1>9

\* A claim starts the goroutines of its pass, or ends a pass without any.
LEMMA ClaimedKeepsInv ==
  ASSUME PipelineInv, NEW r \in Replicas, Claimed(r)
  PROVE  PipelineInv'
<1>i. /\ StoreInv /\ ReplicaTypes /\ PassesTimed /\ TasksOfPasses /\ ResultsOK /\ FlightsLed
      /\ clock \in Nat
  BY DEF PipelineInv, ReplicaTypes
<1>u. UNCHANGED <<clock, flight, blockedUntil, called>>
  BY DEF Claimed
<1> DEFINE now == pass[r].now
<1>1. PICK S, skipped \in SUBSET DOMAIN updates : ClaimBatch(S, skipped, now) /\ BatchTaken(r, S)
  BY ClaimedFacts
<1>b. /\ now \in Nat /\ pass[r].deadline \in Nat
      /\ pass[r].phase = "claiming"
      /\ task' \in [Replicas -> [UpdateIDs -> Task]]
      /\ \A s \in Replicas, v \in UpdateIDs :
           IF s = r /\ v \in S
             THEN /\ task'[s][v].st = "queued"
                  /\ task'[s][v].lockedAt = now
                  /\ task'[s][v].deadline = pass[r].deadline
             ELSE task'[s][v] = task[s][v]
      /\ pass' \in [Replicas -> Pass]
      /\ \A s \in Replicas : s # r => pass'[s] = pass[s]
      /\ S = {} => pass'[r].phase = "idle"
      /\ S # {} => /\ pass'[r].phase = "working"
                   /\ pass'[r].now = now
                   /\ pass'[r].deadline = pass[r].deadline
  BY <1>1 DEF BatchTaken
<1> HIDE DEF now
<1>2. /\ Grows /\ UNCHANGED quotes /\ DOMAIN updates' = DOMAIN updates
      /\ S \subseteq DOMAIN updates
  BY <1>1, <1>b, <1>i, ClaimFacts
<1>3. StoreInv'
  BY <1>1, <1>b, <1>i, ClaimKeepsInv
<1>4. \A v \in UpdateIDs : task[r][v].st = "none"
  BY <1>b, ClaimingIsEmpty
<1>5. ReplicaTypes'
  BY <1>i, <1>u, <1>b, <1>2 DEF ReplicaTypes
<1>6. PassesTimed'
  <2>1. /\ now <= Now(r)
        /\ now + PassTimeout = pass[r].deadline + Offset[r]
    BY <1>b, <1>i DEF PassesTimed, now
  <2>2. QED
    BY <1>i, <1>u, <1>b, <2>1 DEF PassesTimed, Now
<1>7. TasksOfPasses'
  <2> SUFFICES ASSUME NEW s \in Replicas, NEW v \in UpdateIDs, task'[s][v].st # "none"
               PROVE  /\ v \in DOMAIN updates'
                      /\ pass'[s].phase = "working"
                      /\ task'[s][v].lockedAt = pass'[s].now
                      /\ task'[s][v].deadline = pass'[s].deadline
    BY DEF TasksOfPasses
  <2>1. CASE s = r /\ v \in S
    BY <2>1, <1>b, <1>2
  <2>2. CASE ~(s = r /\ v \in S)
    <3>1. task'[s][v] = task[s][v] /\ s # r
      BY <2>2, <1>b, <1>4
    <3>2. QED
      BY <3>1, <1>b, <1>2, <1>i DEF TasksOfPasses
  <2>3. QED
    BY <2>1, <2>2
<1>8. ResultsOK'
  <2> SUFFICES ASSUME NEW s \in Replicas, NEW v \in UpdateIDs, task'[s][v].st = "resolved"
               PROVE  ResultOK(task'[s][v], updates'[v].pair, clock', quotes')
    BY DEF ResultsOK
  <2>1. task'[s][v] = task[s][v]
    BY <1>b
  <2>2. /\ v \in DOMAIN updates
        /\ ResultOK(task[s][v], updates[v].pair, clock, quotes)
    BY <2>1, <1>i DEF TasksOfPasses, ResultsOK
  <2>3. QED
    BY <2>1, <2>2, <1>2, <1>u DEF Grows
<1>9. FlightsLed'
  <2> SUFFICES ASSUME NEW s \in Replicas, NEW x \in Pairs
               PROVE  flight'[s][x].st # "none" <=> \E v \in UpdateIDs : v \in Coalesced(s, x)'
    BY DEF FlightsLed
  <2>1. \A v \in UpdateIDs : v \in Coalesced(s, x)' <=> v \in Coalesced(s, x)
    <3>1. \A v \in UpdateIDs : task'[s][v].st = "flying" <=> task[s][v].st = "flying"
      BY <1>b, <1>4
    <3>2. \A v \in UpdateIDs : task[s][v].st = "flying" => updates'[v].pair = updates[v].pair
      BY <1>i, <1>2 DEF TasksOfPasses, Grows
    <3>3. QED
      BY <3>1, <3>2 DEF Coalesced
  <2>2. QED
    BY <1>i, <1>u, <2>1 DEF FlightsLed
<1>10. QED
  BY <1>3, <1>5, <1>6, <1>7, <1>8, <1>9 DEF PipelineInv

\* A crash leaves the tables, and nothing of its replica.
LEMMA CrashKeepsInv ==
  ASSUME PipelineInv, NEW r \in Replicas, Crash(r)
  PROVE  PipelineInv'
<1>i. /\ StoreInv /\ ReplicaTypes /\ PassesTimed /\ TasksOfPasses /\ ResultsOK /\ FlightsLed
  BY DEF PipelineInv
<1>u. UNCHANGED <<updates, quotes, clock, called>>
  BY DEF Crash, storeVars
<1>1. /\ NoTask \in Task /\ NoTask.st = "none"
      /\ NoFlight \in Flight /\ NoFlight.st = "none"
      /\ Idle \in Pass /\ Idle.phase = "idle"
  <2>1. 0 \in 0..MaxInt
    BY StoreAssumption DEF StoreAssumption
  <2>2. QED
    BY <2>1 DEF NoTask, Task, Unresolved, Results, NoFlight, Flight, Idle, Pass
<1>2. /\ task' \in [Replicas -> [UpdateIDs -> Task]]
      /\ flight' \in [Replicas -> [Pairs -> Flight]]
      /\ blockedUntil' \in [Replicas -> Nat]
      /\ pass' \in [Replicas -> Pass]
      /\ \A v \in UpdateIDs : task'[r][v].st = "none"
      /\ \A p \in Pairs : flight'[r][p].st = "none"
      /\ pass'[r].phase = "idle"
      /\ \A s \in Replicas : s # r => /\ task'[s] = task[s]
                                      /\ flight'[s] = flight[s]
                                      /\ pass'[s] = pass[s]
  <2>1. ASSUME NEW tasks \in [UpdateIDs -> Task], tasks = [v \in UpdateIDs |-> NoTask]
        PROVE  /\ [task EXCEPT ![r] = tasks] \in [Replicas -> [UpdateIDs -> Task]]
               /\ \A v \in UpdateIDs : [task EXCEPT ![r] = tasks][r][v].st = "none"
               /\ \A s \in Replicas : s # r => [task EXCEPT ![r] = tasks][s] = task[s]
    BY <1>i, <1>1, <2>1 DEF ReplicaTypes
  <2>2. ASSUME NEW flights \in [Pairs -> Flight], flights = [p \in Pairs |-> NoFlight]
        PROVE  /\ [flight EXCEPT ![r] = flights] \in [Replicas -> [Pairs -> Flight]]
               /\ \A p \in Pairs : [flight EXCEPT ![r] = flights][r][p].st = "none"
               /\ \A s \in Replicas : s # r => [flight EXCEPT ![r] = flights][s] = flight[s]
    BY <1>i, <1>1, <2>2 DEF ReplicaTypes
  <2>3. /\ [blockedUntil EXCEPT ![r] = 0] \in [Replicas -> Nat]
        /\ [pass EXCEPT ![r] = Idle] \in [Replicas -> Pass]
        /\ [pass EXCEPT ![r] = Idle][r].phase = "idle"
        /\ \A s \in Replicas : s # r => [pass EXCEPT ![r] = Idle][s] = pass[s]
    BY <1>i, <1>1 DEF ReplicaTypes
  <2>4. /\ [v \in UpdateIDs |-> NoTask] \in [UpdateIDs -> Task]
        /\ [p \in Pairs |-> NoFlight] \in [Pairs -> Flight]
    BY <1>1
  <2>5. QED
    BY <2>1, <2>2, <2>3, <2>4 DEF Crash
<1>3. ReplicaTypes'
  BY <1>i, <1>u, <1>2 DEF ReplicaTypes
<1>4. StoreInv'
  BY <1>i, <1>u, StoreInvByRow, StoreInvByRowPrimed, JournalUntouched
<1>5. PassesTimed'
  BY <1>i, <1>u, <1>2 DEF PassesTimed, Now
<1>6. TasksOfPasses'
  <2> SUFFICES ASSUME NEW s \in Replicas, NEW v \in UpdateIDs, task'[s][v].st # "none"
               PROVE  /\ v \in DOMAIN updates'
                      /\ pass'[s].phase = "working"
                      /\ task'[s][v].lockedAt = pass'[s].now
                      /\ task'[s][v].deadline = pass'[s].deadline
    BY DEF TasksOfPasses
  <2>1. task'[s] = task[s] /\ pass'[s] = pass[s]
    BY <1>2
  <2>2. QED
    BY <1>i, <1>u, <2>1 DEF TasksOfPasses
<1>7. ResultsOK'
  BY <1>i, <1>u, <1>2 DEF ResultsOK
<1>8. FlightsLed'
  <2> SUFFICES ASSUME NEW s \in Replicas, NEW x \in Pairs
               PROVE  flight'[s][x].st # "none" <=> \E v \in UpdateIDs : v \in Coalesced(s, x)'
    BY DEF FlightsLed
  <2>1. CASE s = r
    BY <2>1, <1>2 DEF Coalesced
  <2>2. CASE s # r
    <3>1. \A v \in UpdateIDs : v \in Coalesced(s, x)' <=> v \in Coalesced(s, x)
      BY <2>2, <1>u, <1>2 DEF Coalesced
    <3>2. QED
      BY <1>i, <1>2, <2>2, <3>1 DEF FlightsLed
  <2>3. QED
    BY <2>1, <2>2
<1>9. QED
  BY <1>3, <1>4, <1>5, <1>6, <1>7, <1>8 DEF PipelineInv

\* Inserting a request touches no replica.
LEMMA PostKeepsInv ==
  ASSUME PipelineInv, NEW r \in Replicas, Post(r)
  PROVE  PipelineInv'
<1>i. StoreInv /\ ReplicaTypes /\ PassesTimed /\ clock \in Nat
  BY DEF PipelineInv, ReplicaTypes
<1>1. PICK u \in UpdateIDs, p \in Pairs, k \in Keys \cup {NoKey} :
        CreateUpdateRequest(u, p, k, Now(r))
  BY DEF Post
<1>2. Now(r) \in Nat
  BY <1>i, OffsetIsNat DEF Now
<1>3. StoreInv'
  BY <1>i, <1>1, <1>2, CreateKeepsInv
<1>4. Grows
  BY <1>1, CreateGrows
<1>5. UNCHANGED <<clock, task, flight, blockedUntil, called, pass>>
  BY DEF Post, workerVars
<1>6. ReplicaTypes' /\ PassesTimed'
  BY <1>i, <1>4, <1>5 DEF ReplicaTypes, PassesTimed, Now, Grows
<1>7. QED
  BY <1>i, <1>3, <1>4, <1>5, <1>6, TasksKept

\* A pass starts, is given up before it has goroutines, or has none left.
LEMMA PassKeepsInv ==
  ASSUME PipelineInv, NEW r \in Replicas,
         StoreInv', Grows, UNCHANGED workerVars,
         NEW next \in Pass, pass' = [pass EXCEPT ![r] = next],
         next.phase # "idle" => /\ next.now <= Now(r)
                                /\ next.now + PassTimeout = next.deadline + Offset[r],
         \A u \in UpdateIDs : task[r][u].st = "none"
  PROVE  PipelineInv'
<1>i. ReplicaTypes /\ PassesTimed /\ clock \in Nat
  BY DEF PipelineInv, ReplicaTypes
<1>1. /\ pass' \in [Replicas -> Pass] /\ pass'[r] = next
      /\ \A s \in Replicas : s # r => pass'[s] = pass[s]
  BY <1>i DEF ReplicaTypes
<1>2. UNCHANGED <<clock, task, flight, blockedUntil, called>>
  BY DEF workerVars
<1>3. ReplicaTypes'
  BY <1>i, <1>1, <1>2 DEF ReplicaTypes, Grows
<1>4. PassesTimed'
  BY <1>i, <1>1, <1>2 DEF PassesTimed, Now
<1>5. QED
  BY <1>i, <1>1, <1>2, <1>3, <1>4, TasksKept

\* An idle pass is a pass.
LEMMA IdleIsPass == Idle \in Pass /\ Idle.phase = "idle"
BY DEF Idle, Pass

\* Nothing of the tables changes.
LEMMA StoreUntouched ==
  ASSUME StoreInv, UNCHANGED storeVars
  PROVE  StoreInv' /\ Grows
<1>1. UNCHANGED <<updates, quotes>>
  BY DEF storeVars
<1>2. QED
  BY <1>1, StoreInvByRow, StoreInvByRowPrimed, JournalUntouched, UnchangedGrows

\* Every step of a pass keeps the invariant.
LEMMA PassStepKeepsInv ==
  ASSUME PipelineInv, NEW r \in Replicas,
         StartPass(r) \/ ClaimLost(r) \/ ClaimFails(r) \/ EndPass(r)
  PROVE  PipelineInv'
<1>i. StoreInv /\ ReplicaTypes /\ PassesTimed /\ clock \in Nat /\ PassTimeout \in Nat
  BY WorkerAssumption DEF PipelineInv, ReplicaTypes, WorkerAssumption
<1>1. CASE StartPass(r)
  <2> DEFINE next == [phase |-> "claiming", now |-> Now(r), deadline |-> clock + PassTimeout]
  <2>1. /\ next \in Pass /\ next.now <= Now(r)
        /\ next.now + PassTimeout = next.deadline + Offset[r]
    BY <1>i, OffsetIsNat DEF Pass, Now
  <2>2. \A u \in UpdateIDs : task[r][u].st = "none"
    BY <1>1, ClaimingIsEmpty DEF StartPass
  <2>3. StoreInv' /\ Grows /\ UNCHANGED workerVars
    BY <1>1, <1>i, StoreUntouched DEF StartPass
  <2>4. pass' = [pass EXCEPT ![r] = next]
    BY <1>1 DEF StartPass
  <2> HIDE DEF next
  <2>5. QED
    BY <2>1, <2>2, <2>3, <2>4, PassKeepsInv
<1>2. CASE ClaimLost(r)
  <2>1. PICK S \in SUBSET DOMAIN updates, skipped \in SUBSET DOMAIN updates :
          ClaimBatch(S, skipped, pass[r].now)
    BY <1>2 DEF ClaimLost
  <2>2. pass[r].now \in Nat
    BY <1>i DEF ReplicaTypes, Pass
  <2>3. StoreInv' /\ Grows
    BY <2>1, <2>2, <1>i, ClaimKeepsInv, ClaimFacts
  <2>4. /\ \A u \in UpdateIDs : task[r][u].st = "none"
        /\ UNCHANGED workerVars /\ pass' = [pass EXCEPT ![r] = Idle]
    BY <1>2, ClaimingIsEmpty DEF ClaimLost, ClaimInTime
  <2>5. QED
    BY <2>3, <2>4, IdleIsPass, PassKeepsInv
<1>3. CASE ClaimFails(r)
  <2>1. StoreInv' /\ Grows /\ UNCHANGED workerVars
    BY <1>3, <1>i, StoreUntouched DEF ClaimFails
  <2>2. /\ \A u \in UpdateIDs : task[r][u].st = "none"
        /\ pass' = [pass EXCEPT ![r] = Idle]
    BY <1>3, ClaimingIsEmpty DEF ClaimFails
  <2>3. QED
    BY <2>1, <2>2, IdleIsPass, PassKeepsInv
<1>4. CASE EndPass(r)
  <2>1. StoreInv' /\ Grows /\ UNCHANGED workerVars
    BY <1>4, <1>i, StoreUntouched DEF EndPass
  <2>2. /\ \A u \in UpdateIDs : task[r][u].st = "none"
        /\ pass' = [pass EXCEPT ![r] = Idle]
    BY <1>4 DEF EndPass
  <2>3. QED
    BY <2>1, <2>2, IdleIsPass, PassKeepsInv
<1>5. QED
  BY <1>1, <1>2, <1>3, <1>4

\* Time passes.
LEMMA TickKeepsInv ==
  ASSUME PipelineInv, Tick
  PROVE  PipelineInv'
<1>i. StoreInv /\ ReplicaTypes /\ PassesTimed /\ clock \in Nat
  BY DEF PipelineInv, ReplicaTypes
<1>1. StoreInv' /\ Grows
  BY <1>i, StoreUntouched DEF Tick
<1>2. clock' = clock + 1 /\ UNCHANGED <<task, flight, blockedUntil, called, pass>>
  BY DEF Tick
<1>3. ReplicaTypes'
  BY <1>i, <1>1, <1>2 DEF ReplicaTypes, Grows
<1>4. PassesTimed'
  <2>1. \A r \in Replicas : pass[r].now \in Nat /\ Offset[r] \in Nat
    BY <1>i, OffsetIsNat DEF ReplicaTypes, Pass
  <2>2. QED
    BY <1>i, <1>2, <2>1 DEF PassesTimed, Now
<1>5. QED
  BY <1>i, <1>1, <1>2, <1>3, <1>4, TasksKept

\* A flight moves on without landing.
LEMMA FlightMoves ==
  ASSUME PipelineInv, NEW r \in Replicas, NEW p \in Pairs,
         flight[r][p].st # "none", NEW st \in {"allow", "call"},
         flight' = [flight EXCEPT ![r][p].st = st],
         UNCHANGED <<storeVars, clock, task, blockedUntil, called, pass>>
  PROVE  PipelineInv'
<1>i. StoreInv /\ ReplicaTypes /\ PassesTimed /\ clock \in Nat
  BY DEF PipelineInv, ReplicaTypes
<1>1. StoreInv' /\ Grows
  BY <1>i, StoreUntouched
<1>2. /\ flight' \in [Replicas -> [Pairs -> Flight]]
      /\ \A s \in Replicas, x \in Pairs :
           flight'[s][x].st # "none" <=> flight[s][x].st # "none"
  <2> DEFINE moved == [flight[r][p] EXCEPT !.st = st]
  <2>1. flight \in [Replicas -> [Pairs -> Flight]] /\ flight[r][p] \in Flight
    BY <1>i DEF ReplicaTypes
  <2>2. moved \in Flight /\ moved.st # "none"
    BY <2>1 DEF Flight
  <2>3. flight' = [flight EXCEPT ![r] = [flight[r] EXCEPT ![p] = moved]]
    OBVIOUS
  <2> HIDE DEF moved
  <2>4. QED
    BY <2>1, <2>2, <2>3
<1>3. ReplicaTypes' /\ PassesTimed'
  BY <1>i, <1>1, <1>2 DEF ReplicaTypes, PassesTimed, Now, Grows
<1>4. QED
  BY <1>i, <1>1, <1>2, <1>3, TasksKept

\* A cooldown never ends before the present, so the wait it leaves is a duration.
LEMMA BlockedTypes ==
  ASSUME ReplicaTypes, NEW r \in Replicas
  PROVE  /\ blockedUntil[r] \in Nat /\ Now(r) \in Nat
         /\ Now(r) < blockedUntil[r] => blockedUntil[r] - Now(r) \in Nat
<1>1. blockedUntil[r] \in Nat /\ clock \in Nat
  BY DEF ReplicaTypes
<1>2. QED
  BY <1>1, OffsetIsNat DEF Now

\* What a flight may hand to the requests that wait for it.
LEMMA ResultTypes ==
  /\ \A q \in Nat : Reuse(q) \in Results /\ Reuse(q).kind = "reuse" /\ Reuse(q).q = q
  /\ \A rate \in Quote : /\ Fresh(rate) \in Results /\ Fresh(rate).kind = "fresh"
                         /\ Fresh(rate).rate = rate
  /\ \A code \in ErrorCodes, retryable \in BOOLEAN, retryAfter \in Nat :
       /\ Failure(code, retryable, retryAfter) \in Results
       /\ Failure(code, retryable, retryAfter).kind = "error"
  /\ Unclassified \in Results /\ Unclassified.kind = "unclassified"
  /\ Panicked \in Results /\ Panicked.kind = "panic"
<1>1. \A q \in Nat : Reuse(q) \in Results /\ Reuse(q).kind = "reuse" /\ Reuse(q).q = q
  BY DEF Reuse, Results
<1>2. \A rate \in Quote : /\ Fresh(rate) \in Results /\ Fresh(rate).kind = "fresh"
                          /\ Fresh(rate).rate = rate
  BY DEF Fresh, Results
<1>3. \A code \in ErrorCodes, retryable \in BOOLEAN, retryAfter \in Nat :
        /\ Failure(code, retryable, retryAfter) \in Results
        /\ Failure(code, retryable, retryAfter).kind = "error"
  BY DEF Failure, Results
<1>4. /\ Unclassified \in Results /\ Unclassified.kind = "unclassified"
      /\ Panicked \in Results /\ Panicked.kind = "panic"
  BY DEF Unclassified, Panicked, Results
<1>5. QED
  BY <1>1, <1>2, <1>3, <1>4

\* A result of replica r's flight for pair p, and what else its landing changes.
Landing(r, p, res) ==
  /\ Deliver(r, p, res)
  /\ res.kind = "reuse" => /\ res.q \in QuotesOf(p)
                           /\ quotes[res.q].staleAfter > Now(r)
  /\ res.kind = "fresh" => res.rate.pair = p
  /\ UNCHANGED <<updates, quotes, clock>>
  /\ called' = called \/ called' = called \cup Coalesced(r, p)
  /\ blockedUntil' \in [Replicas -> Nat]

\* A flight that lands hands on a result of its pair, and no stale quote.
LEMMA FetchLands ==
  ASSUME PipelineInv, NEW r \in Replicas, NEW p \in Pairs,
         \/ FetchReuse(r, p) \/ FetchReadFails(r, p) \/ FetchDenied(r, p)
         \/ FetchQuote(r, p) \/ FetchError(r, p) \/ FetchBreaks(r, p)
  PROVE  \E res \in Results : Landing(r, p, res)
<1>i. StoreInv /\ ReplicaTypes
  BY DEF PipelineInv
<1>b. blockedUntil \in [Replicas -> Nat]
  BY <1>i DEF ReplicaTypes
<1>1. CASE FetchReuse(r, p)
  <2>1. /\ QuotesOf(p) # {} /\ Now(r) < quotes[LatestID(p)].staleAfter
        /\ Deliver(r, p, Reuse(LatestID(p)))
        /\ UNCHANGED <<updates, quotes, clock, blockedUntil, called>>
    BY <1>1 DEF FetchReuse, IsFresh, storeVars
  <2>2. LatestID(p) \in QuotesOf(p)
    BY <2>1, <1>i, LatestIDFacts DEF StoreInv, IsLatest
  <2>3. LatestID(p) \in Nat
    BY <2>2, <1>i DEF StoreInv, TypeOK, QuotesOf
  <2>4. quotes[LatestID(p)].staleAfter > Now(r)
    <3>1. quotes[LatestID(p)] \in Quote
      BY <2>2, <1>i DEF StoreInv, TypeOK, QuotesOf
    <3>2. quotes[LatestID(p)].staleAfter \in Nat
      BY <3>1, StoreAssumption DEF Quote, StoreAssumption
    <3>3. QED
      BY <2>1, <3>2, <1>i, BlockedTypes
  <2>5. /\ Reuse(LatestID(p)) \in Results /\ Reuse(LatestID(p)).kind = "reuse"
        /\ Reuse(LatestID(p)).q = LatestID(p)
    BY <2>3, ResultTypes
  <2>6. Landing(r, p, Reuse(LatestID(p)))
    BY <2>1, <2>2, <2>4, <2>5, <1>b DEF Landing
  <2>7. QED
    BY <2>5, <2>6
<1>2. CASE FetchReadFails(r, p)
  <2>1. Unclassified \in Results /\ Unclassified.kind = "unclassified"
    BY ResultTypes
  <2>2. Landing(r, p, Unclassified)
    BY <2>1, <1>2, <1>b DEF FetchReadFails, storeVars, Landing
  <2>3. QED
    BY <2>1, <2>2
<1>4. CASE FetchDenied(r, p)
  <2>1. PICK retryAfter \in IF Now(r) < blockedUntil[r] THEN {blockedUntil[r] - Now(r)}
                                                        ELSE RetryAfters :
          Deliver(r, p, Failure(RateLimitedError, TRUE, retryAfter))
    BY <1>4 DEF FetchDenied
  <2>2. retryAfter \in Nat
    BY <1>i, BlockedTypes, WorkerAssumption DEF WorkerAssumption
  <2>3. RateLimitedError \in ErrorCodes
    BY DEF ErrorCodes
  <2>4. UNCHANGED <<updates, quotes, clock, blockedUntil, called>>
    BY <1>4 DEF FetchDenied, storeVars
  <2>5. /\ Failure(RateLimitedError, TRUE, retryAfter) \in Results
        /\ Failure(RateLimitedError, TRUE, retryAfter).kind = "error"
    BY <2>2, <2>3, ResultTypes
  <2>6. Landing(r, p, Failure(RateLimitedError, TRUE, retryAfter))
    BY <2>1, <2>4, <2>5, <1>b DEF Landing
  <2>7. QED
    BY <2>5, <2>6
<1>6. CASE FetchQuote(r, p)
  <2>1. PICK provider \in Providers, value \in 0..1, ago \in QuotedAgo, ttl \in TTLs :
          LET raw  == [value |-> value, quotedAt |-> Now(r) - ago]
              rate == [pair |-> p, provider |-> provider, quotedAt |-> raw.quotedAt,
                       staleAfter |-> raw.quotedAt + ttl]
          IN /\ rate.quotedAt \in Times /\ rate.staleAfter \in Times
             /\ Deliver(r, p, IF NewCurrencyRateAccepts(raw, Now(r), MaxQuotedAtSkew)
                                THEN Fresh(rate)
                                ELSE Failure(MalformedResponse, FALSE, 0))
    BY <1>6, Zenon DEF FetchQuote
  <2> DEFINE raw  == [value |-> value, quotedAt |-> Now(r) - ago]
             rate == [pair |-> p, provider |-> provider, quotedAt |-> raw.quotedAt,
                      staleAfter |-> raw.quotedAt + ttl]
             res == IF NewCurrencyRateAccepts(raw, Now(r), MaxQuotedAtSkew)
                      THEN Fresh(rate) ELSE Failure(MalformedResponse, FALSE, 0)
  <2>2. rate.quotedAt \in Times /\ rate.staleAfter \in Times /\ Deliver(r, p, res)
    BY <2>1
  <2>3. rate \in Quote /\ rate.pair = p
    BY <2>2 DEF Quote
  <2>4. MalformedResponse \in ErrorCodes
    BY DEF ErrorCodes
  <2>5. UNCHANGED <<updates, quotes, clock, blockedUntil>> /\ called' = called \cup Coalesced(r, p)
    BY <1>6 DEF FetchQuote, storeVars
  <2> HIDE DEF rate, raw
  <2>6. /\ res \in Results /\ res.kind \in {"fresh", "error"}
        /\ res.kind = "fresh" => res.rate.pair = p
    <3>1. CASE NewCurrencyRateAccepts(raw, Now(r), MaxQuotedAtSkew)
      BY <3>1, <2>3, ResultTypes
    <3>2. CASE ~NewCurrencyRateAccepts(raw, Now(r), MaxQuotedAtSkew)
      BY <3>2, <2>4, ResultTypes
    <3>3. QED
      BY <3>1, <3>2
  <2> HIDE DEF res
  <2>7. Landing(r, p, res)
    BY <2>2, <2>5, <2>6, <1>b DEF Landing
  <2>8. QED
    BY <2>6, <2>7
<1>7. CASE FetchError(r, p)
  <2>1. PICK retryable \in BOOLEAN, retryAfter \in RetryAfters \cup {0} :
          /\ Deliver(r, p, Failure(ProviderError, retryable, retryAfter))
          /\ blockedUntil' = IF retryAfter > 0 /\ Now(r) + retryAfter > blockedUntil[r]
                               THEN [blockedUntil EXCEPT ![r] = Now(r) + retryAfter]
                               ELSE blockedUntil
    BY <1>7 DEF FetchError
  <2>2. retryAfter \in Nat
    BY WorkerAssumption DEF WorkerAssumption
  <2>3. ProviderError \in ErrorCodes
    BY DEF ErrorCodes
  <2>4. blockedUntil' \in [Replicas -> Nat]
    <3>1. Now(r) + retryAfter \in Nat
      BY <2>2, <1>i, BlockedTypes
    <3>2. QED
      BY <2>1, <3>1, <1>b
  <2>5. UNCHANGED <<updates, quotes, clock>> /\ called' = called \cup Coalesced(r, p)
    BY <1>7 DEF FetchError, storeVars
  <2>6. /\ Failure(ProviderError, retryable, retryAfter) \in Results
        /\ Failure(ProviderError, retryable, retryAfter).kind = "error"
    BY <2>2, <2>3, ResultTypes
  <2>7. Landing(r, p, Failure(ProviderError, retryable, retryAfter))
    BY <2>1, <2>4, <2>5, <2>6 DEF Landing
  <2>8. QED
    BY <2>6, <2>7
<1>8. CASE FetchBreaks(r, p)
  <2>1. PICK res \in {Unclassified, Panicked} : Deliver(r, p, res)
    BY <1>8 DEF FetchBreaks
  <2>2. UNCHANGED <<updates, quotes, clock, blockedUntil>> /\ called' = called \cup Coalesced(r, p)
    BY <1>8 DEF FetchBreaks, storeVars
  <2>3. res \in Results /\ res.kind \in {"unclassified", "panic"}
    BY <2>1, ResultTypes
  <2>4. Landing(r, p, res)
    BY <2>1, <2>2, <2>3, <1>b DEF Landing
  <2>5. QED
    BY <2>3, <2>4
<1>9. QED
  BY <1>1, <1>2, <1>4, <1>6, <1>7, <1>8

\* Every step of a flight keeps the invariant.
LEMMA FetchKeepsInv ==
  ASSUME PipelineInv, NEW r \in Replicas, NEW p \in Pairs, UNCHANGED pass,
         \/ FetchReuse(r, p) \/ FetchReadFails(r, p) \/ FetchReadStale(r, p)
         \/ FetchDenied(r, p) \/ FetchAllowed(r, p) \/ FetchQuote(r, p)
         \/ FetchError(r, p) \/ FetchBreaks(r, p)
  PROVE  PipelineInv'
<1>1. ASSUME NEW res \in Results, Landing(r, p, res) PROVE PipelineInv'
  BY <1>1, DeliverKeepsInv DEF Landing
<1>2. CASE FetchReadStale(r, p)
  BY <1>2, FlightMoves DEF FetchReadStale
<1>3. CASE FetchAllowed(r, p)
  BY <1>3, FlightMoves DEF FetchAllowed
<1>4. QED
  BY <1>1, <1>2, <1>3, FetchLands

\* The last step of a goroutine keeps the invariant.
LEMMA TaskEndKeepsInv ==
  ASSUME PipelineInv, NEW r \in Replicas, NEW u \in UpdateIDs, UNCHANGED pass,
         Finish(r, u) \/ GiveUp(r, u)
  PROVE  PipelineInv'
<1>1. CASE Finish(r, u)
  <2>1. Written(u)
    BY <1>1, RecordFacts DEF Finish
  <2>2. QED
    BY <1>1, <2>1, TaskDropped DEF Finish, Written
<1>2. CASE GiveUp(r, u)
  <2>1. StoreInv' /\ Grows
    BY <1>2, StoreUntouched DEF GiveUp, PipelineInv
  <2>2. QED
    BY <1>2, <2>1, TaskDropped DEF GiveUp
<1>3. QED
  BY <1>1, <1>2

-----------------------------------------------------------------------------
(* The invariant.                                                          *)

LEMMA PipelineInit == Init => PipelineInv
<1> SUFFICES ASSUME Init PROVE PipelineInv
  OBVIOUS
<1>1. StoreInv
  BY InitInv DEF Init
<1>2. DOMAIN updates = {}
  BY DEF Init, StoreInit
<1>3. /\ NoTask \in Task /\ NoTask.st = "none"
      /\ NoFlight \in Flight /\ NoFlight.st = "none"
      /\ Idle \in Pass /\ Idle.phase = "idle"
  <2>1. 0 \in 0..MaxInt
    BY StoreAssumption DEF StoreAssumption
  <2>2. QED
    BY <2>1 DEF NoTask, Task, Unresolved, Results, NoFlight, Flight, Idle, Pass
<1>4. ReplicaTypes
  BY <1>3 DEF Init, ReplicaTypes
<1>5. \A r \in Replicas : /\ \A u \in UpdateIDs : task[r][u].st = "none"
                          /\ \A p \in Pairs : flight[r][p].st = "none"
                          /\ pass[r].phase = "idle"
  BY <1>3 DEF Init
<1>6. PassesTimed /\ TasksOfPasses /\ ResultsOK /\ FlightsLed
  BY <1>5 DEF PassesTimed, TasksOfPasses, ResultsOK, FlightsLed, Coalesced
<1>7. QED
  BY <1>1, <1>4, <1>6 DEF PipelineInv

LEMMA PipelineNext == PipelineInv /\ [Next]_vars => PipelineInv'
<1> SUFFICES ASSUME PipelineInv, [Next]_vars PROVE PipelineInv'
  OBVIOUS
<1>1. ASSUME NEW r \in Replicas, Post(r) PROVE PipelineInv'
  BY <1>1, PostKeepsInv
<1>2. ASSUME NEW r \in Replicas, StartPass(r) \/ ClaimLost(r) \/ ClaimFails(r) \/ EndPass(r)
      PROVE  PipelineInv'
  BY <1>2, PassStepKeepsInv
<1>3. ASSUME NEW r \in Replicas, Claimed(r) PROVE PipelineInv'
  BY <1>3, ClaimedKeepsInv
<1>4. ASSUME NEW r \in Replicas, Crash(r) PROVE PipelineInv'
  BY <1>4, CrashKeepsInv
<1>5. ASSUME NEW r \in Replicas, WorkerStep(r), UNCHANGED pass PROVE PipelineInv'
  BY <1>5, StartKeepsInv, TaskEndKeepsInv, FetchKeepsInv DEF WorkerStep
<1>6. CASE Tick
  BY <1>6, TickKeepsInv
<1>7. CASE UNCHANGED vars
  <2>1. UNCHANGED <<storeVars, clock, task, flight, blockedUntil, called, pass>>
    BY <1>7 DEF vars, workerVars
  <2>2. StoreInv' /\ Grows
    BY <2>1, StoreUntouched DEF PipelineInv
  <2>3. /\ ReplicaTypes' /\ PassesTimed' /\ clock \in Nat
    BY <2>1, <2>2 DEF PipelineInv, ReplicaTypes, PassesTimed, Now, Grows
  <2>4. QED
    BY <2>1, <2>2, <2>3, TasksKept
<1>8. QED
  BY <1>1, <1>2, <1>3, <1>4, <1>5, <1>6, <1>7 DEF Next

\* What holds of the replicas whatever their timeouts are.
THEOREM PipelineInvariant == Spec => []PipelineInv
<1>1. Init => PipelineInv
  BY PipelineInit
<1>2. PipelineInv /\ [Next]_vars => PipelineInv'
  BY PipelineNext
<1>3. QED
  BY <1>1, <1>2, PTL DEF Spec

\* The type invariant of the replicas: a goroutine works only for a pass and on
\* a row that is there, and a flight is up exactly while somebody waits for it.
THEOREM WorkerTypesCorrect == Spec => []WorkerTypeOK
<1>1. PipelineInv => WorkerTypeOK
  <2> SUFFICES ASSUME PipelineInv PROVE WorkerTypeOK
    OBVIOUS
  <2>1. TypeOK /\ clock \in Nat /\ called \subseteq DOMAIN updates
    BY DEF PipelineInv, ReplicaTypes, StoreInv
  <2>2. ASSUME NEW r \in Replicas, NEW u \in UpdateIDs
        PROVE  /\ task[r][u].st \in {"none", "queued", "flying", "resolved"}
               /\ task[r][u].st # "none" => u \in DOMAIN updates /\ pass[r].phase = "working"
               /\ task[r][u].st = "flying" <=>
                    task[r][u].st # "none" /\ u \in Coalesced(r, updates[u].pair)
    <3>1. task[r][u] \in Task
      BY TaskTypes DEF PipelineInv
    <3>2. QED
      BY <3>1 DEF Task, PipelineInv, TasksOfPasses, Coalesced
  <2>3. ASSUME NEW r \in Replicas, NEW p \in Pairs
        PROVE  flight[r][p].st # "none" <=> Coalesced(r, p) # {}
    BY DEF PipelineInv, FlightsLed, Coalesced
  <2>4. QED
    BY <2>1, <2>2, <2>3 DEF WorkerTypeOK
<1>2. QED
  BY <1>1, PipelineInvariant, PTL

-----------------------------------------------------------------------------
(* The lease.                                                              *)

\* What a visibility timeout that is long enough adds to PipelineInv.
LeaseInv ==
  /\ LeaseHeld
  /\ LeaseExclusive
  /\ AttemptsBounded
  /\ ReuseIsFresh

\* The rows stay what they are, new ones come with a whole budget, and no
\* goroutine is new or forgets its claim.
Leaves ==
  /\ clock <= clock'
  /\ UNCHANGED quotes
  /\ \A v \in DOMAIN updates : v \in DOMAIN updates' /\ updates'[v] = updates[v]
  /\ \A v \in DOMAIN updates' \ DOMAIN updates :
       updates'[v].attempts = 0 /\ updates'[v].reused = FALSE
  /\ \A s \in Replicas, v \in UpdateIDs : task'[s][v].st # "none" =>
       /\ task[s][v].st # "none"
       /\ task'[s][v].attempts = task[s][v].attempts
       /\ task'[s][v].lockedAt = task[s][v].lockedAt
       /\ task'[s][v].deadline = task[s][v].deadline

\* What could land after a step that leaves the goroutines could land before it.
LEMMA LandedBefore ==
  ASSUME PipelineInv, PipelineInv', NEW s \in Replicas, NEW v \in UpdateIDs,
         clock <= clock', CanLand(task[s][v])',
         task'[s][v].st # "none" =>
           task[s][v].st # "none" /\ task'[s][v].deadline = task[s][v].deadline
  PROVE  CanLand(task[s][v]) /\ task'[s][v].st # "none"
<1>1. clock \in Nat /\ clock' \in Nat /\ task[s][v].deadline \in Nat /\ CommitLag \in Nat
  BY TaskTypes, WorkerAssumption DEF PipelineInv, ReplicaTypes, WorkerAssumption
<1>2. QED
  BY <1>1 DEF CanLand

LEMMA LeavesKeepsLease ==
  ASSUME PipelineInv, PipelineInv', LeaseInv, Leaves
  PROVE  LeaseInv'
<1>1. ASSUME NEW s \in Replicas, NEW v \in UpdateIDs, CanLand(task[s][v])'
      PROVE  /\ CanLand(task[s][v])
             /\ task'[s][v].attempts = task[s][v].attempts
             /\ task'[s][v].lockedAt = task[s][v].lockedAt
  BY <1>1, LandedBefore DEF Leaves
<1>2. LeaseHeld'
  <2> SUFFICES ASSUME NEW s \in Replicas, NEW v \in UpdateIDs, CanLand(task[s][v])'
               PROVE  /\ v \in DOMAIN updates' /\ updates'[v].status = StatusInProgress
                      /\ updates'[v].lockedAt = task'[s][v].lockedAt
                      /\ updates'[v].attempts = task'[s][v].attempts
    BY DEF LeaseHeld, IsInProgress
  <2>1. /\ v \in DOMAIN updates /\ updates[v].status = StatusInProgress
        /\ updates[v].lockedAt = task[s][v].lockedAt
        /\ updates[v].attempts = task[s][v].attempts
    BY <1>1 DEF LeaseInv, LeaseHeld, IsInProgress
  <2>2. QED
    BY <1>1, <2>1 DEF Leaves
<1>3. LeaseExclusive'
  BY <1>1 DEF LeaseInv, LeaseExclusive
<1>4. AttemptsBounded'
  <2>1. MaxAttempts \in Nat \ {0}
    BY WorkerAssumption DEF WorkerAssumption
  <2>2. QED
    BY <2>1 DEF LeaseInv, AttemptsBounded, Leaves
<1>5. ReuseIsFresh'
  <2> SUFFICES ASSUME NEW v \in DOMAIN updates', updates'[v].reused
               PROVE  quotes'[updates'[v].quoteID].staleAfter > updates'[v].lockedAt
    BY DEF ReuseIsFresh
  <2>1. v \in DOMAIN updates
    BY Zenon DEF Leaves
  <2>2. QED
    BY <2>1, Zenon DEF LeaseInv, ReuseIsFresh, Leaves
<1>6. QED
  BY <1>2, <1>3, <1>4, <1>5 DEF LeaseInv

\* No claim takes a row whose outcome may still land: the row is in progress,
\* and its lock is younger than the visibility timeout on any replica's clock.
LEMMA ClaimSpares ==
  ASSUME LeaseIsLong, PipelineInv, LeaseInv, NEW r \in Replicas, pass[r].phase # "idle",
         NEW S, NEW skipped, ClaimBatch(S, skipped, pass[r].now),
         NEW v \in S, NEW s \in Replicas
  PROVE  v \in UpdateIDs /\ ~CanLand(task[s][v])
<1>t. /\ pass[r].now \in Nat /\ pass[s].now \in Nat /\ pass[s].deadline \in Nat /\ clock \in Nat
  BY DEF PipelineInv, ReplicaTypes, Pass
<1>c. /\ PassTimeout \in Nat /\ CommitLag \in Nat /\ VisibilityTimeout \in Nat
      /\ Offset[r] \in Nat /\ Offset[s] \in Nat /\ MaxSkew \in Nat
      /\ Offset[r] <= MaxSkew /\ PassTimeout + CommitLag + MaxSkew <= VisibilityTimeout
  BY WorkerAssumption, StoreAssumption, OffsetIsNat
     DEF WorkerAssumption, StoreAssumption, LeaseIsLong
<1>1. /\ v \in DOMAIN updates
      /\ \/ updates[v].status = StatusPending
         \/ /\ updates[v].status = StatusInProgress
            /\ updates[v].lockedAt < pass[r].now - VisibilityTimeout
  BY <1>t, ClaimFacts DEF PipelineInv
<1>2. v \in UpdateIDs
  BY <1>1 DEF PipelineInv, StoreInv, TypeOK
<1>3. SUFFICES ASSUME CanLand(task[s][v]) PROVE FALSE
  BY <1>2
<1>4. updates[v].status = StatusInProgress /\ updates[v].lockedAt = task[s][v].lockedAt
  BY <1>2, <1>3 DEF LeaseInv, LeaseHeld, IsInProgress
<1>5. task[s][v].st # "none" /\ clock <= task[s][v].deadline + CommitLag
  BY <1>3 DEF CanLand
<1>6. /\ pass[s].phase # "idle"
      /\ task[s][v].lockedAt = pass[s].now /\ task[s][v].deadline = pass[s].deadline
  BY <1>2, <1>5 DEF PipelineInv, TasksOfPasses
<1>7. /\ pass[s].now + PassTimeout = pass[s].deadline + Offset[s]
      /\ pass[r].now <= clock + Offset[r]
  BY <1>6 DEF PipelineInv, PassesTimed, Now
<1>8. updates[v].lockedAt < pass[r].now - VisibilityTimeout
  BY <1>1, <1>4 DEF StatusPending, StatusInProgress
<1>9. pass[s].now < pass[r].now - VisibilityTimeout
  BY <1>4, <1>6, <1>8
<1>10. clock <= pass[s].deadline + CommitLag
  BY <1>5, <1>6
<1>11. QED
  BY <1>t, <1>c, <1>7, <1>9, <1>10

\* A claim keeps the budget and takes no quote: its rows have no result yet.
LEMMA ClaimKeepsRows ==
  ASSUME PipelineInv, LeaseInv, NEW S, NEW skipped, NEW now \in Nat,
         ClaimBatch(S, skipped, now)
  PROVE  AttemptsBounded' /\ ReuseIsFresh'
<1>1. /\ StoreInv /\ UNCHANGED quotes /\ DOMAIN updates' = DOMAIN updates
      /\ \A v \in DOMAIN updates \ S : updates'[v] = updates[v]
  BY ClaimFacts DEF PipelineInv
<1>2. ASSUME NEW v \in S
      PROVE  /\ v \in DOMAIN updates
             /\ updates[v].status \in {StatusPending, StatusInProgress}
             /\ updates'[v].status = StatusInProgress
             /\ updates'[v].reused = updates[v].reused
             /\ updates'[v].attempts = IF updates[v].status = StatusPending
                                         THEN updates[v].attempts + 1 ELSE updates[v].attempts
  BY <1>1, ClaimFacts
<1>t. MaxAttempts \in Nat /\ \A v \in DOMAIN updates : updates[v].attempts \in Nat
  <2>1. \A v \in DOMAIN updates : updates[v] \in Row
    BY <1>1 DEF StoreInv, TypeOK
  <2>2. QED
    BY <2>1, WorkerAssumption, StoreAssumption DEF WorkerAssumption, StoreAssumption, Row
<1>3. AttemptsBounded'
  <2> SUFFICES ASSUME NEW v \in DOMAIN updates'
               PROVE  /\ updates'[v].attempts <= MaxAttempts
                      /\ updates'[v].status = StatusPending => updates'[v].attempts < MaxAttempts
    BY DEF AttemptsBounded
  <2>1. CASE v \in S
    BY <2>1, <1>2, <1>t DEF LeaseInv, AttemptsBounded, StatusPending, StatusInProgress
  <2>2. CASE v \notin S
    BY <2>2, <1>1 DEF LeaseInv, AttemptsBounded
  <2>3. QED
    BY <2>1, <2>2
<1>4. ReuseIsFresh'
  <2> SUFFICES ASSUME NEW v \in DOMAIN updates', updates'[v].reused
               PROVE  quotes'[updates'[v].quoteID].staleAfter > updates'[v].lockedAt
    BY DEF ReuseIsFresh
  <2>1. v \notin S
    <3>1. SUFFICES ASSUME v \in S PROVE FALSE
      OBVIOUS
    <3>2. updates[v].reused
      BY <1>2, <3>1, Zenon
    <3>3. updates[v].status = StatusSucceeded
      BY <1>1, <1>2, <3>1, <3>2, Zenon DEF StoreInv, ResultLinked
    <3>4. QED
      BY <1>2, <3>1, <3>3 DEF StatusPending, StatusInProgress, StatusSucceeded
  <2>2. updates'[v] = updates[v] /\ v \in DOMAIN updates
    BY <1>1, <2>1
  <2>3. QED
    BY <1>1, <2>2, Zenon DEF LeaseInv, ReuseIsFresh
<1>5. QED
  BY <1>3, <1>4

\* The new goroutines hold the rows they were given, alone.
LEMMA ClaimedKeepsLease ==
  ASSUME LeaseIsLong, PipelineInv, PipelineInv', LeaseInv, NEW r \in Replicas, Claimed(r)
  PROVE  LeaseInv'
<1>1. PICK S, skipped \in SUBSET DOMAIN updates :
        ClaimBatch(S, skipped, pass[r].now) /\ BatchTaken(r, S)
  BY ClaimedFacts
<1>2. /\ pass[r].now \in Nat /\ pass[r].phase # "idle" /\ clock' = clock
      /\ \A s \in Replicas, v \in UpdateIDs :
           IF s = r /\ v \in S
             THEN /\ task'[s][v].st = "queued"
                  /\ task'[s][v].attempts = updates'[v].attempts
                  /\ task'[s][v].lockedAt = pass[r].now
             ELSE task'[s][v] = task[s][v]
  BY <1>1 DEF BatchTaken, Claimed
<1>3. /\ DOMAIN updates' = DOMAIN updates /\ S \subseteq DOMAIN updates
      /\ \A v \in DOMAIN updates \ S : updates'[v] = updates[v]
      /\ \A v \in S : /\ updates'[v].status = StatusInProgress
                      /\ updates'[v].lockedAt = pass[r].now
  BY <1>1, <1>2, ClaimFacts DEF PipelineInv
<1>4. \A v \in S, s \in Replicas : ~CanLand(task[s][v])
  BY <1>1, <1>2, ClaimSpares
<1>5. ASSUME NEW s \in Replicas, NEW v \in UpdateIDs, CanLand(task[s][v])'
      PROVE  \/ s = r /\ v \in S
             \/ v \notin S /\ CanLand(task[s][v]) /\ task'[s][v] = task[s][v]
  <2>1. CASE s = r /\ v \in S
    BY <2>1
  <2>2. CASE ~(s = r /\ v \in S)
    <3>1. task'[s][v] = task[s][v]
      BY <2>2, <1>2
    <3>2. CanLand(task[s][v])
      BY <1>5, <3>1, <1>2 DEF CanLand
    <3>3. QED
      BY <3>1, <3>2, <1>4
  <2>3. QED
    BY <2>1, <2>2
<1>6. LeaseHeld'
  <2> SUFFICES ASSUME NEW s \in Replicas, NEW v \in UpdateIDs, CanLand(task[s][v])'
               PROVE  /\ v \in DOMAIN updates' /\ updates'[v].status = StatusInProgress
                      /\ updates'[v].lockedAt = task'[s][v].lockedAt
                      /\ updates'[v].attempts = task'[s][v].attempts
    BY DEF LeaseHeld, IsInProgress
  <2>1. CASE s = r /\ v \in S
    BY <2>1, <1>2, <1>3
  <2>2. CASE v \notin S /\ CanLand(task[s][v]) /\ task'[s][v] = task[s][v]
    BY <2>2, <1>3 DEF LeaseInv, LeaseHeld, IsInProgress
  <2>3. QED
    BY <1>5, <2>1, <2>2
<1>7. LeaseExclusive'
  BY <1>5 DEF LeaseInv, LeaseExclusive
<1>8. AttemptsBounded' /\ ReuseIsFresh'
  BY <1>1, <1>2, ClaimKeepsRows
<1>9. QED
  BY <1>6, <1>7, <1>8 DEF LeaseInv

\* A claim whose answer is lost takes rows nobody can write.
LEMMA ClaimLostKeepsLease ==
  ASSUME LeaseIsLong, PipelineInv, LeaseInv, NEW r \in Replicas, ClaimLost(r)
  PROVE  LeaseInv'
<1>1. PICK S \in SUBSET DOMAIN updates, skipped \in SUBSET DOMAIN updates :
        ClaimBatch(S, skipped, pass[r].now)
  BY DEF ClaimLost
<1>2. pass[r].now \in Nat /\ pass[r].phase # "idle" /\ clock' = clock /\ task' = task
  BY DEF ClaimLost, ClaimInTime, workerVars, PipelineInv, ReplicaTypes, Pass
<1>3. /\ DOMAIN updates' = DOMAIN updates
      /\ \A v \in DOMAIN updates \ S : updates'[v] = updates[v]
  BY <1>1, <1>2, ClaimFacts DEF PipelineInv
<1>4. \A v \in S, s \in Replicas : ~CanLand(task[s][v])
  BY <1>1, <1>2, ClaimSpares
<1>5. \A s \in Replicas, v \in UpdateIDs :
        CanLand(task[s][v])' => CanLand(task[s][v]) /\ v \notin S
  BY <1>2, <1>4 DEF CanLand
<1>6. LeaseHeld'
  BY <1>2, <1>3, <1>5 DEF LeaseInv, LeaseHeld, IsInProgress
<1>7. LeaseExclusive'
  BY <1>5 DEF LeaseInv, LeaseExclusive
<1>8. AttemptsBounded' /\ ReuseIsFresh'
  BY <1>1, <1>2, ClaimKeepsRows
<1>9. QED
  BY <1>6, <1>7, <1>8 DEF LeaseInv

\* The outcome lands on the row as its claim left it, and nobody else's can.
LEMMA FinishKeepsLease ==
  ASSUME PipelineInv, PipelineInv', LeaseInv, NEW r \in Replicas, NEW u \in UpdateIDs,
         Finish(r, u)
  PROVE  LeaseInv'
<1> DEFINE t == task[r][u]
<1>1. /\ task[r][u].st = "resolved" /\ CanLand(t) /\ Record(r, u)
      /\ task' = [task EXCEPT ![r][u] = NoTask] /\ clock' = clock
  BY DEF Finish
<1>2. /\ Written(u)
      /\ \/ /\ updates'[u].status = StatusSucceeded
            /\ updates'[u].reused =>
                 /\ updates'[u].quoteID \in DOMAIN quotes
                 /\ quotes[updates'[u].quoteID].staleAfter > t.lockedAt
         \/ /\ updates'[u].status = StatusFailed
            /\ updates'[u].reused = updates[u].reused
         \/ /\ updates'[u].status = StatusPending
            /\ updates'[u].reused = updates[u].reused
            /\ \E at \in t.since..clock : BudgetLeft(u, t.attempts, at + Offset[r])
  BY <1>1, RecordFacts
<1>3. /\ updates[u].lockedAt = t.lockedAt /\ updates[u].attempts = t.attempts
      /\ updates[u].status = StatusInProgress
  BY <1>1 DEF LeaseInv, LeaseHeld, IsInProgress
<1>4. \A s \in Replicas, v \in UpdateIDs :
        task'[s][v] = IF s = r /\ v = u THEN NoTask ELSE task[s][v]
  BY <1>1 DEF PipelineInv, ReplicaTypes
<1>5. \A s \in Replicas, v \in UpdateIDs : CanLand(task[s][v])' =>
        CanLand(task[s][v]) /\ v # u /\ task'[s][v] = task[s][v]
  <2>1. NoTask.st = "none"
    BY DEF NoTask
  <2>2. \A s \in Replicas, v \in UpdateIDs : CanLand(task[s][v])' =>
          CanLand(task[s][v]) /\ ~(s = r /\ v = u) /\ task'[s][v] = task[s][v]
    BY <1>1, <1>4, <2>1 DEF CanLand
  <2>3. \A s \in Replicas : CanLand(task[s][u]) => s = r
    BY <1>1 DEF LeaseInv, LeaseExclusive
  <2>4. QED
    BY <2>2, <2>3
<1>w. /\ DOMAIN updates' = DOMAIN updates
      /\ \A v \in DOMAIN updates \ {u} : updates'[v] = updates[v]
      /\ updates'[u].attempts = updates[u].attempts
      /\ updates'[u].lockedAt = updates[u].lockedAt
      /\ \A i \in DOMAIN quotes : quotes'[i] = quotes[i]
      /\ u \in DOMAIN updates
  BY <1>2 DEF Written, Grows
<1>6. LeaseHeld'
  BY <1>5, <1>w DEF LeaseInv, LeaseHeld, IsInProgress
<1>7. LeaseExclusive'
  BY <1>5 DEF LeaseInv, LeaseExclusive
<1>8. AttemptsBounded'
  <2>1. updates'[u].status = StatusPending => updates'[u].attempts < MaxAttempts
    BY <1>2, <1>3, <1>w DEF BudgetLeft, StatusPending, StatusSucceeded, StatusFailed
  <2>2. QED
    BY <2>1, <1>w DEF LeaseInv, AttemptsBounded
<1>9. ReuseIsFresh'
  <2> SUFFICES ASSUME NEW v \in DOMAIN updates', updates'[v].reused
               PROVE  quotes'[updates'[v].quoteID].staleAfter > updates'[v].lockedAt
    BY DEF ReuseIsFresh
  <2>q. ASSUME NEW w \in DOMAIN updates, updates[w].reused
        PROVE  /\ updates[w].quoteID \in DOMAIN quotes
               /\ updates[w].status = StatusSucceeded
               /\ quotes[updates[w].quoteID].staleAfter > updates[w].lockedAt
    BY <2>q, Zenon DEF PipelineInv, StoreInv, ResultLinked, LeaseInv, ReuseIsFresh
  <2>1. CASE v = u
    <3>1. ~updates[u].reused
      <4>1. SUFFICES ASSUME updates[u].reused PROVE FALSE
        OBVIOUS
      <4>2. updates[u].status = StatusSucceeded
        BY <2>q, <4>1, <1>w, Zenon
      <4>3. QED
        BY <4>2, <1>3 DEF StatusInProgress, StatusSucceeded
    <3>2. /\ updates'[u].quoteID \in DOMAIN quotes
          /\ quotes[updates'[u].quoteID].staleAfter > t.lockedAt
      BY <1>2, <2>1, <3>1, Zenon
    <3>3. QED
      BY <2>1, <3>2, <1>3, <1>w
  <2>2. CASE v # u
    <3>1. v \in DOMAIN updates /\ updates'[v] = updates[v]
      BY <2>2, <1>w
    <3>2. updates[v].reused
      BY <3>1, Zenon
    <3>3. QED
      BY <2>q, <3>1, <3>2, <1>w
  <2>3. QED
    BY <2>1, <2>2
<1>10. QED
  BY <1>6, <1>7, <1>8, <1>9 DEF LeaseInv

\* Every step but a claim and a finished goroutine leaves the leases alone.
LEMMA StepLeaves ==
  ASSUME PipelineInv, NEW r \in Replicas,
         \/ Post(r) \/ StartPass(r) \/ ClaimFails(r) \/ EndPass(r) \/ Crash(r)
         \/ \E u \in UpdateIDs : StartTask(r, u) \/ GiveUp(r, u)
         \/ \E p \in Pairs : \/ FetchReuse(r, p) \/ FetchReadFails(r, p)
                             \/ FetchReadStale(r, p) \/ FetchDenied(r, p)
                             \/ FetchAllowed(r, p) \/ FetchQuote(r, p)
                             \/ FetchError(r, p) \/ FetchBreaks(r, p)
  PROVE  Leaves
<1>i. /\ ReplicaTypes /\ clock \in Nat
      /\ task \in [Replicas -> [UpdateIDs -> Task]]
  BY DEF PipelineInv, ReplicaTypes
<1>n. NoTask.st = "none"
  BY DEF NoTask
<1>1. CASE Post(r)
  <2>1. PICK u \in UpdateIDs, p \in Pairs, k \in Keys \cup {NoKey} :
          CreateUpdateRequest(u, p, k, Now(r))
    BY <1>1 DEF Post
  <2>2. /\ UNCHANGED quotes
        /\ DOMAIN updates' = DOMAIN updates \cup {u} /\ u \notin DOMAIN updates
        /\ updates'[u] = NewUpdateRequest(p, k, Now(r))
        /\ \A v \in DOMAIN updates : updates'[v] = updates[v]
    BY <2>1 DEF CreateUpdateRequest
  <2>3. updates'[u].attempts = 0 /\ updates'[u].reused = FALSE
    BY <2>2 DEF NewUpdateRequest
  <2>4. UNCHANGED <<clock, task>>
    BY <1>1 DEF Post, workerVars
  <2>5. QED
    BY <1>i, <2>2, <2>3, <2>4 DEF Leaves
<1>2. CASE StartPass(r) \/ ClaimFails(r) \/ EndPass(r)
  BY <1>i, <1>2 DEF StartPass, ClaimFails, EndPass, workerVars, storeVars, Leaves
<1>3. CASE Crash(r)
  <2>1. /\ \A s \in Replicas, v \in UpdateIDs :
             task'[s][v] = IF s = r THEN NoTask ELSE task[s][v]
        /\ UNCHANGED <<updates, quotes, clock>>
    <3>1. \A s \in Replicas :
            task'[s] = IF s = r THEN [v \in UpdateIDs |-> NoTask] ELSE task[s]
      BY <1>i, <1>3 DEF Crash
    <3>2. QED
      BY <1>3, <3>1 DEF Crash, storeVars
  <2>2. QED
    BY <1>i, <1>n, <2>1 DEF Leaves
<1>4. ASSUME NEW u \in UpdateIDs, StartTask(r, u) PROVE Leaves
  <2>1. /\ task[r][u].st = "queued" /\ UNCHANGED <<updates, quotes, clock>>
    BY <1>4 DEF StartTask, storeVars
  <2>2. \A s \in Replicas, v \in UpdateIDs :
           IF s = r /\ v = u
             THEN /\ task'[s][v].st = "flying"
                  /\ task'[s][v].attempts = task[s][v].attempts
                  /\ task'[s][v].lockedAt = task[s][v].lockedAt
                  /\ task'[s][v].deadline = task[s][v].deadline
             ELSE task'[s][v] = task[s][v]
    BY <1>i, <1>4, StartedTasks
  <2>3. QED
    BY <1>i, <2>1, <2>2 DEF Leaves
<1>5. ASSUME NEW u \in UpdateIDs, GiveUp(r, u) PROVE Leaves
  <2>1. /\ \A s \in Replicas, v \in UpdateIDs :
             task'[s][v] = IF s = r /\ v = u THEN NoTask ELSE task[s][v]
        /\ UNCHANGED <<updates, quotes, clock>>
    BY <1>i, <1>5 DEF GiveUp, storeVars
  <2>2. QED
    BY <1>i, <1>n, <2>1 DEF Leaves
<1>6. ASSUME NEW p \in Pairs, NEW res \in Results, Deliver(r, p, res),
             UNCHANGED <<updates, quotes, clock>>
      PROVE  Leaves
  <2>1. \A s \in Replicas, v \in UpdateIDs :
           IF s = r /\ v \in Coalesced(r, p)
             THEN /\ task[s][v].st = "flying"
                  /\ task'[s][v].st = "resolved"
                  /\ task'[s][v].attempts = task[s][v].attempts
                  /\ task'[s][v].lockedAt = task[s][v].lockedAt
                  /\ task'[s][v].deadline = task[s][v].deadline
             ELSE task'[s][v] = task[s][v]
    BY <1>i, <1>6, DeliveredTasks
  <2>2. QED
    BY <1>i, <1>6, <2>1 DEF Leaves
<1>7. ASSUME NEW p \in Pairs, FetchReadStale(r, p) \/ FetchAllowed(r, p) PROVE Leaves
  BY <1>i, <1>7 DEF FetchReadStale, FetchAllowed, storeVars, Leaves
<1>8. ASSUME NEW p \in Pairs,
             \/ FetchReuse(r, p) \/ FetchReadFails(r, p) \/ FetchDenied(r, p)
             \/ FetchQuote(r, p) \/ FetchError(r, p) \/ FetchBreaks(r, p)
      PROVE  Leaves
  <2>1. PICK res \in Results : Landing(r, p, res)
    BY <1>8, FetchLands
  <2>2. QED
    BY <2>1, <1>6 DEF Landing
<1>9. QED
  BY <1>1, <1>2, <1>3, <1>4, <1>5, <1>7, <1>8

\* Every step keeps the leases, if they are long.
LEMMA LeaseNext ==
  ASSUME LeaseIsLong, PipelineInv, LeaseInv, [Next]_vars
  PROVE  LeaseInv'
<1>p. PipelineInv'
  BY PipelineNext
<1>1. ASSUME NEW r \in Replicas, Claimed(r) PROVE LeaseInv'
  BY <1>p, <1>1, ClaimedKeepsLease
<1>2. ASSUME NEW r \in Replicas, ClaimLost(r) PROVE LeaseInv'
  BY <1>2, ClaimLostKeepsLease
<1>3. ASSUME NEW r \in Replicas, NEW u \in UpdateIDs, Finish(r, u) PROVE LeaseInv'
  BY <1>p, <1>3, FinishKeepsLease
<1>4. ASSUME NEW r \in Replicas,
             Post(r) \/ StartPass(r) \/ ClaimFails(r) \/ EndPass(r) \/ Crash(r)
      PROVE  LeaseInv'
  BY <1>p, <1>4, StepLeaves, LeavesKeepsLease
<1>5. ASSUME NEW r \in Replicas, WorkerStep(r) PROVE LeaseInv'
  BY <1>p, <1>3, <1>5, StepLeaves, LeavesKeepsLease DEF WorkerStep
<1>6. CASE Tick \/ UNCHANGED vars
  <2>1. clock \in Nat
    BY DEF PipelineInv, ReplicaTypes
  <2>2. Leaves
    BY <1>6, <2>1 DEF Tick, vars, workerVars, storeVars, Leaves
  <2>3. QED
    BY <1>p, <2>2, LeavesKeepsLease
<1>7. QED
  BY <1>1, <1>2, <1>3, <1>4, <1>5, <1>6 DEF Next

LEMMA LeaseInit == Init => LeaseInv
<1>1. Init => DOMAIN updates = {} /\ \A r \in Replicas, u \in UpdateIDs : task[r][u].st = "none"
  BY DEF Init, StoreInit, NoTask
<1>2. QED
  BY <1>1 DEF LeaseInv, LeaseHeld, LeaseExclusive, AttemptsBounded, ReuseIsFresh, CanLand

LEMMA LeaseInvariant == LeaseIsLong => (Spec => []LeaseInv)
<1> SUFFICES ASSUME LeaseIsLong PROVE Spec => []LeaseInv
  OBVIOUS
<1>1. Init => LeaseInv
  BY LeaseInit
<1>2. PipelineInv /\ LeaseInv /\ [Next]_vars => LeaseInv'
  BY LeaseNext
<1>3. QED
  BY <1>1, <1>2, PipelineInvariant, PTL DEF Spec

\* While an outcome can land, its row is still the one its claim wrote: the
\* guard of CompleteSuccess and CompleteFailure, a bare status = in_progress,
\* lets no late write through.
THEOREM LeasesHold == LeaseIsLong => (Spec => []LeaseHeld)
BY LeaseInvariant, PTL DEF LeaseInv

\* Two replicas never both have an outcome of one request to land.
THEOREM LeasesExclusive == LeaseIsLong => (Spec => []LeaseExclusive)
BY LeaseInvariant, PTL DEF LeaseInv

\* The attempts of a row stay within DISPATCH_MAX_ATTEMPTS over crashes and
\* reclaims, although fail compares the attempts the claim returned.
THEOREM AttemptsAreBounded == LeaseIsLong => (Spec => []AttemptsBounded)
BY LeaseInvariant, PTL DEF LeaseInv

\* A quote reused by resolve was not stale when its request was claimed.
THEOREM ReuseFresh == LeaseIsLong => (Spec => []ReuseIsFresh)
BY LeaseInvariant, PTL DEF LeaseInv

-----------------------------------------------------------------------------
(* The age budget.                                                         *)

\* Only a finished goroutine hands a row back.
LEMMA HandedBackByFinish ==
  ASSUME PipelineInv, [Next]_vars, NEW u \in DOMAIN updates,
         updates[u].status = StatusInProgress, updates'[u].status = StatusPending
  PROVE  \E r \in Replicas : Finish(r, u)
<1>d. StatusInProgress # StatusPending
  BY DEF StatusInProgress, StatusPending
<1>1. ASSUME Leaves PROVE FALSE
  BY <1>1, <1>d DEF Leaves
<1>2. ASSUME NEW r \in Replicas, Claimed(r) \/ ClaimLost(r) PROVE FALSE
  <2>1. pass[r].now \in Nat
    BY DEF PipelineInv, ReplicaTypes, Pass
  <2>2. \E S, skipped \in SUBSET DOMAIN updates : ClaimBatch(S, skipped, pass[r].now)
    BY <1>2, Zenon DEF Claimed, ClaimLost
  <2>3. PICK S, skipped \in SUBSET DOMAIN updates : ClaimBatch(S, skipped, pass[r].now)
    BY <2>2
  <2>4. QED
    BY <2>1, <2>3, <1>d, ClaimFacts DEF PipelineInv
<1>3. ASSUME NEW r \in Replicas,
             Post(r) \/ StartPass(r) \/ ClaimFails(r) \/ EndPass(r) \/ Crash(r)
      PROVE  FALSE
  BY <1>1, <1>3, StepLeaves
<1>4. ASSUME NEW r \in Replicas, NEW v \in UpdateIDs, Finish(r, v)
      PROVE  v = u
  BY <1>4, <1>d, RecordFacts DEF Finish, Written
<1>5. ASSUME NEW r \in Replicas, WorkerStep(r) PROVE Finish(r, u)
  BY <1>1, <1>4, <1>5, StepLeaves DEF WorkerStep
<1>6. CASE Tick \/ UNCHANGED vars
  BY <1>6, <1>d DEF Tick, vars, storeVars
<1>7. QED
  BY <1>2, <1>3, <1>5, <1>6 DEF Next

\* The age was looked at when or after the result was there, at most PassTimeout
\* before the end of the pass's context, and the write lands at most CommitLag
\* after that.
LEMMA HandedBackYoung ==
  ASSUME PipelineInv, [Next]_vars, NEW u \in DOMAIN updates,
         updates[u].status = StatusInProgress, updates'[u].status = StatusPending
  PROVE  clock < updates[u].createdAt + MaxLifetime + PassTimeout + CommitLag
<1>1. PICK r \in Replicas : Finish(r, u)
  BY HandedBackByFinish
<1> DEFINE t == task[r][u]
<1>2. u \in UpdateIDs /\ updates[u].createdAt \in Nat
  BY DEF PipelineInv, StoreInv, TypeOK, Row
<1>3. PICK at \in t.since..clock : BudgetLeft(u, t.attempts, at + Offset[r])
  BY <1>1, <1>2, RecordFacts DEF Finish, StatusPending, StatusSucceeded, StatusFailed
<1>4. /\ t.deadline <= t.since + PassTimeout
      /\ clock <= t.deadline + CommitLag
  BY <1>1, <1>2 DEF Finish, CanLand, PipelineInv, ResultsOK, ResultOK
<1>5. (at + Offset[r]) - updates[u].createdAt < MaxLifetime
  BY <1>3 DEF BudgetLeft
<1>6. /\ t.since \in Nat /\ t.deadline \in Nat /\ clock \in Nat
      /\ Offset[r] \in Nat /\ PassTimeout \in Nat /\ CommitLag \in Nat /\ MaxLifetime \in Nat
  BY <1>2, TaskTypes, OffsetIsNat, WorkerAssumption
     DEF PipelineInv, ReplicaTypes, WorkerAssumption
<1>7. at \in Nat /\ t.since <= at
  BY <1>3, <1>6
<1> HIDE DEF t
<1>8. QED
  BY <1>2, <1>4, <1>5, <1>6, <1>7

\* A request past its lifetime is not handed back for another try, however
\* often its row was lost and reclaimed, and however short the leases are.
THEOREM RetriesInLifetime == Spec => RetriedInLifetime
<1>1. PipelineInv /\ [Next]_vars =>
        [\A u \in DOMAIN updates :
           /\ updates[u].status = StatusInProgress
           /\ updates'[u].status = StatusPending
           => clock < updates[u].createdAt + MaxLifetime + PassTimeout + CommitLag]_vars
  BY HandedBackYoung
<1>2. QED
  BY <1>1, PipelineInvariant, PTL DEF Spec, RetriedInLifetime

-----------------------------------------------------------------------------
(* The age of a reused quote.                                              *)

\* A row in progress carries no reused quote yet.
LEMMA NotReusedYet ==
  ASSUME PipelineInv, NEW u \in DOMAIN updates, updates[u].status = StatusInProgress
  PROVE  ~updates[u].reused
<1>1. SUFFICES ASSUME updates[u].reused PROVE FALSE
  OBVIOUS
<1>2. updates[u].status = StatusSucceeded
  BY <1>1, Zenon DEF PipelineInv, StoreInv, ResultLinked
<1>3. QED
  BY <1>2 DEF StatusInProgress, StatusSucceeded

\* Only a finished goroutine answers a request from the journal.
LEMMA ReusedByFinish ==
  ASSUME PipelineInv, [Next]_vars, NEW u \in DOMAIN updates,
         updates[u].status = StatusInProgress, updates'[u].reused
  PROVE  \E r \in Replicas : Finish(r, u)
<1>n. ~updates[u].reused
  BY NotReusedYet
<1>0. ASSUME updates'[u].reused = updates[u].reused PROVE FALSE
  BY <1>0, <1>n, Zenon
<1>1. ASSUME Leaves PROVE FALSE
  <2>1. updates'[u] = updates[u]
    BY <1>1 DEF Leaves
  <2>2. QED
    BY <2>1, <1>0, Zenon
<1>2. ASSUME NEW r \in Replicas, Claimed(r) \/ ClaimLost(r) PROVE FALSE
  <2>1. pass[r].now \in Nat
    BY DEF PipelineInv, ReplicaTypes, Pass
  <2>2. \E S, skipped \in SUBSET DOMAIN updates : ClaimBatch(S, skipped, pass[r].now)
    BY <1>2, Zenon DEF Claimed, ClaimLost
  <2>3. PICK S, skipped \in SUBSET DOMAIN updates : ClaimBatch(S, skipped, pass[r].now)
    BY <2>2
  <2>4. /\ \A v \in DOMAIN updates \ S : updates'[v] = updates[v]
        /\ \A v \in S : updates'[v].reused = updates[v].reused
    BY <2>1, <2>3, ClaimFacts DEF PipelineInv
  <2>5. CASE u \in S
    BY <2>4, <2>5, <1>0, Zenon
  <2>6. CASE u \notin S
    <3>1. updates'[u] = updates[u]
      BY <2>4, <2>6
    <3>2. QED
      BY <3>1, <1>0, Zenon
  <2>7. QED
    BY <2>5, <2>6
<1>3. ASSUME NEW r \in Replicas,
             Post(r) \/ StartPass(r) \/ ClaimFails(r) \/ EndPass(r) \/ Crash(r)
      PROVE  FALSE
  BY <1>1, <1>3, StepLeaves
<1>4. ASSUME NEW r \in Replicas, NEW v \in UpdateIDs, Finish(r, v)
      PROVE  v = u
  <2>1. \A w \in DOMAIN updates \ {v} : updates'[w] = updates[w]
    BY <1>4, RecordFacts DEF Finish, Written
  <2>2. SUFFICES ASSUME v # u PROVE FALSE
    OBVIOUS
  <2>3. updates'[u] = updates[u]
    BY <2>1, <2>2
  <2>4. QED
    BY <2>3, <1>0, Zenon
<1>5. ASSUME NEW r \in Replicas, WorkerStep(r) PROVE Finish(r, u)
  BY <1>1, <1>4, <1>5, StepLeaves DEF WorkerStep
<1>6. ASSUME Tick \/ UNCHANGED vars PROVE FALSE
  <2>1. updates'[u] = updates[u]
    BY <1>6 DEF Tick, vars, storeVars
  <2>2. QED
    BY <2>1, <1>0, Zenon
<1>7. QED
  BY <1>2, <1>3, <1>5, <1>6 DEF Next

\* The quote was fresh after the pass read its clock, the pass's context ends
\* PassTimeout later, and the write lands at most CommitLag after that.
LEMMA ReusedRecently ==
  ASSUME PipelineInv, [Next]_vars, NEW u \in DOMAIN updates,
         updates[u].status = StatusInProgress, updates'[u].reused
  PROVE  clock < quotes[updates'[u].quoteID].staleAfter + PassTimeout + CommitLag
<1>1. PICK r \in Replicas : Finish(r, u)
  BY ReusedByFinish
<1> DEFINE t == task[r][u]
           stale == quotes[updates'[u].quoteID].staleAfter
<1>2. u \in UpdateIDs
  BY DEF PipelineInv, StoreInv, TypeOK
<1>3. updates'[u].quoteID \in DOMAIN quotes /\ stale > t.lockedAt
  <2>1. /\ t.st = "resolved" /\ Record(r, u)
    BY <1>1 DEF Finish
  <2>2. \/ /\ updates'[u].status = StatusSucceeded
           /\ updates'[u].reused =>
                updates'[u].quoteID \in DOMAIN quotes /\ stale > t.lockedAt
        \/ updates'[u].reused = updates[u].reused
    BY <1>2, <2>1, RecordFacts, Zenon
  <2>3. ~updates[u].reused
    BY NotReusedYet
  <2>4. QED
    BY <2>2, <2>3, Zenon
<1>4. stale \in Nat
  <2>1. quotes \in Seq(Quote)
    BY DEF PipelineInv, StoreInv, TypeOK
  <2>2. quotes[updates'[u].quoteID] \in Quote
    BY <1>3, <2>1
  <2>3. QED
    BY <2>2, StoreAssumption DEF Quote, StoreAssumption
<1>5. /\ t.lockedAt + PassTimeout = t.deadline + Offset[r]
      /\ clock <= t.deadline + CommitLag
  <2>1. t.st # "none" /\ clock <= t.deadline + CommitLag
    BY <1>1 DEF Finish, CanLand
  <2>2. /\ pass[r].phase = "working" /\ t.lockedAt = pass[r].now
        /\ t.deadline = pass[r].deadline
    BY <1>2, <2>1 DEF PipelineInv, TasksOfPasses
  <2>3. pass[r].now + PassTimeout = pass[r].deadline + Offset[r]
    BY <2>2 DEF PipelineInv, PassesTimed
  <2>4. QED
    BY <2>1, <2>2, <2>3
<1>6. /\ t.lockedAt \in Nat /\ t.deadline \in Nat /\ clock \in Nat
      /\ Offset[r] \in Nat /\ PassTimeout \in Nat /\ CommitLag \in Nat
  BY <1>2, TaskTypes, OffsetIsNat, WorkerAssumption
     DEF PipelineInv, ReplicaTypes, WorkerAssumption
<1> HIDE DEF t
<1>7. stale > t.lockedAt
  BY <1>3
<1> HIDE DEF stale
<1>8. clock < stale + PassTimeout + CommitLag
  BY <1>4, <1>5, <1>6, <1>7
<1>9. QED
  BY <1>8 DEF stale

\* Whatever the timeouts are, a client is not answered with a quote that went
\* stale longer ago than a pass and the commit lag: an answer found in the
\* journal waits no longer than that for its write.
THEOREM ReusesRecent == Spec => ReuseIsRecent
<1>1. PipelineInv /\ [Next]_vars =>
        [\A u \in DOMAIN updates :
           updates[u].status = StatusInProgress /\ updates'[u].reused
           => clock < quotes[updates'[u].quoteID].staleAfter + PassTimeout + CommitLag]_vars
  BY ReusedRecently
<1>2. QED
  BY <1>1, PipelineInvariant, PTL DEF Spec, ReuseIsRecent

-----------------------------------------------------------------------------
(* The replicas are callers of the store.                                  *)

\* Every step of the replicas is one statement of the repository or none.
LEMMA StoreStep ==
  ASSUME Times = Nat, PipelineInv, [Next]_vars
  PROVE  [StoreNext]_storeVars
<1>i. ReplicaTypes /\ clock \in Nat
  BY DEF PipelineInv, ReplicaTypes
<1>1. ASSUME NEW r \in Replicas, Post(r) PROVE Create
  <2>1. Now(r) \in Times
    BY <1>i, BlockedTypes
  <2>2. QED
    BY <1>1, <2>1, Zenon DEF Post, Create
<1>2. ASSUME NEW r \in Replicas, Claimed(r) \/ ClaimLost(r) PROVE Claim \/ UNCHANGED storeVars
  <2>1. PICK S \in SUBSET DOMAIN updates, skipped \in SUBSET DOMAIN updates :
          ClaimBatch(S, skipped, pass[r].now)
    BY <1>2, Zenon DEF Claimed, ClaimLost
  <2>2. pass[r].now \in Times
    BY <1>i DEF ReplicaTypes, Pass
  <2>3. CASE S # {}
    BY <2>1, <2>2, <2>3, Zenon DEF Claim
  <2>4. CASE S = {}
    <3>1. UNCHANGED quotes /\ updates' = [u \in DOMAIN updates |-> updates[u]]
      BY <2>1, <2>4 DEF ClaimBatch
    <3>2. updates \in [DOMAIN updates -> Row]
      BY DEF PipelineInv, StoreInv, TypeOK
    <3>3. QED
      BY <3>1, <3>2 DEF storeVars
  <2>5. QED
    BY <2>3, <2>4
<1>3. ASSUME NEW r \in Replicas, NEW u \in UpdateIDs, Finish(r, u)
      PROVE  Succeed \/ SucceedReuse \/ Fail
  BY <1>3, RecordFacts DEF Finish
<1>4. ASSUME NEW r \in Replicas,
             \/ StartPass(r) \/ ClaimFails(r) \/ EndPass(r) \/ Crash(r)
             \/ \E u \in UpdateIDs : StartTask(r, u) \/ GiveUp(r, u)
             \/ \E p \in Pairs : \/ FetchReuse(r, p) \/ FetchReadFails(r, p)
                                 \/ FetchReadStale(r, p) \/ FetchDenied(r, p)
                                 \/ FetchAllowed(r, p) \/ FetchQuote(r, p)
                                 \/ FetchError(r, p) \/ FetchBreaks(r, p)
      PROVE  UNCHANGED storeVars
  BY <1>4, Zenon DEF StartPass, ClaimFails, EndPass, Crash, StartTask, GiveUp, FetchReuse,
     FetchReadFails, FetchReadStale, FetchDenied, FetchAllowed, FetchQuote, FetchError,
     FetchBreaks
<1>5. ASSUME NEW r \in Replicas, WorkerStep(r)
      PROVE  Succeed \/ SucceedReuse \/ Fail \/ UNCHANGED storeVars
  BY <1>3, <1>4, <1>5 DEF WorkerStep
<1>6. CASE Tick \/ UNCHANGED vars
  BY <1>6 DEF Tick, vars
<1>7. QED
  BY <1>1, <1>2, <1>4, <1>5, <1>6 DEF Next, StoreNext

\* The replicas are callers of the repository as QuoteStore has them, so what
\* is proved of the tables, the promise to clients included, holds under any
\* number of them.
THEOREM ReplicasUseStore == Times = Nat => (Spec => UsesStore)
<1> SUFFICES ASSUME Times = Nat PROVE Spec => UsesStore
  OBVIOUS
<1>1. Init => StoreInit
  BY DEF Init
<1>2. PipelineInv /\ [Next]_vars => [StoreNext]_storeVars
  BY StoreStep
<1>3. QED
  BY <1>1, <1>2, PipelineInvariant, PTL DEF Spec, UsesStore, StoreSpec

\* Whatever any number of replicas do, and wherever they crash, a client sees
\* one request per key, one answer per request, unchanged for ever, and a latest
\* quote that never moves back.
THEOREM ReplicasKeepPromise == Times = Nat => (Spec => KeepsPromise)
<1> SUFFICES ASSUME Times = Nat PROVE Spec => KeepsPromise
  OBVIOUS
<1>1. Spec => UsesStore
  BY ReplicasUseStore
<1>2. QED
  BY <1>1, StoreKeepsPromise, PTL DEF UsesStore

=============================================================================
