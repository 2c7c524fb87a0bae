------------------------------- MODULE Worker -------------------------------
(***************************************************************************)
(* Worker of internal/usecase/quotes, in every replica: what happens to a  *)
(* claimed request between the moment it gets a slot of the pool and the   *)
(* moment its outcome is written.  A request resolves through a flight,    *)
(* the singleflighted reuse-or-fetch of its pair, which runs on a context  *)
(* of its own; the outcome is then written on the context of the pass.     *)
(*                                                                         *)
(* Time is one global clock; a replica reads it with a constant Offset.    *)
(* Steps of a worker that touch no shared state are folded into the next   *)
(* one that does.                                                          *)
(***************************************************************************)
EXTENDS QuoteStore

CONSTANTS
  Replicas,        \* the service's processes
  Offset,          \* how far each replica's clock is ahead
  MaxSkew,         \* bound on Offset
  PoolSize,        \* DISPATCH_POOL_SIZE
  PassTimeout,     \* DISPATCH_PASS_TIMEOUT, also the fetch timeout (main.go)
  MaxAttempts,     \* DISPATCH_MAX_ATTEMPTS
  MaxLifetime,     \* DISPATCH_MAX_LIFETIME
  BaseBackoff,     \* DISPATCH_BASE_BACKOFF
  MaxBackoff,      \* DISPATCH_MAX_BACKOFF
  JitterQuarters,  \* the jitter factor, in quarters: 3 to 5
  RetryAfters,     \* waits a limiter or an upstream may ask for
  QuotedAgo,       \* ages of an upstream's quotes, negative for a future one
  TTLs,            \* how long after quoted_at a quote goes stale
  MaxQuotedAtSkew, \* maxQuotedAtSkew of the domain
  CommitLag        \* a write may land this long after its context has ended

ASSUME WorkerAssumption ==
  /\ MaxSkew \in Nat /\ Offset \in [Replicas -> 0..MaxSkew]
  /\ PoolSize \in Nat \ {0} /\ PassTimeout \in Nat \ {0}
  /\ MaxAttempts \in Nat \ {0} /\ MaxLifetime \in Nat
  /\ BaseBackoff \in Nat \ {0} /\ MaxBackoff \in Nat \ {0}
  /\ JitterQuarters \subseteq 3..5 /\ RetryAfters \subseteq Nat \ {0}
  /\ QuotedAgo \subseteq Int /\ TTLs \subseteq Nat
  /\ MaxQuotedAtSkew \in Nat /\ CommitLag \in Nat

\* Arithmetic, spelled out for provers that have no rules for powers.
ASSUME PowersAssumption == \A n \in 0..MaxInt : 2 ^ n \in Nat

VARIABLES
  clock,         \* global time
  task,          \* each replica's goroutine for a claimed request
  flight,        \* each replica's singleflight call for a pair
  blockedUntil,  \* each replica's RateLimiter.blockedUntil
  called         \* history: requests an upstream call was ever made for

workerVars == <<clock, task, flight, blockedUntil, called>>

Now(r) == clock + Offset[r]

\* What a flight hands to the requests coalesced onto it.
Reuse(q)    == [kind |-> "reuse", q |-> q]
Fresh(rate) == [kind |-> "fresh", rate |-> rate]
Failure(code, retryable, retryAfter) ==
  [kind |-> "error", code |-> code, retryable |-> retryable, retryAfter |-> retryAfter]
Unclassified == [kind |-> "unclassified"]
Panicked     == [kind |-> "panic"]
Unresolved   == [kind |-> "unresolved"]

\* A goroutine's request as ClaimBatch returned it: its attempts at the claim,
\* the locked_at the claim wrote, and the end of the pass's context; then what
\* it resolved to, and when.
NoTask == [st |-> "none", attempts |-> 0, lockedAt |-> 0, deadline |-> 0,
           res |-> Unresolved, since |-> 0]

Queued(attempts, lockedAt, deadline) ==
  [st |-> "queued", attempts |-> attempts, lockedAt |-> lockedAt,
   deadline |-> deadline, res |-> Unresolved, since |-> 0]

NoFlight == [st |-> "none", deadline |-> 0]

Holding(r) == {u \in UpdateIDs : task[r][u].st \in {"flying", "resolved"}}

\* The requests of pair p waiting for replica r's flight.
Coalesced(r, p) == {u \in UpdateIDs : task[r][u].st = "flying" /\ updates[u].pair = p}

-----------------------------------------------------------------------------
(* Process, resolve: take a slot, lead the pair's flight or join it.       *)

StartTask(r, u) ==
  LET p == updates[u].pair IN
  /\ task[r][u].st = "queued"
  /\ Cardinality(Holding(r)) < PoolSize
  /\ task' = [task EXCEPT ![r][u].st = "flying"]
  /\ flight' = IF flight[r][p].st = "none"
                 THEN [flight EXCEPT ![r][p] =
                         [st |-> "read", deadline |-> clock + PassTimeout]]
                 ELSE flight
  /\ UNCHANGED <<storeVars, clock, blockedUntil, called>>

\* The flight's function returns: every coalesced request has its result, and
\* the key is free, before any of them has written anything.
Deliver(r, p, res) ==
  /\ task' = [task EXCEPT ![r] = [u \in UpdateIDs |->
                IF u \in Coalesced(r, p)
                  THEN [@[u] EXCEPT !.st = "resolved", !.res = res, !.since = clock]
                  ELSE @[u]]]
  /\ flight' = [flight EXCEPT ![r][p] = NoFlight]

-----------------------------------------------------------------------------
(* fetch: the flight's function.                                           *)

\* Mutant: a quote is reused whatever its age.
IsFresh_Always(r, p) == QuotesOf(p) # {}

IsFresh(r, p) == QuotesOf(p) # {} /\ Now(r) < quotes[LatestID(p)].staleAfter

\* GetLatestQuote finds a quote that is not stale yet, or fails.  The clock is
\* read with the row: read later, it could only find the row stale more often.
FetchReuse(r, p) ==
  /\ flight[r][p].st = "read"
  /\ IsFresh(r, p)
  /\ Deliver(r, p, Reuse(LatestID(p)))
  /\ UNCHANGED <<storeVars, clock, blockedUntil, called>>

FetchReadFails(r, p) ==
  /\ flight[r][p].st = "read"
  /\ Deliver(r, p, Unclassified)
  /\ UNCHANGED <<storeVars, clock, blockedUntil, called>>

FetchReadStale(r, p) ==
  /\ flight[r][p].st = "read"
  /\ ~IsFresh(r, p)
  /\ flight' = [flight EXCEPT ![r][p].st = "allow"]
  /\ UNCHANGED <<storeVars, clock, task, blockedUntil, called>>

\* limiter.Allow: the cooldown is modelled exactly, a full window by choice
\* (RateLimiter models the windows).
FetchDenied(r, p) ==
  /\ flight[r][p].st = "allow"
  /\ \E retryAfter \in IF Now(r) < blockedUntil[r] THEN {blockedUntil[r] - Now(r)}
                                                   ELSE RetryAfters :
       Deliver(r, p, Failure(RateLimitedError, TRUE, retryAfter))
  /\ UNCHANGED <<storeVars, clock, blockedUntil, called>>

FetchAllowed(r, p) ==
  /\ flight[r][p].st = "allow"
  /\ Now(r) >= blockedUntil[r]
  /\ flight' = [flight EXCEPT ![r][p].st = "call"]
  /\ UNCHANGED <<storeVars, clock, task, blockedUntil, called>>

\* The upstream answers with a quote; an impossible one is a permanent
\* malformed_response.
FetchQuote(r, p) ==
  /\ flight[r][p].st = "call"
  /\ \E provider \in Providers, value \in 0..1, ago \in QuotedAgo, ttl \in TTLs :
       LET raw  == [value |-> value, quotedAt |-> Now(r) - ago]
           rate == [pair |-> p, provider |-> provider, quotedAt |-> raw.quotedAt,
                    staleAfter |-> raw.quotedAt + ttl]
       IN /\ rate.quotedAt \in Times /\ rate.staleAfter \in Times
          /\ Deliver(r, p, IF NewCurrencyRateAccepts(raw, Now(r), MaxQuotedAtSkew)
                             THEN Fresh(rate)
                             ELSE Failure(MalformedResponse, FALSE, 0))
  /\ called' = called \cup Coalesced(r, p)
  /\ UNCHANGED <<storeVars, clock, blockedUntil>>

\* The adapter's classified error; a Retry-After cools the limiter down for
\* every pair.
FetchError(r, p) ==
  /\ flight[r][p].st = "call"
  /\ \E retryable \in BOOLEAN, retryAfter \in RetryAfters \cup {0} :
       LET until == Now(r) + retryAfter IN
       /\ Deliver(r, p, Failure(ProviderError, retryable, retryAfter))
       /\ blockedUntil' = IF retryAfter > 0 /\ until > blockedUntil[r]
                            THEN [blockedUntil EXCEPT ![r] = until] ELSE blockedUntil
  /\ called' = called \cup Coalesced(r, p)
  /\ UNCHANGED <<storeVars, clock>>

\* An error the adapter did not classify, or a panic, which Do repeats in
\* every coalesced caller and the pool's recover stops.
FetchBreaks(r, p) ==
  /\ flight[r][p].st = "call"
  /\ \E res \in {Unclassified, Panicked} : Deliver(r, p, res)
  /\ called' = called \cup Coalesced(r, p)
  /\ UNCHANGED <<storeVars, clock, blockedUntil>>

-----------------------------------------------------------------------------
(* Process, fail: write the outcome.                                       *)

\* baseBackoff doubled for every attempt but the first, capped, raised to the
\* error's own wait, then spread by the jitter.
Delay(attempts, retryAfter) ==
  LET shift == IF attempts > 1 THEN attempts - 1 ELSE 0
      grown == BaseBackoff * (2 ^ shift)
      delay == IF grown > MaxBackoff THEN MaxBackoff ELSE grown
  IN IF retryAfter > delay THEN retryAfter ELSE delay

\* Mutant: one attempt too many.
BudgetLeft_OffByOne(u, attempts, now) ==
  attempts <= MaxAttempts /\ now - updates[u].createdAt < MaxLifetime

\* Mutant: the request's age is not looked at.
BudgetLeft_NoLifetime(u, attempts, now) == attempts < MaxAttempts

\* Both budgets of fail: attempts and age.
BudgetLeft(u, attempts, now) ==
  attempts < MaxAttempts /\ now - updates[u].createdAt < MaxLifetime

\* What fail writes for a classified error, or for an unclassified one whose
\* budget is gone.
RecordFailure(u, attempts, now, code, retryable, retryAfter) ==
  LET retries == retryable /\ BudgetLeft(u, attempts, now) IN
  \E j \in JitterQuarters :
    CompleteFailure(u, IF retryable /\ ~retries THEN AttemptsExhaustedCode ELSE code,
                    retries, now + (Delay(attempts, retryAfter) * j) \div 4)

\* The write Process makes for a resolved request; its now was read after the
\* result was there and before the write.
Record(r, u) ==
  LET t == task[r][u] IN
  \/ t.res.kind = "reuse" /\ CompleteSuccessReuse(u, t.res.q)
  \/ t.res.kind = "fresh" /\ CompleteSuccess(u, t.res.rate)
  \/ \E at \in t.since..clock : LET now == at + Offset[r] IN
       \/ /\ t.res.kind = "error"
          /\ RecordFailure(u, t.attempts, now, t.res.code, t.res.retryable,
                           t.res.retryAfter)
       \/ /\ t.res.kind = "unclassified"
          /\ ~BudgetLeft(u, t.attempts, now)
          /\ RecordFailure(u, t.attempts, now, InternalError, FALSE, 0)

\* Mutant: the outcome is written on a context that does not end with the pass.
CanLand_NoDeadline(t) == t.st # "none"

\* The pass's context has ended; what was sent before may still land for
\* CommitLag.
CanLand(t) == t.st # "none" /\ clock <= t.deadline + CommitLag

\* The write lands.
Finish(r, u) ==
  /\ task[r][u].st = "resolved"
  /\ CanLand(task[r][u])
  /\ Record(r, u)
  /\ task' = [task EXCEPT ![r][u] = NoTask]
  /\ UNCHANGED <<clock, flight, blockedUntil, called>>

\* Nothing is written, and the row is left to the reaper: the repository
\* failed or refused, the context had ended, the error was not this service's
\* to classify, or the goroutine recovered from a panic.  A write that was sent
\* and outlives its caller is a goroutine that takes no step until it lands.
GiveUp(r, u) ==
  /\ task[r][u].st = "resolved"
  /\ task' = [task EXCEPT ![r][u] = NoTask]
  /\ UNCHANGED <<storeVars, clock, flight, blockedUntil, called>>

WorkerStep(r) ==
  \/ \E u \in UpdateIDs : StartTask(r, u) \/ Finish(r, u) \/ GiveUp(r, u)
  \/ \E p \in Pairs : \/ FetchReuse(r, p) \/ FetchReadFails(r, p) \/ FetchReadStale(r, p)
                      \/ FetchDenied(r, p) \/ FetchAllowed(r, p) \/ FetchQuote(r, p)
                      \/ FetchError(r, p) \/ FetchBreaks(r, p)
=============================================================================
