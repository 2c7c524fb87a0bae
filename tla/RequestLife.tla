---------------------------- MODULE RequestLife ----------------------------
(***************************************************************************)
(* One request from its insert to its answer: claims and reclaims, the     *)
(* stages of a call through the exchangerate.dev adapter, and what         *)
(* Worker.fail makes of its result, with the backoff computed in Width-bit *)
(* integers.  Where Dispatcher looks at what replicas do to each other,    *)
(* this module looks at time without end: instants are kept as distances   *)
(* from now, so that a request may be tried for ever.                      *)
(*                                                                         *)
(* At most one worker has the request at a time (Dispatcher's lease).      *)
(***************************************************************************)
EXTENDS ExchangerateDev, FiniteSets

CONSTANTS
  BaseBackoff, MaxBackoff, MaxAttempts, MaxLifetime,  \* DISPATCH_*
  VisibilityTimeout,  \* DISPATCH_VISIBILITY_TIMEOUT
  FetchTimeout,       \* the fetch's own context (DISPATCH_PASS_TIMEOUT)
  ClientTimeout,      \* PROVIDER_HTTP_TIMEOUT, over headers and body
  JitterQuarters,     \* the jitter factor, in quarters: 3 to 5
  WindowWaits,        \* waits the limiter's windows may ask for
  HTTPStatuses,       \* HTTP statuses the upstream uses
  Headers,            \* Retry-After headers it sends
  Rates,              \* quotes it sends: value and quoted_at
  Skew,               \* maxQuotedAtSkew of the domain
  MaxNumeric          \* the largest value NUMERIC(24,10) holds

ASSUME LifeAssumption ==
  /\ BaseBackoff \in 1..MaxDuration /\ MaxBackoff \in 1..MaxDuration
  /\ MaxAttempts \in Nat \ {0} /\ MaxLifetime \in Nat \ {0}
  /\ VisibilityTimeout \in Nat \ {0}
  /\ FetchTimeout \in Nat \ {0} /\ ClientTimeout \in Nat \ {0}
  /\ JitterQuarters \subseteq 3..5 /\ WindowWaits \subseteq 1..MaxDuration
  /\ Rates \subseteq [value: Nat, quotedAt: Nat] /\ MaxNumeric \in Nat
  /\ HTTPStatuses \subseteq Nat /\ Skew \in Nat

\* A header counts any number of seconds, or names a date that time.Until
\* holds.
ASSUME HeadersAssumption ==
  \A header \in Headers :
    /\ header.kind \in {"none", "seconds", "date"}
    /\ header.kind = "seconds" => header.n \in Int
    /\ header.kind = "date" => header.ahead \in MinDuration..MaxDuration

\* Arithmetic, spelled out for provers that have no rules for powers.
ASSUME GrowthAssumption == \A n \in 0..MaxAttempts : 2 ^ n \in Nat \ {0}

VARIABLES
  row,      \* the request's row: status, attempts, error_code
  age,      \* since created_at, up to MaxLifetime
  due,      \* until next_attempt_at, 0 once it has passed
  locked,   \* since locked_at while in progress, up to VisibilityTimeout + 1
  stage,    \* where its worker is
  spent,    \* since the call began, 0 outside
  res,      \* what the fetch came back with
  cooling,  \* until RateLimiter.blockedUntil
  heard     \* history: the answer of the call arrived to its end

lifeVars == <<row, age, due, locked, stage, spent, res, cooling, heard>>

Nothing == [kind |-> "nothing"]
Reused  == [kind |-> "reused"]

\* A quote's instants count from this one, at which it is fetched.
FetchedAt == 1

LifeInit ==
  /\ row = [status |-> StatusPending, attempts |-> 0, code |-> NoError]
  /\ age = 0 /\ due = 0 /\ locked = 0
  /\ stage = "none" /\ spent = 0 /\ res = Nothing
  /\ cooling = 0 /\ heard = FALSE

-----------------------------------------------------------------------------
(* ClaimBatch: a due row, or a stuck one, which pays no attempt.           *)

Claim ==
  /\ stage = "none"
  /\ \/ row.status = StatusPending /\ due = 0
     \/ row.status = StatusInProgress /\ locked > VisibilityTimeout
  /\ row' = [row EXCEPT !.status = StatusInProgress,
                        !.attempts = IF row.status = StatusPending THEN @ + 1 ELSE @]
  /\ locked' = 0
  /\ stage' = "fetch"
  /\ UNCHANGED <<age, due, spent, res, cooling, heard>>

-----------------------------------------------------------------------------
(* Worker.fetch and the adapter.                                           *)

Resolve(result) == stage' = "resolved" /\ res' = result /\ spent' = 0

\* The journal has a fresh quote, or cannot be read.
ReadEnds ==
  /\ stage = "fetch"
  /\ \E result \in {Reused, Unclassified} : Resolve(result)
  /\ UNCHANGED <<row, age, due, locked, cooling, heard>>

\* The limiter refuses: it is cooling down, or a window is full.
Denied ==
  /\ stage = "fetch"
  /\ \E wait \in IF cooling > 0 THEN {cooling} ELSE WindowWaits :
       Resolve(Failure(RateLimitedError, TRUE, wait))
  /\ UNCHANGED <<row, age, due, locked, cooling, heard>>

Call ==
  /\ stage = "fetch"
  /\ cooling = 0
  /\ stage' = "call"
  /\ UNCHANGED <<row, age, due, locked, spent, res, cooling, heard>>

\* Do fails: the network, or one of the two timeouts.
CallFails ==
  /\ stage = "call"
  /\ Resolve(TransportError(spent >= FetchTimeout))
  /\ UNCHANGED <<row, age, due, locked, cooling, heard>>

\* The headers arrive.
Headed ==
  /\ stage = "call"
  /\ stage' = "body"
  /\ UNCHANGED <<row, age, due, locked, spent, res, cooling, heard>>

\* The body does not arrive to its end: the network, or a timeout.
BodyFails ==
  /\ stage = "body"
  /\ Resolve(BodyError)
  /\ UNCHANGED <<row, age, due, locked, cooling, heard>>

\* CoolDown only ever extends.
Cooled(retryAfter) == IF retryAfter > cooling THEN retryAfter ELSE cooling

\* The answer is there: an error may cool the limiter down, a quote is
\* validated by the domain.
AnswerWith(answer) ==
  /\ stage = "body"
  /\ heard' = TRUE
  /\ \/ /\ answer.kind = "error"
        /\ Resolve(answer) /\ cooling' = Cooled(answer.retryAfter)
     \/ /\ answer.kind = "quote"
        /\ Resolve(IF NewCurrencyRateAccepts(answer.rate, FetchedAt, Skew)
                     THEN answer ELSE Failure(MalformedResponse, FALSE, 0))
        /\ UNCHANGED cooling
  /\ UNCHANGED <<row, age, due, locked>>

Bodies == {Garbage, Unpriced} \cup {SuccessBody(rate) : rate \in Rates}
                              \cup {ErrorBody(code) : code \in UpstreamCodes}

\* Rates the database would refuse.
Oversized == {SuccessBody(rate) : rate \in {r \in Rates : r.value > MaxNumeric}}

AnsweredFrom(bodies) ==
  \E status \in HTTPStatuses, header \in Headers, body \in bodies :
    AnswerWith(Answer(status, header, body))

Answered == AnsweredFrom(Bodies)

-----------------------------------------------------------------------------
(* Worker.fail and backoff.                                                *)

\* Mutant: only a negative product counts as overflowed.
Delay_ZeroPasses(attempts, retryAfter) ==
  LET grown == Wrap(BaseBackoff * 2 ^ (attempts - 1))
      delay == IF grown < 0 \/ grown > MaxBackoff THEN MaxBackoff ELSE grown
  IN IF retryAfter > delay THEN retryAfter ELSE delay

\* baseBackoff << (attempts - 1), which overflows when it is not positive.
Delay(attempts, retryAfter) ==
  LET grown == Wrap(BaseBackoff * 2 ^ (attempts - 1))
      delay == IF grown <= 0 \/ grown > MaxBackoff THEN MaxBackoff ELSE grown
  IN IF retryAfter > delay THEN retryAfter ELSE delay

\* A float that no Duration holds converts to the least one (on amd64).
Jittered(delay, quarters) ==
  LET spread == (delay * quarters) \div 4
  IN IF spread > MaxDuration THEN MinDuration ELSE spread

\* Mutant: a request may be tried as often as it likes.
BudgetSpent_AgeOnly == age >= MaxLifetime

\* Mutant: a request may grow as old as it likes.
BudgetSpent_AttemptsOnly == row.attempts >= MaxAttempts

BudgetSpent == row.attempts >= MaxAttempts \/ age >= MaxLifetime

\* The write of a failure; a next_attempt_at in the past is due.
WriteFailure(code, retryable, retryAfter) ==
  /\ row' = [row EXCEPT !.status = IF retryable THEN StatusPending ELSE StatusFailed,
                        !.code = code]
  /\ \E quarters \in JitterQuarters :
       LET wait == Jittered(Delay(row.attempts, retryAfter), quarters)
       IN due' = IF retryable THEN (IF wait > 0 THEN wait ELSE 0) ELSE due

\* Mutant: what was retryable keeps its code when the budget is gone.
FailureCode_Kept(failure) == failure.code

FailureCode(failure) ==
  IF failure.retryable /\ BudgetSpent THEN AttemptsExhaustedCode ELSE failure.code

RecordFailure ==
  \/ /\ res.kind = "error"
     /\ WriteFailure(FailureCode(res), res.retryable /\ ~BudgetSpent, res.retryAfter)
  \/ /\ res.kind = "unclassified" /\ BudgetSpent
     /\ WriteFailure(InternalError, FALSE, 0)

\* CompleteSuccess fails on a value its column cannot hold.
RecordSuccess ==
  /\ \/ res.kind = "reused"
     \/ res.kind = "quote" /\ res.rate.value <= MaxNumeric
  /\ row' = [row EXCEPT !.status = StatusSucceeded, !.code = NoError]
  /\ UNCHANGED due

\* The outcome is written.
Record ==
  /\ stage = "resolved"
  /\ RecordFailure \/ RecordSuccess
  /\ stage' = "none" /\ res' = Nothing /\ heard' = FALSE /\ locked' = 0
  /\ UNCHANGED <<age, spent, cooling>>

\* Process returns an error and the row waits for the reaper: fail handed an
\* unclassified error back, or the database refused the value.
Unrecorded ==
  /\ stage = "resolved"
  /\ \/ res.kind = "unclassified" /\ ~BudgetSpent
     \/ res.kind = "quote" /\ res.rate.value > MaxNumeric
  /\ stage' = "none" /\ res' = Nothing /\ heard' = FALSE
  /\ UNCHANGED <<row, age, due, locked, spent, cooling>>

\* The worker is gone before it wrote: a panic, a failed write, an ended pass.
Lost ==
  /\ stage # "none"
  /\ stage' = "none" /\ res' = Nothing /\ heard' = FALSE /\ spent' = 0
  /\ UNCHANGED <<row, age, due, locked, cooling>>

\* The process is gone, and its limiter's memory with it.
Crash ==
  /\ stage' = "none" /\ res' = Nothing /\ heard' = FALSE /\ spent' = 0
  /\ cooling' = 0
  /\ UNCHANGED <<row, age, due, locked>>

-----------------------------------------------------------------------------
(* Time.                                                                   *)

Ended == row.status \in {StatusSucceeded, StatusFailed}

Down(n) == IF n > 0 THEN n - 1 ELSE 0
Up(n, limit) == IF n < limit THEN n + 1 ELSE n

\* Only the upstream and the queue are waited for; a call ends with the
\* earlier of its timeouts.
Tick ==
  /\ ~Ended
  /\ \/ stage = "none"
     \/ stage \in {"call", "body"} /\ spent < FetchTimeout /\ spent < ClientTimeout
  /\ age' = Up(age, MaxLifetime)
  /\ due' = Down(due)
  /\ locked' = IF row.status = StatusInProgress THEN Up(locked, VisibilityTimeout + 1)
                                                ELSE locked
  /\ cooling' = Down(cooling)
  /\ spent' = IF stage = "none" THEN spent ELSE spent + 1
  /\ UNCHANGED <<row, stage, res, heard>>

LifeNext ==
  \/ Claim \/ ReadEnds \/ Denied \/ Call \/ CallFails \/ Headed \/ BodyFails
  \/ Answered \/ Record \/ Unrecorded \/ Lost \/ Crash \/ Tick

LifeSpec == LifeInit /\ [][LifeNext]_lifeVars

-----------------------------------------------------------------------------
(* Fairness.                                                               *)

\* Time passes and the queue is polled; a worker may be lost at any stage but
\* not at the same one for ever.  The HTTP client's timeout ends every call.
LifeFairness ==
  /\ WF_lifeVars(Tick)
  /\ WF_lifeVars(Claim)
  /\ SF_lifeVars(ReadEnds \/ Denied \/ Call)
  /\ SF_lifeVars(CallFails \/ Headed)
  /\ SF_lifeVars(BodyFails \/ Answered)
  /\ WF_lifeVars(Unrecorded)
  /\ SF_lifeVars(Record)

FairLifeSpec == LifeSpec /\ LifeFairness

\* The upstream does not answer with nothing but rates the database refuses.
StorableSpec == FairLifeSpec /\ SF_lifeVars(BodyFails \/ AnsweredFrom(Bodies \ Oversized))

-----------------------------------------------------------------------------
(* Properties.                                                             *)

\* Type invariant.
LifeTypeOK ==
  /\ row.status \in Statuses /\ row.attempts \in 0..MaxAttempts
  /\ age \in 0..MaxLifetime /\ locked \in 0..VisibilityTimeout + 1
  /\ due \in 0..MaxDuration /\ cooling \in 0..MaxDuration
  /\ stage \in {"none", "fetch", "call", "body", "resolved"}
  /\ stage # "none" => row.status = StatusInProgress
  /\ stage = "resolved" <=> res # Nothing

\* The wait the documents promise, in integers without a width.
Wanted(attempts, retryAfter) ==
  LET grown == BaseBackoff * 2 ^ (attempts - 1)
      delay == IF grown > MaxBackoff THEN MaxBackoff ELSE grown
  IN IF retryAfter > delay THEN retryAfter ELSE delay

\* The product, once wrapped, is never mistaken for one below the cap.
ProductTells ==
  \A attempts \in 1..MaxAttempts :
    LET product == BaseBackoff * 2 ^ (attempts - 1)
    IN Wrap(product) \in 1..MaxBackoff => Wrap(product) = product

\* A row handed back for another try waits for the backoff of its attempts,
\* capped, or for the error's own Retry-After if that is longer, give or take
\* a quarter (worker.go, backoff), although the product wraps and only its sign
\* and the cap tell.  That they do is ProductTells, which the code does not
\* enforce.  A wait that a Duration cannot hold when it is spread is excepted.
BackoffKept ==
  [][row.status = StatusInProgress /\ row'.status = StatusPending =>
       LET wait == Wanted(row.attempts, res.retryAfter) IN
       (wait * 5) \div 4 <= MaxDuration =>
         3 * wait - 3 <= 4 * due' /\ 4 * due' <= 5 * wait]_lifeVars

Permanent == {InvalidRequestError, UnsupportedPairError, AuthError,
              QuotaExceededError, MalformedResponse}
Transient == {RateLimitedError, ProviderUnavailableError,
              UnclassifiedProviderError, MalformedResponse}

\* The code a client reads tells the truth about how the request ended, over
\* any sequence of answers, losses and reclaims: a transient failure never ends
\* it, giving up means that a budget is really spent, and a request that waits
\* was put off by something transient (worker.go, fail).
FailureExplained ==
  /\ row.status = StatusFailed =>
       /\ row.code \in Permanent \cup {AttemptsExhaustedCode, InternalError}
       /\ row.code \in {AttemptsExhaustedCode, InternalError} => BudgetSpent
  /\ row.status = StatusPending /\ row.attempts > 0 =>
       row.code \in Transient /\ row.attempts < MaxAttempts

\* domain/quotes/errors.go, InternalError: a request that keeps failing inside
\* this service still terminates instead of cycling through the reaper forever.
Terminates == <>Ended

\* design.md, chapter 2: a timeout or a broken connection is retryable, and an
\* ended context is passed on; malformed_response is for what was received.
MalformedWasHeard ==
  [][row.status # StatusFailed /\ row'.status = StatusFailed =>
       (row'.code = MalformedResponse => heard)]_lifeVars
=============================================================================
