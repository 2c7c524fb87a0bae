------------------------- MODULE RequestLifeProofs -------------------------
(***************************************************************************)
(* Proofs about RequestLife, for durations of any width, any backoff, any  *)
(* budgets and any headers: how a request ends is explained by its code,   *)
(* and a wait is the one documented if the product, once wrapped, tells.   *)
(***************************************************************************)
EXTENDS RequestLife, TLAPS

Durations == MinDuration..MaxDuration

\* What an error that may end a request, or hand it back, looks like.
Failures ==
  [kind: {"error"}, code: Transient, retryable: {TRUE}, retryAfter: Durations]
    \cup [kind: {"error"}, code: Permanent, retryable: {FALSE}, retryAfter: Durations]

\* What a fetch may have come back with.
Results == {Nothing, Reused, Unclassified} \cup {Quoted(rate) : rate \in Rates} \cup Failures

Codes == {NoError, AttemptsExhaustedCode, InternalError} \cup Permanent \cup Transient

\* Rows of this module.
Rows == [status: Statuses, attempts: 0..MaxAttempts, code: Codes]

\* The row is a row, and one a worker has or had to give up has been claimed.
RowOK ==
  /\ row \in Rows
  /\ row.status = StatusInProgress => row.attempts >= 1

\* The inductive invariant.
LifeInv ==
  /\ LifeTypeOK
  /\ RowOK
  /\ res \in Results
  /\ FailureExplained

-----------------------------------------------------------------------------
(* Integers of a width.                                                    *)

\* Two's complement, for any half of a range.
LEMMA WrapAround ==
  ASSUME NEW half \in Nat \ {0}, NEW x \in Int
  PROVE  LET y == ((x - (-half)) % (2 * half)) + (-half)
         IN  y \in Int /\ -half <= y /\ y <= half - 1
             /\ (-half <= x /\ x <= half - 1 => y = x)
<1> DEFINE z == x + half
           m == z % (2 * half)
<1>1. z \in Int /\ 2 * half \in Nat \ {0}
  OBVIOUS
<1>2. m \in 0..(2 * half - 1)
  BY <1>1
<1>3. 0 <= z /\ z < 2 * half => m = z
  BY <1>1
<1>4. x - (-half) = z
  OBVIOUS
<1> HIDE DEF z, m
<1>5. QED
  <2>1. m + (-half) \in Int /\ -half <= m + (-half) /\ m + (-half) <= half - 1
    BY <1>2
  <2>2. -half <= x /\ x <= half - 1 => m + (-half) = x
    BY <1>3 DEF z
  <2>3. ((x - (-half)) % (2 * half)) + (-half) = m + (-half)
    BY <1>4, Zenon DEF m
  <2>4. QED
    BY <2>1, <2>2, <2>3, Zenon

\* The range of a Duration.
LEMMA DurationRange ==
  \E half \in Nat \ {0} :
    MinDuration = -half /\ MaxDuration = half - 1 /\ 2 ^ Width = 2 * half
BY RangeAssumption, Zenon DEF RangeAssumption, MinDuration, MaxDuration

\* Wrapping ends within the range and leaves what is in it alone.
LEMMA WrapStays ==
  ASSUME NEW x \in Int
  PROVE  /\ Wrap(x) \in Durations
         /\ x \in Durations => Wrap(x) = x
<1>1. PICK half \in Nat \ {0} :
        MinDuration = -half /\ MaxDuration = half - 1 /\ 2 ^ Width = 2 * half
  BY DurationRange
<1>2. Wrap(x) = ((x - (-half)) % (2 * half)) + (-half)
  BY <1>1, Zenon DEF Wrap
<1>3. /\ Wrap(x) \in Int /\ -half <= Wrap(x) /\ Wrap(x) <= half - 1
      /\ -half <= x /\ x <= half - 1 => Wrap(x) = x
  BY <1>2, WrapAround, ZenonT(30)
<1>4. QED
  BY <1>1, <1>3 DEF Durations

\* Constants, in the form the provers use.
LEMMA Parameters ==
  /\ MinDuration \in Int /\ MaxDuration \in Nat /\ MinDuration < 0
  /\ BaseBackoff \in 1..MaxDuration /\ MaxBackoff \in 1..MaxDuration
  /\ MaxAttempts \in Nat \ {0} /\ MaxLifetime \in Nat \ {0}
  /\ VisibilityTimeout \in Nat \ {0}
  /\ JitterQuarters \subseteq 3..5 /\ WindowWaits \subseteq 1..MaxDuration
  /\ 0 \in Durations
<1>1. MinDuration \in Int /\ MaxDuration \in Nat /\ MinDuration < 0
  BY DurationRange
<1>2. QED
  BY <1>1, LifeAssumption DEF LifeAssumption, Durations

-----------------------------------------------------------------------------
(* The backoff.                                                            *)

\* Arithmetic.
LEMMA PositiveProduct ==
  ASSUME NEW a \in Nat \ {0}, NEW b \in Nat \ {0}
  PROVE  a * b \in Nat \ {0}
OBVIOUS

\* What an attempt grows to before it is wrapped.
Product(attempts) == BaseBackoff * 2 ^ (attempts - 1)

LEMMA ProductGrows ==
  ASSUME NEW attempts \in 1..MaxAttempts
  PROVE  Product(attempts) \in Nat \ {0}
<1>1. attempts - 1 \in 0..MaxAttempts
  BY Parameters
<1>2. 2 ^ (attempts - 1) \in Nat \ {0}
  BY <1>1, GrowthAssumption, Zenon DEF GrowthAssumption
<1>3. BaseBackoff \in Nat \ {0}
  BY Parameters
<1>4. QED
  BY <1>2, <1>3, PositiveProduct, Zenon DEF Product

\* The sign and the cap leave nothing out of range.
LEMMA DelayInRange ==
  ASSUME NEW attempts \in 1..MaxAttempts, NEW retryAfter \in Durations
  PROVE  Delay(attempts, retryAfter) \in 1..MaxDuration
<1> DEFINE grown == Wrap(Product(attempts))
           delay == IF grown <= 0 \/ grown > MaxBackoff THEN MaxBackoff ELSE grown
<1>1. grown \in Int
  BY ProductGrows, WrapStays, Parameters DEF Durations
<1>2. Delay(attempts, retryAfter) = IF retryAfter > delay THEN retryAfter ELSE delay
  BY Zenon DEF Delay, Product
<1> HIDE DEF grown
<1>3. delay \in 1..MaxDuration
  BY <1>1, Parameters
<1> HIDE DEF delay
<1>4. QED
  BY <1>2, <1>3, Parameters DEF Durations

\* If the product tells, the delay is the one wanted.
LEMMA DelayIsWanted ==
  ASSUME NEW attempts \in 1..MaxAttempts, NEW retryAfter \in Durations, ProductTells
  PROVE  Delay(attempts, retryAfter) = Wanted(attempts, retryAfter)
<1> DEFINE product == Product(attempts)
           grown == Wrap(product)
           delay == IF grown <= 0 \/ grown > MaxBackoff THEN MaxBackoff ELSE grown
           wanted == IF product > MaxBackoff THEN MaxBackoff ELSE product
<1>1. product \in Nat \ {0}
  BY ProductGrows
<1>2. grown \in Int /\ (product \in Durations => grown = product)
  BY <1>1, WrapStays, Parameters DEF Durations
<1>3. grown \in 1..MaxBackoff => grown = product
  BY Zenon DEF ProductTells, Product
<1>4. /\ Delay(attempts, retryAfter) = IF retryAfter > delay THEN retryAfter ELSE delay
      /\ Wanted(attempts, retryAfter) = IF retryAfter > wanted THEN retryAfter ELSE wanted
  BY Zenon DEF Delay, Wanted, Product
<1> HIDE DEF product, grown
<1>5. delay = wanted
  BY <1>1, <1>2, <1>3, Parameters DEF Durations
<1> HIDE DEF delay, wanted
<1>6. QED
  BY <1>4, <1>5

\* A jitter of quarters moves a delay by a quarter at most, and one that no
\* Duration holds is not waited for.
LEMMA JitterSpreads ==
  ASSUME NEW delay \in 1..MaxDuration, NEW quarters \in 3..5
  PROVE  LET wait == Jittered(delay, quarters)
             due1 == IF wait > 0 THEN wait ELSE 0
         IN  /\ due1 \in 0..MaxDuration
             /\ (delay * 5) \div 4 <= MaxDuration =>
                  3 * delay - 3 <= 4 * due1 /\ 4 * due1 <= 5 * delay
<1> DEFINE spread == (delay * quarters) \div 4
           wait == Jittered(delay, quarters)
           due1 == IF wait > 0 THEN wait ELSE 0
<1>1. /\ spread \in Nat /\ (delay * 5) \div 4 \in Nat
      /\ spread <= (delay * 5) \div 4
      /\ 3 * delay - 3 <= 4 * spread /\ 4 * spread <= 5 * delay
  <2>1. CASE quarters = 3
    BY <2>1, Parameters
  <2>2. CASE quarters = 4
    BY <2>2, Parameters
  <2>3. CASE quarters = 5
    BY <2>3, Parameters
  <2>4. QED
    BY <2>1, <2>2, <2>3
<1>2. wait = IF spread > MaxDuration THEN MinDuration ELSE spread
  BY Zenon DEF Jittered
<1> HIDE DEF spread, wait
<1>3. due1 \in 0..MaxDuration
  BY <1>1, <1>2, Parameters
<1>4. (delay * 5) \div 4 <= MaxDuration => due1 = spread
  BY <1>1, <1>2, Parameters
<1> HIDE DEF due1
<1>5. QED
  BY <1>1, <1>3, <1>4 DEF wait, due1

-----------------------------------------------------------------------------
(* The adapter's results.                                                  *)

\* A failure is retryable or permanent, as its code is.
LEMMA FailureIsResult ==
  ASSUME NEW code, NEW retryable \in BOOLEAN, NEW retryAfter \in Durations,
         retryable => code \in Transient, ~retryable => code \in Permanent
  PROVE  Failure(code, retryable, retryAfter) \in Failures
<1>1. CASE retryable
  BY <1>1 DEF Failure, Failures
<1>2. CASE ~retryable
  BY <1>2 DEF Failure, Failures
<1>3. QED
  BY <1>1, <1>2

\* A wrapped product is a Duration, and so is the distance of a date.
LEMMA RetryAfterInRange ==
  ASSUME NEW header \in Headers
  PROVE  ParseRetryAfter(header) \in Durations
<1>1. CASE header.kind = "seconds"
  <2>1. header.n \in Int
    BY <1>1, HeadersAssumption, Zenon DEF HeadersAssumption
  <2>2. header.n * Second \in Int
    BY <2>1, WidthAssumption DEF WidthAssumption
  <2>3. ParseRetryAfter(header) = Wrap(header.n * Second)
    BY <1>1 DEF ParseRetryAfter
  <2>4. QED
    BY <2>2, <2>3, WrapStays, Zenon
<1>2. CASE header.kind = "date"
  <2>1. header.ahead \in Durations
    BY <1>2, HeadersAssumption, Zenon DEF HeadersAssumption, Durations
  <2>2. ParseRetryAfter(header) = header.ahead
    BY <1>2 DEF ParseRetryAfter
  <2>3. QED
    BY <2>1, <2>2, Zenon
<1>3. CASE header.kind = "none"
  <2>1. ParseRetryAfter(header) = 0
    BY <1>3 DEF ParseRetryAfter
  <2>2. QED
    BY <2>1, Parameters, Zenon
<1>4. QED
  BY <1>1, <1>2, <1>3, HeadersAssumption, Zenon DEF HeadersAssumption

\* Every code of the table is retryable if and only if it is transient.
LEMMA ClassifiedIsFailure ==
  ASSUME NEW code, NEW retryAfter \in Durations
  PROVE  Classified(code, retryAfter) \in Failures
<1>1. \/ Classified(code, retryAfter) = Failure(UnsupportedPairError, FALSE, retryAfter)
      \/ Classified(code, retryAfter) = Failure(InvalidRequestError, FALSE, retryAfter)
      \/ Classified(code, retryAfter) = Failure(ProviderUnavailableError, TRUE, retryAfter)
      \/ Classified(code, retryAfter) = Failure(AuthError, FALSE, retryAfter)
      \/ Classified(code, retryAfter) = Failure(RateLimitedError, TRUE, retryAfter)
      \/ Classified(code, retryAfter) = Failure(QuotaExceededError, FALSE, retryAfter)
      \/ Classified(code, retryAfter) = Failure(UnclassifiedProviderError, TRUE, retryAfter)
  BY DEF Classified
<1>2. /\ {RateLimitedError, ProviderUnavailableError, UnclassifiedProviderError}
           \subseteq Transient
      /\ {UnsupportedPairError, InvalidRequestError, AuthError, QuotaExceededError}
           \subseteq Permanent
  BY DEF Transient, Permanent
<1>3. /\ \A c \in Transient : Failure(c, TRUE, retryAfter) \in Failures
      /\ \A c \in Permanent : Failure(c, FALSE, retryAfter) \in Failures
  BY FailureIsResult
<1>4. QED
  BY <1>1, <1>2, <1>3, Zenon

\* What the adapter makes of any answer.
LEMMA AnswerIsResult ==
  ASSUME NEW status \in HTTPStatuses, NEW header \in Headers, NEW body \in Bodies
  PROVE  \/ Answer(status, header, body) \in Failures
         \/ \E rate \in Rates : Answer(status, header, body) = Quoted(rate)
<1>1. Failure(MalformedResponse, status >= 500, 0) \in Failures
  <2>1. (status >= 500) \in BOOLEAN
    BY LifeAssumption DEF LifeAssumption
  <2>2. MalformedResponse \in Transient \cap Permanent
    BY DEF Transient, Permanent
  <2>3. QED
    BY <2>1, <2>2, FailureIsResult, Parameters, ZenonT(30)
<1>2. Failure(MalformedResponse, FALSE, 0) \in Failures
  <2>1. MalformedResponse \in Permanent
    BY DEF Permanent
  <2>2. QED
    BY <2>1, FailureIsResult, Parameters
<1>3. ErrorFromBody(status, header, body) \in Failures
  BY <1>1, ClassifiedIsFailure, RetryAfterInRange, Zenon DEF ErrorFromBody
<1>4. body.kind \notin {"garbage", "error", "unpriced"} =>
        \E rate \in Rates : body = SuccessBody(rate)
  BY DEF Bodies, Garbage, Unpriced, SuccessBody, ErrorBody
<1>5. \A rate \in Rates : SuccessBody(rate).rate = rate
  BY DEF SuccessBody
<1>6. \/ Answer(status, header, body) = ErrorFromBody(status, header, body)
      \/ Answer(status, header, body) = Failure(MalformedResponse, FALSE, 0)
      \/ /\ body.kind \notin {"garbage", "error", "unpriced"}
         /\ Answer(status, header, body) = Quoted(body.rate)
  BY DEF Answer
<1>7. QED
  BY <1>2, <1>3, <1>4, <1>5, <1>6, Zenon

\* Results of different kinds are different.
LEMMA Kinds ==
  /\ Nothing.kind = "nothing" /\ Reused.kind = "reused"
  /\ Unclassified.kind = "unclassified"
  /\ \A rate \in Rates : Quoted(rate).kind = "quote"
  /\ \A failure \in Failures :
       /\ failure.kind = "error" /\ failure.retryable \in BOOLEAN
       /\ failure.retryAfter \in Durations
       /\ failure.retryable => failure.code \in Transient
       /\ ~failure.retryable => failure.code \in Permanent
BY DEF Nothing, Reused, Unclassified, Quoted, Failures

-----------------------------------------------------------------------------
(* The invariant.                                                          *)

LEMMA LifeInvInit == LifeInit => LifeInv
<1> SUFFICES ASSUME LifeInit PROVE LifeInv
  OBVIOUS
<1>1. RowOK
  BY Parameters DEF LifeInit, RowOK, Rows, Statuses, StatusPending, StatusInProgress, Codes
<1>2. res \in Results
  BY DEF LifeInit, Results
<1>3. LifeTypeOK
  BY Parameters DEF LifeInit, LifeTypeOK, Statuses, StatusPending
<1>4. FailureExplained
  BY DEF LifeInit, FailureExplained, StatusPending, StatusFailed
<1>5. QED
  BY <1>1, <1>2, <1>3, <1>4 DEF LifeInv

\* While a worker or nobody has the row, it stays what it is; only time may
\* pass, and time does not pass for an ended request.
LEMMA RowKept ==
  ASSUME LifeInv, row' = row, age' = age \/ ~Ended
  PROVE  RowOK' /\ FailureExplained'
<1>1. RowOK'
  BY DEF LifeInv, RowOK
<1>2. row.status = StatusFailed => age' = age
  BY DEF Ended
<1>3. FailureExplained'
  BY <1>2 DEF LifeInv, FailureExplained, BudgetSpent
<1>4. QED
  BY <1>1, <1>3

\* A fetch that came to an end.
LEMMA ResolveKeeps ==
  ASSUME LifeInv, stage # "none", NEW result \in Results \ {Nothing}, Resolve(result),
         cooling' \in 0..MaxDuration, UNCHANGED <<row, age, due, locked>>
  PROVE  LifeInv'
<1>1. RowOK' /\ FailureExplained'
  BY RowKept
<1>2. res' \in Results /\ res' # Nothing /\ stage' = "resolved"
  BY DEF Resolve
<1>3. LifeTypeOK'
  BY <1>2 DEF LifeInv, LifeTypeOK
<1>4. QED
  BY <1>1, <1>2, <1>3 DEF LifeInv

\* A worker that is gone, or has not come to a result.
LEMMA NoResultKeeps ==
  ASSUME LifeInv, res' = Nothing,
         \/ stage' = "none"
         \/ stage' \in {"fetch", "call", "body"} /\ row.status = StatusInProgress,
         cooling' \in 0..MaxDuration, UNCHANGED <<row, age, due, locked>>
  PROVE  LifeInv'
<1>1. RowOK' /\ FailureExplained'
  BY RowKept
<1>2. res' \in Results
  BY DEF Results
<1>3. LifeTypeOK'
  BY DEF LifeInv, LifeTypeOK
<1>4. QED
  BY <1>1, <1>2, <1>3 DEF LifeInv

\* A transient failure of the limiter or the transport.
LEMMA DenialIsResult ==
  ASSUME NEW wait \in Durations
  PROVE  Failure(RateLimitedError, TRUE, wait) \in Failures
<1>1. RateLimitedError \in Transient
  BY DEF Transient
<1>2. QED
  BY <1>1, FailureIsResult

\* A result is not nothing.
LEMMA SomeResult ==
  ASSUME NEW result,
         \/ result \in {Reused, Unclassified} \/ result \in Failures
         \/ \E rate \in Rates : result = Quoted(rate)
  PROVE  result \in Results \ {Nothing}
<1>1. result \in Results
  BY DEF Results
<1>2. result # Nothing
  BY Kinds
<1>3. QED
  BY <1>1, <1>2

\* Rewritten rows are rows.
Taken(r, attempts) == [r EXCEPT !.status = StatusInProgress, !.attempts = attempts]
Handed(r, status, code) == [r EXCEPT !.status = status, !.code = code]

LEMMA TakenIsRow ==
  ASSUME NEW r \in Rows, NEW attempts \in 0..MaxAttempts
  PROVE  /\ Taken(r, attempts) \in Rows
         /\ Taken(r, attempts).status = StatusInProgress
         /\ Taken(r, attempts).attempts = attempts
BY DEF Rows, Taken, Statuses

LEMMA HandedIsRow ==
  ASSUME NEW r \in Rows, NEW status \in Statuses, NEW code \in Codes
  PROVE  /\ Handed(r, status, code) \in Rows
         /\ Handed(r, status, code).status = status
         /\ Handed(r, status, code).attempts = r.attempts
         /\ Handed(r, status, code).code = code
BY DEF Rows, Handed

LEMMA ClaimKeeps ==
  ASSUME LifeInv, Claim
  PROVE  LifeInv'
<1> DEFINE paid == IF row.status = StatusPending THEN row.attempts + 1 ELSE row.attempts
<1>1. /\ row' = [row EXCEPT !.status = StatusInProgress, !.attempts = paid]
      /\ row \in Rows
      /\ row.status \in {StatusPending, StatusInProgress}
      /\ stage' = "fetch" /\ locked' = 0 /\ stage = "none"
      /\ UNCHANGED <<age, due, spent, res, cooling, heard>>
  BY DEF Claim, LifeInv, RowOK, Rows
<1>2. paid \in 1..MaxAttempts
  BY <1>1, Parameters DEF LifeInv, RowOK, Rows, FailureExplained
<1> HIDE DEF paid
<1>3. row' \in Rows /\ row'.status = StatusInProgress /\ row'.attempts = paid
  <2>1. row' = Taken(row, paid) /\ row \in Rows
    BY <1>1, Zenon DEF Taken
  <2>2. paid \in 0..MaxAttempts
    BY <1>2, Parameters
  <2>3. QED
    BY <2>1, <2>2, TakenIsRow, Zenon
<1>4. RowOK'
  BY <1>2, <1>3 DEF RowOK, Rows
<1>5. res' = Nothing /\ res' \in Results
  BY <1>1 DEF LifeInv, LifeTypeOK, Results
<1>6. LifeTypeOK'
  <2>1. /\ age \in 0..MaxLifetime /\ due \in 0..MaxDuration /\ cooling \in 0..MaxDuration
    BY DEF LifeInv, LifeTypeOK
  <2>2. 0 \in 0..VisibilityTimeout + 1
    BY Parameters
  <2>3. row'.status \in Statuses /\ row'.attempts \in 0..MaxAttempts
    BY <1>3 DEF Rows
  <2>4. /\ age' \in 0..MaxLifetime /\ due' \in 0..MaxDuration /\ cooling' \in 0..MaxDuration
        /\ locked' \in 0..VisibilityTimeout + 1
    BY <1>1, <2>1, <2>2
  <2>5. stage' = "fetch" /\ row'.status = StatusInProgress /\ res' = Nothing
    BY <1>1, <1>3, <1>5
  <2>6. QED
    BY <2>3, <2>4, <2>5 DEF LifeTypeOK
<1>7. FailureExplained'
  BY <1>3 DEF FailureExplained, StatusInProgress, StatusPending, StatusFailed
<1>8. QED
  BY <1>4, <1>5, <1>6, <1>7 DEF LifeInv

LEMMA ReadEndsKeeps ==
  ASSUME LifeInv, ReadEnds
  PROVE  LifeInv'
<1>1. PICK result \in {Reused, Unclassified} : Resolve(result)
  BY DEF ReadEnds
<1>2. result \in Results \ {Nothing}
  BY SomeResult
<1>3. QED
  BY <1>1, <1>2, ResolveKeeps DEF ReadEnds, LifeInv, LifeTypeOK

LEMMA DeniedKeeps ==
  ASSUME LifeInv, Denied
  PROVE  LifeInv'
<1>1. PICK wait \in IF cooling > 0 THEN {cooling} ELSE WindowWaits :
        Resolve(Failure(RateLimitedError, TRUE, wait))
  BY DEF Denied
<1>2. wait \in Durations
  BY Parameters DEF Durations, LifeInv, LifeTypeOK
<1>3. Failure(RateLimitedError, TRUE, wait) \in Results \ {Nothing}
  BY <1>2, DenialIsResult, SomeResult
<1>4. stage = "fetch" /\ UNCHANGED <<row, age, due, locked>> /\ cooling' = cooling
  BY DEF Denied
<1>5. cooling' \in 0..MaxDuration
  BY <1>4 DEF LifeInv, LifeTypeOK
<1>6. QED
  BY <1>1, <1>3, <1>4, <1>5, ResolveKeeps

LEMMA CallFailsKeeps ==
  ASSUME LifeInv, CallFails
  PROVE  LifeInv'
<1> DEFINE result == TransportError(spent >= FetchTimeout)
<1>1. result \in Results \ {Nothing}
  <2>1. ProviderUnavailableError \in Transient
    BY DEF Transient
  <2>2. Failure(ProviderUnavailableError, TRUE, 0) \in Failures
    BY <2>1, FailureIsResult, Parameters
  <2>3. result \in {Unclassified} \/ result \in Failures
    BY <2>2, Zenon DEF TransportError
  <2>4. QED
    BY <2>3, SomeResult
<1>2. Resolve(result) /\ stage = "call" /\ UNCHANGED <<row, age, due, locked, cooling>>
  BY DEF CallFails
<1> HIDE DEF result
<1>3. cooling' \in 0..MaxDuration
  BY <1>2 DEF LifeInv, LifeTypeOK
<1>4. QED
  BY <1>1, <1>2, <1>3, ResolveKeeps

LEMMA BodyFailsKeeps ==
  ASSUME LifeInv, BodyFails
  PROVE  LifeInv'
<1>1. BodyError \in Results \ {Nothing}
  <2>1. MalformedResponse \in Permanent
    BY DEF Permanent
  <2>2. BodyError \in Failures
    BY <2>1, FailureIsResult, Parameters DEF BodyError
  <2>3. QED
    BY <2>2, SomeResult
<1>2. Resolve(BodyError) /\ stage = "body" /\ UNCHANGED <<row, age, due, locked, cooling>>
  BY DEF BodyFails
<1>3. cooling' \in 0..MaxDuration
  BY <1>2 DEF LifeInv, LifeTypeOK
<1>4. QED
  BY <1>1, <1>2, <1>3, ResolveKeeps

LEMMA AnsweredKeeps ==
  ASSUME LifeInv, Answered
  PROVE  LifeInv'
<1>1. PICK status \in HTTPStatuses, header \in Headers, body \in Bodies :
        AnswerWith(Answer(status, header, body))
  BY Zenon DEF Answered, AnsweredFrom
<1> DEFINE answer == Answer(status, header, body)
<1>2. answer \in Failures \/ \E rate \in Rates : answer = Quoted(rate)
  BY AnswerIsResult
<1>3. AnswerWith(answer)
  BY <1>1
<1> HIDE DEF answer
<1>4. stage = "body" /\ UNCHANGED <<row, age, due, locked>>
  BY <1>3 DEF AnswerWith
<1>5. cooling \in 0..MaxDuration
  BY DEF LifeInv, LifeTypeOK
<1>6. CASE answer.kind = "error"
  <2>1. answer \in Failures
    BY <1>2, <1>6, Kinds
  <2>2. Resolve(answer) /\ cooling' = Cooled(answer.retryAfter)
    BY <1>3, <1>6 DEF AnswerWith
  <2>3. answer.retryAfter \in Durations
    BY <2>1, Kinds
  <2>4. cooling' \in 0..MaxDuration
    BY <1>5, <2>2, <2>3, Parameters DEF Cooled, Durations
  <2>5. answer \in Results \ {Nothing}
    BY <2>1, SomeResult
  <2>6. QED
    BY <1>4, <2>2, <2>4, <2>5, ResolveKeeps
<1>7. CASE answer.kind = "quote"
  <2>1. \E rate \in Rates : answer = Quoted(rate)
    BY <1>2, <1>7, Kinds
  <2>2. /\ Resolve(answer) \/ Resolve(Failure(MalformedResponse, FALSE, 0))
        /\ cooling' = cooling
    BY <1>3, <1>7, Zenon DEF AnswerWith
  <2>3. answer \in Results \ {Nothing}
    BY <2>1, SomeResult
  <2>4. Failure(MalformedResponse, FALSE, 0) \in Results \ {Nothing}
    <3>1. MalformedResponse \in Permanent
      BY DEF Permanent
    <3>2. Failure(MalformedResponse, FALSE, 0) \in Failures
      BY <3>1, FailureIsResult, Parameters
    <3>3. QED
      BY <3>2, SomeResult
  <2>5. cooling' \in 0..MaxDuration
    BY <1>5, <2>2
  <2>6. QED
    BY <1>4, <2>2, <2>3, <2>4, <2>5, ResolveKeeps
<1>8. QED
  BY <1>3, <1>6, <1>7, Zenon DEF AnswerWith

-----------------------------------------------------------------------------
(* What Worker.fail writes.                                                *)

\* A recorded failure waits, or says why it does not.
LEMMA WrittenFailureKeeps ==
  ASSUME LifeInv, stage = "resolved",
         NEW code \in Codes, NEW retryable \in BOOLEAN, NEW retryAfter \in Durations,
         WriteFailure(code, retryable, retryAfter),
         retryable => code \in Transient /\ ~BudgetSpent,
         ~retryable => code \in Permanent
                         \/ (BudgetSpent /\ code \in {AttemptsExhaustedCode, InternalError}),
         stage' = "none", res' = Nothing, locked' = 0,
         UNCHANGED <<age, cooling>>
  PROVE  LifeInv'
<1> DEFINE status == IF retryable THEN StatusPending ELSE StatusFailed
<1>1. row \in Rows /\ row.status = StatusInProgress /\ row.attempts \in 1..MaxAttempts
  BY DEF LifeInv, LifeTypeOK, RowOK, Rows
<1>2. row' \in Rows /\ row'.status = status /\ row'.attempts = row.attempts /\ row'.code = code
  <2>1. status \in Statuses
    BY DEF Statuses
  <2>2. row' = Handed(row, status, code)
    BY Zenon DEF WriteFailure, Handed
  <2> HIDE DEF status
  <2>3. QED
    BY <1>1, <2>1, <2>2, HandedIsRow, ZenonT(30)
<1>3. due' \in 0..MaxDuration
  <2>1. PICK quarters \in JitterQuarters :
          LET wait == Jittered(Delay(row.attempts, retryAfter), quarters)
          IN  due' = IF retryable THEN (IF wait > 0 THEN wait ELSE 0) ELSE due
    BY Zenon DEF WriteFailure
  <2>2. Delay(row.attempts, retryAfter) \in 1..MaxDuration
    BY <1>1, DelayInRange
  <2>3. quarters \in 3..5
    BY Parameters
  <2>4. LET wait == Jittered(Delay(row.attempts, retryAfter), quarters)
        IN  (IF wait > 0 THEN wait ELSE 0) \in 0..MaxDuration
    BY <2>2, <2>3, JitterSpreads, Zenon
  <2>5. due \in 0..MaxDuration
    BY DEF LifeInv, LifeTypeOK
  <2>6. QED
    BY <2>1, <2>4, <2>5, Zenon
<1>4. RowOK'
  BY <1>2 DEF RowOK, StatusPending, StatusFailed, StatusInProgress
<1>5. BudgetSpent' <=> BudgetSpent
  BY <1>2 DEF BudgetSpent
<1>6. FailureExplained'
  <2>1. CASE retryable
    <3>1. row'.attempts < MaxAttempts
      BY <1>1, <1>2, <2>1, Parameters DEF BudgetSpent
    <3>2. QED
      BY <1>2, <2>1, <3>1 DEF FailureExplained, StatusPending, StatusFailed
  <2>2. CASE ~retryable
    <3>1. Permanent \cap {AttemptsExhaustedCode, InternalError} = {}
      BY DEF Permanent, AttemptsExhaustedCode, InternalError, InvalidRequestError,
             UnsupportedPairError, AuthError, QuotaExceededError, MalformedResponse
    <3>2. QED
      BY <1>2, <1>5, <2>2, <3>1 DEF FailureExplained, StatusPending, StatusFailed
  <2>3. QED
    BY <2>1, <2>2
<1>7. LifeTypeOK'
  <2>1. /\ age' \in 0..MaxLifetime /\ cooling' \in 0..MaxDuration
        /\ locked' \in 0..VisibilityTimeout + 1
    BY Parameters DEF LifeInv, LifeTypeOK
  <2>2. row'.status \in Statuses /\ row'.attempts \in 0..MaxAttempts
    BY <1>2 DEF Rows
  <2>3. QED
    BY <1>3, <2>1, <2>2 DEF LifeTypeOK
<1>8. res' \in Results
  BY DEF Results
<1>9. QED
  BY <1>4, <1>6, <1>7, <1>8 DEF LifeInv

\* A budget that is spent turns a transient failure into giving up.
LEMMA FailureCodes ==
  ASSUME NEW failure \in Failures
  PROVE  /\ FailureCode(failure) \in Codes
         /\ failure.retryable /\ ~BudgetSpent => FailureCode(failure) \in Transient
         /\ ~(failure.retryable /\ ~BudgetSpent) =>
              FailureCode(failure) \in Permanent
                \/ (BudgetSpent /\ FailureCode(failure) = AttemptsExhaustedCode)
<1>1. /\ failure.retryable \in BOOLEAN
      /\ failure.retryable => failure.code \in Transient
      /\ ~failure.retryable => failure.code \in Permanent
  BY Kinds
<1>2. Transient \subseteq Codes /\ Permanent \subseteq Codes /\ AttemptsExhaustedCode \in Codes
  BY DEF Codes
<1>3. CASE failure.retryable /\ BudgetSpent
  <2>1. FailureCode(failure) = AttemptsExhaustedCode
    BY <1>3 DEF FailureCode
  <2>2. QED
    BY <1>2, <1>3, <2>1, Zenon
<1>4. CASE ~(failure.retryable /\ BudgetSpent)
  <2>1. FailureCode(failure) = failure.code
    BY <1>4 DEF FailureCode
  <2>2. QED
    BY <1>1, <1>2, <1>4, <2>1
<1>5. QED
  BY <1>3, <1>4, Zenon

LEMMA RecordKeeps ==
  ASSUME LifeInv, Record
  PROVE  LifeInv'
<1>1. /\ stage = "resolved" /\ stage' = "none" /\ res' = Nothing /\ locked' = 0
      /\ UNCHANGED <<age, cooling>>
  BY DEF Record
<1>2. res \in Results /\ row \in Rows /\ row.status = StatusInProgress
  BY <1>1 DEF LifeInv, LifeTypeOK, RowOK
<1>3. ASSUME res.kind = "error",
             WriteFailure(FailureCode(res), res.retryable /\ ~BudgetSpent, res.retryAfter)
      PROVE  LifeInv'
  <2>1. PICK failure \in Failures : failure = res
    BY <1>2, <1>3, Kinds DEF Results
  <2>2. PICK code : code = FailureCode(failure)
    OBVIOUS
  <2>3. PICK retried : retried = (failure.retryable /\ ~BudgetSpent)
    OBVIOUS
  <2>4. /\ code \in Codes
        /\ retried => code \in Transient /\ ~BudgetSpent
        /\ ~retried => code \in Permanent
                         \/ (BudgetSpent /\ code \in {AttemptsExhaustedCode, InternalError})
    BY <2>2, <2>3, FailureCodes, Zenon
  <2>5. failure.retryAfter \in Durations
    BY Kinds
  <2>6. WriteFailure(code, retried, failure.retryAfter)
    BY <1>3, <2>1, <2>2, <2>3, Zenon
  <2>7. retried \in BOOLEAN
    BY <2>3
  <2>8. QED
    BY <1>1, <2>4, <2>5, <2>6, <2>7, WrittenFailureKeeps, Zenon
<1>4. ASSUME BudgetSpent, WriteFailure(InternalError, FALSE, 0)
      PROVE  LifeInv'
  <2>1. InternalError \in Codes /\ FALSE \in BOOLEAN
    BY DEF Codes
  <2>2. QED
    BY <1>1, <1>4, <2>1, Parameters, WrittenFailureKeeps
<1>5. ASSUME RecordSuccess
      PROVE  LifeInv'
  <2>1. row' = Handed(row, StatusSucceeded, NoError) /\ due' = due
    BY <1>5, Zenon DEF RecordSuccess, Handed
  <2>2. StatusSucceeded \in Statuses /\ NoError \in Codes
    BY DEF Statuses, Codes
  <2>3. row' \in Rows /\ row'.status = StatusSucceeded
    BY <1>2, <2>1, <2>2, HandedIsRow, Zenon
  <2>4. RowOK'
    BY <2>3 DEF RowOK, StatusSucceeded, StatusInProgress
  <2>5. FailureExplained'
    BY <2>3 DEF FailureExplained, StatusSucceeded, StatusPending, StatusFailed
  <2>6. /\ age' \in 0..MaxLifetime /\ cooling' \in 0..MaxDuration /\ due' \in 0..MaxDuration
        /\ locked' \in 0..VisibilityTimeout + 1
    BY <1>1, <2>1, Parameters DEF LifeInv, LifeTypeOK
  <2>7. row'.status \in Statuses /\ row'.attempts \in 0..MaxAttempts
    BY <2>3 DEF Rows
  <2>8. LifeTypeOK' /\ res' \in Results
    BY <1>1, <2>6, <2>7 DEF LifeTypeOK, Results
  <2>9. QED
    BY <2>4, <2>5, <2>8 DEF LifeInv
<1>6. QED
  BY <1>3, <1>4, <1>5, Zenon DEF Record, RecordFailure

LEMMA TickKeeps ==
  ASSUME LifeInv, Tick
  PROVE  LifeInv'
<1>1. UNCHANGED <<row, stage, res>> /\ ~Ended
  BY DEF Tick
<1>2. RowOK' /\ FailureExplained'
  BY <1>1, RowKept
<1>3. /\ age' \in 0..MaxLifetime /\ due' \in 0..MaxDuration /\ cooling' \in 0..MaxDuration
      /\ locked' \in 0..VisibilityTimeout + 1
  <2>1. /\ age \in 0..MaxLifetime /\ due \in 0..MaxDuration /\ cooling \in 0..MaxDuration
        /\ locked \in 0..VisibilityTimeout + 1
    BY DEF LifeInv, LifeTypeOK
  <2>2. /\ age' = Up(age, MaxLifetime) /\ due' = Down(due) /\ cooling' = Down(cooling)
        /\ locked' = Up(locked, VisibilityTimeout + 1) \/ locked' = locked
    BY DEF Tick
  <2>3. QED
    BY <2>1, <2>2, Parameters DEF Up, Down
<1>4. LifeTypeOK'
  BY <1>1, <1>3 DEF LifeInv, LifeTypeOK
<1>5. QED
  BY <1>1, <1>2, <1>4 DEF LifeInv

LEMMA LifeInvNext == LifeInv /\ [LifeNext]_lifeVars => LifeInv'
<1> SUFFICES ASSUME LifeInv, [LifeNext]_lifeVars PROVE LifeInv'
  OBVIOUS
<1>1. cooling \in 0..MaxDuration /\ (stage # "none" => row.status = StatusInProgress)
  BY DEF LifeInv, LifeTypeOK
<1>2. stage \in {"fetch", "call"} => res = Nothing
  BY DEF LifeInv, LifeTypeOK
<1>3. CASE Claim
  BY <1>3, ClaimKeeps
<1>4. CASE ReadEnds
  BY <1>4, ReadEndsKeeps
<1>5. CASE Denied
  BY <1>5, DeniedKeeps
<1>6. CASE Call
  BY <1>1, <1>2, <1>6, NoResultKeeps DEF Call
<1>7. CASE CallFails
  BY <1>7, CallFailsKeeps
<1>8. CASE Headed
  BY <1>1, <1>2, <1>8, NoResultKeeps DEF Headed
<1>9. CASE BodyFails
  BY <1>9, BodyFailsKeeps
<1>10. CASE Answered
  BY <1>10, AnsweredKeeps
<1>11. CASE Record
  BY <1>11, RecordKeeps
<1>12. CASE Unrecorded
  BY <1>1, <1>12, NoResultKeeps DEF Unrecorded
<1>13. CASE Lost
  BY <1>1, <1>13, NoResultKeeps DEF Lost
<1>14. CASE Crash
  <2>1. cooling' \in 0..MaxDuration
    BY <1>14, Parameters DEF Crash
  <2>2. QED
    BY <1>14, <2>1, NoResultKeeps DEF Crash
<1>15. CASE Tick
  BY <1>15, TickKeeps
<1>16. CASE UNCHANGED lifeVars
  <2>1. UNCHANGED <<row, age, due, locked, stage, res, cooling>>
    BY <1>16 DEF lifeVars
  <2>2. LifeTypeOK' /\ RowOK' /\ FailureExplained' /\ res' \in Results
    BY <2>1 DEF LifeInv, LifeTypeOK, RowOK, FailureExplained, BudgetSpent
  <2>3. QED
    BY <2>2 DEF LifeInv
<1>17. QED
  BY <1>3, <1>4, <1>5, <1>6, <1>7, <1>8, <1>9, <1>10, <1>11, <1>12, <1>13, <1>14,
     <1>15, <1>16, Zenon DEF LifeNext

\* What is true of a request, its worker and the limiter after any sequence of
\* claims, reclaims, answers, losses and crashes.
THEOREM LifeInvariant == LifeSpec => []LifeInv
<1>1. LifeInit => LifeInv
  BY LifeInvInit
<1>2. LifeInv /\ [LifeNext]_lifeVars => LifeInv'
  BY LifeInvNext
<1>3. QED
  BY <1>1, <1>2, PTL DEF LifeSpec

\* The type invariant: wrapped products, headers and jitter leave every wait
\* within a Duration, and a request never has more than its attempts.
THEOREM LifeTypesCorrect == LifeSpec => []LifeTypeOK
<1>1. LifeInv => LifeTypeOK
  BY DEF LifeInv
<1>2. QED
  BY <1>1, LifeInvariant, PTL

\* The code of an ended or waiting request tells the truth (worker.go, fail).
THEOREM FailuresExplained == LifeSpec => []FailureExplained
<1>1. LifeInv => FailureExplained
  BY DEF LifeInv
<1>2. QED
  BY <1>1, LifeInvariant, PTL

-----------------------------------------------------------------------------
(* The backoff, step by step.                                              *)

\* A step that hands a row back hands it back for its backoff.
LEMMA HandedBackWaits ==
  ASSUME ProductTells, LifeInv, [LifeNext]_lifeVars,
         row.status = StatusInProgress, row'.status = StatusPending
  PROVE  LET wait == Wanted(row.attempts, res.retryAfter) IN
         (wait * 5) \div 4 <= MaxDuration =>
           3 * wait - 3 <= 4 * due' /\ 4 * due' <= 5 * wait
<1>1. Record
  <2>1. row' # row
    BY DEF StatusInProgress, StatusPending
  <2>2. ~Claim
    <3>1. ASSUME Claim PROVE row'.status = StatusInProgress
      BY <3>1 DEF Claim, LifeInv, RowOK, Rows
    <3>2. QED
      BY <3>1 DEF StatusInProgress, StatusPending
  <2>3. QED
    BY <2>1, <2>2 DEF LifeNext, lifeVars, ReadEnds, Denied, Call, CallFails, Headed,
                      BodyFails, Answered, AnsweredFrom, AnswerWith, Unrecorded, Lost,
                      Crash, Tick
<1>2. row \in Rows /\ row.attempts \in 1..MaxAttempts /\ res \in Results
  BY DEF LifeInv, RowOK, Rows
<1>3. PICK failure \in Failures :
        /\ failure = res
        /\ failure.retryable /\ ~BudgetSpent
        /\ WriteFailure(FailureCode(res), failure.retryable /\ ~BudgetSpent, failure.retryAfter)
  <2>1. ASSUME NEW code, WriteFailure(code, FALSE, 0) PROVE FALSE
    <3>1. row' = [row EXCEPT !.status = StatusFailed, !.code = code]
      BY <2>1 DEF WriteFailure
    <3>2. row'.status = StatusFailed
      BY <1>2, <3>1 DEF Rows
    <3>3. QED
      BY <3>2 DEF StatusFailed, StatusPending
  <2>2. ~RecordSuccess
    <3>1. ASSUME RecordSuccess PROVE FALSE
      <4>1. row' = [row EXCEPT !.status = StatusSucceeded, !.code = NoError]
        BY <3>1 DEF RecordSuccess
      <4>2. row'.status = StatusSucceeded
        BY <1>2, <4>1 DEF Rows
      <4>3. QED
        BY <4>2 DEF StatusSucceeded, StatusPending
    <3>2. QED
      BY <3>1
  <2>3. /\ res.kind = "error"
        /\ WriteFailure(FailureCode(res), res.retryable /\ ~BudgetSpent, res.retryAfter)
    BY <1>1, <2>1, <2>2, Zenon DEF Record, RecordFailure
  <2>4. PICK failure \in Failures : failure = res
    BY <1>2, <2>3, Kinds DEF Results
  <2>5. ASSUME ~(res.retryable /\ ~BudgetSpent) PROVE FALSE
    <3>1. row' = [row EXCEPT !.status = StatusFailed, !.code = FailureCode(res)]
      BY <2>3, <2>5, Zenon DEF WriteFailure
    <3>2. row'.status = StatusFailed
      BY <1>2, <3>1 DEF Rows
    <3>3. QED
      BY <3>2 DEF StatusFailed, StatusPending
  <2>6. QED
    BY <2>3, <2>4, <2>5, Zenon
<1>4. PICK quarters \in JitterQuarters :
        due' = LET wait == Jittered(Delay(row.attempts, failure.retryAfter), quarters)
               IN  IF wait > 0 THEN wait ELSE 0
  BY <1>3, Zenon DEF WriteFailure
<1>5. failure.retryAfter \in Durations
  BY Kinds
<1>6. PICK delay \in 1..MaxDuration : delay = Delay(row.attempts, failure.retryAfter)
  BY <1>2, <1>5, DelayInRange
<1>7. delay = Wanted(row.attempts, res.retryAfter)
  BY <1>2, <1>3, <1>5, <1>6, DelayIsWanted, Zenon
<1>8. quarters \in 3..5
  BY Parameters
<1>9. due' = LET wait == Jittered(delay, quarters) IN IF wait > 0 THEN wait ELSE 0
  BY <1>4, <1>6, Zenon
<1>10. (delay * 5) \div 4 <= MaxDuration =>
         3 * delay - 3 <= 4 * due' /\ 4 * due' <= 5 * delay
  BY <1>8, <1>9, JitterSpreads
<1>11. QED
  BY <1>7, <1>10, Zenon

\* If a wrapped product is never mistaken for one below the cap, a row handed
\* back waits for its capped backoff or its Retry-After, give or take a quarter.
THEOREM BackoffIsKept == ProductTells => (LifeSpec => BackoffKept)
<1> SUFFICES ASSUME ProductTells PROVE LifeSpec => BackoffKept
  OBVIOUS
<1>1. LifeInv /\ [LifeNext]_lifeVars =>
        [row.status = StatusInProgress /\ row'.status = StatusPending =>
           LET wait == Wanted(row.attempts, res.retryAfter) IN
           (wait * 5) \div 4 <= MaxDuration =>
             3 * wait - 3 <= 4 * due' /\ 4 * due' <= 5 * wait]_lifeVars
  BY HandedBackWaits
<1>2. QED
  BY <1>1, LifeInvariant, PTL DEF LifeSpec, BackoffKept
=============================================================================
