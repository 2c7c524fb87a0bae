---------------------------- MODULE QuoteDomain ----------------------------
(***************************************************************************)
(* The domain types of internal/domain/quotes: the statuses of an update   *)
(* request and the moves between them, and the validation of a rate that   *)
(* came from the upstream.  Instants are naturals; 0 is Go's zero time.    *)
(***************************************************************************)
EXTENDS Integers

StatusPending    == "pending"
StatusInProgress == "in_progress"
StatusSucceeded  == "succeeded"
StatusFailed     == "failed"

Statuses == {StatusPending, StatusInProgress, StatusSucceeded, StatusFailed}

\* validNextStatuses / CanTransitionTo: a terminal status has no successor.
CanTransitionTo(s, next) ==
  \/ s = StatusPending    /\ next = StatusInProgress
  \/ s = StatusInProgress /\ next \in {StatusSucceeded, StatusFailed, StatusPending}

\* The error codes the model tells apart.  NoError is a NULL error_code.
\* "provider" stands for every code an adapter's classification table yields.
NoError               == "none"
RateLimitedError      == "rate_limited"
MalformedResponse     == "malformed_response"
InternalError         == "internal_error"
ProviderError         == "provider"
AttemptsExhaustedCode == "attempts_exhausted"

ErrorCodes == {RateLimitedError, MalformedResponse, InternalError,
               ProviderError, AttemptsExhaustedCode}

\* NewCurrencyRate accepts a raw upstream quote only if its value is positive,
\* its quoted_at is set, and quoted_at is at most skew ahead of fetchedAt.
NewCurrencyRateAccepts(raw, fetchedAt, skew) ==
  /\ raw.value > 0
  /\ raw.quotedAt # 0
  /\ raw.quotedAt <= fetchedAt + skew
=============================================================================
