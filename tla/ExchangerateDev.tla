--------------------------- MODULE ExchangerateDev ---------------------------
(***************************************************************************)
(* The exchangerate.dev adapter (internal/provider/exchangeratedev): what  *)
(* it makes of an upstream's answer.  Durations are Width-bit integers, as *)
(* time.Duration is an int64; one unit stands for a nanosecond and Second  *)
(* for a second of them.                                                   *)
(***************************************************************************)
EXTENDS QuoteDomain

CONSTANTS
  Width,   \* bits of a time.Duration
  Second   \* units of a second

ASSUME WidthAssumption == Width \in Nat \ {0, 1} /\ Second \in Nat \ {0}

MaxDuration == 2 ^ (Width - 1) - 1
MinDuration == -(2 ^ (Width - 1))

\* Arithmetic, spelled out for provers that have no rules for powers.
ASSUME RangeAssumption ==
  2 ^ (Width - 1) \in Nat \ {0} /\ 2 ^ Width = 2 * 2 ^ (Width - 1)

\* The two's complement value that x has in a time.Duration.
Wrap(x) == ((x - MinDuration) % 2 ^ Width) + MinDuration

-----------------------------------------------------------------------------
(* The codes the domain has for an upstream's failures.                    *)

InvalidRequestError       == "invalid_request"
UnsupportedPairError      == "unsupported_pair"
AuthError                 == "auth_error"
QuotaExceededError        == "quota_exceeded"
ProviderUnavailableError  == "provider_unavailable"
UnclassifiedProviderError == "unclassified_provider"

\* What a call to a provider comes back with: a quote, a classified error, or
\* an error the adapter passes through as it is.
Quoted(rate) == [kind |-> "quote", rate |-> rate]
Failure(code, retryable, retryAfter) ==
  [kind |-> "error", code |-> code, retryable |-> retryable, retryAfter |-> retryAfter]
Unclassified == [kind |-> "unclassified"]

-----------------------------------------------------------------------------
(* The upstream's side: a Retry-After header and a body.                   *)

NoHeader           == [kind |-> "none"]
InSeconds(n)       == [kind |-> "seconds", n |-> n]
AtDate(ahead)      == [kind |-> "date", ahead |-> ahead]  \* negative: past

Garbage            == [kind |-> "garbage"]                \* not JSON, or over the size limit
SuccessBody(rate)  == [kind |-> "success", rate |-> rate]
Unpriced           == [kind |-> "unpriced"]               \* a rate that does not parse
ErrorBody(code)    == [kind |-> "error", code |-> code]

ClassifiedCodes ==
  {"invalid_pair", "unsupported_base", "bad_date", "invalid_amount",
   "invalid_request", "missing_parameter", "no_data_for_date",
   "data_unavailable", "live_unavailable", "source_unavailable",
   "service_unavailable", "auth_unavailable", "invalid_api_key", "forbidden",
   "rate_limited", "ip_rate_limited", "quota_exceeded", "quota_unavailable"}

\* The codes of the table and one it lacks.
UpstreamCodes == ClassifiedCodes \cup {"new_code"}

-----------------------------------------------------------------------------
(* errorClassification and classifyError.                                  *)

Classified(code, retryAfter) ==
  CASE code \in {"invalid_pair", "unsupported_base"} ->
         Failure(UnsupportedPairError, FALSE, retryAfter)
    [] code \in {"bad_date", "invalid_amount", "invalid_request",
                 "missing_parameter", "no_data_for_date"} ->
         Failure(InvalidRequestError, FALSE, retryAfter)
    [] code \in {"data_unavailable", "live_unavailable", "source_unavailable",
                 "service_unavailable", "auth_unavailable", "quota_unavailable"} ->
         Failure(ProviderUnavailableError, TRUE, retryAfter)
    [] code \in {"invalid_api_key", "forbidden"} -> Failure(AuthError, FALSE, retryAfter)
    [] code \in {"rate_limited", "ip_rate_limited"} ->
         Failure(RateLimitedError, TRUE, retryAfter)
    [] code = "quota_exceeded" -> Failure(QuotaExceededError, FALSE, retryAfter)
    [] OTHER -> Failure(UnclassifiedProviderError, TRUE, retryAfter)

\* parseRetryAfter: whole seconds, then a date, else nothing.  The product of
\* the seconds wraps; a past date gives a negative wait.
ParseRetryAfter(header) ==
  CASE header.kind = "seconds" -> Wrap(header.n * Second)
    [] header.kind = "date"    -> header.ahead
    [] header.kind = "none"    -> 0

\* errorFromBody: without a code there is nothing to classify, and the status
\* decides.
ErrorFromBody(status, header, body) ==
  IF body.kind = "error" THEN Classified(body.code, ParseRetryAfter(header))
                         ELSE Failure(MalformedResponse, status >= 500, 0)

\* GetCurrencyRate, once the whole body is there.
Answer(status, header, body) ==
  IF status # 200 \/ body.kind \in {"garbage", "error"}
    THEN ErrorFromBody(status, header, body)
  ELSE IF body.kind = "unpriced" THEN Failure(MalformedResponse, FALSE, 0)
  ELSE Quoted(body.rate)

\* GetCurrencyRate, when httpClient.Do fails: an ended context is the caller's
\* own, anything else is the upstream's.
TransportError(contextEnded) ==
  IF contextEnded THEN Unclassified ELSE Failure(ProviderUnavailableError, TRUE, 0)

\* GetCurrencyRate, when the connection ends before the body does.
BodyError == Failure(MalformedResponse, FALSE, 0)
=============================================================================
