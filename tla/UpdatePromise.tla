--------------------------- MODULE UpdatePromise ---------------------------
(***************************************************************************)
(* What the service promises its clients, whatever happens inside: a       *)
(* request is accepted once, an Idempotency-Key names one request for      *)
(* ever, a request is answered at most once and its answer never changes,  *)
(* and GET /quotes/latest never goes back in time nor behind an answer     *)
(* already given.  QuoteStore implements this module.                      *)
(***************************************************************************)
EXTENDS QuoteDomain

CONSTANTS UpdateIDs, Pairs, Keys, NoKey, Providers, Times

VARIABLES
  request,  \* the accepted requests: what each one asked for
  answer,   \* the answer of every accepted request, Open until it has one
  latest    \* quoted_at of each pair's most recent quote, 0 before the first

promiseVars == <<request, answer, latest>>

Open == [kind |-> "open"]

\* The answers a request for pair p may get: a quote of p, or an error code.
QuoteAnswer(p, provider, quotedAt, staleAfter) ==
  [kind  |-> "quote",
   quote |-> [pair |-> p, provider |-> provider, quotedAt |-> quotedAt,
              staleAfter |-> staleAfter]]

ErrorAnswer(code) == [kind |-> "error", code |-> code]

Later(s, t) == IF s < t THEN t ELSE s

PromiseInit ==
  /\ request = [u \in {} |-> NoKey]
  /\ answer  = [u \in {} |-> Open]
  /\ latest  = [p \in Pairs |-> 0]

Accept(u, p, k) ==
  /\ u \notin DOMAIN request
  /\ k = NoKey \/ \A v \in DOMAIN request : request[v].key # k
  /\ request' = [v \in DOMAIN request \cup {u} |->
                   IF v = u THEN [pair |-> p, key |-> k] ELSE request[v]]
  /\ answer' = [v \in DOMAIN request \cup {u} |->
                  IF v = u THEN Open ELSE answer[v]]
  /\ UNCHANGED latest

AnswerQuote(u, provider, quotedAt, staleAfter) ==
  /\ answer[u] = Open
  /\ answer' = [answer EXCEPT ![u] =
       QuoteAnswer(request[u].pair, provider, quotedAt, staleAfter)]
  /\ latest' = [latest EXCEPT ![request[u].pair] = Later(@, quotedAt)]
  /\ UNCHANGED request

AnswerError(u, code) ==
  /\ answer[u] = Open
  /\ answer' = [answer EXCEPT ![u] = ErrorAnswer(code)]
  /\ UNCHANGED <<request, latest>>

PromiseNext ==
  \/ \E u \in UpdateIDs, p \in Pairs, k \in Keys \cup {NoKey} : Accept(u, p, k)
  \/ \E u \in DOMAIN request :
       \/ \E provider \in Providers, quotedAt, staleAfter \in Times :
            AnswerQuote(u, provider, quotedAt, staleAfter)
       \/ \E code \in ErrorCodes : AnswerError(u, code)

PromiseSpec == PromiseInit /\ [][PromiseNext]_promiseVars
=============================================================================
