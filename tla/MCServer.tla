---- MODULE MCServer ----
(* Small instances of Server: two calls.                                   *)
EXTENDS Server, TLC

CONSTANTS c1, c2, k1, p1, p2

\* Two separate requests, a request and its retry, or two clients that use
\* one key for different pairs.
MCInputs ==
    {c1 :> [key |-> k, pair |-> p1] @@ c2 :> [key |-> k, pair |-> p] :
        k \in Keys \union {NoKey}, p \in Pairs}
        \ {c1 :> [key |-> NoKey, pair |-> p1] @@ c2 :> [key |-> NoKey, pair |-> p2]}
====
