---------------------------- MODULE MCQuoteStore ----------------------------
(***************************************************************************)
(* A small instance of QuoteStore: two requests, which may ask for the     *)
(* same pair or not and may share an Idempotency-Key or not.               *)
(***************************************************************************)
EXTENDS QuoteStore, TLC

\* Two instants further apart than VisibilityTimeout, so the reaper acts.
MCTimes == {1, 3}

\* Nothing tells one id from another, nor one pair from another.
MCSymmetry == Permutations(UpdateIDs) \cup Permutations(Pairs)
=============================================================================
