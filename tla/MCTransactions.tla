--------------------------- MODULE MCTransactions ---------------------------
(***************************************************************************)
(* A small instance of Transactions.                                       *)
(***************************************************************************)
EXTENDS Transactions, TLC

MCTimes == {1, 3}

MCSymmetry == Permutations(Sessions) \cup Permutations(QuoteIDs) \cup Permutations(UpdateIDs)
=============================================================================
