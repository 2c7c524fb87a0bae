--------------------------- MODULE MCMemoryStore ---------------------------
(***************************************************************************)
(* A small instance of MemoryStore.                                        *)
(***************************************************************************)
EXTENDS MemoryStore

\* Two instants further apart than VisibilityTimeout, so the reaper acts.
MCTimes == {1, 3}
=============================================================================
