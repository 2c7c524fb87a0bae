---------------------------- MODULE MCDispatcher ----------------------------
(***************************************************************************)
(* Small instances of Dispatcher.                                          *)
(***************************************************************************)
EXTENDS Dispatcher, TLC

\* The first replica's clock is MaxSkew behind every other's.
MCOffset == [r \in Replicas |-> IF r = CHOOSE s \in Replicas : TRUE THEN 0 ELSE MaxSkew]

\* An upstream's quote is of this instant or of two instants ahead.
MCQuotedAgo == {-2, 0}

\* Every instant a row or a quote may hold within the bounds.
MCTimes == 0..(MaxClock + MaxSkew + 4)

\* Every instance is one that config.Load lets run.
Loaded == INSTANCE Config
ASSUME InstanceIsLoadable ==
  Loaded!Accepts(Loaded!Setting(
    [DispatchBatchSize |-> BatchSize, DispatchPoolSize |-> PoolSize,
     DispatchVisibilityTimeout |-> VisibilityTimeout,
     DispatchPassTimeout |-> PassTimeout, DispatchMaxAttempts |-> MaxAttempts,
     DispatchMaxLifetime |-> MaxLifetime, DispatchBaseBackoff |-> BaseBackoff,
     DispatchMaxBackoff |-> MaxBackoff]))
=============================================================================
