--------------------------- MODULE MCRequestLife ---------------------------
(***************************************************************************)
(* A small instance of RequestLife.                                        *)
(***************************************************************************)
EXTENDS RequestLife, TLC

\* With five bits and two units to the second: 14 (which a jitter of 5/4
\* pushes out of range), -12 and 2 once wrapped; and a date gone by.
MCHeaders == {NoHeader, InSeconds(7), InSeconds(10), InSeconds(17), AtDate(-1)}

\* Zero, storable and too large; undated, current and too far ahead.
MCRates == [value: 0..2, quotedAt: {0, 1, 3}]

\* Attempts 4 to 6 wrap, to -16 and to 0.
ASSUME InstanceTells == ProductTells

\* The instance is one that config.Load lets run, and the defaults keep the
\* distances config.go claims for them.
Loaded == INSTANCE Config
ASSUME InstanceIsLoadable ==
  Loaded!Accepts(Loaded!Setting(
    [DispatchVisibilityTimeout |-> VisibilityTimeout,
     DispatchPassTimeout |-> FetchTimeout, ProviderHTTPTimeout |-> ClientTimeout,
     DispatchMaxAttempts |-> MaxAttempts, DispatchMaxLifetime |-> MaxLifetime,
     DispatchBaseBackoff |-> BaseBackoff, DispatchMaxBackoff |-> MaxBackoff]))
ASSUME DefaultsComfortable == Loaded!Comfortable(Loaded!Defaults)
=============================================================================
