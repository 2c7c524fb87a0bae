------------------------------- MODULE Config -------------------------------
(***************************************************************************)
(* config.Load: which environments the server starts with, and the         *)
(* settings the other modules' constants stand for.  Durations are whole   *)
(* seconds.  Listen address, log level and CORS origins are left out.      *)
(***************************************************************************)
EXTENDS Integers, FiniteSetsExt, Functions

\* What an environment variable holds.
Unset      == [kind |-> "unset"]
Unreadable == [kind |-> "unreadable"]
Number(n)  == [kind |-> "number", n |-> n]

-----------------------------------------------------------------------------
(* Numeric settings: durations and counts.                                 *)

\* Those that must be positive, with their defaults.
PositiveDefaults ==
  [ReadTimeout |-> 5, ReadHeaderTimeout |-> 5, WriteTimeout |-> 10,
   IdleTimeout |-> 60, ShutdownTimeout |-> 10, QuoteTTL |-> 300,
   RateLimitPerMinute |-> 12, RateLimitPerHour |-> 100,
   DispatchTickInterval |-> 5, DispatchBatchSize |-> 100, DispatchPoolSize |-> 8,
   DispatchVisibilityTimeout |-> 120, DispatchBaseBackoff |-> 5,
   DispatchMaxBackoff |-> 300, DispatchMaxAttempts |-> 10,
   DispatchMaxLifetime |-> 3600, DispatchPassTimeout |-> 90,
   ProviderHTTPTimeout |-> 5, ProviderHTTPMaxIdleConnsPerHost |-> 8,
   ProviderHTTPIdleConnTimeout |-> 90]

\* Those for which zero means that something is off, or is left to pgxpool.
SwitchableDefaults ==
  [PostgresMaxConns |-> 0, PostgresMaxConnLifetime |-> 0,
   PostgresHealthCheckPeriod |-> 0, FakeProviderMinDelay |-> 0,
   FakeProviderMaxDelay |-> 0, FakeProviderRPMQuota |-> 0]

Settings == DOMAIN PositiveDefaults \cup DOMAIN SwitchableDefaults

\* durationEnv and intEnv, nonNegativeDurationEnv and nonNegativeIntEnv.
Readable(value, least) ==
  \/ value.kind = "unset"
  \/ value.kind = "number" /\ value.n >= least

ReadOr(value, default) == IF value.kind = "unset" THEN default ELSE value.n

\* The tables of Load.
SettingsReadable(env) ==
  /\ \A s \in DOMAIN PositiveDefaults   : Readable(env[s], 1)
  /\ \A s \in DOMAIN SwitchableDefaults : Readable(env[s], 0)

SettingsRead(env) ==
  [s \in Settings |-> ReadOr(env[s], IF s \in DOMAIN PositiveDefaults
                                       THEN PositiveDefaults[s]
                                       ELSE SwitchableDefaults[s])]

-----------------------------------------------------------------------------
(* What is checked across settings.                                        *)

\* A row at the back of the pool's queue is not worked before the pass is
\* nearly over.
LeaseCoversPass(cfg) == cfg.DispatchVisibilityTimeout >= cfg.DispatchPassTimeout

\* With its own default pgxpool has at least four connections, which nobody
\* compares with the dispatcher's pool.
ConnsCoverPool(cfg) ==
  cfg.PostgresMaxConns > 0 => cfg.PostgresMaxConns >= cfg.DispatchPoolSize

Accepts(env) ==
  /\ SettingsReadable(env)
  /\ LeaseCoversPass(SettingsRead(env))
  /\ ConnsCoverPool(SettingsRead(env))

\* An environment that sets some of the settings.
Setting(given) ==
  [s \in Settings |-> IF s \in DOMAIN given THEN Number(given[s]) ELSE Unset]

Defaults == SettingsRead(Setting([s \in {} |-> 0]))

-----------------------------------------------------------------------------
(* What the comments say of the numbers.                                   *)

Minimum(a, b) == IF a < b THEN a ELSE b

\* The longest sequence of backoffs before the attempts run out.
RetryLifetime(cfg) ==
  MapThenSumSet(LAMBDA a : Minimum(cfg.DispatchBaseBackoff * 2 ^ (a - 1),
                                   cfg.DispatchMaxBackoff),
                1..cfg.DispatchMaxAttempts - 1)

\* The worst case of a full batch: in every round of the pool every call runs
\* into its timeout.
BatchWorstCase(cfg) ==
  ((cfg.DispatchBatchSize + cfg.DispatchPoolSize - 1) \div cfg.DispatchPoolSize)
    * cfg.ProviderHTTPTimeout

\* config.go: a lifetime "comfortably above the normal retry lifetime", a pass
\* "comfortably above one full batch's worst case", headroom for the lease.
Comfortable(cfg) ==
  /\ 5 * RetryLifetime(cfg) < 4 * cfg.DispatchMaxLifetime
  /\ BatchWorstCase(cfg) < cfg.DispatchPassTimeout
  /\ cfg.DispatchVisibilityTimeout > cfg.DispatchPassTimeout
=============================================================================
