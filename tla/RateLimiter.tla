---------------------------- MODULE RateLimiter ----------------------------
(***************************************************************************)
(* RateLimiter of internal/usecase/quotes: two sliding windows over the    *)
(* limiter's own call history, and a cooldown an upstream's Retry-After    *)
(* sets.  Allow and CoolDown are atomic (a mutex), but their argument is   *)
(* read from the clock before the lock is taken, so callers may get the    *)
(* lock in another order than the one they read the clock in.              *)
(*                                                                         *)
(* The slice calls is the set of its elements, each with the serial number *)
(* of its append: the slice's order is the order of the serials.           *)
(***************************************************************************)
EXTENDS Integers, FiniteSets

CONSTANTS
  Callers,           \* the fetches that may be in flight at once
  Minute, Hour,      \* lengths of the two windows
  PerMinute,         \* RATE_LIMIT_PER_MINUTE, 0 means no limit
  PerHour,           \* RATE_LIMIT_PER_HOUR, 0 means no limit
  RetryAfters,       \* the Retry-After values an upstream may send
  ReadLag,           \* bound: ticks between reading the clock and the lock
  MaxClock           \* bound on the clock, for model checking

ASSUME LimiterAssumption ==
  /\ Minute \in Nat \ {0} /\ Hour \in Nat \ {0}
  /\ PerMinute \in Nat /\ PerHour \in Nat
  /\ ReadLag \in Nat /\ MaxClock \in Nat
  /\ RetryAfters \subseteq Nat \ {0}
  /\ Minute + ReadLag <= Hour

VARIABLES
  clock,         \* the process clock
  calls,         \* RateLimiter.calls
  blockedUntil,  \* RateLimiter.blockedUntil, 0 is the zero time
  caller,        \* where each caller of the limiter is
  granted,       \* history: every call the limiter ever admitted
  promised,      \* history: the latest instant any CoolDown was given
  serial         \* history: number of calls ever admitted

vars == <<clock, calls, blockedUntil, caller, granted, promised, serial>>

Call == [n : Nat, at : Nat]

\* t is the argument of the call to come, or the retryAfter Allow returned.
Caller == [pc : {"idle", "allow", "fetch", "coolDown", "denied"}, t : Nat]

Idle == [pc |-> "idle", t |-> 0]

-----------------------------------------------------------------------------
(* What Allow(now) computes from the fields it reads under the lock.       *)

Blocked(now) == now < blockedUntil

\* Mutant: the hour's cutoff computed from the minute.
Kept_MinuteOnly(now) == {c \in calls : c.at > now - Minute}

\* The slice after the pruning loop.
Kept(now) == {c \in calls : c.at > now - Hour}

InMinute(now) == {c \in Kept(now) : c.at > now - Minute}

\* Mutant: "one more fits" off by one.
HourFull_OffByOne(now) == PerHour > 0 /\ Cardinality(Kept(now)) > PerHour

HourFull(now) == PerHour > 0 /\ Cardinality(Kept(now)) >= PerHour

\* Mutant: the minute's limit is never looked at.
MinuteFull_Unchecked(now) == FALSE

MinuteFull(now) == PerMinute > 0 /\ Cardinality(InMinute(now)) >= PerMinute

\* calls[0], and the first element kept that is inside the minute.
First(C) == CHOOSE c \in C : \A d \in C : c.n <= d.n

\* Mutant: the wait for the hour leaves the hour out.
RetryAfter_FromNow(now) ==
  IF Blocked(now) THEN blockedUntil - now
  ELSE IF HourFull(now) THEN First(Kept(now)).at - now
  ELSE First(InMinute(now)).at + Minute - now

RetryAfter(now) ==
  IF Blocked(now) THEN blockedUntil - now
  ELSE IF HourFull(now) THEN First(Kept(now)).at + Hour - now
  ELSE First(InMinute(now)).at + Minute - now

Admits(now) == ~Blocked(now) /\ ~HourFull(now) /\ ~MinuteFull(now)

-----------------------------------------------------------------------------
(* Actions.                                                                *)

Init ==
  /\ clock = 0
  /\ calls = {}
  /\ blockedUntil = 0
  /\ caller = [c \in Callers |-> Idle]
  /\ granted = {} /\ promised = 0 /\ serial = 0

\* w.clock.Now(), the argument of Allow, is evaluated before the call.
ReadClock(c) ==
  /\ caller[c].pc = "idle"
  /\ caller' = [caller EXCEPT ![c] = [pc |-> "allow", t |-> clock]]
  /\ UNCHANGED <<clock, calls, blockedUntil, granted, promised, serial>>

\* Allow denies: a cooldown returns before the pruning loop.
Deny(c) ==
  LET now == caller[c].t IN
  /\ caller[c].pc = "allow"
  /\ ~Admits(now)
  /\ calls' = IF Blocked(now) THEN calls ELSE Kept(now)
  /\ caller' = [caller EXCEPT ![c] = [pc |-> "denied", t |-> RetryAfter(now)]]
  /\ UNCHANGED <<clock, blockedUntil, granted, promised, serial>>

\* Allow admits and records the call.
Grant(c) ==
  LET now == caller[c].t
      new == [n |-> serial, at |-> now]
  IN
  /\ caller[c].pc = "allow"
  /\ Admits(now)
  /\ calls' = Kept(now) \cup {new}
  /\ granted' = granted \cup {new}
  /\ caller' = [caller EXCEPT ![c] = [pc |-> "fetch", t |-> 0]]
  /\ serial' = serial + 1
  /\ UNCHANGED <<clock, blockedUntil, promised>>

\* The fetch is over and nothing needs cooling down, or the denial is
\* returned as a rate_limited error.
Return(c) ==
  /\ caller[c].pc \in {"fetch", "denied"}
  /\ caller' = [caller EXCEPT ![c] = Idle]
  /\ UNCHANGED <<clock, calls, blockedUntil, granted, promised, serial>>

\* The upstream answered with a Retry-After: clock.Now().Add(retryAfter) is
\* evaluated before CoolDown takes the lock.
FetchFails(c) ==
  /\ caller[c].pc = "fetch"
  /\ \E retryAfter \in RetryAfters :
       caller' = [caller EXCEPT ![c] = [pc |-> "coolDown", t |-> clock + retryAfter]]
  /\ UNCHANGED <<clock, calls, blockedUntil, granted, promised, serial>>

\* Mutant: the last cooldown wins instead of the longest.
Extended_LastWins(until) == until

Extended(until) == IF until > blockedUntil THEN until ELSE blockedUntil

CoolDown(c) ==
  /\ caller[c].pc = "coolDown"
  /\ blockedUntil' = Extended(caller[c].t)
  /\ promised' = IF caller[c].t > promised THEN caller[c].t ELSE promised
  /\ caller' = [caller EXCEPT ![c] = Idle]
  /\ UNCHANGED <<clock, calls, granted, serial>>

\* Time passes, but no caller sits between its clock read and the lock of
\* Allow for more than ReadLag.
Tick ==
  /\ clock < MaxClock
  /\ \A c \in Callers : caller[c].pc = "allow" => clock < caller[c].t + ReadLag
  /\ clock' = clock + 1
  /\ UNCHANGED <<calls, blockedUntil, caller, granted, promised, serial>>

Next ==
  \/ \E c \in Callers : \/ ReadClock(c)
                        \/ Deny(c)
                        \/ Grant(c)
                        \/ Return(c)
                        \/ FetchFails(c)
                        \/ CoolDown(c)
  \/ Tick

Spec == Init /\ [][Next]_vars

-----------------------------------------------------------------------------
(* Properties.                                                             *)

\* Type invariant: every instant is a natural number and every caller is at
\* one of its steps.
TypeOK ==
  /\ clock \in Nat
  /\ calls \subseteq Call
  /\ blockedUntil \in Nat
  /\ caller \in [Callers -> Caller]
  /\ granted \subseteq Call
  /\ promised \in Nat
  /\ serial \in Nat

\* The calls admitted in the window of length len that starts with g.
Window(g, len) == {h \in granted : g.at <= h.at /\ h.at < g.at + len}

\* However many fetches race for the lock, no minute holds more calls than
\* the limit: nothing a late reader could still count has been pruned.
MinuteBudget ==
  PerMinute > 0 =>
    \A g \in granted : Cardinality(Window(g, Minute)) <= PerMinute

\* The same for the hour, shortened by the lag between a caller's clock read
\* and its turn at the lock: pruning at a later caller's cutoff forgets calls
\* that an earlier reader would still have counted.
HourBudget ==
  PerHour > 0 =>
    \A g \in granted : Cardinality(Window(g, Hour - ReadLag)) <= PerHour

\* A cooldown holds for everyone and is never shortened: no call admitted
\* after some CoolDown(until) returned was asked for before until.
CoolDownHolds == [][\A g \in granted' \ granted : g.at >= promised]_vars

\* A denial tells the caller to wait a while, never to come back at once.
DenialWaits ==
  \A c \in Callers : caller[c].pc = "denied" => caller[c].t > 0

\* The comment of RateLimiter: it "bounds the dispatcher's own outbound
\* provider calls to two independent sliding windows".
ExactHourBudget ==
  PerHour > 0 => \A g \in granted : Cardinality(Window(g, Hour)) <= PerHour
=============================================================================
