------------------------- MODULE RateLimiterProofs -------------------------
(***************************************************************************)
(* Proofs about RateLimiter, for any number of callers, any limits and any *)
(* lag between a caller's clock read and its turn at the lock.             *)
(***************************************************************************)
EXTENDS RateLimiter, FiniteSetTheorems, WellFoundedInduction, TLAPS

\* The slice is a finite part of the calls ever admitted; serials identify
\* calls and are handed out in increasing order.
History ==
  /\ IsFiniteSet(granted)
  /\ calls \subseteq granted
  /\ \A g \in granted : g.n < serial /\ g.at <= clock
  /\ promised = blockedUntil

\* A call that was pruned is at least an hour old.
PrunedIsOld == \A g \in granted \ calls : g.at <= clock - Hour

\* A caller waiting for the lock read the clock at most ReadLag ago.
ReadIsRecent ==
  \A c \in Callers : caller[c].pc = "allow" =>
    clock - ReadLag <= caller[c].t /\ caller[c].t <= clock

LimiterInv ==
  /\ TypeOK
  /\ History
  /\ PrunedIsOld
  /\ ReadIsRecent
  /\ MinuteBudget
  /\ HourBudget
  /\ DenialWaits

-----------------------------------------------------------------------------
(* Facts about the windows.                                                *)

\* Constants, in the form the provers use.
LEMMA Parameters ==
  /\ Minute \in Nat \ {0} /\ Hour \in Nat \ {0}
  /\ PerMinute \in Nat /\ PerHour \in Nat /\ ReadLag \in Nat
  /\ RetryAfters \subseteq Nat \ {0}
  /\ Minute + ReadLag <= Hour
BY LimiterAssumption DEF LimiterAssumption

\* A non-empty set of calls has a first one.
LEMMA FirstExists ==
  ASSUME NEW C \in SUBSET Call, C # {}
  PROVE  First(C) \in C
<1> DEFINE T == {c.n : c \in C}
           R == OpToRel(<, Nat)
<1>1. T \subseteq Nat /\ T # {}
  BY DEF Call
<1>2. PICK x \in T : \A y \in T : ~(<<y, x>> \in R)
  <2>1. IsWellFoundedOn(R, Nat)
    BY NatLessThanWellFounded
  <2> HIDE DEF R, T
  <2>2. QED
    BY <1>1, <2>1, WFMin
<1>3. \A y \in T : ~(y < x)
  BY <1>1, <1>2 DEF OpToRel
<1>4. \E c \in C : \A d \in C : c.n <= d.n
  <2>1. PICK c \in C : c.n = x
    OBVIOUS
  <2>2. \A d \in C : d.n \in T /\ d.n \in Nat
    BY <1>1
  <2> HIDE DEF R, T
  <2>3. \A d \in C : ~(d.n < c.n)
    BY <1>3, <2>1, <2>2
  <2>4. \A d \in C : c.n <= d.n
    BY <2>1, <2>2, <2>3
  <2>5. QED
    BY <2>4
<1>5. QED
  BY <1>4 DEF First

\* What a denial tells the caller to wait is positive, whichever of the three
\* conditions denied it.
LEMMA WaitPositive ==
  ASSUME TypeOK, History, NEW now \in Nat, ~Admits(now)
  PROVE  RetryAfter(now) \in Nat \ {0}
<1>1. Kept(now) \in SUBSET Call /\ InMinute(now) \in SUBSET Call
  BY DEF TypeOK, Kept, InMinute
<1>2. CASE Blocked(now)
  BY <1>2 DEF TypeOK, Blocked, RetryAfter
<1>3. CASE ~Blocked(now) /\ HourFull(now)
  <2>1. Kept(now) # {}
    BY <1>3, Parameters, FS_EmptySet DEF HourFull
  <2>2. First(Kept(now)) \in Kept(now)
    BY <1>1, <2>1, FirstExists
  <2>3. First(Kept(now)).at > now - Hour /\ First(Kept(now)).at \in Nat
    BY <1>1, <2>2 DEF Kept, Call
  <2>4. RetryAfter(now) = First(Kept(now)).at + Hour - now
    BY <1>3 DEF RetryAfter
  <2>5. QED
    BY <2>3, <2>4, Parameters
<1>4. CASE ~Blocked(now) /\ ~HourFull(now) /\ MinuteFull(now)
  <2>1. InMinute(now) # {}
    BY <1>4, Parameters, FS_EmptySet DEF MinuteFull
  <2>2. First(InMinute(now)) \in InMinute(now)
    BY <1>1, <2>1, FirstExists
  <2>3. First(InMinute(now)).at > now - Minute /\ First(InMinute(now)).at \in Nat
    BY <1>1, <2>2 DEF InMinute, Call
  <2>4. RetryAfter(now) = First(InMinute(now)).at + Minute - now
    BY <1>4 DEF RetryAfter
  <2>5. QED
    BY <2>3, <2>4, Parameters
<1>5. QED
  BY <1>2, <1>3, <1>4 DEF Admits

\* A window of calls is finite.
LEMMA WindowFinite ==
  ASSUME IsFiniteSet(granted), NEW g, NEW len
  PROVE  IsFiniteSet(Window(g, len)) /\ Cardinality(Window(g, len)) \in Nat
<1>1. Window(g, len) \in SUBSET granted
  BY DEF Window
<1>2. QED
  BY <1>1, FS_Subset, FS_CardinalityType

\* The counting step of both budgets: if every call less than len older than
\* the new one is still counted in the set C, and C has room for one more,
\* then every window of length len holds at most limit calls afterwards.
LEMMA OneMoreFits ==
  ASSUME TypeOK, History, NEW len \in Nat \ {0}, NEW limit \in Nat,
         NEW new \in Call, new \notin granted,
         NEW C \in SUBSET granted, Cardinality(C) < limit,
         \A g \in granted : g.at > new.at - len => g \in C,
         granted' = granted \cup {new},
         \A g \in granted : Cardinality(Window(g, len)) <= limit
  PROVE  \A g \in granted' : Cardinality(Window(g, len)') <= limit
<1>f. IsFiniteSet(granted) /\ granted \subseteq Call
  BY DEF TypeOK, History
<1>1. SUFFICES ASSUME NEW g \in granted' PROVE Cardinality(Window(g, len)') <= limit
  OBVIOUS
<1>2. g.at \in Nat /\ new.at \in Nat /\ \A h \in granted : h.at \in Nat
  BY <1>f DEF Call
<1>3. CASE new \in Window(g, len)'
  <2>1. Window(g, len)' \subseteq C \cup {new}
    BY <1>2, <1>3 DEF Window
  <2>2. IsFiniteSet(C) /\ Cardinality(C) \in Nat
    BY <1>f, FS_Subset, FS_CardinalityType
  <2>3. IsFiniteSet(C \cup {new}) /\ Cardinality(C \cup {new}) <= Cardinality(C) + 1
        /\ Cardinality(C \cup {new}) \in Nat
    BY <2>2, FS_AddElement, SMTT(30)
  <2>4. Cardinality(Window(g, len)') <= Cardinality(C \cup {new})
        /\ Cardinality(Window(g, len)') \in Nat
    BY <2>1, <2>3, FS_Subset, FS_CardinalityType
  <2>5. QED
    BY <2>2, <2>3, <2>4
<1>4. CASE new \notin Window(g, len)'
  <2>1. g # new
    BY <1>2, <1>4 DEF Window
  <2>2. Window(g, len)' = Window(g, len)
    BY <1>4 DEF Window
  <2>3. QED
    BY <2>1, <2>2
<1>5. QED
  BY <1>3, <1>4

-----------------------------------------------------------------------------
(* The inductive invariant.                                                *)

\* The limiter starts with no history, which satisfies every part.
LEMMA LimiterInit == Init => LimiterInv
BY Parameters, FS_EmptySet
DEF Init, LimiterInv, TypeOK, History, PrunedIsOld, ReadIsRecent, MinuteBudget, HourBudget,
    DenialWaits, Call, Caller, Idle

\* Allow(now) counts every call younger than an hour less the lag: what was
\* pruned is too old to matter to a reader that is at most ReadLag late.
LEMMA NothingYoungPruned ==
  ASSUME LimiterInv, NEW c \in Callers, caller[c].pc = "allow",
         NEW g \in granted, g.at > caller[c].t - (Hour - ReadLag)
  PROVE  g \in Kept(caller[c].t)
<1>1. clock - ReadLag <= caller[c].t /\ caller[c].t \in Nat /\ clock \in Nat
  BY DEF LimiterInv, ReadIsRecent, TypeOK, Caller
<1>2. g.at \in Nat
  BY DEF LimiterInv, TypeOK, Call
<1>3. g \in calls
  BY <1>1, <1>2, Parameters DEF LimiterInv, PrunedIsOld
<1>4. QED
  BY <1>1, <1>2, <1>3, Parameters DEF Kept

\* Admitting a call keeps both budgets: the sets Allow counts hold every call
\* the windows of the new one hold.
LEMMA GrantKeepsInv ==
  ASSUME LimiterInv, NEW c \in Callers, Grant(c)
  PROVE  LimiterInv'
<1> DEFINE now == caller[c].t
           new == [n |-> serial, at |-> now]
<1>1. /\ caller[c].pc = "allow"
      /\ Admits(now)
      /\ calls' = Kept(now) \cup {new}
      /\ granted' = granted \cup {new}
      /\ caller' = [caller EXCEPT ![c] = [pc |-> "fetch", t |-> 0]]
      /\ serial' = serial + 1
      /\ UNCHANGED <<clock, blockedUntil, promised>>
  BY DEF Grant
<1>2. TypeOK /\ History /\ PrunedIsOld /\ ReadIsRecent /\ MinuteBudget /\ HourBudget
      /\ DenialWaits
  BY DEF LimiterInv
<1>3. now \in Nat /\ clock \in Nat /\ serial \in Nat /\ now <= clock /\ clock - ReadLag <= now
  BY <1>1, <1>2 DEF TypeOK, Caller, ReadIsRecent
<1>4. new \in Call /\ new \notin granted
  BY <1>2, <1>3 DEF Call, History, TypeOK
<1>5. Kept(now) \in SUBSET granted
  BY <1>2 DEF Kept, History
<1>6. \A g \in granted : g.at \in Nat
  BY <1>2 DEF TypeOK, Call
<1>7. TypeOK'
  <2>1. calls' \subseteq Call /\ granted' \subseteq Call
    BY <1>1, <1>2, <1>4, <1>5 DEF TypeOK
  <2>2. caller' \in [Callers -> Caller]
    BY <1>1, <1>2 DEF TypeOK, Caller
  <2>3. QED
    BY <1>1, <1>2, <1>3, <2>1, <2>2 DEF TypeOK
<1>8. History'
  <2>1. IsFiniteSet(granted')
    BY <1>1, <1>2, FS_AddElement DEF History
  <2>2. \A g \in granted : g.n \in Nat
    BY <1>2 DEF TypeOK, Call
  <2>3. QED
    BY <1>1, <1>2, <1>3, <1>5, <2>1, <2>2 DEF History
<1>9. PrunedIsOld'
  <2>1. SUFFICES ASSUME NEW g \in granted' \ calls' PROVE g.at <= clock - Hour
    BY <1>1 DEF PrunedIsOld
  <2>2. g \in granted /\ g \notin Kept(now)
    BY <1>1, <2>1
  <2>3. CASE g \in calls
    BY <2>2, <2>3, <1>3, <1>6, Parameters DEF Kept
  <2>4. CASE g \notin calls
    BY <2>2, <2>4, <1>2 DEF PrunedIsOld
  <2>5. QED
    BY <2>3, <2>4
<1>10. ReadIsRecent' /\ DenialWaits'
  BY <1>1, <1>2 DEF ReadIsRecent, DenialWaits, TypeOK
<1>11. HourBudget'
  <2>1. SUFFICES ASSUME PerHour > 0
                 PROVE  \A g \in granted' : Cardinality(Window(g, Hour - ReadLag)') <= PerHour
    BY DEF HourBudget, Window
  <2>2. Cardinality(Kept(now)) < PerHour
    <3>1. ~(Cardinality(Kept(now)) >= PerHour)
      BY <1>1, <2>1 DEF Admits, HourFull
    <3>2. Cardinality(Kept(now)) \in Nat
      BY <1>2, <1>5, FS_Subset, FS_CardinalityType DEF History
    <3>3. QED
      BY <3>1, <3>2, Parameters
  <2>3. \A g \in granted : g.at > new.at - (Hour - ReadLag) => g \in Kept(now)
    BY <1>1, NothingYoungPruned
  <2>4. \A g \in granted : Cardinality(Window(g, Hour - ReadLag)) <= PerHour
    BY <1>2, <2>1 DEF HourBudget
  <2>5. Hour - ReadLag \in Nat \ {0}
    BY Parameters
  <2> HIDE DEF now, new
  <2>6. QED
    BY <1>1, <1>2, <1>4, <1>5, <2>2, <2>3, <2>4, <2>5, Parameters, OneMoreFits
<1>12. MinuteBudget'
  <2>1. SUFFICES ASSUME PerMinute > 0
                 PROVE  \A g \in granted' : Cardinality(Window(g, Minute)') <= PerMinute
    BY DEF MinuteBudget, Window
  <2>2. InMinute(now) \in SUBSET granted
    BY <1>5 DEF InMinute
  <2>3. Cardinality(InMinute(now)) < PerMinute
    <3>1. ~(Cardinality(InMinute(now)) >= PerMinute)
      BY <1>1, <2>1 DEF Admits, MinuteFull
    <3>2. Cardinality(InMinute(now)) \in Nat
      BY <1>2, <2>2, FS_Subset, FS_CardinalityType DEF History
    <3>3. QED
      BY <3>1, <3>2, Parameters
  <2>4. \A g \in granted : g.at > new.at - Minute => g \in InMinute(now)
    <3>1. SUFFICES ASSUME NEW g \in granted, g.at > now - Minute PROVE g \in InMinute(now)
      OBVIOUS
    <3>2. g.at > now - (Hour - ReadLag)
      BY <3>1, <1>3, <1>6, Parameters
    <3>3. g \in Kept(now)
      BY <1>1, <3>2, NothingYoungPruned
    <3>4. QED
      BY <3>1, <3>3 DEF InMinute
  <2>5. \A g \in granted : Cardinality(Window(g, Minute)) <= PerMinute
    BY <1>2, <2>1 DEF MinuteBudget
  <2> HIDE DEF now, new
  <2>6. QED
    BY <1>1, <1>2, <1>4, <2>2, <2>3, <2>4, <2>5, Parameters, OneMoreFits
<1>13. QED
  BY <1>7, <1>8, <1>9, <1>10, <1>11, <1>12 DEF LimiterInv

\* A denial prunes the slice, unless a cooldown cut it short, and admits
\* nothing.
LEMMA DenyKeepsInv ==
  ASSUME LimiterInv, NEW c \in Callers, Deny(c)
  PROVE  LimiterInv'
<1> DEFINE now == caller[c].t
<1>1. /\ caller[c].pc = "allow"
      /\ ~Admits(now)
      /\ calls' = IF Blocked(now) THEN calls ELSE Kept(now)
      /\ caller' = [caller EXCEPT ![c] = [pc |-> "denied", t |-> RetryAfter(now)]]
      /\ UNCHANGED <<clock, blockedUntil, granted, promised, serial>>
  BY DEF Deny
<1>2. TypeOK /\ History /\ PrunedIsOld /\ ReadIsRecent /\ MinuteBudget /\ HourBudget
      /\ DenialWaits
  BY DEF LimiterInv
<1>3. now \in Nat /\ now <= clock /\ clock \in Nat
  BY <1>1, <1>2 DEF TypeOK, Caller, ReadIsRecent
<1>4. RetryAfter(now) \in Nat \ {0}
  BY <1>1, <1>2, <1>3, WaitPositive
<1>5. calls' \subseteq calls
  BY <1>1 DEF Kept
<1>6. TypeOK' /\ History'
  BY <1>1, <1>2, <1>4, <1>5 DEF TypeOK, History, Caller
<1>7. PrunedIsOld'
  <2>1. SUFFICES ASSUME NEW g \in granted \ calls' PROVE g.at <= clock - Hour
    BY <1>1 DEF PrunedIsOld
  <2>2. g.at \in Nat
    BY <1>2 DEF TypeOK, Call
  <2>3. CASE g \in calls
    BY <2>1, <2>2, <2>3, <1>1, <1>3, Parameters DEF Kept
  <2>4. CASE g \notin calls
    BY <2>4, <1>2 DEF PrunedIsOld
  <2>5. QED
    BY <2>3, <2>4
<1>8. ReadIsRecent' /\ DenialWaits'
  BY <1>1, <1>2, <1>4 DEF ReadIsRecent, DenialWaits, TypeOK
<1>9. MinuteBudget' /\ HourBudget'
  BY <1>1, <1>2 DEF MinuteBudget, HourBudget, Window
<1>10. QED
  BY <1>6, <1>7, <1>8, <1>9 DEF LimiterInv

\* Steps that leave the slice and the history of admitted calls alone.
LEMMA OtherKeepsInv ==
  ASSUME LimiterInv, UNCHANGED <<calls, granted, serial>>,
         TypeOK', clock <= clock', promised' = blockedUntil', ReadIsRecent', DenialWaits'
  PROVE  LimiterInv'
<1>1. TypeOK /\ History /\ PrunedIsOld /\ MinuteBudget /\ HourBudget
  BY DEF LimiterInv
<1>2. clock \in Nat /\ clock' \in Nat /\ \A g \in granted : g.at \in Nat
  BY <1>1 DEF TypeOK, Call
<1>3. History' /\ PrunedIsOld'
  BY <1>1, <1>2, Parameters DEF History, PrunedIsOld
<1>4. MinuteBudget' /\ HourBudget'
  BY <1>1 DEF MinuteBudget, HourBudget, Window
<1>5. QED
  BY <1>3, <1>4 DEF LimiterInv

\* Every action keeps the invariant: only Grant and Deny touch the slice.
LEMMA LimiterNext == LimiterInv /\ [Next]_vars => LimiterInv'
<1> SUFFICES ASSUME LimiterInv, [Next]_vars PROVE LimiterInv'
  OBVIOUS
<1>i. TypeOK /\ History /\ ReadIsRecent /\ DenialWaits /\ promised = blockedUntil
  BY DEF LimiterInv, History
<1>n. clock \in Nat /\ \A c \in Callers : caller[c].t \in Nat
  BY <1>i DEF TypeOK, Caller
<1>1. CASE \E c \in Callers : Grant(c)
  BY <1>1, GrantKeepsInv
<1>2. CASE \E c \in Callers : Deny(c)
  BY <1>2, DenyKeepsInv
<1>3. CASE \E c \in Callers : ReadClock(c)
  <2>1. TypeOK' /\ ReadIsRecent' /\ DenialWaits'
    BY <1>3, <1>i, <1>n, Parameters
    DEF ReadClock, TypeOK, Caller, ReadIsRecent, DenialWaits
  <2>2. QED
    BY <1>3, <1>i, <1>n, <2>1, OtherKeepsInv DEF ReadClock
<1>4. CASE \E c \in Callers : Return(c)
  <2>1. TypeOK' /\ ReadIsRecent' /\ DenialWaits'
    BY <1>4, <1>i DEF Return, TypeOK, Caller, Idle, ReadIsRecent, DenialWaits
  <2>2. QED
    BY <1>4, <1>i, <1>n, <2>1, OtherKeepsInv DEF Return
<1>5. CASE \E c \in Callers : FetchFails(c)
  <2>1. TypeOK' /\ ReadIsRecent' /\ DenialWaits'
    BY <1>5, <1>i, <1>n, Parameters
    DEF FetchFails, TypeOK, Caller, ReadIsRecent, DenialWaits
  <2>2. QED
    BY <1>5, <1>i, <1>n, <2>1, OtherKeepsInv DEF FetchFails
<1>6. CASE \E c \in Callers : CoolDown(c)
  <2>1. TypeOK' /\ ReadIsRecent' /\ DenialWaits'
    BY <1>6, <1>i, <1>n
    DEF CoolDown, TypeOK, Caller, Idle, Extended, ReadIsRecent, DenialWaits
  <2>2. QED
    BY <1>6, <1>i, <1>n, <2>1, OtherKeepsInv DEF CoolDown, Extended
<1>7. CASE Tick
  <2>1. TypeOK' /\ DenialWaits'
    BY <1>7, <1>i DEF Tick, TypeOK, DenialWaits
  <2>2. ReadIsRecent'
    BY <1>7, <1>i, <1>n, Parameters DEF Tick, ReadIsRecent
  <2>3. QED
    BY <1>7, <1>i, <1>n, <2>1, <2>2, OtherKeepsInv DEF Tick
<1>8. CASE UNCHANGED vars
  <2>1. TypeOK' /\ ReadIsRecent' /\ DenialWaits'
    BY <1>8, <1>i DEF vars, TypeOK, ReadIsRecent, DenialWaits
  <2>2. QED
    BY <1>8, <1>i, <1>n, <2>1, OtherKeepsInv DEF vars
<1>9. QED
  BY <1>1, <1>2, <1>3, <1>4, <1>5, <1>6, <1>7, <1>8 DEF Next

\* The limiter's invariant holds for every number of callers and every lag.
THEOREM LimiterInvariant == Spec => []LimiterInv
<1>1. Init => LimiterInv
  BY LimiterInit
<1>2. LimiterInv /\ [Next]_vars => LimiterInv'
  BY LimiterNext
<1>3. QED
  BY <1>1, <1>2, PTL DEF Spec

\* The fields of the limiter and its callers' arguments keep their types, so
\* every subtraction of two instants in Allow is of two natural numbers.
THEOREM TypeCorrect == Spec => []TypeOK
BY LimiterInvariant, PTL DEF LimiterInv

\* No minute ever holds more calls than RATE_LIMIT_PER_MINUTE.
THEOREM MinuteBudgetKept == Spec => []MinuteBudget
BY LimiterInvariant, PTL DEF LimiterInv

\* No hour less the lag ever holds more calls than RATE_LIMIT_PER_HOUR.
THEOREM HourBudgetKept == Spec => []HourBudget
BY LimiterInvariant, PTL DEF LimiterInv

\* A denied caller is always told to wait, so the worker treats the denial as
\* an error with a Retry-After.
THEOREM DenialsWait == Spec => []DenialWaits
BY LimiterInvariant, PTL DEF LimiterInv

\* When callers get the lock in the instant they read the clock, no hour ever
\* holds more calls than the limit: the comment of RateLimiter, to the letter.
THEOREM ExactWithoutLag == ReadLag = 0 /\ Spec => []ExactHourBudget
<1>1. ASSUME ReadLag = 0 PROVE HourBudget => ExactHourBudget
  BY <1>1, Parameters DEF HourBudget, ExactHourBudget
<1>2. (ReadLag = 0 /\ HourBudget) => ExactHourBudget
  BY <1>1
<1>3. CASE ReadLag = 0
  <2>1. HourBudget => ExactHourBudget
    BY <1>2, <1>3
  <2>2. QED
    BY <2>1, HourBudgetKept, PTL
<1>4. QED
  BY <1>3

\* A cooldown is never shortened and nothing slips through it: a call admitted
\* after CoolDown(until) was asked for at until or later.
THEOREM CoolDownsHold == Spec => CoolDownHolds
<1>1. LimiterInv /\ [Next]_vars => [\A g \in granted' \ granted : g.at >= promised]_vars
  <2> SUFFICES ASSUME LimiterInv, Next
               PROVE  \A g \in granted' \ granted : g.at >= promised
    OBVIOUS
  <2>1. CASE \E c \in Callers : Grant(c)
    <3>1. PICK c \in Callers : Grant(c)
      BY <2>1
    <3>2. \A g \in granted' \ granted : g.at = caller[c].t
      BY <3>1 DEF Grant
    <3>3. ~(caller[c].t < promised) /\ caller[c].t \in Nat /\ promised \in Nat
      BY <3>1 DEF Grant, Admits, Blocked, LimiterInv, History, TypeOK, Caller
    <3>4. QED
      BY <3>2, <3>3
  <2>2. CASE ~\E c \in Callers : Grant(c)
    BY <2>2 DEF Next, ReadClock, Deny, Return, FetchFails, CoolDown, Tick
  <2>3. QED
    BY <2>1, <2>2
<1>2. QED
  BY <1>1, LimiterInvariant, PTL DEF Spec, CoolDownHolds

=============================================================================
