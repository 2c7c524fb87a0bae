----------------------------- MODULE Dispatcher -----------------------------
(***************************************************************************)
(* Dispatcher of internal/usecase/quotes, in every replica, over the       *)
(* tables they share: passes that claim a batch and work it off, the       *)
(* reaper inside the claim, crashes between any two steps, and the HTTP    *)
(* handler that inserts new requests.                                      *)
(***************************************************************************)
EXTENDS Worker

CONSTANTS
  MaxClock,  \* bound on the clock, for model checking
  Prompt     \* TRUE: time passes only while something outside is awaited

VARIABLES
  pass       \* each replica's pass: ClaimAndDispatch's locals

vars == <<storeVars, workerVars, pass>>

\* now is ClaimAndDispatch's now, deadline the end of the pass's context.
Idle == [phase |-> "idle", now |-> 0, deadline |-> 0]

Init ==
  /\ StoreInit
  /\ clock = 1
  /\ task = [r \in Replicas |-> [u \in UpdateIDs |-> NoTask]]
  /\ flight = [r \in Replicas |-> [p \in Pairs |-> NoFlight]]
  /\ blockedUntil = [r \in Replicas |-> 0]
  /\ called = {}
  /\ pass = [r \in Replicas |-> Idle]

\* POST /api/v1/quotes/updates, served by replica r.  A replayed or refused
\* request changes no table; the nudge after an insert, like the tick, only
\* says when a pass starts, and here it may start at any time.
Post(r) ==
  /\ \E u \in UpdateIDs, p \in Pairs, k \in Keys \cup {NoKey} :
       CreateUpdateRequest(u, p, k, Now(r))
  /\ UNCHANGED <<workerVars, pass>>

\* Run starts a pass: its context's deadline runs from here, and
\* ClaimAndDispatch reads the clock.
StartPass(r) ==
  /\ pass[r].phase = "idle"
  /\ pass' = [pass EXCEPT ![r] = [phase |-> "claiming", now |-> Now(r),
                                  deadline |-> clock + PassTimeout]]
  /\ UNCHANGED <<storeVars, workerVars>>

\* The claim may land: its context has not ended for longer than CommitLag.
ClaimInTime(r) ==
  /\ pass[r].phase = "claiming"
  /\ clock <= pass[r].deadline + CommitLag

\* ClaimBatch returns a batch: every row of it gets a goroutine, which waits
\* for its slot.  An empty batch ends the pass.
Claimed(r) ==
  /\ ClaimInTime(r)
  /\ \E S, skipped \in SUBSET DOMAIN updates :
       /\ ClaimBatch(S, skipped, pass[r].now)
       /\ task' = [task EXCEPT ![r] = [u \in UpdateIDs |->
                     IF u \in S THEN Queued(updates'[u].attempts, pass[r].now,
                                            pass[r].deadline)
                                ELSE @[u]]]
       /\ pass' = [pass EXCEPT ![r] =
                     IF S = {} THEN Idle ELSE [@ EXCEPT !.phase = "working"]]
  /\ UNCHANGED <<clock, flight, blockedUntil, called>>

\* ClaimBatch commits and its answer is lost: rows nobody will work.
ClaimLost(r) ==
  /\ ClaimInTime(r)
  /\ \E S, skipped \in SUBSET DOMAIN updates :
       S # {} /\ ClaimBatch(S, skipped, pass[r].now)
  /\ pass' = [pass EXCEPT ![r] = Idle]
  /\ UNCHANGED workerVars

\* ClaimBatch fails or panics before it changed anything.
ClaimFails(r) ==
  /\ pass[r].phase = "claiming"
  /\ pass' = [pass EXCEPT ![r] = Idle]
  /\ UNCHANGED <<storeVars, workerVars>>

\* Mutant: the pass ends with its context instead of with its last goroutine.
EndPass_AtDeadline(r) ==
  /\ pass[r].phase = "working"
  /\ clock >= pass[r].deadline
  /\ pass' = [pass EXCEPT ![r] = Idle]
  /\ UNCHANGED <<storeVars, workerVars>>

\* g.Wait returns: every goroutine is done.
EndPass(r) ==
  /\ pass[r].phase = "working"
  /\ \A u \in UpdateIDs : task[r][u].st = "none"
  /\ pass' = [pass EXCEPT ![r] = Idle]
  /\ UNCHANGED <<storeVars, workerVars>>

\* The process dies, or its shutdown abandons the pass, and starts again.  A
\* write it sent that is still to land is the behaviour of a replica that stalls
\* instead, beside the one that starts again.
Crash(r) ==
  /\ task' = [task EXCEPT ![r] = [u \in UpdateIDs |-> NoTask]]
  /\ flight' = [flight EXCEPT ![r] = [p \in Pairs |-> NoFlight]]
  /\ blockedUntil' = [blockedUntil EXCEPT ![r] = 0]
  /\ pass' = [pass EXCEPT ![r] = Idle]
  /\ UNCHANGED <<storeVars, clock, called>>

\* Something in replica r is ready to happen that waits for nothing outside;
\* an upstream call may last until its context's deadline.
Ready(r) ==
  \/ pass[r].phase = "claiming"
  \/ \E u \in UpdateIDs : \/ task[r][u].st = "resolved"
                          \/ task[r][u].st = "queued" /\ Cardinality(Holding(r)) < PoolSize
  \/ \E p \in Pairs : \/ flight[r][p].st \in {"read", "allow"}
                      \/ flight[r][p].st = "call" /\ clock >= flight[r][p].deadline
  \/ pass[r].phase = "working" /\ \A u \in UpdateIDs : task[r][u].st = "none"

Tick ==
  /\ clock < MaxClock
  /\ Prompt => \A r \in Replicas : ~Ready(r)
  /\ clock' = clock + 1
  /\ UNCHANGED <<storeVars, task, flight, blockedUntil, called, pass>>

Next ==
  \/ \E r \in Replicas : \/ Post(r) \/ StartPass(r)
                         \/ Claimed(r) \/ ClaimLost(r) \/ ClaimFails(r)
                         \/ EndPass(r) \/ Crash(r)
                         \/ WorkerStep(r) /\ UNCHANGED pass
  \/ Tick

Spec == Init /\ [][Next]_vars

-----------------------------------------------------------------------------
(* Properties.                                                             *)

\* Type invariant of the replicas.
WorkerTypeOK ==
  /\ TypeOK
  /\ clock \in Nat
  /\ \A r \in Replicas, u \in UpdateIDs :
       /\ task[r][u].st \in {"none", "queued", "flying", "resolved"}
       /\ task[r][u].st # "none" => u \in DOMAIN updates /\ pass[r].phase = "working"
       /\ task[r][u].st = "flying" <=>
            task[r][u].st # "none" /\ u \in Coalesced(r, updates[u].pair)
  /\ \A r \in Replicas, p \in Pairs :
       flight[r][p].st # "none" <=> Coalesced(r, p) # {}
  /\ called \subseteq DOMAIN updates

\* A row that may still be written is not stuck: its visibility timeout covers
\* the pass, what lands after it, and the difference of two replicas' clocks.
LeaseIsLong == PassTimeout + CommitLag + MaxSkew <= VisibilityTimeout

\* The lease: as long as the outcome of a request can still land, its row is
\* in progress, claimed by this very claim, with the attempts the claim saw.
\* So no late write lands on a row that another replica has been given since,
\* although the UPDATE checks neither locked_at nor attempts.
LeaseHeld ==
  \A r \in Replicas : \A u \in UpdateIDs :
    CanLand(task[r][u]) =>
      /\ IsInProgress(u)
      /\ updates[u].lockedAt = task[r][u].lockedAt
      /\ updates[u].attempts = task[r][u].attempts

\* No two replicas can both still write the outcome of one request.
LeaseExclusive ==
  \A r, s \in Replicas : \A u \in UpdateIDs :
    CanLand(task[r][u]) /\ CanLand(task[s][u]) => r = s

\* The retry budget holds on the row, over crashes, reclaims and lost claims:
\* DISPATCH_MAX_ATTEMPTS claims, and never a row waiting that has spent them.
AttemptsBounded ==
  \A u \in DOMAIN updates :
    /\ updates[u].attempts <= MaxAttempts
    /\ updates[u].status = StatusPending => updates[u].attempts < MaxAttempts

\* The age budget holds too, however often the row was lost and reclaimed
\* without spending an attempt: a request older than DISPATCH_MAX_LIFETIME is
\* not handed back for another try (worker.go, fail).  Its age was looked at
\* up to one pass before the row changes.
RetriedInLifetime ==
  [][\A u \in DOMAIN updates :
       /\ updates[u].status = StatusInProgress
       /\ updates'[u].status = StatusPending
       => clock < updates[u].createdAt + MaxLifetime + PassTimeout + CommitLag]_vars

\* A request is never answered from the journal with a quote that was stale
\* when the request was claimed.
ReuseIsFresh ==
  \A u \in DOMAIN updates :
    updates[u].reused => quotes[updates[u].quoteID].staleAfter > updates[u].lockedAt

\* A request is never answered from the journal with a quote that has been stale
\* for longer than a pass and its last write may take, however long the leases
\* are: the result waits in its goroutine with no second look at staleAfter.
ReuseIsRecent ==
  [][\A u \in DOMAIN updates :
       updates[u].status = StatusInProgress /\ updates'[u].reused
       => clock < quotes[updates'[u].quoteID].staleAfter + PassTimeout + CommitLag]_vars

\* What the replicas do to the tables is what QuoteStore's callers may do, so
\* its properties hold of them.
UsesStore == StoreSpec

\* worker.go, resolve: re-reading the latest quote inside the flight closes
\* the window in which a caller would fetch again on its own.
NoSecondFetch ==
  \A r \in Replicas, p \in Pairs : flight[r][p].st = "call" =>
    \A u \in UpdateIDs : ~(/\ task[r][u].st = "resolved"
                           /\ task[r][u].res.kind = "fresh"
                           /\ task[r][u].res.rate.pair = p
                           /\ task[r][u].res.rate.staleAfter > Now(r))

\* postgres/repository.go, ClaimBatch: attempts are meant to bound genuine
\* retries against the upstream, so giving up means the upstream was asked.
ExhaustedWasTried ==
  \A u \in DOMAIN updates :
    updates[u].errorCode = AttemptsExhaustedCode => u \in called
=============================================================================
