---- MODULE Server ----
(***************************************************************************)
(* One server process around the tables: the POST handlers with their      *)
(* Idempotency-Key, the loop of Dispatcher.Run with its three triggers     *)
(* (nudge, tick, stop), and main's start, shutdown and abrupt end.         *)
(*                                                                         *)
(* A request is named by the POST that inserts it.  Its row is seen        *)
(* through what the loop depends on: whether it is due, claimed, backing   *)
(* off, left in_progress, or done.  Leases, clocks and what a worker does  *)
(* with a row are Dispatcher's and Worker's subject; here a claimed row    *)
(* simply settles one way or another, and time passing (a backoff that     *)
(* elapses, a visibility timeout that runs out) is an action.              *)
(***************************************************************************)
EXTENDS Naturals, FiniteSets

CONSTANTS
    Posts,        \* the POST /quotes/updates calls, retries of a client included
    Keys,         \* Idempotency-Key headers
    NoKey,        \* no header
    NoReply,      \* a call that has been told no update_id
    Pairs,        \* currency pairs
    Inputs,       \* bound: the headers and bodies of the calls that are tried
    BatchSize,    \* DISPATCH_BATCH_SIZE
    MaxAttempts,  \* DISPATCH_MAX_ATTEMPTS
    MaxStarts,    \* bound: how often the process is started
    MaxLosses     \* bound: rows left in_progress by failed writes and lost claims

ASSUME PostsAssumption == IsFiniteSet(Posts)
ASSUME BatchAssumption == BatchSize \in Nat \ {0}
ASSUME NoKeyAssumption == NoKey \notin Keys
ASSUME NoReplyAssumption == NoReply \notin Posts
ASSUME InputsAssumption ==
    Inputs \subseteq [Posts -> [key : Keys \union {NoKey}, pair : Pairs]]
ASSUME BoundsAssumption == MaxAttempts \in Nat /\ MaxStarts \in Nat /\ MaxLosses \in Nat

VARIABLES
    asked,      \* asked[c]: the key and the pair call c carries
    post,       \* post[c]: how far the handler of call c is
    reply,      \* reply[c]: the update_id call c was answered with
    row,        \* row[c]: the state of the row call c inserted
    attempts,   \* attempts[c]: claims of that row
    passedOver, \* history: rows that only the ticker will bring up
    nudge,      \* signals buffered in the nudge channel
    tick,       \* ticks buffered in the ticker's channel
    loop,       \* where Dispatcher.Run is
    full,       \* whether the pass under way claimed a full batch
    phase,      \* where main is
    starts,     \* number of starts of the process so far
    losses      \* number of rows lost so far

calls == <<asked, post, reply>>
rows == <<row, attempts, passedOver, losses>>
run == <<nudge, tick, loop, full>>
main == <<phase, starts>>
vars == <<calls, rows, run, main>>

Up == phase # "down"
Draining == phase = "draining"
Working == {c \in Posts : row[c] = "working"}
Claimable == {c \in Posts : row[c] \in {"queued", "overdue"}}

Init ==
    /\ asked \in Inputs
    /\ post = [c \in Posts |-> "idle"]
    /\ reply = [c \in Posts |-> NoReply]
    /\ row = [c \in Posts |-> "none"]
    /\ attempts = [c \in Posts |-> 0]
    /\ passedOver = {}
    /\ nudge = 0 /\ tick = 0
    /\ loop = "select" /\ full = FALSE
    /\ phase = "serving" /\ starts = 1 /\ losses = 0

----------------------------------------------------------------------------
(* The POST handler.  A call waits in "idle" until its INSERT, so calls     *)
(* that arrived before a shutdown may still insert during it.               *)

SameKey(c, d) == asked[c].key # NoKey /\ asked[d].key = asked[c].key

\* Mutant: the pair of the key's row is not compared.
SamePair_Unchecked(c, d) == TRUE

SamePair(c, d) == asked[c].pair = asked[d].pair

KeyTaken(c) == \E d \in Posts : row[d] # "none" /\ SameKey(c, d)

Goes(c, from, to) == Up /\ post[c] = from /\ post' = [post EXCEPT ![c] = to]

Insert(c) ==
    /\ Goes(c, "idle", "inserted")
    /\ ~KeyTaken(c)
    /\ row' = [row EXCEPT ![c] = "queued"]
    /\ UNCHANGED <<asked, reply, attempts, passedOver, losses, run, main>>

\* The row is committed, but the handler gets an error (the connection or
\* the client's context ends first): 500 and no nudge.
InsertLost(c) ==
    /\ Goes(c, "idle", "failed")
    /\ ~KeyTaken(c)
    /\ row' = [row EXCEPT ![c] = "queued"]
    /\ passedOver' = passedOver \union {c}
    /\ UNCHANGED <<asked, reply, attempts, losses, run, main>>

\* The unique index refuses the row: ErrIdempotencyKeyExists.
FindKey(c) ==
    /\ Goes(c, "idle", "taken")
    /\ KeyTaken(c)
    /\ UNCHANGED <<asked, reply, rows, run, main>>

\* The INSERT, or the lookup of the key's row, returns an error.
Fail(c) ==
    /\ Goes(c, "idle", "failed") \/ Goes(c, "taken", "failed")
    /\ UNCHANGED <<asked, reply, rows, run, main>>

\* Mutant: the channel counts signals instead of keeping one.
Signalled_Counts == nudge + 1

\* nudgeDispatcher never waits: a channel that is full swallows the signal.
Signalled == 1

Nudge(c) ==
    /\ Goes(c, "inserted", "accepted")
    /\ reply' = [reply EXCEPT ![c] = c]
    /\ nudge' = Signalled
    /\ UNCHANGED <<asked, rows, tick, loop, full, main>>

\* GetByIdempotencyKey reads the key's row in a second statement.
Replay(c) == \E d \in Posts :
    /\ row[d] # "none" /\ SameKey(c, d) /\ SamePair(c, d)
    /\ Goes(c, "taken", "replayed")
    /\ reply' = [reply EXCEPT ![c] = d]
    /\ UNCHANGED <<asked, rows, run, main>>

Conflict(c) == \E d \in Posts :
    /\ row[d] # "none" /\ SameKey(c, d) /\ ~SamePair(c, d)
    /\ Goes(c, "taken", "conflicted")
    /\ UNCHANGED <<asked, reply, rows, run, main>>

Handler(c) ==
    \/ Insert(c) \/ InsertLost(c) \/ FindKey(c) \/ Fail(c)
    \/ Nudge(c) \/ Replay(c) \/ Conflict(c)

----------------------------------------------------------------------------
(* Dispatcher.Run.  Its select takes any case that is ready, so a pending   *)
(* nudge or tick may win over a context that is already cancelled.          *)

Moves(from, to) == Up /\ loop = from /\ loop' = to

LoopStops ==
    /\ Moves("select", "returned")
    /\ Draining
    /\ UNCHANGED <<calls, rows, nudge, tick, full, main>>

OnNudge ==
    /\ Moves("select", "claim")
    /\ nudge = 1 /\ nudge' = 0
    /\ UNCHANGED <<calls, rows, tick, full, main>>

OnTick ==
    /\ Moves("select", "claim")
    /\ tick = 1 /\ tick' = 0
    /\ UNCHANGED <<calls, rows, nudge, full, main>>

\* Which due rows the LIMIT takes depends on next_attempt_at: left open.
Batches ==
    {b \in SUBSET Claimable :
        Cardinality(b) = IF Cardinality(Claimable) < BatchSize
                         THEN Cardinality(Claimable) ELSE BatchSize}

\* A claim counts as an attempt; a reclaim of an overdue row does not.
Counted(b) ==
    [c \in Posts |-> attempts[c] + (IF c \in b /\ row[c] = "queued" THEN 1 ELSE 0)]

Becomes(b, state) == [c \in Posts |-> IF c \in b THEN state ELSE row[c]]

\* An empty claim ends in EndPass as well: nothing to wait for, not full.
Claim == \E b \in Batches :
    /\ Moves("claim", "work")
    /\ row' = Becomes(b, "working")
    /\ attempts' = Counted(b)
    /\ full' = (Cardinality(b) = BatchSize)
    /\ UNCHANGED <<calls, passedOver, losses, nudge, tick, main>>

\* The loop logs the error and sleeps; the rows it should have taken are
\* left to the ticker.  One whose handler is about to nudge still gets that.
ClaimError ==
    /\ Moves("claim", "select")
    /\ passedOver' = passedOver \union {c \in Claimable : post[c] # "inserted"}
    /\ UNCHANGED <<calls, nudge, tick, full, main>>

\* ClaimBatch fails or panics before it commits.
ClaimFails ==
    /\ ClaimError
    /\ UNCHANGED <<row, attempts, losses>>

\* The claim commits, but its answer is lost: nobody works on its rows.
ClaimLost == \E b \in Batches \ {{}} :
    /\ ClaimError
    /\ losses' = losses + Cardinality(b) /\ losses' =< MaxLosses
    /\ row' = Becomes(b, "stuck")
    /\ attempts' = Counted(b)

Settles(c, state) ==
    /\ Up /\ row[c] = "working"
    /\ row' = [row EXCEPT ![c] = state]
    /\ UNCHANGED <<calls, attempts, passedOver, run, main>>

\* A row of the pass is completed, or failed for good,
Finish(c) == Settles(c, "done") /\ UNCHANGED losses

\* ... handed back to wait for its backoff,
Retry(c) == Settles(c, "waiting") /\ attempts[c] < MaxAttempts /\ UNCHANGED losses

\* ... or left in_progress by an error or a panic of Process.
Abandon(c) == Settles(c, "stuck") /\ losses < MaxLosses /\ losses' = losses + 1

Settle(c) == Finish(c) \/ Retry(c) \/ Abandon(c)

\* Mutant: every batch goes back to the select.
AfterPass_Waits == "select"

\* A full batch means more work is likely queued: claim again at once.
AfterPass == IF ~full THEN "select" ELSE IF Draining THEN "returned" ELSE "claim"

EndPass ==
    /\ Working = {}
    /\ Moves("work", AfterPass)
    /\ UNCHANGED <<calls, rows, nudge, tick, full, main>>

Run == LoopStops \/ OnNudge \/ OnTick \/ Claim \/ ClaimFails \/ ClaimLost \/ EndPass

----------------------------------------------------------------------------
(* Time: a backoff elapses, a row left in_progress outlasts the visibility  *)
(* timeout, the ticker fires (it drops a tick nobody has taken).            *)

Due(c) == row[c] = "waiting" /\ row' = [row EXCEPT ![c] = "queued"]

\* Mutant: ClaimBatch without its reaper half.
Overdue_Never(c) == FALSE

Overdue(c) == row[c] = "stuck" /\ row' = [row EXCEPT ![c] = "overdue"]

ComeDue(c) ==
    /\ Due(c) \/ Overdue(c)
    /\ passedOver' = passedOver \union {c}
    /\ UNCHANGED <<calls, attempts, losses, run, main>>

TickFires ==
    /\ Up /\ tick = 0
    /\ tick' = 1
    /\ UNCHANGED <<calls, rows, nudge, loop, full, main>>

----------------------------------------------------------------------------
(* main.  A signal leads to Shutdown, which may time out with handlers      *)
(* still running; that, or the listener's failure, to the deferred          *)
(* stopDispatch; then main waits for the loop, but not for ever.            *)

Stop ==
    /\ phase = "serving" /\ starts < MaxStarts
    /\ phase' \in {"closing", "draining"}
    /\ UNCHANGED <<calls, rows, run, starts>>

StopDispatch ==
    /\ phase = "closing"
    /\ phase' = "draining"
    /\ UNCHANGED <<calls, rows, run, starts>>

\* Handlers under way get no answer out; claimed rows stay in_progress.
Ends ==
    /\ phase' = "down"
    /\ loop' = "returned" /\ nudge' = 0 /\ tick' = 0 /\ full' = FALSE
    /\ post' = [c \in Posts |-> IF post[c] \in {"inserted", "taken"} THEN "failed" ELSE post[c]]
    /\ row' = Becomes(Working, "stuck")
    /\ passedOver' = passedOver \union Claimable
    /\ UNCHANGED <<asked, reply, attempts, losses, starts>>

\* The loop has returned, or the drain timed out.
Exit == Draining /\ Ends

Crash == Up /\ starts < MaxStarts /\ Ends

Restart ==
    /\ phase = "down"
    /\ phase' = "serving" /\ loop' = "select"
    /\ starts' = starts + 1
    /\ UNCHANGED <<calls, rows, nudge, tick, full>>

Main == Stop \/ StopDispatch \/ Exit \/ Crash \/ Restart

----------------------------------------------------------------------------
Next ==
    \/ \E c \in Posts : Handler(c) \/ Settle(c) \/ ComeDue(c)
    \/ Run
    \/ TickFires
    \/ Main

(***************************************************************************)
(* The loop runs whenever a case of its select is ready, the ticker keeps  *)
(* firing, a claimed row settles (upstream and database calls have         *)
(* timeouts), backoffs and visibility timeouts elapse, a stopped process   *)
(* exits within ShutdownTimeout and is started again.  A claim may fail    *)
(* any number of times, but not for ever.  Handlers need no fairness: a    *)
(* row whose handler dies is found by the ticker.                          *)
(***************************************************************************)
Fairness ==
    /\ WF_vars(LoopStops \/ OnNudge \/ OnTick)
    /\ SF_vars(Claim)
    /\ WF_vars(EndPass)
    /\ \A c \in Posts : WF_vars(Settle(c)) /\ WF_vars(ComeDue(c))
    /\ WF_vars(TickFires)
    /\ WF_vars(StopDispatch) /\ WF_vars(Exit) /\ WF_vars(Restart)

Spec == Init /\ [][Next]_vars

FairSpec == Spec /\ Fairness

----------------------------------------------------------------------------
(* The type of every variable; both channels are buffered by one           *)
(* (main.go:70, time.NewTicker).                                           *)
TypeOK ==
    /\ asked \in [Posts -> [key : Keys \union {NoKey}, pair : Pairs]]
    /\ post \in [Posts -> {"idle", "inserted", "taken", "accepted",
                           "replayed", "conflicted", "failed"}]
    /\ reply \in [Posts -> Posts \union {NoReply}]
    /\ row \in [Posts -> {"none", "queued", "working", "waiting", "stuck",
                          "overdue", "done"}]
    /\ attempts \in [Posts -> Nat]
    /\ passedOver \subseteq Posts
    /\ nudge \in 0..1 /\ tick \in 0..1
    /\ loop \in {"select", "claim", "work", "returned"}
    /\ full \in BOOLEAN
    /\ phase \in {"serving", "closing", "draining", "down"}
    /\ starts \in Nat /\ losses \in Nat

(* An accepted request that no claim has passed over never has to wait for *)
(* the ticker while the process runs: a nudge is pending, or the loop will *)
(* claim before it sleeps, because it is about to or because the batch it  *)
(* works on is full (the buffered nudge of main.go:68-70 and the inner     *)
(* loop of Dispatcher.Run).                                                *)
WillClaim == nudge = 1 \/ loop = "claim" \/ (loop = "work" /\ full)

NoLostWakeup ==
    \A c \in Posts :
        post[c] = "accepted" /\ row[c] = "queued" /\ c \notin passedOver
            => WillClaim \/ phase \in {"draining", "down"}

(* Calls with one Idempotency-Key that are answered with an update_id are  *)
(* answered with the same one and asked for the same pair; a call is told  *)
(* of a conflict only if the key's request is for another pair             *)
(* (request_update.go:18-21), whatever inserts, lookups, failures and      *)
(* restarts interleave.                                                    *)
RepliesAgree ==
    /\ \A c, d \in Posts :
        SameKey(c, d) /\ reply[c] # NoReply /\ reply[d] # NoReply
            => reply[c] = reply[d] /\ asked[c].pair = asked[d].pair
    /\ \A c \in Posts :
        post[c] = "conflicted" => \E d \in Posts :
            row[d] # "none" /\ SameKey(c, d) /\ asked[d].pair # asked[c].pair

(* Every request that reaches the table is answered in the end, also when  *)
(* its handler, its claim, its worker or the process fails on the way, as  *)
(* long as failures stop (the ticker and the reaper of ClaimBatch).        *)
Answered == \A c \in Posts : (row[c] # "none") ~> (row[c] = "done")
====
