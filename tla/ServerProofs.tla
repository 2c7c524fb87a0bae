---- MODULE ServerProofs ----
(***************************************************************************)
(* Theorems about Server: no accepted request is forgotten by the loop     *)
(* while the process runs, and the replies of calls with one               *)
(* Idempotency-Key agree, for any number of calls, keys and pairs, any     *)
(* batch size and any number of restarts and losses.                       *)
(***************************************************************************)
EXTENDS Server, FiniteSetTheorems, TLAPS

(* A step that answers nobody and neither inserts nor removes a row (the   *)
(* code has no DELETE).                                                    *)
Quiet ==
    /\ UNCHANGED <<asked, reply>>
    /\ \A c \in Posts :
        /\ row'[c] = "none" <=> row[c] = "none"
        /\ post'[c] \in {"inserted", "accepted", "conflicted"} => post'[c] = post[c]

(* What the replies rest on: the unique index on the key, and that a call  *)
(* is answered with a row of its own key and pair.                         *)
OneRowPerKey ==
    \A c, d \in Posts :
        row[c] # "none" /\ row[d] # "none" /\ SameKey(c, d) => c = d

InsertedHasRow == \A c \in Posts : post[c] = "inserted" => row[c] # "none"

Answers(c, d) ==
    /\ row[d] # "none"
    /\ d = c \/ SameKey(c, d)
    /\ asked[d].pair = asked[c].pair

ReplyIsRow == \A c \in Posts : reply[c] # NoReply => Answers(c, reply[c])

ConflictIsReal ==
    \A c \in Posts : post[c] = "conflicted" =>
        \E d \in Posts :
            row[d] # "none" /\ SameKey(c, d) /\ asked[d].pair # asked[c].pair

ReplyInv == OneRowPerKey /\ InsertedHasRow /\ ReplyIsRow /\ ConflictIsReal

(* What the wake-up rests on across a restart: a process that is down has  *)
(* left every accepted row to the next one's ticker.                       *)
DownPassesAll ==
    \A c \in Posts :
        phase = "down" /\ post[c] = "accepted" /\ row[c] = "queued" => c \in passedOver

WakeInv == NoLostWakeup /\ DownPassesAll

----------------------------------------------------------------------------
(* A batch is a finite set of claimable rows, and it is all of them unless *)
(* it is full: what the LIMIT of ClaimBatch gives the loop.                *)
LEMMA BatchIsAllOrFull ==
    ASSUME NEW b \in Batches
    PROVE  /\ b \subseteq Claimable
           /\ Cardinality(b) \in Nat
           /\ b = Claimable \/ Cardinality(b) = BatchSize
<1>1. b \subseteq Claimable
  BY DEF Batches
<1>2. IsFiniteSet(Claimable)
  BY PostsAssumption, FS_Subset DEF Claimable, PostsAssumption
<1>3. /\ IsFiniteSet(b) /\ Cardinality(b) \in Nat
      /\ Cardinality(Claimable) \in Nat
  BY <1>1, <1>2, FS_Subset, FS_CardinalityType
<1>4. b = Claimable \/ Cardinality(b) # Cardinality(Claimable)
  BY <1>1, <1>2, FS_Subset
<1>5. \/ Cardinality(b) = Cardinality(Claimable)
      \/ Cardinality(b) = BatchSize
  BY DEF Batches
<1> QED
  BY <1>1, <1>3, <1>4, <1>5

----------------------------------------------------------------------------
(* Type correctness. *)
LEMMA TypeInit == Init => TypeOK
<1> SUFFICES ASSUME Init PROVE TypeOK
  OBVIOUS
<1>1. asked \in [Posts -> [key : Keys \union {NoKey}, pair : Pairs]]
  BY InputsAssumption DEF Init, InputsAssumption
<1>2. full \in BOOLEAN
  BY Zenon DEF Init
<1> QED
  BY <1>1, <1>2 DEF Init, TypeOK

LEMMA HandlerType ==
    ASSUME TypeOK, NEW c \in Posts, Handler(c)
    PROVE  TypeOK'
<1> USE DEF TypeOK, Goes, rows, run, main
<1>1. CASE Insert(c)
  BY <1>1 DEF Insert
<1>2. CASE InsertLost(c)
  BY <1>2 DEF InsertLost
<1>3. CASE FindKey(c)
  BY <1>3 DEF FindKey
<1>4. CASE Fail(c)
  BY <1>4 DEF Fail
<1>5. CASE Nudge(c)
  BY <1>5 DEF Nudge, Signalled
<1>6. CASE Replay(c)
  BY <1>6 DEF Replay
<1>7. CASE Conflict(c)
  BY <1>7 DEF Conflict
<1> QED
  BY <1>1, <1>2, <1>3, <1>4, <1>5, <1>6, <1>7 DEF Handler

LEMMA RowType ==
    ASSUME TypeOK, NEW c \in Posts, Settle(c) \/ ComeDue(c)
    PROVE  TypeOK'
<1> USE DEF TypeOK, calls, run, main
<1>1. CASE Settle(c)
  BY <1>1 DEF Settle, Finish, Retry, Abandon, Settles
<1>2. CASE ComeDue(c)
  BY <1>2 DEF ComeDue, Due, Overdue
<1> QED
  BY <1>1, <1>2

LEMMA RunType ==
    ASSUME TypeOK, Run
    PROVE  TypeOK'
<1> USE DEF TypeOK, calls, rows, main, Moves
<1>1. CASE LoopStops \/ OnNudge \/ OnTick
  BY <1>1 DEF LoopStops, OnNudge, OnTick
<1>2. ASSUME NEW b \in Batches
      PROVE  /\ Becomes(b, "working") \in [Posts -> {"none", "queued", "working", "waiting",
                                                     "stuck", "overdue", "done"}]
             /\ Becomes(b, "stuck") \in [Posts -> {"none", "queued", "working", "waiting",
                                                   "stuck", "overdue", "done"}]
             /\ Counted(b) \in [Posts -> Nat]
  BY DEF Becomes, Counted
<1>3. CASE Claim
  BY <1>2, <1>3 DEF Claim
<1>4. CASE ClaimFails
  BY <1>4 DEF ClaimFails, ClaimError, Claimable
<1>5. CASE ClaimLost
  BY <1>2, <1>5, BatchIsAllOrFull DEF ClaimLost, ClaimError, Claimable
<1>6. CASE EndPass
  BY <1>6 DEF EndPass, AfterPass
<1> QED
  BY <1>1, <1>3, <1>4, <1>5, <1>6 DEF Run

LEMMA MainType ==
    ASSUME TypeOK, Main \/ TickFires
    PROVE  TypeOK'
<1> USE DEF TypeOK, calls, rows, run
<1>1. CASE Stop \/ StopDispatch \/ Restart \/ TickFires
  BY <1>1 DEF Stop, StopDispatch, Restart, TickFires, main
<1>2. CASE Ends
  <2>1. post' \in [Posts -> {"idle", "inserted", "taken", "accepted",
                             "replayed", "conflicted", "failed"}]
    BY <1>2 DEF Ends
  <2>2. row' \in [Posts -> {"none", "queued", "working", "waiting",
                            "stuck", "overdue", "done"}]
    BY <1>2 DEF Ends, Becomes
  <2>3. full' \in BOOLEAN
    BY <1>2, Zenon DEF Ends
  <2>4. passedOver' \subseteq Posts
    BY <1>2 DEF Ends, Claimable
  <2>5. /\ UNCHANGED <<asked, reply, attempts, losses, starts>>
        /\ phase' = "down" /\ loop' = "returned" /\ nudge' = 0 /\ tick' = 0
    BY <1>2, Zenon DEF Ends
  <2> QED
    BY <2>1, <2>2, <2>3, <2>4, <2>5
<1> QED
  BY <1>1, <1>2 DEF Main, Exit, Crash

(* The process and its rows keep their types, and neither channel ever     *)
(* holds more than one signal (main.go:68-70).                             *)
THEOREM TypeCorrect == Spec => []TypeOK
<1>1. TypeOK /\ [Next]_vars => TypeOK'
  <2>1. TypeOK /\ UNCHANGED vars => TypeOK'
    BY DEF TypeOK, vars, calls, rows, run, main
  <2> QED
    BY <2>1, HandlerType, RowType, RunType, MainType DEF Next
<1> QED
  BY TypeInit, <1>1, PTL DEF Spec

----------------------------------------------------------------------------
(* Replies. *)
LEMMA QuietSteps ==
    ASSUME TypeOK,
           \/ \E c \in Posts : FindKey(c) \/ Fail(c) \/ Settle(c) \/ ComeDue(c)
           \/ Run \/ TickFires \/ Main \/ UNCHANGED vars
    PROVE  Quiet
<1> USE DEF TypeOK, Quiet
<1>1. ASSUME NEW c \in Posts, FindKey(c) \/ Fail(c)
      PROVE  Quiet
  BY <1>1 DEF FindKey, Fail, Goes, rows
<1>2. ASSUME NEW c \in Posts, Settle(c)
      PROVE  Quiet
  BY <1>2 DEF Settle, Finish, Retry, Abandon, Settles, calls
<1>3. ASSUME NEW c \in Posts, ComeDue(c)
      PROVE  Quiet
  BY <1>3 DEF ComeDue, Due, Overdue, calls
<1>4. ASSUME NEW b \in Batches,
             row' \in {Becomes(b, "working"), Becomes(b, "stuck")}
      PROVE  \A c \in Posts : row'[c] = "none" <=> row[c] = "none"
  BY <1>4, BatchIsAllOrFull DEF Becomes, Claimable
<1>5. CASE Run
  <2>1. UNCHANGED calls
    BY <1>5 DEF Run, LoopStops, OnNudge, OnTick, Claim, ClaimFails, ClaimLost,
                ClaimError, EndPass
  <2>2. \/ UNCHANGED row
        \/ \E b \in Batches : row' \in {Becomes(b, "working"), Becomes(b, "stuck")}
    BY <1>5 DEF Run, LoopStops, OnNudge, OnTick, Claim, ClaimFails, ClaimLost,
                ClaimError, EndPass, rows
  <2> QED
    BY <2>1, <2>2, <1>4 DEF calls
<1>6. CASE Stop \/ StopDispatch \/ Restart \/ TickFires \/ UNCHANGED vars
  BY <1>6 DEF Stop, StopDispatch, Restart, TickFires, vars, calls, rows
<1>7. CASE Ends
  BY <1>7 DEF Ends, Becomes, Working
<1> QED
  BY <1>1, <1>2, <1>3, <1>5, <1>6, <1>7 DEF Main, Exit, Crash

LEMMA QuietReplies ==
    ASSUME ReplyInv, Quiet, TypeOK
    PROVE  ReplyInv'
<1>1. \A c, d \in Posts : (SameKey(c, d))' <=> SameKey(c, d)
  BY DEF SameKey, Quiet
<1>2. OneRowPerKey'
  BY <1>1 DEF OneRowPerKey, ReplyInv, Quiet
<1>3. InsertedHasRow'
  BY DEF InsertedHasRow, ReplyInv, Quiet
<1>4. ReplyIsRow'
  BY <1>1 DEF ReplyIsRow, Answers, ReplyInv, Quiet, TypeOK
<1>5. ConflictIsReal'
  BY <1>1 DEF ConflictIsReal, ReplyInv, Quiet
<1> QED
  BY <1>2, <1>3, <1>4, <1>5 DEF ReplyInv

(* The unique index: an insert adds the key's only row. *)
LEMMA InsertReplies ==
    ASSUME TypeOK, ReplyInv, NEW c \in Posts, Insert(c) \/ InsertLost(c)
    PROVE  ReplyInv'
<1>1. /\ UNCHANGED <<asked, reply>>
      /\ ~KeyTaken(c)
      /\ row' = [row EXCEPT ![c] = "queued"]
      /\ post' \in {[post EXCEPT ![c] = "inserted"], [post EXCEPT ![c] = "failed"]}
  BY DEF Insert, InsertLost, Goes
<1>2. \A a, b \in Posts : (SameKey(a, b))' <=> SameKey(a, b)
  BY <1>1 DEF SameKey
<1>3. \A a \in Posts : row[a] # "none" => row'[a] # "none"
  BY <1>1 DEF TypeOK
<1>4. OneRowPerKey'
  <2>1. \A a \in Posts : row'[a] # "none" => row[a] # "none" \/ a = c
    BY <1>1 DEF TypeOK
  <2>2. \A a \in Posts : row[a] # "none" => ~SameKey(a, c) /\ ~SameKey(c, a)
    BY <1>1 DEF KeyTaken, SameKey
  <2> QED
    BY <1>2, <2>1, <2>2 DEF OneRowPerKey, ReplyInv
<1>5. InsertedHasRow'
  BY <1>1, <1>3 DEF InsertedHasRow, ReplyInv, TypeOK
<1>6. ReplyIsRow'
  BY <1>1, <1>2, <1>3 DEF ReplyIsRow, Answers, ReplyInv, TypeOK
<1>7. ConflictIsReal'
  BY <1>1, <1>2, <1>3 DEF ConflictIsReal, ReplyInv, TypeOK
<1> QED
  BY <1>4, <1>5, <1>6, <1>7 DEF ReplyInv

(* An answer names a row of the call's own key and pair. *)
LEMMA AnswerReplies ==
    ASSUME TypeOK, ReplyInv, NEW c \in Posts, Nudge(c) \/ Replay(c) \/ Conflict(c)
    PROVE  ReplyInv'
<1>1. UNCHANGED <<asked, row>>
  BY DEF Nudge, Replay, Conflict, rows
<1>2. \A a, b \in Posts : (SameKey(a, b))' <=> SameKey(a, b)
  BY <1>1 DEF SameKey
<1>3. OneRowPerKey'
  BY <1>1, <1>2 DEF OneRowPerKey, ReplyInv
<1>4. InsertedHasRow'
  BY <1>1 DEF Nudge, Replay, Conflict, Goes, InsertedHasRow, ReplyInv, TypeOK
<1>5. ReplyIsRow'
  <2>1. \/ UNCHANGED reply
        \/ \E d \in Posts : Answers(c, d) /\ reply' = [reply EXCEPT ![c] = d]
    BY DEF Nudge, Replay, Conflict, Goes, SamePair, Answers, ReplyInv, InsertedHasRow
  <2> QED
    BY <1>1, <1>2, <2>1 DEF ReplyIsRow, Answers, ReplyInv, TypeOK
<1>6. ConflictIsReal'
  BY <1>1, <1>2
     DEF Nudge, Replay, Conflict, Goes, SamePair, ConflictIsReal, ReplyInv, TypeOK
<1> QED
  BY <1>3, <1>4, <1>5, <1>6 DEF ReplyInv

(* Calls with one Idempotency-Key agree on the request and its pair, and a *)
(* conflict is reported only against a request for another pair            *)
(* (request_update.go:18-21).                                              *)
THEOREM AllRepliesAgree == Spec => []RepliesAgree
<1>1. Init => ReplyInv
  BY DEF Init, ReplyInv, OneRowPerKey, InsertedHasRow, ReplyIsRow, ConflictIsReal
<1>2. TypeOK /\ ReplyInv /\ [Next]_vars => ReplyInv'
  BY QuietSteps, QuietReplies, InsertReplies, AnswerReplies DEF Next, Handler
<1>3. TypeOK /\ ReplyInv => RepliesAgree
  <2> SUFFICES ASSUME TypeOK, ReplyInv
               PROVE  RepliesAgree
    OBVIOUS
  <2>1. ASSUME NEW c \in Posts, NEW d \in Posts,
               SameKey(c, d), reply[c] # NoReply, reply[d] # NoReply
        PROVE  reply[c] = reply[d] /\ asked[c].pair = asked[d].pair
    <3>1. reply[c] \in Posts /\ reply[d] \in Posts
      BY <2>1 DEF TypeOK
    <3>2. Answers(c, reply[c]) /\ Answers(d, reply[d])
      BY <2>1 DEF ReplyInv, ReplyIsRow
    <3>3. SameKey(reply[c], reply[d])
      BY <2>1, <3>2 DEF Answers, SameKey
    <3> QED
      BY <3>1, <3>2, <3>3 DEF Answers, ReplyInv, OneRowPerKey
  <2> QED
    BY <2>1 DEF RepliesAgree, ReplyInv, ConflictIsReal
<1> QED
  BY TypeCorrect, <1>1, <1>2, <1>3, PTL DEF Spec

----------------------------------------------------------------------------
(* Wake-ups. *)
LEMMA HandlerWakes ==
    ASSUME TypeOK, WakeInv, NEW c \in Posts, Handler(c)
    PROVE  WakeInv'
<1> USE DEF TypeOK, WakeInv, NoLostWakeup, DownPassesAll, WillClaim, Goes, Up, rows, run, main
<1>1. CASE Insert(c)
  BY <1>1 DEF Insert
<1>2. CASE InsertLost(c)
  BY <1>2 DEF InsertLost
<1>3. CASE FindKey(c) \/ Fail(c)
  BY <1>3 DEF FindKey, Fail
<1>4. CASE Nudge(c)
  BY <1>4 DEF Nudge, Signalled
<1>5. CASE Replay(c) \/ Conflict(c)
  BY <1>5 DEF Replay, Conflict
<1> QED
  BY <1>1, <1>2, <1>3, <1>4, <1>5 DEF Handler

LEMMA RowWakes ==
    ASSUME TypeOK, WakeInv, NEW c \in Posts, Settle(c) \/ ComeDue(c)
    PROVE  WakeInv'
<1> USE DEF TypeOK, WakeInv, NoLostWakeup, DownPassesAll, WillClaim, calls, run, main
<1>1. CASE Settle(c)
  BY <1>1 DEF Settle, Finish, Retry, Abandon, Settles
<1>2. CASE ComeDue(c)
  BY <1>2 DEF ComeDue, Due, Overdue
<1> QED
  BY <1>1, <1>2

(* A row the batch leaves behind was over its limit, so the batch is full  *)
(* and the loop claims again.                                              *)
LEMMA RunWakes ==
    ASSUME TypeOK, WakeInv, Run
    PROVE  WakeInv'
<1> USE DEF TypeOK, WakeInv, NoLostWakeup, DownPassesAll, WillClaim, Moves, Up,
            calls, rows, main
<1>1. CASE LoopStops \/ OnNudge \/ OnTick
  BY <1>1 DEF LoopStops, OnNudge, OnTick, Draining
<1>2. CASE Claim
  <2>1. PICK b \in Batches :
            /\ Moves("claim", "work")
            /\ row' = Becomes(b, "working")
            /\ full' = (Cardinality(b) = BatchSize)
            /\ UNCHANGED <<calls, passedOver, main>>
    BY <1>2 DEF Claim
  <2>2. \A c \in Posts : row'[c] = "queued" => full'
    <3> SUFFICES ASSUME NEW c \in Posts, row'[c] = "queued"
                 PROVE  Cardinality(b) = BatchSize
      BY <2>1
    <3>1. c \notin b /\ row[c] = "queued"
      BY <2>1 DEF Becomes
    <3>2. c \in Claimable
      BY <3>1 DEF Claimable
    <3> QED
      BY <3>1, <3>2, BatchIsAllOrFull
  <2>3. loop' = "work" /\ phase # "down" /\ phase' = phase
    BY <2>1
  <2> QED
    BY <2>2, <2>3
<1>3. CASE ClaimError
  <2>1. \A c \in Posts : row'[c] = "queued" => row[c] = "queued"
    BY DEF Run, LoopStops, OnNudge, OnTick, Claim, ClaimFails, ClaimLost, EndPass, Becomes
  <2> QED
    BY <1>3, <2>1 DEF ClaimError, Claimable
<1>4. CASE EndPass
  BY <1>4 DEF EndPass, AfterPass, Draining
<1> QED
  BY <1>1, <1>2, <1>3, <1>4 DEF Run, ClaimFails, ClaimLost

LEMMA MainWakes ==
    ASSUME TypeOK, WakeInv, Main \/ TickFires
    PROVE  WakeInv'
<1> USE DEF TypeOK, WakeInv, NoLostWakeup, DownPassesAll, WillClaim, calls, rows, run
<1>1. CASE Stop \/ StopDispatch \/ TickFires
  BY <1>1 DEF Stop, StopDispatch, TickFires, main
<1>2. CASE Restart
  BY <1>2 DEF Restart
<1>3. CASE Ends
  <2>1. \A c \in Posts : row'[c] = "queued" => c \in Claimable
    BY <1>3 DEF Ends, Becomes, Claimable
  <2> QED
    BY <1>3, <2>1 DEF Ends
<1> QED
  BY <1>1, <1>2, <1>3 DEF Main, Exit, Crash

(* While the process runs, an accepted request that no failed claim has    *)
(* passed over is about to be claimed without waiting for the ticker.      *)
THEOREM NoWakeupLost == Spec => []NoLostWakeup
<1>1. Init => WakeInv
  BY DEF Init, WakeInv, NoLostWakeup, DownPassesAll
<1>2. TypeOK /\ WakeInv /\ [Next]_vars => WakeInv'
  <2>1. WakeInv /\ UNCHANGED vars => WakeInv'
    BY DEF WakeInv, NoLostWakeup, DownPassesAll, WillClaim, vars, calls, rows, run, main
  <2> QED
    BY <2>1, HandlerWakes, RowWakes, RunWakes, MainWakes DEF Next
<1>3. WakeInv => NoLostWakeup
  BY DEF WakeInv
<1> QED
  BY TypeCorrect, <1>1, <1>2, <1>3, PTL DEF Spec
====
