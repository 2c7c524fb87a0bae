CONSTANTS
    c1 = c1
    c2 = c2
    k1 = k1
    p1 = p1
    p2 = p2
    Posts = {c1, c2}
    Keys = {k1}
    NoKey = nokey
    NoReply = noreply
    Pairs = {p1, p2}
    Inputs <- MCInputs
    BatchSize = 1
    MaxAttempts = 2
    MaxStarts = 2
    MaxLosses = 1
SPECIFICATION FairSpec
INVARIANT TypeOK
INVARIANT NoLostWakeup
INVARIANT RepliesAgree
PROPERTY Answered
