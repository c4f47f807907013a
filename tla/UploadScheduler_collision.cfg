CONSTANTS
    w1 = w1
    w2 = w2
    op1 = op1
    op2 = op2
    c1 = c1
    c2 = c2
    c3 = c3
    Jobs <- TwoJobs
    Ops <- OneOp
    Channels <- ThreeChannels
    MaxDrops = 1
SPECIFICATION Spec
INVARIANT
    NeverPanics
CHECK_DEADLOCK FALSE
