SPECIFICATION Spec
CONSTANTS
    c1 = c1
    c2 = c2
    e1 = e1
    e2 = e2
    e3 = e3
    o1 = o1
    o2 = o2
    NoOp = NoOp
    Channels = {c1, c2}
    Embeds = {e1, e2}
    Channel <- MCChannel
    Size <- MCSize
    Limit = 5
    Ops = {}
    Key <- MCKey
    MaxRetry <- MCMaxRetry
    MaxFaults = 1
INVARIANTS NothingLost
CHECK_DEADLOCK FALSE
