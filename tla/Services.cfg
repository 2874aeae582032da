SPECIFICATION MCSpec
CONSTANTS
    p1 = p1
    p2 = p2
    c1 = c1
    c2 = c2
    e1 = e1
    e2 = e2
    e3 = e3
    o1 = o1
    o2 = o2
    NoOp = NoOp
    Channels = {c1, c2}
    Embeds = {e1, e2, e3}
    Channel <- MCChannel
    Size <- MCSize
    Limit = 5
    Ops = {o1, o2}
    Key <- MCKey
    MaxRetry <- MCMaxRetry
    MaxFaults = 3
    Procs = {p1, p2}
    Jobs = {1, 2}
    Months = {1, 2, 3}
    MonthOf <- HubMonth
    Past = {2}
    Notified = {1}
    Faulty = {2}
    Batch = 1
    MaxStops = 1
INVARIANTS AllTyped NothingIsDropped
PROPERTIES PostedAsMeant EveryoneIsServed
CHECK_DEADLOCK FALSE
