SPECIFICATION MCSpec
CONSTANTS
    p1 = p1
    p2 = p2
    Procs = {p1, p2}
    Drivers = {1}
    Keys <- MCKeys
    Contents <- MCContents
    MaxLog = 2
    MaxStops = 1
    Reqs = {1, 2}
    Conns = {1, 2}
    Idle = 1
    Extra = 1
    Errors = 2
    Passers = {1, 2}
    Ids = {1, 2}
    Starts <- MCStarts
    Made <- MCMade
    Near = 1
    Days = 1
    MaxTime = 2
INVARIANTS
    AllTyped
    OnlyOnce
PROPERTIES
    PromisesAreKept
    EveryoneIsServed
CHECK_DEADLOCK FALSE
