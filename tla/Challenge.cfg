SPECIFICATION MCSpec
CONSTANTS
    u1 = u1
    u2 = u2
    Users = {u1, u2}
    Reqs = {r1, r2}
    Driver <- MCDriver
    Distance <- MCDistance
    Types = {1, 2, 3, 4, 5}
    Counts = {1, 2}
    Rewards = {1, 3}
    MaxLogs = 3
    MaxEdits = 3
CONSTRAINT OrderedOrAdding
SYMMETRY Symmetry
INVARIANTS TypeOK CompletedAsEarned NothingEarnedIsMissed
CHECK_DEADLOCK FALSE
