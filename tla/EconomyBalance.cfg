SPECIFICATION FairSpec
CONSTANTS
    Users = {u1, u2}
    Company = company
    Virtual = {blackhole}
    None = none
    Reqs = {r1, r2}
    Amounts = {1}
    Revenues <- MCRevenues
    PatchValues = {1}
    MaxRequests = 2
    MaxFaults = 1
INVARIANTS TypeOK ReadIsCurrent LedgerExplains QuietLedgerComplete
PROPERTIES SpendingIsCovered RequestsEnd
CHECK_DEADLOCK FALSE
