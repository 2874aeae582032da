SPECIFICATION Spec
CONSTANTS
    t1 = t1
    t2 = t2
    h1 = h1
    d1 = d1
    alice = alice
    bob = bob
    Nobody = Nobody
    NoJob = NoJob
    Requests = {r1, r2}
    Jobs = {t1, t2, h1}
    Drivers = {alice, bob}
    Provider <- MCProvider
    Driver <- MCDriver
    Match <- MCMatch
    MaxLogs = 4
    MaxFaults = 0
PROPERTIES SeparateIsKept
CHECK_DEADLOCK FALSE
