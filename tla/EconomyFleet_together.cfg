SPECIFICATION Spec
CONSTANTS
    Users = {u1}
    Staff = {u1}
    Company = company
    Dealership = dealership
    ScrapStation = scrapstation
    None = none
    Models = {m1}
    Garages = {g1}
    BaseSlots = 1
    Reqs = {r1, r2}
    MaxSlots = 1
    MaxTrucks = 1
    MaxWear = 0
    MaxDistance = 0
CONSTRAINT FleetInUse
SYMMETRY Symmetry
INVARIANTS TypeOK OwnersDriveTheirTrucks RefundedOnce
PROPERTIES DisposedIsFinal
CHECK_DEADLOCK FALSE
