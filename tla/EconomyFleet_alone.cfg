SPECIFICATION Spec
CONSTANTS
    Users = {u1}
    Staff = {u1}
    Company = company
    Dealership = dealership
    ScrapStation = scrapstation
    None = none
    Models = {m1}
    Garages = {g1}
    BaseSlots = 2
    Reqs = {r1}
    MaxSlots = 4
    MaxTrucks = 2
    MaxWear = 0
    MaxDistance = 0
CONSTRAINT OneTruckOrTwoSlots
INVARIANTS ParkedTrucksHaveASlot OneActiveTruckPerModel GaragesStayWhole
CHECK_DEADLOCK FALSE
