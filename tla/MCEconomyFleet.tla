--------------------------- MODULE MCEconomyFleet ---------------------------
(* Small instances of EconomyFleet for TLC.                                *)
EXTENDS EconomyFleet, TLC

\* Where every driver is staff the drivers are interchangeable.
Symmetry == Permutations(Users) \union Permutations(Reqs)

\* The histories looked at: one truck in turn with any slots, or two trucks
\* with the slots of one purchase.
OneTruckOrTwoSlots == nextTruck <= 2 \/ nextSlot <= 3

\* No further than a second refund or two sales of a slot at once; and a truck whose
\* sale was crossed is of interest only as long as there is its slot.
FleetInUse ==
    /\ \A v \in DOMAIN truckRefunds : truckRefunds[v] <= 1
    /\ slotsCrossed = {}
    /\ trucksCrossed = {} \/ \A s \in DOMAIN slotRefunds : slotRefunds[s] = 0
=============================================================================
