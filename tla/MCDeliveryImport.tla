-------------------------- MODULE MCDeliveryImport --------------------------
(* Small instances of DeliveryImport for TLC.                              *)
EXTENDS DeliveryImport, TLC

CONSTANTS t1, t2, h1, d1, alice, bob

\* Connections are interchangeable.
Symmetry == Permutations(Requests)

\* t: reported by Trucky, h: by TruckersHub, d: by another tracker.
MCProvider == [j \in Jobs |-> IF j \in {t1, t2} THEN "trucky"
                              ELSE IF j = d1 THEN "direct" ELSE "truckershub"]

\* d1 is another driver's.
MCDriver == [j \in Jobs |-> IF j = d1 THEN bob ELSE alice]

Pair(i, j, a, b) == {i, j} = {a, b}

\* t1 and h1 are one trip, which t2 may be as well.
MCMatch ==
    [i \in Jobs |-> [j \in Jobs |->
        IF MCDriver[i] # MCDriver[j] THEN "different"
        ELSE IF i = j \/ Pair(i, j, t1, h1) THEN "same"
        ELSE IF Pair(i, j, t2, h1) THEN "possible"
        ELSE "different"]]
=============================================================================
