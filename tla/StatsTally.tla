----------------------------- MODULE StatsTally -----------------------------
(***************************************************************************)
(* What the statistics of a company promise, without the worker that keeps *)
(* them: a tally of what the deliveries contain, by driver and for the     *)
(* company, to which each delivery is added as a whole and at most once,   *)
(* in the order of the logids. Each stop may leave a part of one behind,   *)
(* no more, and nothing is ever taken away but by a rebuild, which starts  *)
(* again from the deliveries there are.                                    *)
(***************************************************************************)
EXTENDS Integers, FiniteSetsExt

CONSTANTS
    Drivers,   \* user ids
    Keys,      \* what is counted: a truck, a cargo, a fine, ...
    Contents,  \* the [Keys -> Nat] a delivery may have
    MaxLog     \* bound on the logids

Company == -1
Subjects == Drivers \union {Company}
Deliveries == [userid : Subjects, items : Contents]

VARIABLES
    tally,     \* [Subjects \X Keys -> Nat]
    settled,   \* by logid, the delivery as it was counted
    stops      \* failures, ends of processes and starts

\* A delivery counts for its driver and for the company; one of nobody has the
\* company's id and counts once.
Amount(d, c) == IF c[1] \in {d.userid, Company} THEN d.items[c[2]] ELSE 0
Cells(d) == {c \in Subjects \X Keys : Amount(d, c) > 0}

TallyOf(T) ==
    [c \in Subjects \X Keys |->
        MapThenSumSet(LAMBDA l : Amount(T[l], c), DOMAIN T)]

Plus(d, S) == [c \in Subjects \X Keys |->
                  IF c \in S THEN tally[c] + Amount(d, c) ELSE tally[c]]

Init ==
    /\ tally = [c \in Subjects \X Keys |-> 0]
    /\ settled = [l \in {} |-> 0]
    /\ stops = 0

Count(l, d) ==
    /\ \A i \in DOMAIN settled : i < l
    /\ settled' = [i \in DOMAIN settled \union {l} |->
                      IF i = l THEN d ELSE settled[i]]
    /\ tally' = Plus(d, Cells(d))
    /\ UNCHANGED stops

\* What was being counted is left: the part of it that was written stays.
Stop(d, S) ==
    /\ stops' = stops + 1
    /\ tally' = Plus(d, S)
    /\ UNCHANGED settled

Rebuild ==
    /\ settled' \in UNION {[L -> Deliveries] : L \in SUBSET (1..MaxLog)}
    /\ tally' = TallyOf(settled')
    /\ stops' = stops + 1

\* A step changes something.
Next ==
    /\ <<tally, settled, stops>>' # <<tally, settled, stops>>
    /\ \/ \E l \in 1..MaxLog, d \in Deliveries : Count(l, d)
       \/ \E d \in Deliveries : \E S \in SUBSET Cells(d) : Stop(d, S)
       \/ Rebuild

Spec == Init /\ [][Next]_<<tally, settled, stops>>
=============================================================================
