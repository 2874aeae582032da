----------------------------- MODULE MCWorkers ------------------------------
(***************************************************************************)
(* Small instances for TLC of the parts in Workers, with their fairness.   *)
(***************************************************************************)
EXTENDS Workers

CONSTANTS p1, p2   \* the processes

\* Two processes, one driver, two things to count.
MCKeys == {"cargo", "fine"}
MCContents == {[k \in MCKeys |-> 0],
               [k \in MCKeys |-> IF k = "cargo" THEN 1 ELSE 2]}

\* Two ids of one trip; the second tracker may not tell when it started.
MCStarts(k) == IF k = 1 THEN {1} ELSE {0, 1}
MCMade == {[own |-> 2, start |-> 1]}

\* The cursor of empty statistics; with 1, the first delivery would never count.
MCInit == AllInit /\ dlog_stats_up_to = 0

\* The fairness of each part. A behaviour is of one part, so that the conjuncts of the
\* parts are put together, one of each.
Turn1 ==
    \/ StatsOnly /\ UpdateDlogStats(p1)
    \/ PoolOnly /\ (Pool!Work(1) \/ Pool!close_conn(1))
    \/ ActiveOnly /\ \E p \in {1, 2} : Active!Pass(p)
Turn2 ==
    \/ StatsOnly /\ UpdateDlogStats(p2)
    \/ PoolOnly /\ (Pool!Work(2) \/ Pool!close_conn(2))
    \/ ActiveOnly /\ Active!LeaseExpires
Turn3 ==
    \/ PoolOnly /\ Pool!Mature
    \/ ActiveOnly /\ Active!Tick
Turn4 == ActiveOnly /\ \E p \in {1, 2} : Active!Deadlock(p)
AllFairness ==
    /\ WF_all(Turn1) /\ WF_all(Turn2) /\ WF_all(Turn3) /\ WF_all(Turn4)
    /\ SF_all(ActiveOnly /\ \E p \in {1, 2} : Active!Close(p))
MCSpec == MCInit /\ [][AllNext]_all /\ AllFairness

-----------------------------------------------------------------------------
\* Everything gets its turn: a delivery is counted, a pool that has lost all of its
\* connections is started again, and a transport ends.
Waiting(k) ==
    \/ focus = "stats" /\ k \in DOMAIN dlog /\ Readable(k)
    \/ focus = "pool" /\ k = 1 /\ Pool!AllLost
    \/ focus = "active" /\ Active!Lasting(k)
Served(k) ==
    \/ focus = "stats" /\ Counted(k)
    \/ focus = "pool" /\ ~Pool!AllLost
    \/ focus = "active" /\ ~Active!Open(k)
EveryoneIsServed == \A k \in {1, 2} : Waiting(k) ~> Served(k)
=============================================================================
