------------------------------ MODULE Workers -------------------------------
(***************************************************************************)
(* What lives beside the requests: the worker of the statistics, the pool  *)
(* of connections to the database, and the passes over the transports that *)
(* the trackers list as under way. They share no state. A behaviour is of  *)
(* the part that focus names; the statistics stay as they began, and the   *)
(* other parts are off.                                                    *)
(***************************************************************************)
EXTENDS DlogStats

CONSTANTS
    Reqs, Conns, Idle, Extra, Errors,                       \* ConnPool
    Passers, Ids, Starts(_), Made, Near, Days, MaxTime      \* ActiveDeliveries; Passers are its Procs

\* 0 stands for no connection; times and limits are numbers, and at least one error is
\* needed to restart the pool.
ASSUME PoolConstants ==
    /\ 0 \notin Conns
    /\ Idle \in Nat /\ Extra \in Nat /\ Errors \in Nat \ {0}

\* 0 stands for no process and no job. A job is delivered once, and its tracker tells
\* about the same time of its start while it is under way as when it is delivered.
ASSUME ActiveConstants ==
    /\ 0 \notin Passers
    /\ Ids \subseteq Nat \ {0} /\ IsFiniteSet(Ids)
    /\ \A k \in Ids : Starts(k) \subseteq Nat
    /\ Near \in Nat /\ Days \in Nat /\ MaxTime \in Nat \ {0}
    /\ Made \subseteq [own : Ids \union {0}, start : Nat]
    /\ \A d, e \in Made : d.own = e.own /\ d.own # 0 => d = e
    /\ \A d \in Made : d.own # 0 => \A s \in Starts(d.own) : s <= d.start + Near

VARIABLES
    focus,
    pool, conns, request, dberr, young, lost,   \* ConnPool
    rows, logged, now, holder, run, accident    \* ActiveDeliveries

poolVars == <<pool, conns, request, dberr, young, lost>>
activeVars == <<rows, logged, now, holder, run, accident>>
all == <<focus, vars, poolVars, activeVars>>

Pool == INSTANCE ConnPool
Active == INSTANCE ActiveDeliveries WITH Procs <- Passers

-----------------------------------------------------------------------------
off == "off"
PoolOff == pool = off /\ conns = off /\ request = off /\ dberr = off /\ young = off /\ lost = off

ActiveOff == rows = off /\ logged = off /\ now = off /\ holder = off /\ run = off /\ accident = off

AllInit ==
    /\ \/ focus = "stats" /\ PoolOff /\ ActiveOff
       \/ focus = "pool" /\ Pool!Init /\ ActiveOff
       \/ focus = "active" /\ Active!Init /\ PoolOff
    /\ Init

StatsOnly == focus = "stats" /\ UNCHANGED <<focus, poolVars, activeVars>>
PoolOnly == focus = "pool" /\ UNCHANGED <<focus, vars, activeVars>>
ActiveOnly == focus = "active" /\ UNCHANGED <<focus, vars, poolVars>>

AllNext ==
    \/ StatsOnly /\ Next
    \/ PoolOnly /\ Pool!Next
    \/ ActiveOnly /\ Active!Next

AllSpec == AllInit /\ [][AllNext]_all

-----------------------------------------------------------------------------
\* Every variable of every part has its type.
AllTyped ==
    /\ focus = "stats" => TypeOK
    /\ focus = "pool" => Pool!PoolTyped
    /\ focus = "active" => Active!ActiveTyped

\* What many could do is one's: one process counts, a connection is of one request, a
\* trip is shown once, and one that was made is not called given up. (threads.py,
\* UpdateDlogStats; db.py, new_conn; functions/active_deliveries.py, reconcile.)
OnlyOnce ==
    /\ focus = "stats" => OneWorker
    /\ focus = "pool" => Pool!ConnectionsAreOfOne
    /\ focus = "active" => Active!ShownOnce /\ Active!MadeIsCompleted

\* The statistics are what the tally of whole deliveries allows, and a transport that
\* is closed stays as it is. (threads.py, UpdateDlogStats; functions/active_deliveries.py.)
PromisesAreKept ==
    /\ CountedAsPromised
    /\ [][focus = "active" => Active!ClosedStays]_all
=============================================================================
