----------------------------- MODULE MCServices -----------------------------
(***************************************************************************)
(* Small instances for TLC of the parts in Services, with their fairness.  *)
(***************************************************************************)
EXTENDS Services, MCDiscordQueues

CONSTANTS p1, p2   \* processes

\* A job of last month that a webhook tells of, and one of the month before that fails.
HubMonth(j) == j + 1

\* The fairness of each part. A behaviour is of one part, so that the conjuncts of the
\* parts are put together, one of each.
Turn1 ==
    \/ DiscordOnly /\ ProcessDiscordMessage
    \/ HubOnly /\ Hub!Pass(p1)
Turn2 ==
    \/ DiscordOnly /\ RunOps
    \/ HubOnly /\ Hub!Pass(p2)
Turn3 ==
    \/ DiscordOnly /\ WaitEnds(c1)
    \/ HubOnly /\ Hub!LeaseExpires
Turn4 ==
    \/ DiscordOnly /\ WaitEnds(c2)
    \/ HubOnly /\ Hub!MonthExpires(2)
MCSpec == AllSpec /\ WF_all(Turn1) /\ WF_all(Turn2) /\ WF_all(Turn3) /\ WF_all(Turn4)

-----------------------------------------------------------------------------
\* Everything gets its turn: both queues are emptied, and a job that is done is imported
\* or put before the staff.
Waiting(k) ==
    \/ focus = "discord" /\ k = 1 /\ messages # <<>>
    \/ focus = "discord" /\ k = 2 /\ ops # <<>>
    \/ focus = "hub" /\ k = 1 /\ Hub!Waits(k)
Served(k) ==
    \/ focus = "discord" /\ k = 1 /\ (messages = <<>> \/ ~token)
    \/ focus = "discord" /\ k = 2 /\ ops = <<>> /\ calling = None
    \/ focus = "hub" /\ Hub!Taken(k)
EveryoneIsServed == \A k \in {1, 2} : Waiting(k) ~> Served(k)
=============================================================================
