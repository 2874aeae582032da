------------------------------ MODULE Services ------------------------------
(***************************************************************************)
(* The workers that speak with other services: the queues of Discord and   *)
(* the passes over the jobs of TruckersHub. They share no state. A         *)
(* behaviour is of the part that focus names; the queues stay as they      *)
(* began, or the passes are off.                                           *)
(***************************************************************************)
EXTENDS DiscordQueues

CONSTANTS Procs, Jobs, Months, MonthOf(_), Past, Notified, Faulty, Batch, MaxStops   \* HubSync

\* The history begins in some month, and every job is of a month since then.
ASSUME HubConstants ==
    /\ IsFiniteSet(Jobs)
    /\ IsFiniteSet(Months) /\ Months # {} /\ Months = 1..Cardinality(Months)
    /\ \A j \in Jobs : MonthOf(j) \in Months
    /\ Batch \in Nat

VARIABLES focus, hub, source, month_key, inbox, lease, pass, configured, halts

hubVars == <<hub, source, month_key, inbox, lease, pass, configured, halts>>
all == <<focus, vars, hubVars>>

Hub == INSTANCE HubSync

-----------------------------------------------------------------------------
off == "off"
HubOff ==
    /\ hub = off /\ source = off /\ month_key = off /\ inbox = off
    /\ lease = off /\ pass = off /\ configured = off /\ halts = off

AllInit ==
    /\ Init
    /\ \/ focus = "discord" /\ HubOff
       \/ focus = "hub" /\ Hub!Init

DiscordOnly == focus = "discord" /\ UNCHANGED <<focus, hubVars>>
HubOnly == focus = "hub" /\ UNCHANGED <<focus, vars>>

AllNext ==
    \/ DiscordOnly /\ Next
    \/ HubOnly /\ Hub!Next

AllSpec == AllInit /\ [][AllNext]_all

-----------------------------------------------------------------------------
\* Every variable of every part has its type.
AllTyped ==
    /\ focus = "discord" => TypeOK
    /\ focus = "hub" => Hub!HubTyped

\* Nothing that was taken on is given up or called done when it is not: no call or
\* notification of one channel is dropped, and the job of a receipt that counts as
\* processed is known. (functions/notification.py, ProcessDiscordMessage; opqueue.py;
\* truckershub_sync.py, reconcile.)
NothingIsDropped ==
    /\ focus = "discord" => NothingIsGivenUp
    /\ focus = "hub" => Hub!ReceiptsAreAnswered
=============================================================================
