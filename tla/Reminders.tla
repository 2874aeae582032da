------------------------------ MODULE Reminders ------------------------------
(***************************************************************************)
(* The loops that remind of events, tell the results of polls and remind   *)
(* of tasks. They differ in their windows: an item is due from "ahead"     *)
(* before its time to "behind" after it, and a record that it was handled  *)
(* is kept for "keep". A round forgets old records, selects the items that *)
(* are due and handles each one, time going by in between.                 *)
(***************************************************************************)
EXTENDS Integers, FiniteSets

CONSTANTS
    Loops,       \* EventNotification, PollResultNotification, TaskReminderNotification
    Window,      \* of a loop: [ahead, behind, keep]
    Items,
    MaxTime, MaxMoves    \* bounds

VARIABLES
    at,          \* by loop and item, its time; 0 if there is no such item
    settings,    \* by loop, the records: [item, since]
    now,
    round,       \* by loop, what its round is at: [pc, known, todo]
    moves,       \* how often staff moved an item or made one
    told         \* history: by loop and item, how often it was handled for the time
                 \* it has

vars == <<at, settings, now, round, moves, told>>

Rest == [pc |-> "rest", known |-> {}, todo |-> {}]

Init ==
    /\ at = [l \in Loops |-> [i \in Items |-> 0]]
    /\ settings = [l \in Loops |-> {}]
    /\ now = 1
    /\ round = [l \in Loops |-> Rest]
    /\ moves = 0
    /\ told = [l \in Loops |-> [i \in Items |-> 0]]

-----------------------------------------------------------------------------
\* An event is created, edited or deleted.
Move(l, i, time) ==
    /\ moves < MaxMoves /\ at[l][i] # time
    /\ moves' = moves + 1
    /\ at' = [at EXCEPT ![l][i] = time]
    /\ told' = [told EXCEPT ![l][i] = 0]
    /\ UNCHANGED <<settings, now, round>>

\* The mutant: records go one second early.
OldEarly(l, s) == now - s.since >= Window[l].keep
Old(l, s) == now - s.since > Window[l].keep

\* The records that are kept are remembered for the round.
Expire(l) ==
    /\ round[l].pc = "rest"
    /\ LET kept == {s \in settings[l] : ~ Old(l, s)} IN
        /\ settings' = [settings EXCEPT ![l] = kept]
        /\ round' = [round EXCEPT ![l] = [pc |-> "select", known |-> {s.item : s \in kept},
                                          todo |-> {}]]
    /\ UNCHANGED <<at, now, moves, told>>

Due(l, i) ==
    /\ at[l][i] # 0
    /\ now \in at[l][i] - Window[l].ahead .. at[l][i] + Window[l].behind

Select(l) ==
    /\ round[l].pc = "select"
    /\ round' = [round EXCEPT ![l].pc = "remind",
                              ![l].todo = {<<i, at[l][i]>> : i \in {j \in Items :
                                              Due(l, j) /\ j \notin round[l].known}}]
    /\ UNCHANGED <<at, settings, now, moves, told>>

\* The record is committed first.
Remind(l, i, time) ==
    /\ round[l].pc = "remind" /\ <<i, time>> \in round[l].todo
    /\ settings' = [settings EXCEPT ![l] = @ \union {[item |-> i, since |-> now]}]
    /\ round' = [round EXCEPT ![l].todo = @ \ {<<i, time>>}]
    /\ told' = [told EXCEPT ![l][i] = IF at[l][i] = time THEN @ + 1 ELSE @]
    /\ UNCHANGED <<at, now, moves>>

\* The round is over, or the process ended and another one begins a round.
End(l) ==
    /\ round[l].pc # "rest"
    /\ round' = [round EXCEPT ![l] = Rest]
    /\ UNCHANGED <<at, settings, now, moves, told>>

Tick == now < MaxTime /\ now' = now + 1
        /\ UNCHANGED <<at, settings, round, moves, told>>

Next ==
    \/ \E l \in Loops :
        \/ \E i \in Items, time \in 0..MaxTime : Remind(l, i, time) \/ Move(l, i, time)
        \/ Expire(l) \/ Select(l) \/ End(l)
    \/ Tick

Spec == Init /\ [][Next]_vars

-----------------------------------------------------------------------------
\* However long a round takes and wherever it is cut off, an item is handled at
\* most once for the time it has: the records outlive the window.
RemindedOnce == \A l \in Loops, i \in Items : told[l][i] <= 1
=============================================================================
