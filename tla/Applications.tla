---------------------------- MODULE Applications ----------------------------
(***************************************************************************)
(* Applications: who may submit one, the messages that applicant and staff *)
(* add to it, the decisions of staff, and the statistics over time.        *)
(*                                                                         *)
(* Whether a user may submit is read in one step, and the row inserted in  *)
(* a later one; the answers and messages of an application are one column, *)
(* read and written back as a whole. Who may do what is left out but for   *)
(* the applicant; a message is the number of the request it came with.     *)
(***************************************************************************)
EXTENDS Integers, Sequences, FiniteSetsExt

CONSTANTS
    Reqs, Users,
    Types,
    Multiple,    \* the types of which several may be pending
    Cooldown,    \* by type, 0 if there is none
    MaxApplications, MaxReqs, MaxTime    \* bounds

VARIABLES
    application, \* the rows; a deleted one has the id negated
    now,
    req, reqs,
    sent,        \* history: by application, the messages that were accepted
    mixed,       \* history: applications whose messages overlapped
    crowded      \* history: <<user, type>> whose submissions overlapped, or of
                 \* which staff reopened one

vars == <<application, now, req, reqs, sent, mixed, crowded>>

Ids == 1..MaxApplications
pending == 0
Statuses == {pending, 1, 2}
NoApplication == [live |-> FALSE, uid |-> 0, type |-> 0, status |-> pending, at |-> 0,
                  data |-> {}]
Used == {a \in Ids : application[a].uid # 0}
Live == {a \in Ids : application[a].live}
Of(u, ty) == {a \in Live : application[a].uid = u /\ application[a].type = ty}

Idle == [pc |-> "idle", id |-> 0, uid |-> 0, type |-> 0, status |-> 0, data |-> {}, msg |-> 0]

Init ==
    /\ application = [a \in Ids |-> NoApplication]
    /\ now = 1
    /\ req = [r \in Reqs |-> Idle] /\ reqs = 0
    /\ sent = [a \in Ids |-> {}]
    /\ mixed = {} /\ crowded = {}

-----------------------------------------------------------------------------
Begin(r, job) ==
    /\ reqs < MaxReqs /\ req[r].pc = "idle"
    /\ reqs' = reqs + 1
    /\ req' = [req EXCEPT ![r] = job]
    /\ UNCHANGED <<application, now, sent>>

End(r) == req' = [req EXCEPT ![r] = Idle]

\* The mutant: applications that were decided do not count for the cooldown.
MaySubmitAfterDecision(u, ty) ==
    /\ Cooldown[ty] > 0 =>
         \A a \in Of(u, ty) : \/ application[a].at < now - Cooldown[ty]
                              \/ application[a].status # pending
    /\ ty \notin Multiple => \A a \in Of(u, ty) : application[a].status # pending
MaySubmit(u, ty) ==
    /\ Cooldown[ty] > 0 => \A a \in Of(u, ty) : application[a].at < now - Cooldown[ty]
    /\ ty \notin Multiple => \A a \in Of(u, ty) : application[a].status # pending

\* Discord is asked whether the user is a member of the guild in between.
post_application(r, u, ty) ==
    /\ MaySubmit(u, ty)
    /\ Begin(r, [Idle EXCEPT !.pc = "insert", !.uid = u, !.type = ty])
    /\ crowded' = IF \E q \in Reqs \ {r} : req[q].pc = "insert" /\ req[q].uid = u
                                           /\ req[q].type = ty
                  THEN crowded \union {<<u, ty>>} ELSE crowded
    /\ UNCHANGED mixed

Insert(r) ==
    /\ req[r].pc = "insert" /\ Used # Ids
    /\ application' = [application EXCEPT ![Min(Ids \ Used)] =
            [live |-> TRUE, uid |-> req[r].uid, type |-> req[r].type, status |-> pending,
             at |-> now, data |-> {}]]
    /\ End(r)
    /\ UNCHANGED <<now, reqs, sent, mixed, crowded>>

Messages == {"message", "status"}
Overlaps(r, a) == \E q \in Reqs \ {r} : req[q].pc \in Messages /\ req[q].id = a

post_message(r, u, a) ==
    /\ a \in Live /\ application[a].uid = u /\ application[a].status = pending
    /\ Begin(r, [Idle EXCEPT !.pc = "message", !.id = a, !.msg = reqs + 1,
                             !.data = application[a].data \union {reqs + 1}])
    /\ mixed' = IF Overlaps(r, a) THEN mixed \union {a} ELSE mixed
    /\ UNCHANGED crowded

\* Whatever the status is; it may be pending again.
patch_status(r, a, status) ==
    /\ a \in Live
    /\ Begin(r, [Idle EXCEPT !.pc = "status", !.id = a, !.msg = reqs + 1, !.status = status,
                             !.data = application[a].data \union {reqs + 1}])
    /\ mixed' = IF Overlaps(r, a) THEN mixed \union {a} ELSE mixed
    /\ UNCHANGED crowded

\* The mutant: a message of the applicant writes the status it has read.
WriteMessageAndStatus(r) ==
    /\ req[r].pc = "message"
    /\ LET a == req[r].id IN
        /\ application' = IF a \in Live THEN [application EXCEPT ![a].data = req[r].data,
                                                                 ![a].status = req[r].status]
                          ELSE application
        /\ sent' = [sent EXCEPT ![a] = @ \union {req[r].msg}]
    /\ End(r)
    /\ UNCHANGED <<now, reqs, mixed, crowded>>
WriteMessage(r) ==
    /\ req[r].pc = "message"
    /\ LET a == req[r].id IN
        /\ application' = IF a \in Live THEN [application EXCEPT ![a].data = req[r].data]
                          ELSE application
        /\ sent' = [sent EXCEPT ![a] = @ \union {req[r].msg}]
    /\ End(r)
    /\ UNCHANGED <<now, reqs, mixed, crowded>>

WriteStatus(r) ==
    /\ req[r].pc = "status"
    /\ LET a == req[r].id  row == application[req[r].id] IN
        /\ application' = IF a \in Live THEN [application EXCEPT ![a].data = req[r].data,
                                                                 ![a].status = req[r].status]
                          ELSE application
        /\ crowded' = IF row.status # pending /\ req[r].status = pending
                      THEN crowded \union {<<row.uid, row.type>>} ELSE crowded
        /\ sent' = [sent EXCEPT ![a] = @ \union {req[r].msg}]
    /\ End(r)
    /\ UNCHANGED <<now, reqs, mixed>>

delete_application(a) ==
    /\ a \in Live
    /\ application' = [application EXCEPT ![a].live = FALSE]
    /\ UNCHANGED <<now, req, reqs, sent, mixed, crowded>>

\* The request fails or the process ends before it commits.
Cut(r) == req[r].pc # "idle" /\ End(r)
          /\ UNCHANGED <<application, now, reqs, sent, mixed, crowded>>

Tick == now < MaxTime /\ now' = now + 1
        /\ UNCHANGED <<application, req, reqs, sent, mixed, crowded>>

Next ==
    \/ \E r \in Reqs :
        \/ \E u \in Users : \/ \E ty \in Types : post_application(r, u, ty)
                            \/ \E a \in Ids : post_message(r, u, a)
        \/ \E a \in Ids, status \in Statuses : patch_status(r, a, status)
        \/ Insert(r) \/ WriteMessage(r) \/ WriteStatus(r) \/ Cut(r)
    \/ \E a \in Ids : delete_application(a)
    \/ Tick

Spec == Init /\ [][Next]_vars

-----------------------------------------------------------------------------
(* Statistics: how many of a type and status were submitted in each of the *)
(* last periods, or up to the end of each.                                 *)

\* The starts of the periods, the oldest first; one must begin after time 0.
Periods(before, interval, ranges) ==
    LET n == Max({0} \union {i \in 1..ranges : before - i * interval > 0})
    IN [i \in 1..n |-> before - (n + 1 - i) * interval]

\* Those that were deleted since are counted as well.
Submitted(ty, st, from, to) ==
    Cardinality({a \in Used : /\ application[a].type = ty /\ application[a].status = st
                              /\ from <= application[a].at /\ application[a].at < to})

\* The rows of a period are added to what was summed up before it.
get_statistics(before, interval, ranges, ty, st) ==
    LET P == Periods(before, interval, ranges)
        data[i \in 0..Len(P)] ==
            IF i = 0 THEN Submitted(ty, st, 0, P[1])
            ELSE data[i - 1] + Submitted(ty, st, P[i], P[i] + interval)
    IN data

-----------------------------------------------------------------------------
\* Every variable has its type.
TypeOK ==
    /\ application \in [Ids -> [live : BOOLEAN, uid : Users \union {0}, type : Types \union {0},
                                status : Statuses, at : 0..MaxTime, data : SUBSET (1..MaxReqs)]]
    /\ reqs \in 0..MaxReqs /\ now \in 1..MaxTime

\* A user has one pending application of a type that allows no more, and leaves
\* the cooldown between two of them, unless two submissions overlapped or staff
\* made one pending again.
OneApplication ==
    \A a, b \in Live :
        LET x == application[a]  y == application[b] IN
        a < b /\ x.uid = y.uid /\ x.type = y.type /\ <<x.uid, x.type>> \notin crowded =>
            /\ x.type \notin Multiple => x.status # pending \/ y.status # pending
            /\ Cooldown[x.type] > 0 => x.at + Cooldown[x.type] < y.at

\* Messages that do not overlap are all kept, through decisions and reopenings.
MessagesAreKept == \A a \in Live : a \notin mixed => application[a].data = sent[a]

\* What is summed up for a period is what was submitted before its end.
StatisticsAddUp ==
    \A before \in 1..MaxTime + 1, interval \in 1..2, ty \in Types, st \in Statuses :
        LET P == Periods(before, interval, 2) IN
        Len(P) > 0 =>
            \A i \in 1..Len(P) : get_statistics(before, interval, 2, ty, st)[i]
                                 = Submitted(ty, st, 0, P[i] + interval)
=============================================================================
