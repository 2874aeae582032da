-------------------------------- MODULE Events --------------------------------
(***************************************************************************)
(* The events of a company: who votes for them, who attended and for how   *)
(* many points, and the copies of the company's events at TruckersMP.      *)
(*                                                                         *)
(* A request reads a row in one step and writes what it made of it in      *)
(* another; votes and attendees are lists in one column, written as a      *)
(* whole. The drivers are told of their points one after the other before  *)
(* the points are written. Title, places and times are one value.          *)
(***************************************************************************)
EXTENDS Integers, FiniteSetsExt

CONSTANTS
    Reqs,        \* connections
    Drivers,
    Points,      \* the points staff give
    Texts,       \* what an event may say
    Remotes,     \* ids of events at TruckersMP
    MaxEvents,   \* bound on the rows
    MaxReqs      \* bound on the requests

VARIABLES
    event,      \* the rows, by eventid; a deleted one has the id negated
    req,
    reqs,       \* how many requests there were
    voted,      \* history: by event, whose last answer was that they vote
    told,       \* history: by event and driver, the sum of the points told
    copied,     \* history: the events the synchronisation made, whose link is as made
    mixed       \* history: the events, and 0 for the synchronisation, for which
                \* requests overlapped or were cut off

history == <<voted, told, copied, mixed>>
vars == <<event, req, reqs, history>>

\* link: the event at TruckersMP, 0 if it is another link.
NoEvent == [live |-> FALSE, link |-> 0, text |-> "none", private |-> FALSE,
            vote |-> {}, attendee |-> {}, points |-> 0]
Ids == 1..MaxEvents
Used == {e \in Ids : event[e].text # "none"}
Live == {e \in Ids : event[e].live}

\* seen: the row as it was read; new: as it is to be; who: the driver who votes,
\* or the drivers who are still to be told; local: by remote id, the first event.
Idle == [pc |-> "idle", op |-> "none", id |-> 0, seen |-> NoEvent, new |-> NoEvent,
         who |-> {}, local |-> [n \in Remotes |-> 0], remote |-> [n \in {} |-> ""]]

Init ==
    /\ event = [e \in Ids |-> NoEvent]
    /\ req = [r \in Reqs |-> Idle]
    /\ reqs = 0
    /\ voted = [e \in Ids |-> {}]
    /\ told = [e \in Ids |-> [d \in Drivers |-> 0]]
    /\ copied = {}
    /\ mixed = {}

-----------------------------------------------------------------------------
\* Requests whose writes touch the same columns of an event, or the copies.
Subject(op, e) == IF op = "sync" THEN 0 ELSE e
SameColumns(op1, op2) ==
    LET Votes == {"put_vote", "delete_vote"} IN
    op1 = op2 \/ (op1 \in Votes /\ op2 \in Votes)

Begin(r, op, e, job) ==
    /\ reqs < MaxReqs
    /\ req[r].pc = "idle"
    /\ reqs' = reqs + 1
    /\ req' = [req EXCEPT ![r] = job]
    /\ mixed' = IF \E q \in Reqs \ {r} : /\ req[q].pc # "idle"
                                         /\ SameColumns(req[q].op, op)
                                         /\ Subject(op, e) = Subject(req[q].op, req[q].id)
                THEN mixed \union {Subject(op, e)} ELSE mixed
    /\ UNCHANGED <<event, voted, told, copied>>

Row(op, e, new) == [Idle EXCEPT !.pc = "write", !.op = op, !.id = e,
                                !.seen = event[e], !.new = new]

End(r) == req' = [req EXCEPT ![r] = Idle]

\* A driver who has voted gets a 409, and so does one who has not and cancels.
put_vote(r, e, d) ==
    /\ e \in Live /\ d \notin event[e].vote
    /\ Begin(r, "put_vote", e,
             [Row("put_vote", e, [event[e] EXCEPT !.vote = @ \union {d}]) EXCEPT !.who = {d}])

delete_vote(r, e, d) ==
    /\ e \in Live /\ d \in event[e].vote
    /\ Begin(r, "delete_vote", e,
             [Row("delete_vote", e, [event[e] EXCEPT !.vote = @ \ {d}]) EXCEPT !.who = {d}])

\* The row may have been deleted meanwhile: then nothing is updated.
WriteVote(r) ==
    /\ req[r].pc = "write" /\ req[r].op \in {"put_vote", "delete_vote"}
    /\ LET e == req[r].id IN
        /\ event' = IF event[e].live THEN [event EXCEPT ![e].vote = req[r].new.vote]
                                     ELSE event
        /\ voted' = IF ~ event[e].live THEN voted
                    ELSE [voted EXCEPT ![e] = IF req[r].op = "put_vote"
                                              THEN @ \union req[r].who
                                              ELSE @ \ req[r].who]
    /\ End(r)
    /\ UNCHANGED <<reqs, told, copied, mixed>>

\* Staff list the attendees anew, and what the event gives.
patch_attendees(r, e, A, p) ==
    /\ e \in Live
    /\ LET new == [event[e] EXCEPT !.attendee = A, !.points = p]
           Concerned == (A \ event[e].attendee) \union (event[e].attendee \ A)
                        \union (IF p # event[e].points THEN event[e].attendee ELSE {})
       IN Begin(r, "patch_attendees", e,
                [Row("patch_attendees", e, new) EXCEPT !.pc = "tell", !.who = Concerned])

\* The mutant: those who leave are told of the change of the points as well.
ChangeForAll(r, d) ==
    LET old == req[r].seen  new == req[r].new IN
    IF d \notin old.attendee THEN new.points
    ELSE IF d \notin new.attendee THEN new.points - 2 * old.points
    ELSE new.points - old.points

\* What a driver is told: the points, that they are lost, or the difference.
Change(r, d) ==
    LET old == req[r].seen  new == req[r].new IN
    IF d \notin old.attendee THEN new.points
    ELSE IF d \notin new.attendee THEN - old.points
    ELSE new.points - old.points

Tell(r, d) ==
    /\ req[r].pc = "tell" /\ d \in req[r].who
    /\ told' = [told EXCEPT ![req[r].id][d] = @ + Change(r, d)]
    /\ req' = [req EXCEPT ![r].who = @ \ {d}]
    /\ UNCHANGED <<event, reqs, voted, copied, mixed>>

WriteAttendees(r) ==
    /\ req[r].pc = "tell" /\ req[r].who = {}
    /\ LET e == req[r].id IN
        /\ event' = IF event[e].live
                    THEN [event EXCEPT ![e].attendee = req[r].new.attendee,
                                       ![e].points = req[r].new.points]
                    ELSE event
        /\ mixed' = IF event[e].live THEN mixed ELSE mixed \union {e}
    /\ End(r)
    /\ UNCHANGED <<reqs, voted, told, copied>>

-----------------------------------------------------------------------------
NextId == Min(Ids \ Used)

post_event(r, n, text, private) ==
    /\ reqs < MaxReqs /\ req[r].pc = "idle" /\ Used # Ids
    /\ reqs' = reqs + 1
    /\ event' = [event EXCEPT ![NextId] = [NoEvent EXCEPT
                    !.live = TRUE, !.link = n, !.text = text, !.private = private]]
    /\ UNCHANGED <<req, history>>

\* Every column is written back, except votes, attendees and points.
patch_event(r, e, n, text, private) ==
    /\ e \in Live
    /\ Begin(r, "patch_event", e, Row("patch_event", e,
             [event[e] EXCEPT !.link = n, !.text = text, !.private = private]))

WriteEvent(r) ==
    /\ req[r].pc = "write" /\ req[r].op = "patch_event"
    /\ LET e == req[r].id  new == req[r].new IN
        event' = IF event[e].live
                 THEN [event EXCEPT ![e].link = new.link, ![e].text = new.text,
                                    ![e].private = new.private]
                 ELSE event
    /\ copied' = IF req[r].new.link = req[r].seen.link THEN copied
                 ELSE copied \ {req[r].id}
    /\ End(r)
    /\ UNCHANGED <<reqs, voted, told, mixed>>

delete_event(r, e) ==
    /\ reqs < MaxReqs /\ req[r].pc = "idle" /\ e \in Live
    /\ reqs' = reqs + 1
    /\ event' = [event EXCEPT ![e].live = FALSE]
    /\ UNCHANGED <<req, history>>

-----------------------------------------------------------------------------
\* Both lists of TruckersMP were fetched, or nothing is done. The local events
\* are those of the snapshot of the request: by link, the first one.
LocalEvents ==
    [n \in Remotes |-> LET S == {e \in Live : event[e].link = n}
                       IN IF S = {} THEN 0 ELSE Min(S)]

post_truckersmp_sync(r, remote) ==
    Begin(r, "sync", 0, [Idle EXCEPT !.pc = "sync", !.op = "sync",
                                     !.local = LocalEvents, !.remote = remote])

\* The mutant: an event that is already there is inserted again.
ToInsertAll(r) == DOMAIN req[r].remote
ToInsert(r) == {n \in DOMAIN req[r].remote : req[r].local[n] = 0}
ToUpdate(r) == {n \in DOMAIN req[r].remote : req[r].local[n] # 0}

\* In one transaction, new events are inserted in any order of their ids and
\* those that differ are overwritten.
WriteSync(r) ==
    /\ req[r].pc = "sync"
    /\ Cardinality(ToInsert(r)) <= Cardinality(Ids \ Used)
    /\ LET first == NextId - 1
           place(n) == first + Cardinality({m \in ToInsert(r) : m <= n})
           Made == {place(n) : n \in ToInsert(r)}
           remote(e) == CHOOSE n \in ToInsert(r) : place(n) = e
           updated(e) == {n \in ToUpdate(r) : req[r].local[n] = e /\ event[e].live}
       IN /\ event' = [e \in Ids |->
                IF e \in Made
                THEN [NoEvent EXCEPT !.live = TRUE, !.link = remote(e),
                                     !.text = req[r].remote[remote(e)]]
                ELSE IF updated(e) = {} THEN event[e]
                ELSE [event[e] EXCEPT !.link = CHOOSE n \in updated(e) : TRUE,
                                      !.text = req[r].remote[CHOOSE n \in updated(e) : TRUE]]]
          /\ copied' = copied \union Made
    /\ End(r)
    /\ UNCHANGED <<reqs, voted, told, mixed>>

-----------------------------------------------------------------------------
\* The request fails or the process ends: what it has committed stays.
Cut(r) ==
    /\ req[r].pc # "idle"
    /\ mixed' = mixed \union {Subject(req[r].op, req[r].id)}
    /\ End(r)
    /\ UNCHANGED <<event, reqs, voted, told, copied>>

Next ==
    \E r \in Reqs :
        \/ \E e \in Ids, d \in Drivers : put_vote(r, e, d) \/ delete_vote(r, e, d)
        \/ \E e \in Ids, A \in SUBSET Drivers, p \in Points : patch_attendees(r, e, A, p)
        \/ \E n \in Remotes \union {0}, text \in Texts, private \in BOOLEAN :
            \/ post_event(r, n, text, private)
            \/ \E e \in Ids : patch_event(r, e, n, text, private)
        \/ \E e \in Ids : delete_event(r, e)
        \/ \E S \in SUBSET Remotes : \E remote \in [S -> Texts] :
            post_truckersmp_sync(r, remote)
        \/ \E d \in Drivers : Tell(r, d)
        \/ WriteVote(r) \/ WriteAttendees(r) \/ WriteEvent(r) \/ WriteSync(r)
        \/ Cut(r)

Spec == Init /\ [][Next]_vars

-----------------------------------------------------------------------------
\* Every variable has its type, and the rows are used in the order of their ids.
TypeOK ==
    /\ event \in [Ids -> [live : BOOLEAN, link : Remotes \union {0},
                          text : Texts \union {"none"}, private : BOOLEAN,
                          vote : SUBSET Drivers, attendee : SUBSET Drivers,
                          points : Points \union {0}]]
    /\ \E n \in 0..MaxEvents : Used = 1..n
    /\ Live \subseteq Used /\ copied \subseteq Used
    /\ reqs \in 0..MaxReqs

Quiet(e) == e \notin mixed /\ \A r \in Reqs : req[r].id # e

\* Any sequence of lists of attendees and points that do not overlap leaves each
\* driver told the points the event gives now, and nothing if it gives none.
ToldWhatTheyGot ==
    \A e \in Ids, d \in Drivers :
        Quiet(e) => told[e][d] = IF d \in event[e].attendee THEN event[e].points ELSE 0

\* Votes that do not overlap are those of the drivers whose last answer was yes,
\* whatever else is done to the event meanwhile.
VotesAreKept == \A e \in Live : Quiet(e) => event[e].vote = voted[e]

\* Synchronisations that do not overlap copy an event at TruckersMP once: no two
\* live copies that staff left where they point are of the same event.
CopiedOnce ==
    0 \notin mixed =>
        \A e, f \in copied : event[e].live /\ event[f].live /\ event[e].link = event[f].link
                             => e = f
=============================================================================
