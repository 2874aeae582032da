-------------------------------- MODULE Polls --------------------------------
(***************************************************************************)
(* The polls of a company: the ballots of the drivers, what a list and a   *)
(* poll show of them, and the results that are announced when it ends.     *)
(*                                                                         *)
(* A request reads the poll, the driver's votes and the choices in one     *)
(* snapshot and writes in a later step. Titles, texts and the order of the *)
(* choices are left out; all polls have the same choices.                  *)
(***************************************************************************)
EXTENDS Integers, Sequences, FiniteSetsExt

CONSTANTS
    Reqs, Drivers,
    Options,
    Configs,     \* configurations staff may give a poll
    MaxPolls, MaxReqs, MaxTime

VARIABLES
    poll,        \* the rows
    poll_vote,   \* by poll and driver, how often each choice is voted for
    now,
    req, reqs,
    cast,        \* history: by poll and driver, the last ballot that was accepted
    mixed,       \* history: <<poll, driver>> whose requests overlapped
    result       \* history: the votes that were announced for a poll

vars == <<poll, poll_vote, now, req, reqs, cast, mixed, result>>

Ids == 1..MaxPolls
\* choices: the poll is committed before its choices. end: 0 if it has none.
NoPoll == [live |-> FALSE, choices |-> FALSE, config |-> {}, end |-> 0]
Used == {p \in Ids : poll[p].config # {}}
Live == {p \in Ids : poll[p].live}
Config(p) == CHOOSE c \in poll[p].config : TRUE

Blank == [c \in Options |-> 0]
NoVotes == [d \in Drivers |-> Blank]
Voted(p, d) == poll_vote[p][d] # Blank
Sum(b) == MapThenSumSet(LAMBDA c : b[c], Options)
\* A list of choices may name one twice.
Ballots == [Options -> 0..2]
Unknown == [at |-> -1, votes |-> NoVotes, firm |-> FALSE]

Idle == [pc |-> "idle", id |-> 0, who |-> 0, ballot |-> Blank, row |-> NoPoll]

Init ==
    /\ poll = [p \in Ids |-> NoPoll]
    /\ poll_vote = [p \in Ids |-> NoVotes]
    /\ now = 1
    /\ req = [r \in Reqs |-> Idle] /\ reqs = 0
    /\ cast = [p \in Ids |-> NoVotes]
    /\ mixed = {}
    /\ result = [p \in Ids |-> Unknown]

-----------------------------------------------------------------------------
\* The mutant: a vote in the second after the end is still taken.
EndedLater(p) == poll[p].end # 0 /\ poll[p].end + 1 < now
Ended(p) == poll[p].end # 0 /\ poll[p].end < now

Begin(r, p, d, pc, b) ==
    /\ reqs < MaxReqs /\ req[r].pc = "idle"
    /\ p \in Live /\ ~ Ended(p)
    /\ reqs' = reqs + 1
    /\ req' = [req EXCEPT ![r] = [pc |-> pc, id |-> p, who |-> d, ballot |-> b,
                                  row |-> poll[p]]]
    /\ mixed' = IF \E q \in Reqs \ {r} : req[q].id = p /\ req[q].who = d
                THEN mixed \union {<<p, d>>} ELSE mixed
    /\ UNCHANGED <<poll, poll_vote, now, cast, result>>

Allowed(p, b) == Sum(b) <= Config(p).max_choice /\ (b = Blank \/ poll[p].choices)

put_poll_vote(r, p, d, b) ==
    /\ p \in Live => ~ Voted(p, d) /\ Allowed(p, b)
    /\ Begin(r, p, d, "add", b)

patch_poll_vote(r, p, d, b) ==
    /\ p \in Live => Voted(p, d) /\ Config(p).allow_modify_vote /\ Allowed(p, b)
    /\ Begin(r, p, d, "replace", b)

delete_poll_vote(r, p, d) ==
    /\ p \in Live => Voted(p, d) /\ Config(p).allow_modify_vote
    /\ Begin(r, p, d, "replace", Blank)

Plus(a, b) == [c \in Options |-> a[c] + b[c]]

\* The mutant: a modified vote is added to what was there.
NewBallotKept(r, old) == Plus(old, req[r].ballot)
\* The mutant: what has changed is written.
NewBallotChange(r, old) == [c \in Options |-> req[r].ballot[c] - old[c]]
NewBallot(r, old) == IF req[r].pc = "add" THEN Plus(old, req[r].ballot) ELSE req[r].ballot

\* Votes for a poll that was deleted meanwhile belong to none.
WriteVote(r) ==
    /\ req[r].pc \in {"add", "replace"}
    /\ LET p == req[r].id  d == req[r].who IN
        IF p \in Live
        THEN /\ poll_vote' = [poll_vote EXCEPT ![p][d] = NewBallot(r, @)]
             /\ cast' = [cast EXCEPT ![p][d] = req[r].ballot]
        ELSE UNCHANGED <<poll_vote, cast>>
    /\ req' = [req EXCEPT ![r] = Idle]
    /\ UNCHANGED <<poll, now, reqs, mixed, result>>

-----------------------------------------------------------------------------
post_poll(r, c, end) ==
    /\ reqs < MaxReqs /\ req[r].pc = "idle" /\ Used # Ids
    /\ reqs' = reqs + 1
    /\ LET p == Min(Ids \ Used) IN
        /\ poll' = [poll EXCEPT ![p] = [live |-> TRUE, choices |-> FALSE,
                                        config |-> {c}, end |-> end]]
        /\ req' = [req EXCEPT ![r] = [Idle EXCEPT !.pc = "choices", !.id = p]]
    /\ UNCHANGED <<poll_vote, now, cast, mixed, result>>

InsertChoices(r) ==
    /\ req[r].pc = "choices"
    /\ poll' = [poll EXCEPT ![req[r].id].choices = TRUE]
    /\ req' = [req EXCEPT ![r] = Idle]
    /\ UNCHANGED <<poll_vote, now, reqs, cast, mixed, result>>

\* What is not given is written back as it was read.
patch_poll(r, p, C, E) ==
    /\ reqs < MaxReqs /\ req[r].pc = "idle" /\ p \in Live
    /\ reqs' = reqs + 1
    /\ \E c \in C \union poll[p].config, end \in E \union {poll[p].end} :
        req' = [req EXCEPT ![r] = [Idle EXCEPT !.pc = "patch", !.id = p,
                    !.row = [poll[p] EXCEPT !.config = {c}, !.end = end]]]
    /\ UNCHANGED <<poll, poll_vote, now, cast, mixed, result>>

\* With another end it is another poll for the results.
WritePoll(r) ==
    /\ req[r].pc = "patch"
    /\ LET p == req[r].id  row == req[r].row IN
        /\ poll' = IF p \notin Live THEN poll
                   ELSE [poll EXCEPT ![p].config = row.config, ![p].end = row.end]
        /\ result' = IF poll'[p].end = poll[p].end THEN result
                     ELSE [result EXCEPT ![p] = Unknown]
    /\ req' = [req EXCEPT ![r] = Idle]
    /\ UNCHANGED <<poll_vote, now, reqs, cast, mixed>>

delete_poll(r, p) ==
    /\ reqs < MaxReqs /\ req[r].pc = "idle" /\ p \in Live
    /\ reqs' = reqs + 1
    /\ poll' = [poll EXCEPT ![p].live = FALSE]
    /\ UNCHANGED <<poll_vote, now, req, cast, mixed, result>>

\* The results are read from an hour before to the second of the end; firm: no
\* vote may be on its way any more.
PollResult(p) ==
    /\ p \in Live /\ poll[p].end # 0 /\ poll[p].end <= now
    /\ result[p] = Unknown
    /\ result' = [result EXCEPT ![p] = [at |-> now, votes |-> poll_vote[p],
            firm |-> poll[p].end < now /\ \A r \in Reqs : req[r].id # p]]
    /\ UNCHANGED <<poll, poll_vote, now, req, reqs, cast, mixed>>

Tick == now < MaxTime /\ now' = now + 1
        /\ UNCHANGED <<poll, poll_vote, req, reqs, cast, mixed, result>>

Next ==
    \/ \E r \in Reqs :
        \/ \E p \in Ids, d \in Drivers :
            \/ \E b \in Ballots : put_poll_vote(r, p, d, b) \/ patch_poll_vote(r, p, d, b)
            \/ delete_poll_vote(r, p, d)
        \/ WriteVote(r)
        \/ \E c \in Configs, end \in {0, 2} : post_poll(r, c, end)
        \/ \E p \in Ids : patch_poll(r, p, Configs, 0..MaxTime) \/ delete_poll(r, p)
        \/ InsertChoices(r) \/ WritePoll(r)
    \/ \E p \in Ids : PollResult(p)
    \/ Tick

Spec == Init /\ [][Next]_vars

-----------------------------------------------------------------------------
(* What is shown.                                                          *)

ShowsStats(c, p, d) ==
    \/ c.show_stats_before_vote
    \/ c.show_stats /\ Voted(p, d)
    \/ c.show_stats_when_ended /\ Ended(p)

Count(p, ch) == MapThenSumSet(LAMBDA d : poll_vote[p][d][ch], Drivers)
Hidden == -1

\* The numbers of a poll, and in a list, which ends with another poll, of all of
\* them: whether there is to be a number is decided by the configuration of the
\* last one, but numbers above 0 are filled in by that of their own.
get_poll(p, d) ==
    [ch \in Options |-> IF ShowsStats(Config(p), p, d) THEN Count(p, ch) ELSE Hidden]

\* The mutant: all is decided by the last one.
get_list_last(p, last, d) ==
    [ch \in Options |->
        IF ShowsStats(Config(last), p, d) THEN Count(p, ch) ELSE Hidden]

get_list(p, last, d) ==
    [ch \in Options |->
        IF Count(p, ch) > 0 /\ ShowsStats(Config(p), p, d) THEN Count(p, ch)
        ELSE IF ShowsStats(Config(last), p, d) THEN 0 ELSE Hidden]

-----------------------------------------------------------------------------
\* Every variable has its type.
TypeOK ==
    /\ \A p \in Ids : /\ poll[p].config \subseteq Configs
                      /\ poll[p].end \in 0..MaxTime
                      /\ poll[p].live => p \in Used
    /\ poll_vote \in [Ids -> [Drivers -> [Options -> Nat]]]
    /\ now \in 1..MaxTime /\ reqs \in 0..MaxReqs

\* Requests of one driver that do not overlap leave exactly the last ballot that
\* was accepted, whatever staff do to the poll and others vote.
BallotsAreKept ==
    \A p \in Live, d \in Drivers :
        <<p, d>> \notin mixed => poll_vote[p][d] = cast[p][d]

\* Results that were announced after the second of the end, with no vote on its
\* way, are those the poll has for good.
ResultsAreFinal ==
    \A p \in Live : result[p].firm => poll_vote[p] = result[p].votes

\* A list gives away no number that the poll itself does not show, and each number
\* it gives for a poll that shows them is right.
ListsTellNoMore ==
    \A p, last \in Live, d \in Drivers, ch \in Options :
        LET listed == get_list(p, last, d)[ch] IN
        listed > 0 => listed = get_poll(p, d)[ch]
=============================================================================
