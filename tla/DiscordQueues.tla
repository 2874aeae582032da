--------------------------- MODULE DiscordQueues ---------------------------
(***************************************************************************)
(* The two queues of calls to Discord that a process of the Hub keeps in   *)
(* memory, and the two background tasks that empty them.                   *)
(*                                                                         *)
(* Notifications wait in discord_message_queue. ProcessDiscordMessage      *)
(* takes one whose channel may be written to, appends the embeds of later  *)
(* ones for the channel to it while they fit, posts it without giving up   *)
(* the event loop, and then removes from the queue what it posted. Role    *)
(* changes, audit logs and the like wait in discord_opqueue. opqueue.run   *)
(* takes one out, awaits the answer, and puts it back at the end to try    *)
(* it again.                                                               *)
(*                                                                         *)
(* Both heed discord_retry_after, which says until when Discord takes      *)
(* nothing more under a key, and both learn of a token that is no good.    *)
(***************************************************************************)
EXTENDS Integers, Sequences, SequencesExt, FiniteSets

CONSTANTS
    Channels,    \* keys of discord_retry_after: channels, webhooks, the guild
    Embeds,      \* notifications, each of one embed
    Channel,     \* [Embeds -> Channels]
    Size,        \* [Embeds -> Nat], length of the embed as a string
    Limit,       \* what the embeds of a message may add up to (5000)
    Ops,         \* calls for the other queue
    NoOp,
    Key,         \* [Ops -> Channels]
    MaxRetry,    \* [Ops -> Nat]: 5 by default, 0 for no_retry
    MaxFaults    \* bound on answers that are not an acceptance or a refusal

\* Notifications and calls are different things.
ASSUME QueueConstants ==
    /\ Embeds \intersect Ops = {}
    /\ Channel \in [Embeds -> Channels]
    /\ Size \in [Embeds -> Nat]
    /\ Limit \in Nat
    /\ NoOp \notin Ops
    /\ Key \in [Ops -> Channels]
    /\ MaxRetry \in [Ops -> 0..5]
    /\ MaxFaults \in Nat

VARIABLES
    messages,   \* discord_message_queue: each message with its embeds
    ops,        \* discord_opqueue: each call with its retry_count
    calling,    \* the call that opqueue.run awaits
    waiting,    \* keys whose discord_retry_after is still to come
    token,      \* is there a bot token?
    faults,
    queued,     \* history: the embeds and calls ever put in a queue
    posts,      \* history: the messages Discord took, in order
    refused,    \* history: the embeds Discord turned down
    tried,      \* history: how often a call was made
    settled     \* history: the calls Discord took or turned down

messageVars == <<messages, posts, refused>>
opVars == <<ops, calling, tried, settled>>
vars == <<messageVars, opVars, waiting, token, faults, queued>>

Message == [channel : Channels, embeds : Seq(Embeds)]
None == [op |-> NoOp, count |-> 0]

Init ==
    /\ messages = <<>>
    /\ ops = <<>>
    /\ calling = None
    /\ waiting = {}
    /\ token = TRUE
    /\ faults = 0
    /\ queued = {}
    /\ posts = <<>>
    /\ refused = {}
    /\ tried = [o \in Ops |-> 0]
    /\ settled = {}

Fault == faults < MaxFaults /\ faults' = faults + 1

-----------------------------------------------------------------------------
(* The queue of messages.                                                  *)

QueueDiscordMessage(e) ==
    /\ token
    /\ e \notin queued
    /\ messages' = Append(messages, [channel |-> Channel[e], embeds |-> <<e>>])
    /\ queued' = queued \union {e}
    /\ UNCHANGED <<opVars, waiting, token, faults, posts, refused>>

Length(embeds) == FoldSeq(LAMBDA e, n : Size[e] + n, 0, embeds)

\* The mutant: the length of what is there already does not count.
FitsAlone(embeds, more) == Length(more) <= Limit

Fits(embeds, more) == Length(embeds) + Length(more) <= Limit

\* The mutant: discord_retry_after is not looked at.
AlwaysAvailable == DOMAIN messages

Available == {i \in DOMAIN messages : messages[i].channel \notin waiting}

\* The first message whose channel may be written to.
Chosen == CHOOSE i \in Available : \A k \in Available : i <= k

\* The mutant: embeds are taken along whatever their channel.
GoesAlong(k) == k # Chosen

SameChannel(k) == messages[k].channel = messages[Chosen].channel

\* The message chosen and the places to clear, after a look at the places up
\* to k. The look starts behind the head and the head is cleared, wherever
\* the message chosen is: it may meet itself.
Gathered[k \in DOMAIN messages] ==
    IF k = 1 THEN [embeds |-> messages[Chosen].embeds, places |-> {1}, full |-> FALSE]
    ELSE LET g == Gathered[k - 1]
             more == messages[k].embeds IN
         IF g.full \/ ~ SameChannel(k) THEN g
         ELSE IF ~ Fits(g.embeds, more) THEN [g EXCEPT !.full = TRUE]
         ELSE [g EXCEPT !.embeds = @ \o more, !.places = @ \union {k}]

Outgoing == Gathered[Len(messages)]

\* The mutant: the places are cleared from the head on, and shift.
ClearedUpwards ==
    FoldLeft(LAMBDA kept, i : IF i <= Len(kept) THEN RemoveAt(kept, i) ELSE kept,
             messages, SetToSortSeq(Outgoing.places, <))

Cleared ==
    FoldLeftDomain(LAMBDA kept, i : IF i \in Outgoing.places THEN kept
                                    ELSE Append(kept, messages[i]),
                   <<>>, messages)

Post ==
    /\ token
    /\ Available # {}

\* Discord takes the message (200).
Accepted ==
    /\ Post
    /\ posts' = Append(posts, [channel |-> messages[Chosen].channel,
                               embeds |-> Outgoing.embeds])
    /\ messages' = Cleared
    /\ UNCHANGED <<opVars, waiting, token, faults, queued, refused>>

\* It does not want it (403 or another 4xx).
Refused ==
    /\ Post
    /\ refused' = refused \union ToSet(Outgoing.embeds)
    /\ messages' = Cleared
    /\ UNCHANGED <<opVars, waiting, token, faults, queued, posts>>

\* It takes nothing now (429), or does not answer (an exception, 5xx). The
\* embeds stay with the message they were appended to.
Postponed ==
    /\ Post
    /\ Fault
    /\ messages' = [messages EXCEPT ![Chosen].embeds = Outgoing.embeds]
    /\ waiting' \in {waiting, waiting \union {messages[Chosen].channel}}
    /\ UNCHANGED <<opVars, token, queued, posts, refused>>

\* The token is no good (401): the task ends.
Unauthorized ==
    /\ Post
    /\ Fault
    /\ token' = FALSE
    /\ messages' = [messages EXCEPT ![Chosen].embeds = Outgoing.embeds]
    /\ UNCHANGED <<opVars, waiting, queued, posts, refused>>

ProcessDiscordMessage == Accepted \/ Refused \/ Postponed \/ Unauthorized

-----------------------------------------------------------------------------
(* The queue of calls.                                                     *)

\* The mutant: one try less.
QueueOnce(o) ==
    /\ o \notin queued
    /\ ops' = Append(ops, [op |-> o, count |-> 5 - MaxRetry[o]])
    /\ queued' = queued \union {o}
    /\ UNCHANGED <<messageVars, calling, tried, settled, waiting, token, faults>>

QueueOp(o) ==
    /\ o \notin queued
    /\ ops' = Append(ops, [op |-> o, count |-> 4 - MaxRetry[o]])
    /\ queued' = queued \union {o}
    /\ UNCHANGED <<messageVars, calling, tried, settled, waiting, token, faults>>

FirstFree(i) ==
    /\ Key[ops[i].op] \notin waiting
    /\ \A k \in 1..(i - 1) : Key[ops[k].op] \in waiting

Call(op) ==
    /\ calling' = op
    /\ tried' = [tried EXCEPT ![op.op] = @ + 1]

\* The mutant: there is no last retry.
TakeAlways ==
    /\ calling = None
    /\ \E i \in DOMAIN ops :
        FirstFree(i) /\ ops' = RemoveAt(ops, i) /\ Call(ops[i])
    /\ UNCHANGED <<messageVars, settled, waiting, token, faults, queued>>

\* The mutant: a call is taken out only once it is clear that it is made.
TakeIfMade ==
    /\ calling = None
    /\ \E i \in DOMAIN ops :
        /\ FirstFree(i) /\ ops[i].count # 5
        /\ ops' = RemoveAt(ops, i) /\ Call(ops[i])
    /\ UNCHANGED <<messageVars, settled, waiting, token, faults, queued>>

\* Take out the first call whose key may be used; after the last retry it is
\* dropped instead of made.
TakeOp ==
    /\ calling = None
    /\ \E i \in DOMAIN ops :
        /\ FirstFree(i)
        /\ ops' = RemoveAt(ops, i)
        /\ IF ops[i].count = 5 THEN UNCHANGED <<calling, tried>> ELSE Call(ops[i])
    /\ UNCHANGED <<messageVars, settled, waiting, token, faults, queued>>

\* An answer that ends the matter: 2xx, a refusal, or 5xx.
OpAnswered ==
    /\ calling # None
    /\ settled' = settled \union {calling.op}
    /\ calling' = None
    /\ UNCHANGED <<messageVars, ops, tried, waiting, token, faults, queued>>

\* 401. Only some calls take the token for bad.
OpUnauthorized ==
    /\ calling # None
    /\ Fault
    /\ settled' = settled \union {calling.op}
    /\ calling' = None
    /\ token' = FALSE
    /\ UNCHANGED <<messageVars, ops, tried, waiting, queued>>

\* 429, or an exception.
OpPostponed ==
    /\ calling # None
    /\ Fault
    /\ ops' = Append(ops, [calling EXCEPT !.count = @ + 1])
    /\ waiting' \in {waiting, waiting \union {Key[calling.op]}}
    /\ calling' = None
    /\ UNCHANGED <<messageVars, tried, settled, token, queued>>

RunOps == TakeOp \/ OpAnswered \/ OpUnauthorized \/ OpPostponed

-----------------------------------------------------------------------------
\* discord_retry_after comes.
WaitEnds(c) ==
    /\ c \in waiting
    /\ waiting' = waiting \ {c}
    /\ UNCHANGED <<messageVars, opVars, token, faults, queued>>

Next ==
    \/ \E e \in Embeds : QueueDiscordMessage(e)
    \/ \E o \in Ops : QueueOp(o)
    \/ ProcessDiscordMessage
    \/ RunOps
    \/ \E c \in Channels : WaitEnds(c)

Spec == Init /\ [][Next]_vars

\* The event loop runs both tasks and time passes.
FairSpec ==
    /\ Spec
    /\ WF_vars(ProcessDiscordMessage)
    /\ WF_vars(RunOps)
    /\ \A c \in Channels : WF_vars(WaitEnds(c))

-----------------------------------------------------------------------------
(* Properties.                                                             *)

\* Every variable has its type, and a call is in one place at most.
TypeOK ==
    /\ messages \in Seq(Message)
    /\ ops \in Seq([op : Ops, count : -1..5])
    /\ calling \in [op : Ops, count : -1..4] \union {None}
    /\ waiting \subseteq Channels
    /\ token \in BOOLEAN
    /\ faults \in 0..MaxFaults
    /\ queued \subseteq Embeds \union Ops
    /\ posts \in Seq(Message)
    /\ refused \subseteq Embeds
    /\ tried \in [Ops -> 0..6]
    /\ settled \subseteq Ops
    /\ \A i, k \in DOMAIN ops : ops[i].op = ops[k].op => i = k

\* However messages are put together, put off and posted by whichever task: none
\* goes to a channel before its discord_retry_after, which either task may have been
\* told of, no embed to the channel of somebody else, and embeds are put together
\* only while the message stays within the limit.
PostedAsMeant ==
    [][posts' # posts =>
        LET post == Last(posts') IN
        /\ post.channel \notin waiting
        /\ \A k \in DOMAIN post.embeds : Channel[post.embeds[k]] = post.channel
        /\ Len(post.embeds) > 1 => Length(post.embeds) <= Limit]_vars

\* Both queues are emptied in the end, unless the token turns out bad.
QueuesDrain ==
    /\ messages # <<>> ~> messages = <<>> \/ ~ token
    /\ ops # <<>> ~> ops = <<>> /\ calling = None

\* The posts an embed went out with, and the embeds that are nowhere.
Posted(e) == {i \in DOMAIN posts : e \in ToSet(posts[i].embeds)}

Lost ==
    {e \in (Embeds \intersect queued) \ refused :
        /\ Posted(e) = {}
        /\ \A i \in DOMAIN messages : e \notin ToSet(messages[i].embeds)}

OneChannel == \A e, f \in Embeds \intersect queued : Channel[e] = Channel[f]

\* Calls and notifications are not given up: a call that gets no answer is made once
\* and retried max_retry times, no more and no less; and as long as all notifications
\* are for one channel, none leaves the queue without having been posted or refused,
\* however they are put together, put off and turned down, and none is posted twice
\* unless Discord put it off.
NothingIsGivenUp ==
    /\ \A o \in Ops :
        /\ tried[o] <= 1 + MaxRetry[o]
        /\ \/ o \notin queued \/ o \in settled \/ o = calling.op
           \/ \E i \in DOMAIN ops : ops[i].op = o
           \/ tried[o] = 1 + MaxRetry[o]
    /\ OneChannel => Lost = {}
    /\ (OneChannel /\ faults = 0) => \A e \in Embeds : Cardinality(Posted(e)) <= 1

\* What the comments say of the queue of messages: the one that is posted is
\* the one gotten from the queue, so that no other leaves the queue unposted.
NothingLost == Lost = {}
=============================================================================
