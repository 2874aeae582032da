---------------------------- MODULE Notifications ----------------------------
(***************************************************************************)
(* Notifications: which types a user wants, kept as one text with commas,  *)
(* and the list of those that came.                                        *)
(*                                                                         *)
(* The text has the types in a fixed order. Enabling writes it with a      *)
(* comma at both ends, disabling without; who splits it at its commas sees *)
(* the same types, who looks for a type between two commas does not. A     *)
(* change of the account of Discord by staff does what the user's does and *)
(* is left out.                                                            *)
(***************************************************************************)
EXTENDS Integers, FiniteSetsExt

CONSTANTS
    Reqs, Users,
    Admins,      \* those who may delete the notifications of all
    Types,       \* numbers, in the order of the text; the first two are:
    drivershub, discord,
    Reminders,   \* the types that a loop looks for between commas
    MaxReqs, MaxNotices    \* bounds

VARIABLES
    sval,        \* by user, the text: its types and whether commas enclose it
    channel,     \* the users with a channel for direct messages
    discordid,   \* the users connected to Discord
    user_notification,    \* by number, [uid, type, status]
    sent,        \* how many direct messages were queued, by user
    req, reqs,
    wanted,      \* history: by user, what the requests that wrote the text asked for
    mixed        \* history: the users for whom requests overlapped, or one was cut off

vars == <<sval, channel, discordid, user_notification, sent, req, reqs, wanted, mixed>>

Ids == 1..MaxNotices
NoNotice == [uid |-> 0, type |-> 0, status |-> 0]
\* The status is a number of the request; a list that meets another than these fails.
Statuses == {0, 1, 2}
Idle == [pc |-> "idle", uid |-> 0, type |-> 0, text |-> [on |-> {}, enclosed |-> TRUE]]

Init ==
    /\ sval = [u \in Users |-> [on |-> Types \ {discord}, enclosed |-> TRUE]]
    /\ channel = {} /\ discordid \in SUBSET Users
    /\ user_notification = [n \in Ids |-> NoNotice]
    /\ sent = [u \in Users |-> 0]
    /\ req = [r \in Reqs |-> Idle] /\ reqs = 0
    /\ wanted = [u \in Users |-> Types \ {discord}] /\ mixed = {}

-----------------------------------------------------------------------------
(* The text.                                                               *)

Splits(text) == text.on
Between(text) ==
    IF text.enclosed \/ text.on = {} THEN text.on ELSE text.on \ {Min(text.on), Max(text.on)}
\* ",discord," is replaced by a comma, where it is found.
Without(text) == [text EXCEPT !.on = IF discord \in Between(text) THEN @ \ {discord} ELSE @]

\* The mutant: a type is disabled with all that come after it in the text.
NewTextCutOff(pc, type, text) ==
    [on |-> IF pc = "enable" THEN Splits(text) \union {type}
            ELSE {t \in Splits(text) : t < type}, enclosed |-> pc = "enable"]
\* "refused" is the worker whose direct message was answered 403.
NewText(pc, type, text) ==
    CASE pc = "enable"  -> [on |-> Splits(text) \union {type}, enclosed |-> TRUE]
      [] pc = "disable" -> [on |-> Splits(text) \ {type}, enclosed |-> FALSE]
      [] pc = "connect" -> Without(text)
      [] pc = "refused" -> [on |-> Splits(text) \ {discord}, enclosed |-> FALSE]

-----------------------------------------------------------------------------
(* Settings: the text is read, and written in a later step.                *)

Begin(r, pc, u, t) ==
    /\ reqs < MaxReqs /\ req[r].pc = "idle"
    /\ reqs' = reqs + 1
    /\ req' = [req EXCEPT ![r] = [pc |-> pc, uid |-> u, type |-> t, text |-> NewText(pc, t, sval[u])]]
    /\ mixed' = IF \E q \in Reqs \ {r} : req[q].pc # "idle" /\ req[q].uid = u
                THEN mixed \union {u} ELSE mixed
    /\ UNCHANGED <<sval, user_notification, sent, wanted>>

post_settings_enable(r, u, t) ==
    /\ t \notin Splits(sval[u])
    /\ Begin(r, "enable", u, t)
    /\ IF t = discord THEN u \in discordid /\ channel' = channel \union {u} ELSE UNCHANGED channel
    /\ UNCHANGED discordid

post_settings_disable(r, u, t) ==
    Begin(r, "disable", u, t) /\ UNCHANGED <<channel, discordid>>

\* Another account of Discord is connected: messages to the old channel end.
patch_discord(r, u) == Begin(r, "connect", u, discord) /\ UNCHANGED <<channel, discordid>>

\* A direct message was queued and Discord refuses it.
Refused(r, u) ==
    /\ sent[u] > 0 /\ u \in channel
    /\ Begin(r, "refused", u, discord)
    /\ UNCHANGED <<channel, discordid>>

Write(r) ==
    LET job == req[r] IN
    /\ job.pc # "idle"
    /\ sval' = [sval EXCEPT ![job.uid] = job.text]
    /\ channel' = IF job.pc # "enable" /\ job.type = discord THEN channel \ {job.uid} ELSE channel
    /\ discordid' = IF job.pc = "connect" THEN discordid \union {job.uid} ELSE discordid
    /\ wanted' = [wanted EXCEPT ![job.uid] =
                    IF job.pc = "enable" THEN @ \union {job.type} ELSE @ \ {job.type}]
    /\ req' = [req EXCEPT ![r] = Idle]
    /\ UNCHANGED <<user_notification, sent, reqs, mixed>>

\* A request ends before it writes the text; the channel may be there already.
Cut(r) ==
    /\ req[r].pc # "idle" /\ req' = [req EXCEPT ![r] = Idle]
    /\ mixed' = mixed \union {req[r].uid}
    /\ UNCHANGED <<sval, channel, discordid, user_notification, sent, reqs, wanted>>

-----------------------------------------------------------------------------
(* Notices.                                                                *)

Free == {n \in Ids : user_notification[n].uid = 0}

notification(u, t) ==
    /\ t \in Splits(sval[u])
    /\ IF drivershub \in Splits(sval[u])
       THEN /\ Free # {}
            /\ user_notification' = [user_notification EXCEPT
                    ![Min(Free)] = [uid |-> u, type |-> t, status |-> 0]]
       ELSE UNCHANGED user_notification
    /\ sent' = [sent EXCEPT ![u] = IF discord \in Splits(sval[u]) /\ u \in channel
                                   THEN Min({@ + 1, 2}) ELSE @]
    /\ UNCHANGED <<sval, channel, discordid, req, reqs, wanted, mixed>>

\* A break ends the search with the first user who wants the type.
notification_to_everyone(t) ==
    LET Wants == {u \in Users : t \in Splits(sval[u])}
    IN Wants # {} /\ notification(Min(Wants), t)

\* The loops of tasks, events and polls ask for the text with the type in commas.
Remind(u, t) == t \in Reminders /\ t \in Between(sval[u]) /\ notification(u, t)

Rewrite(ids, row) ==
    /\ ids # {} /\ reqs < MaxReqs /\ reqs' = reqs + 1
    /\ user_notification' = [n \in Ids |-> IF n \in ids THEN row[n] ELSE user_notification[n]]
    /\ UNCHANGED <<sval, channel, discordid, sent, req, wanted, mixed>>

Own(u) == {n \in Ids : user_notification[n].uid = u}

\* One notification of the user, or all of them.
patch_status(u, ids, status) ==
    /\ ids \subseteq Own(u)
    /\ Rewrite(ids, [n \in ids |-> [user_notification[n] EXCEPT !.status = status]])

delete_notification(u, first, last) ==
    LET Mine == IF u \in Admins THEN Ids \ Free ELSE Own(u)
    IN Rewrite(Mine \cap first..last, [n \in Ids |-> NoNotice])

Next ==
    \/ \E r \in Reqs, u \in Users :
        \/ \E t \in Types : post_settings_enable(r, u, t) \/ post_settings_disable(r, u, t)
        \/ patch_discord(r, u) \/ Refused(r, u)
    \/ \E r \in Reqs : Write(r) \/ Cut(r)
    \/ \E u \in Users, t \in Types : notification(u, t) \/ Remind(u, t)
    \/ \E t \in Types : notification_to_everyone(t)
    \/ \E u \in Users, status \in Statuses :
        \/ patch_status(u, Own(u), status)
        \/ \E n \in Ids : patch_status(u, {n}, status)
    \/ \E u \in Users, first, last \in Ids : delete_notification(u, first, last)

Spec == Init /\ [][Next]_vars

-----------------------------------------------------------------------------
\* Every variable has its type.
TypeOK ==
    /\ sval \in [Users -> [on : SUBSET Types, enclosed : BOOLEAN]]
    /\ channel \subseteq Users /\ discordid \subseteq Users
    /\ user_notification \in [Ids -> [uid : Users \union {0}, type : Types \union {0}, status : Statuses]]
    /\ reqs \in 0..MaxReqs

\* When no request of a user is under way, unless two overlapped or one was cut off: the
\* text, split at its commas, has the types that the requests that wrote it asked for,
\* whoever enclosed it last; and there is a channel for direct messages for whom they are
\* enabled, and for nobody who has disabled them since, connected another account or
\* refused one. After another account the text may still have `discord`, with no channel.
\* It says nothing of who is told: see notification_to_everyone and Remind.
SettingsAreAsAsked ==
    \A u \in Users \ mixed :
        (\A r \in Reqs : req[r].uid # u) =>
            /\ Splits(sval[u]) \ {discord} = wanted[u] \ {discord}
            /\ wanted[u] \subseteq Splits(sval[u])
            /\ u \in channel <=> discord \in wanted[u]
=============================================================================
