--------------------------- MODULE AccountsProofs ---------------------------
(***************************************************************************)
(* What UserAccounts is shown to keep for any number of users and of       *)
(* requests: part by part, as each module states it, and then together.    *)
(*                                                                         *)
(* In each part a request looks first and writes later, and what it has    *)
(* seen still holds when it writes unless another request of the same user *)
(* or address overlaps with it. The invariants say so: that overlapping    *)
(* requests are noted as mixed, and what the others may count on.          *)
(***************************************************************************)
EXTENDS UserAccounts, Sums

-----------------------------------------------------------------------------
(* Notifications.                                                          *)

\* A request that writes settings is of a user and of a type.
SettingsTyped ==
    /\ req \in [Reqs -> [pc : {"idle", "enable", "disable", "connect", "refused"},
                         uid : Users \union {0}, type : Types \union {0},
                         text : [on : SUBSET Types, enclosed : BOOLEAN]]]
    /\ \A r \in Reqs : IF req[r].pc = "idle" THEN req[r].uid = 0
                       ELSE req[r].uid \in Users /\ req[r].type \in Types
    /\ \A r \in Reqs : req[r].pc \in {"connect", "refused"} => req[r].type = discord
    /\ wanted \in [Users -> SUBSET Types]

\* Two requests of a user at a time are noted.
OverlapsAreMixed ==
    \A r, q \in Reqs : (r # q /\ req[r].uid = req[q].uid /\ req[r].uid # 0) => req[r].uid \in mixed

\* What the user asked for, once the request has written it.
Asked(job, before) ==
    IF job.pc = "enable" THEN before \union {job.type} ELSE before \ {job.type}

\* Types fit what was asked for if they are the same, but for direct messages too many.
Fit(on, types) == on \ {discord} = types \ {discord} /\ types \subseteq on

\* The text has what the user asked for so far; and what a request is going to write
\* has that and its own type.
TextFollows ==
    /\ \A u \in Users \ mixed : Fit(sval[u].on, wanted[u])
    /\ \A r \in Reqs : (req[r].uid # 0 /\ req[r].uid \notin mixed) =>
            Fit(req[r].text.on, Asked(req[r], wanted[req[r].uid]))

\* The channel is there before the text says so, while the request goes on.
EnablesMessages(r, u) == req[r].uid = u /\ req[r].pc = "enable" /\ req[r].type = discord
ChannelFollows ==
    \A u \in Users \ mixed :
        u \in channel <=> (discord \in wanted[u] \/ \E r \in Reqs : EnablesMessages(r, u))

SettingsInv ==
    Notifications!TypeOK /\ SettingsTyped /\ OverlapsAreMixed /\ TextFollows /\ ChannelFollows

\* The texts that requests make are texts, and have the type that was asked for or not.
LEMMA NewTexts ==
    ASSUME NotificationsConstants,
           NEW pc \in {"enable", "disable", "connect", "refused"}, NEW t \in Types,
           pc \in {"connect", "refused"} => t = discord,
           NEW text \in [on : SUBSET Types, enclosed : BOOLEAN]
    PROVE  LET new == Notifications!NewText(pc, t, text) IN
           /\ new \in [on : SUBSET Types, enclosed : BOOLEAN]
           /\ Fit(new.on, IF pc = "enable" THEN text.on \union {t} ELSE text.on \ {t})
<1>. USE DEF Fit
<1>1. CASE pc = "enable"
    BY <1>1 DEF NotificationsConstants, Notifications!NewText, Notifications!Splits
<1>2. CASE pc = "disable"
    BY <1>2 DEF NotificationsConstants, Notifications!NewText, Notifications!Splits
<1>3. CASE pc = "refused"
    BY <1>3 DEF NotificationsConstants, Notifications!NewText, Notifications!Splits
<1>4. CASE pc = "connect"
    <2>. DEFINE between == Notifications!Between(text)
    <2>1. Notifications!NewText(pc, t, text) =
            [text EXCEPT !.on = IF discord \in between THEN text.on \ {discord} ELSE text.on]
        BY <1>4 DEF Notifications!NewText, Notifications!Without
    <2>. HIDE DEF between
    <2>. QED BY <2>1, <1>4 DEF NotificationsConstants
<1>. QED BY <1>1, <1>2, <1>3, <1>4

\* The first request finds nobody mixed and the texts as they were set up.
LEMMA SettingsInit == NotificationsConstants /\ Notifications!Init => SettingsInv
BY DEF NotificationsConstants, Notifications!Init, SettingsInv, Notifications!TypeOK, SettingsTyped,
       OverlapsAreMixed, TextFollows, Fit, ChannelFollows, EnablesMessages, Notifications!Idle,
       Notifications!NoNotice, Notifications!Ids, Notifications!Statuses

\* A request that begins has made its text of the present one, and is noted if
\* another of the user is under way.
LEMMA SettingsBegin ==
    ASSUME NotificationsConstants, SettingsInv,
           NEW r \in Reqs, NEW u \in Users, NEW t \in Types,
           NEW pc \in {"enable", "disable", "connect", "refused"},
           pc \in {"connect", "refused"} => t = discord,
           Notifications!Begin(r, pc, u, t),
           channel' = IF pc = "enable" /\ t = discord THEN channel \union {u} ELSE channel,
           UNCHANGED discordid
    PROVE  SettingsInv'
<1>. DEFINE text == Notifications!NewText(pc, t, sval[u])
            job == [pc |-> pc, uid |-> u, type |-> t, text |-> text]
<1>1. sval[u] \in [on : SUBSET Types, enclosed : BOOLEAN]
    BY DEF SettingsInv, Notifications!TypeOK
<1>2. /\ text \in [on : SUBSET Types, enclosed : BOOLEAN]
      /\ Fit(text.on, IF pc = "enable" THEN sval[u].on \union {t} ELSE sval[u].on \ {t})
    BY <1>1, NewTexts
<1>. USE DEF NotificationsConstants
<1>3. /\ reqs < MaxReqs /\ req[r].pc = "idle" /\ reqs' = reqs + 1
      /\ req' = [req EXCEPT ![r] = job]
      /\ mixed' = IF \E q \in Reqs \ {r} : req[q].pc # "idle" /\ req[q].uid = u
                  THEN mixed \union {u} ELSE mixed
      /\ UNCHANGED <<sval, user_notification, sent, wanted>>
    BY DEF Notifications!Begin
<1>. HIDE DEF text
<1>4. mixed \subseteq mixed' /\ \A v \in mixed' : v \in mixed \/ v = u
    BY <1>3
<1>5. Notifications!TypeOK'
    BY <1>3 DEF SettingsInv, Notifications!TypeOK, Notifications!Ids
<1>6. SettingsTyped'
    BY <1>2, <1>3 DEF SettingsInv, SettingsTyped
<1>7. OverlapsAreMixed'
    <2>1. \A q \in Reqs : req[q].uid # 0 => req[q].pc # "idle"
        BY DEF SettingsInv, SettingsTyped
    <2>2. \A q \in Reqs : req'[q] = IF q = r THEN job ELSE req[q]
        BY <1>3 DEF SettingsInv, SettingsTyped
    <2>3. ASSUME NEW q \in Reqs, q # r, req[q].uid = u PROVE u \in mixed'
        BY <1>3, <2>1, <2>3
    <2>. QED BY <1>4, <2>2, <2>3 DEF SettingsInv, OverlapsAreMixed
<1>8. TextFollows'
    <2>1. \A v \in Users \ mixed' : Fit(sval'[v].on, wanted'[v])
        BY <1>3, <1>4 DEF SettingsInv, TextFollows
    <2>2. ASSUME NEW q \in Reqs, req'[q].uid # 0, req'[q].uid \notin mixed'
          PROVE  Fit(req'[q].text.on, Asked(req'[q], wanted'[req'[q].uid]))
        <3>1. CASE q = r
            <4>1. req'[q] = job /\ u \notin mixed
                BY <1>3, <1>4, <2>2, <3>1 DEF SettingsInv, SettingsTyped
            <4>2. Fit(sval[u].on, wanted[u])
                BY <4>1 DEF SettingsInv, TextFollows
            <4>. QED BY <1>2, <1>3, <4>1, <4>2 DEF Asked, Fit
        <3>2. CASE q # r
            BY <1>3, <1>4, <2>2, <3>2 DEF SettingsInv, SettingsTyped, TextFollows, Asked
        <3>. QED BY <3>1, <3>2
    <2>. QED BY <2>1, <2>2 DEF TextFollows
<1>9. ChannelFollows'
    <2>1. \A q \in Reqs : req'[q] = IF q = r THEN job ELSE req[q]
        BY <1>3 DEF SettingsInv, SettingsTyped
    <2>2. req[r].uid = 0 /\ 0 \notin Users
        BY <1>3 DEF SettingsInv, SettingsTyped
    <2>3. \A q \in Reqs : req[q].uid \in Users => req[q].pc # "idle"
        BY <2>2 DEF SettingsInv, SettingsTyped
    <2>4. ASSUME NEW v \in Users, v \notin mixed'
          PROVE  v \in channel' <=> (discord \in wanted'[v] \/ \E q \in Reqs : EnablesMessages(q, v)')
        <3>1. v \in channel <=> (discord \in wanted[v] \/ \E q \in Reqs : EnablesMessages(q, v))
            BY <1>4, <2>4 DEF SettingsInv, ChannelFollows
        <3>2. CASE v # u
            <4>1. \A q \in Reqs : EnablesMessages(q, v)' <=> EnablesMessages(q, v)
                BY <2>1, <2>2, <3>2 DEF EnablesMessages
            <4>. QED BY <1>3, <3>1, <3>2, <4>1
        <3>3. CASE v = u
            <4>1. \A q \in Reqs \ {r} : req[q].uid # u
                BY <1>3, <2>3, <2>4, <3>3
            <4>2. ~ \E q \in Reqs : EnablesMessages(q, u)
                BY <2>2, <4>1 DEF EnablesMessages
            <4>3. (\E q \in Reqs : EnablesMessages(q, u)') <=> (pc = "enable" /\ t = discord)
                BY <2>1, <4>1 DEF EnablesMessages
            <4>. QED BY <1>3, <3>1, <3>3, <4>2, <4>3
        <3>. QED BY <3>2, <3>3
    <2>. QED BY <2>4 DEF ChannelFollows
<1>. QED BY <1>5, <1>6, <1>7, <1>8, <1>9 DEF SettingsInv

\* A request writes its text, which has what was asked for; another request of the
\* user would have been noted.
LEMMA SettingsWrite ==
    ASSUME NotificationsConstants, SettingsInv, NEW r \in Reqs, Notifications!Write(r)
    PROVE  SettingsInv'
<1>. DEFINE u == req[r].uid
<1>. USE DEF NotificationsConstants
<1>1. /\ req[r].pc # "idle"
      /\ sval' = [sval EXCEPT ![u] = req[r].text]
      /\ channel' = IF req[r].pc # "enable" /\ req[r].type = discord THEN channel \ {u} ELSE channel
      /\ discordid' = IF req[r].pc = "connect" THEN discordid \union {u} ELSE discordid
      /\ wanted' = [wanted EXCEPT ![u] = Asked(req[r], wanted[u])]
      /\ req' = [req EXCEPT ![r] = Notifications!Idle]
      /\ UNCHANGED <<user_notification, sent, reqs, mixed>>
    BY DEF Notifications!Write, Asked, SettingsInv, SettingsTyped
<1>2. u \in Users /\ u # 0 /\ req[r].type \in Types
    BY <1>1 DEF SettingsInv, SettingsTyped
<1>3. Notifications!TypeOK'
    BY <1>1, <1>2 DEF SettingsInv, SettingsTyped, Notifications!TypeOK, Notifications!Ids
<1>4. SettingsTyped'
    <2>1. Asked(req[r], wanted[u]) \in SUBSET Types
        BY <1>2 DEF SettingsInv, SettingsTyped, Asked
    <2>2. wanted' \in [Users -> SUBSET Types]
        BY <1>1, <2>1 DEF SettingsInv, SettingsTyped
    <2>. QED BY <1>1, <2>2 DEF SettingsInv, SettingsTyped, Notifications!Idle
<1>5. \A q \in Reqs : req'[q] = IF q = r THEN Notifications!Idle ELSE req[q]
    BY <1>1 DEF SettingsInv, SettingsTyped
<1>6. OverlapsAreMixed'
    BY <1>1, <1>5 DEF SettingsInv, OverlapsAreMixed, Notifications!Idle
<1>7. TextFollows'
    <2>1. ASSUME NEW v \in Users, v \notin mixed PROVE Fit(sval'[v].on, wanted'[v])
        <3>1. CASE v = u
            <4>1. sval'[v] = req[r].text /\ wanted'[v] = Asked(req[r], wanted[u])
                BY <1>1, <3>1 DEF SettingsInv, SettingsTyped, Notifications!TypeOK
            <4>. QED BY <1>2, <2>1, <3>1, <4>1 DEF SettingsInv, TextFollows
        <3>2. CASE v # u
            BY <1>1, <2>1, <3>2 DEF SettingsInv, SettingsTyped, Notifications!TypeOK, TextFollows
        <3>. QED BY <3>1, <3>2
    <2>2. ASSUME NEW q \in Reqs, req'[q].uid # 0, req'[q].uid \notin mixed
          PROVE  Fit(req'[q].text.on, Asked(req'[q], wanted'[req'[q].uid]))
        <3>1. q # r /\ req'[q] = req[q]
            BY <1>5, <2>2 DEF Notifications!Idle
        <3>2. req[q].uid # u
            BY <1>2, <2>2, <3>1 DEF SettingsInv, OverlapsAreMixed
        <3>3. wanted'[req[q].uid] = wanted[req[q].uid]
            BY <1>1, <2>2, <3>1, <3>2 DEF SettingsInv, SettingsTyped
        <3>. QED BY <2>2, <3>1, <3>3 DEF SettingsInv, TextFollows, Asked
    <2>. QED BY <1>1, <2>1, <2>2 DEF TextFollows
<1>8. ChannelFollows'
    <2>1. ASSUME NEW v \in Users, v \notin mixed
          PROVE  v \in channel' <=> (discord \in wanted'[v] \/ \E q \in Reqs : EnablesMessages(q, v)')
        <3>1. v \in channel <=> (discord \in wanted[v] \/ \E q \in Reqs : EnablesMessages(q, v))
            BY <2>1 DEF SettingsInv, ChannelFollows
        <3>2. CASE v # u
            <4>1. \A q \in Reqs : EnablesMessages(q, v)' <=> EnablesMessages(q, v)
                BY <1>2, <1>5, <3>2 DEF EnablesMessages, Notifications!Idle
            <4>2. wanted'[v] = wanted[v] /\ (v \in channel' <=> v \in channel)
                BY <1>1, <3>2 DEF SettingsInv, SettingsTyped
            <4>. QED BY <3>1, <4>1, <4>2
        <3>3. CASE v = u
            <4>1. \A q \in Reqs \ {r} : req[q].uid # v
                BY <1>2, <2>1, <3>3 DEF SettingsInv, OverlapsAreMixed
            <4>2. ~ \E q \in Reqs : EnablesMessages(q, v)'
                BY <1>2, <1>5, <3>3, <4>1 DEF EnablesMessages, Notifications!Idle
            <4>3. EnablesMessages(r, v) <=> (req[r].pc = "enable" /\ req[r].type = discord)
                BY <3>3 DEF EnablesMessages
            <4>4. \A q \in Reqs \ {r} : ~EnablesMessages(q, v)
                BY <4>1 DEF EnablesMessages
            <4>5. (\E q \in Reqs : EnablesMessages(q, v)) <=> (req[r].pc = "enable" /\ req[r].type = discord)
                BY <4>3, <4>4
            <4>6. wanted'[v] = Asked(req[r], wanted[v])
                BY <1>1, <1>2, <3>3 DEF SettingsInv, SettingsTyped
            <4>7. v \in channel <=> (discord \in wanted[v] \/ (req[r].pc = "enable" /\ req[r].type = discord))
                BY <3>1, <4>5
            <4>8. v \in channel' <=> discord \in wanted'[v]
                <5>1. CASE req[r].type = discord
                    BY <1>1, <1>2, <3>3, <4>6, <4>7, <5>1 DEF Asked
                <5>2. CASE req[r].type # discord
                    BY <1>1, <3>3, <4>6, <4>7, <5>2 DEF Asked
                <5>. QED BY <5>1, <5>2
            <4>. QED BY <4>2, <4>8
        <3>. QED BY <3>2, <3>3
    <2>. QED BY <2>1, <1>1 DEF ChannelFollows
<1>. QED BY <1>3, <1>4, <1>6, <1>7, <1>8 DEF SettingsInv

\* A request that is cut off is noted, and leaves the rest to others.
LEMMA SettingsCut ==
    ASSUME NotificationsConstants, SettingsInv, NEW r \in Reqs, Notifications!Cut(r)
    PROVE  SettingsInv'
<1>. USE DEF NotificationsConstants
<1>1. /\ req[r].pc # "idle" /\ req' = [req EXCEPT ![r] = Notifications!Idle]
      /\ mixed' = mixed \union {req[r].uid}
      /\ UNCHANGED <<sval, channel, discordid, user_notification, sent, reqs, wanted>>
    BY DEF Notifications!Cut
<1>2. \A q \in Reqs : req'[q] = IF q = r THEN Notifications!Idle ELSE req[q]
    BY <1>1 DEF SettingsInv, SettingsTyped
<1>3. Notifications!TypeOK'
    BY <1>1 DEF SettingsInv, Notifications!TypeOK, Notifications!Ids, Notifications!Statuses
<1>4. SettingsTyped'
    BY <1>1 DEF SettingsInv, SettingsTyped, Notifications!Idle
<1>5. OverlapsAreMixed'
    BY <1>1, <1>2 DEF SettingsInv, OverlapsAreMixed, Notifications!Idle
<1>6. TextFollows'
    <2>1. \A v \in Users \ mixed' : Fit(sval'[v].on, wanted'[v])
        BY <1>1 DEF SettingsInv, TextFollows
    <2>2. ASSUME NEW q \in Reqs, req'[q].uid # 0, req'[q].uid \notin mixed'
          PROVE  Fit(req'[q].text.on, Asked(req'[q], wanted'[req'[q].uid]))
        <3>1. req'[q] = req[q] /\ wanted' = wanted /\ req[q].uid # 0 /\ req[q].uid \notin mixed
            BY <1>1, <1>2, <2>2 DEF Notifications!Idle
        <3>. QED BY <3>1 DEF SettingsInv, TextFollows, Asked
    <2>. QED BY <2>1, <2>2 DEF TextFollows
<1>7. ChannelFollows'
    <2>1. \A v \in Users \ mixed' : \A q \in Reqs : EnablesMessages(q, v)' <=> EnablesMessages(q, v)
        BY <1>1, <1>2 DEF EnablesMessages, Notifications!Idle
    <2>. QED BY <1>1, <2>1 DEF SettingsInv, ChannelFollows
<1>. QED BY <1>3, <1>4, <1>5, <1>6, <1>7 DEF SettingsInv

\* Nothing else touches the text or the requests.
LEMMA NoticesKeep ==
    ASSUME NotificationsConstants, SettingsInv,
           UNCHANGED <<sval, channel, discordid, req, wanted, mixed>>,
           reqs' \in 0..MaxReqs,
           user_notification' \in [Notifications!Ids ->
                [uid : Users \union {0}, type : Types \union {0}, status : Notifications!Statuses]]
    PROVE  SettingsInv'
<1>1. Notifications!TypeOK'
    BY DEF SettingsInv, Notifications!TypeOK, Notifications!Ids, Notifications!Statuses
<1>2. ChannelFollows'
    BY DEF SettingsInv, ChannelFollows, EnablesMessages
<1>. QED BY <1>1, <1>2 DEF SettingsInv, SettingsTyped, OverlapsAreMixed, TextFollows, Asked

\* A notice takes the first free place.
LEMMA NoticeTyped ==
    ASSUME NotificationsConstants, SettingsInv, NEW u \in Users, NEW t \in Types,
           Notifications!notification(u, t)
    PROVE  SettingsInv'
<1>. DEFINE Free == Notifications!Free
            place == Min(Free)
<1>1. Free \in SUBSET Nat /\ Free \subseteq Notifications!Ids
    BY DEF Notifications!Free, Notifications!Ids
<1>2. Free # {} => place \in Notifications!Ids
    <2>. HIDE DEF Free
    <2>. QED BY <1>1, MinIsLeast
<1>3. Notifications!Min(Free) = place
    BY Zenon DEF Notifications!Min, Min
<1>4. /\ IF drivershub \in Notifications!Splits(sval[u])
         THEN /\ Free # {}
              /\ user_notification' = [user_notification EXCEPT
                    ![place] = [uid |-> u, type |-> t, status |-> 0]]
         ELSE UNCHANGED user_notification
      /\ UNCHANGED <<sval, channel, discordid, req, reqs, wanted, mixed>>
    BY <1>3 DEF Notifications!notification
<1>. HIDE DEF Free, place
<1>5. user_notification' \in [Notifications!Ids ->
                [uid : Users \union {0}, type : Types \union {0}, status : Notifications!Statuses]]
    BY <1>2, <1>4 DEF SettingsInv, Notifications!TypeOK, Notifications!Statuses
<1>. QED BY <1>4, <1>5, NoticesKeep DEF SettingsInv, Notifications!TypeOK

\* Rows that are rewritten have the type of rows.
LEMMA RewriteTyped ==
    ASSUME NotificationsConstants, SettingsInv, NEW ids, ids \subseteq Notifications!Ids, NEW row,
           \A n \in ids : row[n] \in [uid : Users \union {0}, type : Types \union {0}, status : Notifications!Statuses],
           Notifications!Rewrite(ids, row)
    PROVE  SettingsInv'
<1>1. /\ reqs < MaxReqs /\ reqs' = reqs + 1
      /\ user_notification' = [n \in Notifications!Ids |-> IF n \in ids THEN row[n] ELSE user_notification[n]]
      /\ UNCHANGED <<sval, channel, discordid, req, wanted, mixed>>
    BY DEF Notifications!Rewrite
<1>2. reqs' \in 0..MaxReqs
    BY <1>1 DEF SettingsInv, Notifications!TypeOK, NotificationsConstants
<1>3. user_notification' \in [Notifications!Ids ->
                [uid : Users \union {0}, type : Types \union {0}, status : Notifications!Statuses]]
    BY <1>1 DEF SettingsInv, Notifications!TypeOK
<1>. QED BY <1>1, <1>2, <1>3, NoticesKeep

\* The invariant is kept by every step.
LEMMA SettingsNext ==
    ASSUME NotificationsConstants, SettingsInv, [Notifications!Next]_Notifications!vars
    PROVE  SettingsInv'
<1>. DEFINE Row == [uid : Users \union {0}, type : Types \union {0}, status : Notifications!Statuses]
<1>. USE DEF NotificationsConstants
<1>0. discord \in Types /\ channel \subseteq Users /\ user_notification \in [Notifications!Ids -> Row]
    BY DEF SettingsInv, Notifications!TypeOK
<1>1. ASSUME NEW r \in Reqs, NEW u \in Users, NEW t \in Types,
             Notifications!post_settings_enable(r, u, t)
      PROVE  SettingsInv'
    <2>1. /\ Notifications!Begin(r, "enable", u, t) /\ UNCHANGED discordid
          /\ channel' = IF t = discord THEN channel \union {u} ELSE channel
        BY <1>1 DEF Notifications!post_settings_enable
    <2>. QED BY <2>1, SettingsBegin
<1>2. ASSUME NEW r \in Reqs, NEW u \in Users, NEW t \in Types,
             Notifications!post_settings_disable(r, u, t)
      PROVE  SettingsInv'
    <2>1. Notifications!Begin(r, "disable", u, t) /\ UNCHANGED <<channel, discordid>>
        BY <1>2 DEF Notifications!post_settings_disable
    <2>. QED BY <2>1, SettingsBegin
<1>3. ASSUME NEW r \in Reqs, NEW u \in Users, Notifications!patch_discord(r, u)
      PROVE  SettingsInv'
    <2>1. Notifications!Begin(r, "connect", u, discord) /\ UNCHANGED <<channel, discordid>>
        BY <1>3 DEF Notifications!patch_discord
    <2>. QED BY <1>0, <2>1, SettingsBegin
<1>4. ASSUME NEW r \in Reqs, NEW u \in Users, Notifications!Refused(r, u)
      PROVE  SettingsInv'
    <2>1. Notifications!Begin(r, "refused", u, discord) /\ UNCHANGED <<channel, discordid>>
        BY <1>4 DEF Notifications!Refused
    <2>. QED BY <1>0, <2>1, SettingsBegin
<1>5. ASSUME NEW u \in Users, NEW t \in Types, Notifications!Remind(u, t) PROVE SettingsInv'
    BY <1>5, NoticeTyped DEF Notifications!Remind
<1>6. ASSUME NEW t \in Types, Notifications!notification_to_everyone(t) PROVE SettingsInv'
    <2>. DEFINE Wants == {u \in Users : t \in Notifications!Splits(sval[u])}
    <2>1. Wants # {} /\ Notifications!notification(Notifications!Min(Wants), t)
        BY <1>6 DEF Notifications!notification_to_everyone
    <2>2. Notifications!Min(Wants) = Min(Wants)
        BY Zenon DEF Notifications!Min, Min
    <2>3. Wants \in SUBSET Nat /\ Wants \subseteq Users
        OBVIOUS
    <2>4. Min(Wants) \in Users
        <3>. HIDE DEF Wants
        <3>. QED BY <2>1, <2>3, MinIsLeast
    <2>. QED BY <2>1, <2>2, <2>4, NoticeTyped
<1>7. ASSUME NEW u \in Users, NEW ids, NEW status \in Notifications!Statuses,
             Notifications!patch_status(u, ids, status)
      PROVE  SettingsInv'
    <2>. DEFINE row == [n \in ids |-> [user_notification[n] EXCEPT !.status = status]]
    <2>1. ids \subseteq Notifications!Ids /\ Notifications!Rewrite(ids, row)
        BY <1>7 DEF Notifications!patch_status, Notifications!Own
    <2>2. \A n \in ids : row[n] \in Row
        BY <1>0, <2>1
    <2>. QED BY <2>1, <2>2, RewriteTyped
<1>8. ASSUME NEW u \in Users, NEW first, NEW last, Notifications!delete_notification(u, first, last)
      PROVE  SettingsInv'
    <2>. DEFINE row == [n \in Notifications!Ids |-> Notifications!NoNotice]
    <2>1. PICK ids \in SUBSET Notifications!Ids : Notifications!Rewrite(ids, row)
        BY <1>8 DEF Notifications!delete_notification, Notifications!Own, Notifications!Free
    <2>2. \A n \in ids : row[n] \in Row
        BY <2>1 DEF Notifications!NoNotice, Notifications!Statuses
    <2>. QED BY <2>1, <2>2, RewriteTyped
<1>9. ASSUME UNCHANGED Notifications!vars PROVE SettingsInv'
    BY <1>9, NoticesKeep DEF Notifications!vars, SettingsInv, Notifications!TypeOK
<1>. QED BY <1>1, <1>2, <1>3, <1>4, <1>5, <1>6, <1>7, <1>8, <1>9, SettingsWrite, SettingsCut, NoticeTyped
         DEF Notifications!Next

\* The settings and the notices have their types, whatever requests overlap.
\* (user/notification.py: settings are rewritten, notices read and deleted.)
THEOREM SettingsAreTyped ==
    NotificationsConstants => (Notifications!Spec => []Notifications!TypeOK)
<1>1. ASSUME NotificationsConstants PROVE Notifications!Init /\ [][Notifications!Next]_Notifications!vars => []Notifications!TypeOK
    <2>1. SettingsInv /\ [Notifications!Next]_Notifications!vars => SettingsInv'
        BY <1>1, SettingsNext
    <2>2. Notifications!Init => SettingsInv
        BY <1>1, SettingsInit
    <2>3. SettingsInv => Notifications!TypeOK
        BY DEF SettingsInv
    <2>. QED BY <2>1, <2>2, <2>3, PTL
<1>. QED BY <1>1 DEF Notifications!Spec

\* The text of the settings, split at its commas, has what the requests that wrote it
\* asked for, and there is a channel for direct messages exactly for whom they are
\* enabled, unless two requests of the user overlapped or one was cut off. Whether the
\* user is then told is not claimed. (user/notification.py: enable and disable read the
\* text, make another of it, and write that; functions/notification.py:96-126.)
THEOREM SettingsFollow ==
    NotificationsConstants => (Notifications!Spec => []Notifications!SettingsAreAsAsked)
<1>1. ASSUME NotificationsConstants PROVE Notifications!Init /\ [][Notifications!Next]_Notifications!vars => []Notifications!SettingsAreAsAsked
    <2>1. SettingsInv /\ [Notifications!Next]_Notifications!vars => SettingsInv'
        BY <1>1, SettingsNext
    <2>2. Notifications!Init => SettingsInv
        BY <1>1, SettingsInit
    <2>3. SettingsInv => Notifications!SettingsAreAsAsked
        BY DEF SettingsInv, TextFollows, Fit, ChannelFollows, EnablesMessages,
               Notifications!SettingsAreAsAsked, Notifications!Splits
    <2>. QED BY <2>1, <2>2, <2>3, PTL
<1>. QED BY <1>1 DEF Notifications!Spec

-----------------------------------------------------------------------------
(* Emails.                                                                 *)

Ops == {"none", "register", "reset-password", "update-email", "discord", "staff"}
Stages == {"idle", "user", "row", "mail", "confirm", "write"}
\* The rows that a mail is about, and the row of a request that may not have a user yet.
Letters == [uid : Uids, secret : 1..MaxReqs, op : Ops, email : Addresses, expire : Nat]
Rows == [uid : Uids \union {0}, secret : 0..MaxReqs, op : Ops, email : Addresses \union {0, -1}, expire : Nat]

\* A request is about an address, and what it confirms is a row of a mail.
MailsTyped ==
    /\ req \in [Reqs -> [pc : Stages, uid : Uids \union {0}, row : Rows]]
    /\ \A r \in Reqs :
        /\ req[r].pc \notin {"idle", "write"} =>
              req[r].row.email \in Addresses /\ req[r].row.secret \in 1..MaxReqs
        /\ req[r].pc \in {"row", "write"} => req[r].uid \in Uids
        /\ req[r].pc = "confirm" => req[r].row.uid \in Uids
    /\ email_confirmation \subseteq Letters
    /\ confirmed \in [Uids -> Nat]

\* Two requests for an address at a time are noted.
AddressesAreMixed ==
    \A r, q \in Reqs :
        (/\ r # q /\ req[r].row.email = req[q].row.email
         /\ req[r].pc \notin {"idle", "write"} /\ req[q].pc \notin {"idle", "write"})
            => req[r].row.email \in mixed

\* The address that a request is going to confirm is still nobody else's.
LookedUp ==
    \A r \in Reqs : (req[r].pc = "confirm" /\ req[r].row.email \notin mixed) =>
        \A v \in Emails!Live \ given : v # req[r].row.uid => user[v].email # req[r].row.email

\* Who is to be deleted has had the day, and has not confirmed in it.
DayIsOver ==
    /\ \A u \in Uids : user[u].since = 0 => user[u].email = Emails!gone /\ confirmed[u] = 0
    /\ \A u \in Uids : user[u].email = Emails!pending => confirmed[u] = 0
    /\ \A u \in clearing :
        /\ user[u].since # 0 /\ user[u].since + Long < now
        /\ confirmed[u] = 0 \/ confirmed[u] > user[u].since + Long

EmailsInv ==
    /\ Emails!TypeOK /\ MailsTyped /\ AddressesAreMixed /\ LookedUp /\ DayIsOver
    /\ Emails!EmailsAreOfOne

\* At the start no request or mail is under way, and nobody has an address.
LEMMA EmailsInit == EmailsConstants /\ Emails!Init => EmailsInv
<1>. SUFFICES ASSUME EmailsConstants, Emails!Init PROVE EmailsInv
    OBVIOUS
<1>. USE DEF EmailsConstants, Emails!none, Emails!pending, Emails!gone
<1>1. /\ user = [u \in Uids |-> IF u \in Connected THEN [email |-> 0, since |-> 1] ELSE [email |-> -2, since |-> 0]]
      /\ email_confirmation = {} /\ user_password = {} /\ clearing = {} /\ mixed = {}
      /\ now = 1 /\ reqs = 0
      /\ req = [r \in Reqs |-> Emails!Idle] /\ confirmed = [u \in Uids |-> 0]
    BY DEF Emails!Init
<1>2. Emails!TypeOK
    BY <1>1 DEF Emails!TypeOK
<1>3. MailsTyped
    BY <1>1 DEF MailsTyped, Emails!Idle, Emails!NoRow, Rows, Letters, Ops, Stages
<1>4. AddressesAreMixed /\ LookedUp
    BY <1>1 DEF AddressesAreMixed, LookedUp, Emails!Idle
<1>5. DayIsOver
    BY <1>1 DEF DayIsOver
<1>6. Emails!EmailsAreOfOne
    BY <1>1 DEF Emails!EmailsAreOfOne, Emails!Live
<1>. QED BY <1>2, <1>3, <1>4, <1>5, <1>6 DEF EmailsInv

\* A request that begins is noted if another one is for its address, and has looked
\* the address up if it is to confirm it.
LEMMA EmailsBegin ==
    ASSUME EmailsConstants, EmailsInv, NEW r \in Reqs,
           NEW pc \in {"user", "mail", "confirm"}, NEW row \in Rows,
           row.email \in Addresses, row.secret \in 1..MaxReqs,
           pc = "confirm" => row.uid \in Uids /\ Emails!Others(row.uid, row.email) = {},
           Emails!Begin(r, Emails!Job(pc, row)),
           email_confirmation' \subseteq Letters, UNCHANGED <<user, user_password>>
    PROVE  EmailsInv'
<1>. DEFINE job == [pc |-> pc, uid |-> row.uid, row |-> row]
<1>. USE DEF EmailsConstants
<1>1. /\ reqs < MaxReqs /\ req[r].pc = "idle" /\ reqs' = reqs + 1
      /\ req' = [req EXCEPT ![r] = job]
      /\ mixed' = IF \E q \in Reqs : req[q].row.email = row.email THEN mixed \union {row.email} ELSE mixed
      /\ UNCHANGED <<clearing, now, given, confirmed>>
    BY DEF Emails!Begin, Emails!Enter, Emails!Job, Emails!Idle
<1>2. /\ mixed \subseteq mixed' /\ mixed' \subseteq mixed \union {row.email}
      /\ \A q \in Reqs : req'[q] = IF q = r THEN job ELSE req[q]
    BY <1>1 DEF EmailsInv, MailsTyped
<1>3. Emails!TypeOK'
    <2>1. reqs' \in 0..MaxReqs
        BY <1>1 DEF EmailsInv, Emails!TypeOK
    <2>2. mixed' \subseteq Addresses
        BY <1>1, <1>2 DEF EmailsInv, Emails!TypeOK
    <2>3. \A c \in email_confirmation' : c.uid \in Uids /\ c.email \in Addresses /\ c.secret \in 1..MaxReqs
        BY DEF Letters
    <2>. QED BY <1>1, <2>1, <2>2, <2>3 DEF EmailsInv, Emails!TypeOK
<1>4. MailsTyped'
    <2>1. job \in [pc : Stages, uid : Uids \union {0}, row : Rows]
        BY DEF Rows, Stages
    <2>2. req' \in [Reqs -> [pc : Stages, uid : Uids \union {0}, row : Rows]]
        BY <1>1, <2>1 DEF EmailsInv, MailsTyped
    <2>. QED BY <1>1, <1>2, <2>2 DEF EmailsInv, MailsTyped
<1>5. AddressesAreMixed'
    <2>1. ASSUME NEW q \in Reqs, req[q].row.email = row.email PROVE row.email \in mixed'
        BY <1>1, <2>1
    <2>. QED BY <1>2, <2>1 DEF EmailsInv, AddressesAreMixed
<1>6. LookedUp'
    <2>1. ASSUME NEW q \in Reqs, req'[q].pc = "confirm", req'[q].row.email \notin mixed',
                 NEW v \in Emails!Live \ given, v # req'[q].row.uid
          PROVE  user[v].email # req'[q].row.email
        <3>1. CASE q = r
            <4>1. req'[q] = job /\ pc = "confirm"
                BY <1>2, <2>1, <3>1
            <4>. QED BY <2>1, <4>1 DEF Emails!Others, Emails!Live
        <3>2. CASE q # r
            BY <1>2, <2>1, <3>2 DEF EmailsInv, LookedUp
        <3>. QED BY <3>1, <3>2
    <2>2. Emails!Live' = Emails!Live
        BY DEF Emails!Live
    <2>. QED BY <1>1, <2>1, <2>2 DEF LookedUp
<1>7. DayIsOver'
    BY <1>1 DEF EmailsInv, DayIsOver
<1>8. Emails!EmailsAreOfOne'
    <2>1. Emails!Live' = Emails!Live
        BY DEF Emails!Live
    <2>. QED BY <1>1, <1>2, <2>1 DEF EmailsInv, Emails!EmailsAreOfOne
<1>. QED BY <1>3, <1>4, <1>5, <1>6, <1>7, <1>8 DEF EmailsInv

\* A request that ends, or goes on with its mail, confirms nothing.
LEMMA EmailsProceed ==
    ASSUME EmailsConstants, EmailsInv, NEW r \in Reqs,
           \/ req' = [req EXCEPT ![r] = Emails!Idle]
           \/ /\ req[r].pc \notin {"idle", "write"}
              /\ \E row \in Letters : row.email = req[r].row.email /\ req' = [req EXCEPT ![r] = Emails!Job("mail", row)],
           email_confirmation' \subseteq Letters,
           \A p \in user_password' : p.uid \in Uids /\ p.email \in Addresses,
           UNCHANGED <<user, clearing, now, reqs, given, confirmed, mixed>>
    PROVE  EmailsInv'
<1>. USE DEF EmailsConstants
<1>. DEFINE Jobs == [pc : Stages, uid : Uids \union {0}, row : Rows]
<1>1. \E job \in Jobs :
        /\ req' = [req EXCEPT ![r] = job]
        /\ \/ job.pc = "idle"
           \/ /\ job.pc = "mail" /\ job.row \in Letters
              /\ req[r].pc \notin {"idle", "write"} /\ job.row.email = req[r].row.email
    <2>1. Emails!Idle \in Jobs /\ Emails!Idle.pc = "idle"
        BY DEF Emails!Idle, Emails!NoRow, Rows, Ops, Stages, Emails!none
    <2>2. ASSUME NEW row \in Letters PROVE Emails!Job("mail", row) \in Jobs /\ Emails!Job("mail", row).pc = "mail"
                                           /\ Emails!Job("mail", row).row = row
        BY DEF Emails!Job, Rows, Letters, Stages
    <2>. QED BY <2>1, <2>2
<1>2. PICK job \in Jobs :
        /\ req' = [req EXCEPT ![r] = job]
        /\ \/ job.pc = "idle"
           \/ /\ job.pc = "mail" /\ job.row \in Letters
              /\ req[r].pc \notin {"idle", "write"} /\ job.row.email = req[r].row.email
    BY <1>1
<1>. HIDE DEF Jobs
<1>3. req \in [Reqs -> Jobs]
    BY DEF EmailsInv, MailsTyped, Jobs
<1>4. \A q \in Reqs : req'[q] = IF q = r THEN job ELSE req[q]
    BY <1>2, <1>3
<1>5. req' \in [Reqs -> Jobs]
    BY <1>2, <1>3
<1>6. MailsTyped'
    BY <1>2, <1>4, <1>5 DEF EmailsInv, MailsTyped, Jobs, Letters
<1>7. Emails!TypeOK'
    BY DEF EmailsInv, Emails!TypeOK, Letters
<1>8. AddressesAreMixed'
    BY <1>2, <1>4 DEF EmailsInv, AddressesAreMixed
<1>9. Emails!Live' = Emails!Live
    BY DEF Emails!Live
<1>10. LookedUp'
    BY <1>2, <1>4, <1>9 DEF EmailsInv, LookedUp
<1>11. DayIsOver' /\ Emails!EmailsAreOfOne'
    BY <1>9 DEF EmailsInv, DayIsOver, Emails!EmailsAreOfOne
<1>. QED BY <1>6, <1>7, <1>8, <1>10, <1>11 DEF EmailsInv

\* A user is registered under a uid that was not used, with an address to come.
LEMMA EmailsRegister ==
    ASSUME EmailsConstants, EmailsInv, NEW r \in Reqs, Emails!RegisterUser(r)
    PROVE  EmailsInv'
<1>. DEFINE Unused == Emails!Unused
            u == Min(Unused)
<1>. USE DEF EmailsConstants, Emails!pending, Emails!gone
<1>1. Unused \in SUBSET Nat /\ Unused \subseteq Uids /\ Unused # {}
    BY DEF Emails!Unused, Emails!RegisterUser
<1>2. u \in Unused
    <2>. HIDE DEF Unused
    <2>. QED BY <1>1, MinIsLeast
<1>3. u \in Uids /\ user[u].since = 0
    BY <1>2 DEF Emails!Unused
<1>4. Emails!Min(Unused) = u
    BY Zenon DEF Emails!Min, Min
<1>5. /\ req[r].pc = "user"
      /\ user' = [user EXCEPT ![u] = [email |-> -1, since |-> now]]
      /\ req' = [req EXCEPT ![r].pc = "row", ![r].uid = u]
      /\ UNCHANGED <<email_confirmation, user_password, clearing, now, reqs, given, confirmed, mixed>>
    BY <1>4 DEF Emails!RegisterUser
<1>. HIDE DEF u, Unused
<1>6. /\ \A v \in Uids : v # u => user'[v] = user[v]
      /\ user'[u].email = -1 /\ user'[u].since = now
      /\ user[u].email = -2 /\ confirmed[u] = 0 /\ u \notin clearing /\ now \in Nat \ {0}
    BY <1>3, <1>5 DEF EmailsInv, Emails!TypeOK, DayIsOver
<1>7. Emails!TypeOK'
    BY <1>3, <1>5, <1>6 DEF EmailsInv, Emails!TypeOK
<1>. DEFINE Jobs == [pc : Stages, uid : Uids \union {0}, row : Rows]
<1>8. /\ req' \in [Reqs -> Jobs]
      /\ \A q \in Reqs : q # r => req'[q] = req[q]
      /\ req'[r].pc = "row" /\ req'[r].uid = u /\ req'[r].row = req[r].row
    <2>1. req \in [Reqs -> Jobs]
        BY DEF EmailsInv, MailsTyped
    <2>. QED BY <1>3, <1>5, <2>1 DEF Stages
<1>9. MailsTyped'
    <2>1. /\ email_confirmation' \subseteq Letters /\ confirmed' \in [Uids -> Nat]
          /\ req[r].row.email \in Addresses /\ req[r].row.secret \in 1..MaxReqs
        BY <1>5 DEF EmailsInv, MailsTyped
    <2>2. ASSUME NEW q \in Reqs
          PROVE  /\ req'[q].pc \notin {"idle", "write"} =>
                        req'[q].row.email \in Addresses /\ req'[q].row.secret \in 1..MaxReqs
                 /\ req'[q].pc \in {"row", "write"} => req'[q].uid \in Uids
                 /\ req'[q].pc = "confirm" => req'[q].row.uid \in Uids
        <3>1. CASE q = r
            BY <1>3, <1>8, <2>1, <3>1
        <3>2. CASE q # r
            BY <1>8, <3>2 DEF EmailsInv, MailsTyped
        <3>. QED BY <3>1, <3>2
    <2>. QED BY <1>8, <2>1, <2>2 DEF MailsTyped
<1>. HIDE DEF Jobs
<1>10. \A q \in Reqs : /\ req'[q].row = req[q].row
                       /\ req'[q].pc \notin {"idle", "write"} => req[q].pc \notin {"idle", "write"}
                       /\ req'[q].pc = "confirm" => req[q].pc = "confirm"
    BY <1>5, <1>8
<1>11. AddressesAreMixed'
    <2>1. mixed' = mixed
        BY <1>5
    <2>. QED BY <1>10, <2>1 DEF EmailsInv, AddressesAreMixed
<1>12. /\ \A v \in Emails!Live' : v \in Uids /\ (v = u \/ (v \in Emails!Live /\ user'[v] = user[v]))
       /\ given' = given /\ mixed' = mixed
    BY <1>5, <1>6 DEF Emails!Live
<1>13. LookedUp'
    <2>1. ASSUME NEW q \in Reqs, req'[q].pc = "confirm", req'[q].row.email \notin mixed,
                 NEW v \in Emails!Live' \ given, v # req'[q].row.uid
          PROVE  user'[v].email # req'[q].row.email
        <3>1. req'[q].row.email \in Addresses
            BY <1>9, <2>1 DEF MailsTyped
        <3>2. CASE v = u
            BY <1>6, <3>1, <3>2
        <3>3. CASE v # u
            BY <1>10, <1>12, <2>1, <3>3 DEF EmailsInv, LookedUp
        <3>. QED BY <3>2, <3>3
    <2>. QED BY <1>12, <2>1 DEF LookedUp
<1>14. DayIsOver'
    BY <1>5, <1>6 DEF EmailsInv, DayIsOver
<1>15. Emails!EmailsAreOfOne'
    <2>1. \A v \in Emails!Live' : user'[v].email > 0 => v \in Emails!Live /\ user'[v] = user[v]
        BY <1>6, <1>12
    <2>. QED BY <1>12, <2>1 DEF EmailsInv, Emails!EmailsAreOfOne
<1>. QED BY <1>7, <1>9, <1>11, <1>13, <1>14, <1>15 DEF EmailsInv

\* An address is confirmed for a user who looked it up, or for nobody.
LEMMA EmailsConfirm ==
    ASSUME EmailsConstants, EmailsInv, NEW r \in Reqs, Emails!Confirm(r),
           req[r].row.op # "reset-password", req[r].row.uid \in Emails!Live
    PROVE  EmailsInv'
<1>. DEFINE c == req[r].row
            u == c.uid
            e == c.email
<1>. USE DEF EmailsConstants, Emails!pending, Emails!gone
<1>1. /\ req[r].pc = "confirm"
      /\ email_confirmation' \subseteq email_confirmation
      /\ user' = [user EXCEPT ![u].email = e]
      /\ confirmed' = [confirmed EXCEPT ![u] = now] /\ given' = given \ {u}
      /\ req' = [req EXCEPT ![r] = Emails!Idle]
      /\ UNCHANGED <<user_password, clearing, now, reqs, mixed>>
    BY DEF Emails!Confirm, Emails!Unexpired
<1>2. u \in Uids /\ e \in Addresses /\ e > 0 /\ user[u].email # -2 /\ user[u].since # 0 /\ now \in Nat \ {0}
    BY <1>1 DEF EmailsInv, MailsTyped, DayIsOver, Emails!TypeOK, Emails!Live
<1>. HIDE DEF c, u, e
<1>3. /\ \A v \in Uids : user'[v] = IF v = u THEN [user[u] EXCEPT !.email = e] ELSE user[v]
      /\ \A v \in Uids : user'[v].since = user[v].since
      /\ user'[u].email = e
      /\ \A v \in Uids : confirmed'[v] = IF v = u THEN now ELSE confirmed[v]
    BY <1>1, <1>2 DEF EmailsInv, Emails!TypeOK, MailsTyped
<1>4. Emails!TypeOK'
    BY <1>1, <1>2 DEF EmailsInv, Emails!TypeOK
<1>5. \A q \in Reqs : req'[q] = IF q = r THEN Emails!Idle ELSE req[q]
    BY <1>1 DEF EmailsInv, MailsTyped
<1>6. Emails!Idle.pc = "idle" /\ Emails!Idle \in [pc : Stages, uid : Uids \union {0}, row : Rows]
    BY DEF Emails!Idle, Emails!NoRow, Rows, Ops, Stages, Emails!none
<1>7. MailsTyped'
    <2>1. confirmed' \in [Uids -> Nat] /\ email_confirmation' \subseteq Letters
        BY <1>1, <1>2 DEF EmailsInv, MailsTyped
    <2>2. req' \in [Reqs -> [pc : Stages, uid : Uids \union {0}, row : Rows]]
        BY <1>1, <1>6 DEF EmailsInv, MailsTyped
    <2>. QED BY <1>5, <1>6, <2>1, <2>2 DEF EmailsInv, MailsTyped
<1>8. AddressesAreMixed'
    BY <1>1, <1>5, <1>6 DEF EmailsInv, AddressesAreMixed
<1>9. Emails!Live' = Emails!Live /\ Emails!Live \subseteq Uids
    BY <1>2, <1>3 DEF Emails!Live
<1>10. e \in mixed \/ \A q \in Reqs : (q # r /\ req[q].pc \notin {"idle", "write"}) => req[q].row.email # e
    BY <1>1 DEF EmailsInv, AddressesAreMixed, e, c
<1>11. e \in mixed \/ \A v \in Emails!Live \ given : v # u => user[v].email # e
    BY <1>1 DEF EmailsInv, LookedUp, e, c, u
<1>12. LookedUp'
    <2>1. ASSUME NEW q \in Reqs, req'[q].pc = "confirm", req'[q].row.email \notin mixed',
                 NEW v \in Emails!Live' \ given', v # req'[q].row.uid
          PROVE  user'[v].email # req'[q].row.email
        <3>1. q # r /\ req'[q] = req[q]
            BY <1>5, <1>6, <2>1
        <3>2. CASE v = u
            BY <1>1, <1>3, <1>10, <2>1, <3>1, <3>2
        <3>3. CASE v # u
            BY <1>1, <1>3, <1>9, <2>1, <3>1, <3>3 DEF EmailsInv, LookedUp
        <3>. QED BY <3>2, <3>3
    <2>. QED BY <2>1 DEF LookedUp
<1>13. DayIsOver'
    BY <1>1, <1>2, <1>3 DEF EmailsInv, Emails!TypeOK, DayIsOver
<1>14. Emails!EmailsAreOfOne'
    <2>1. ASSUME NEW v \in Emails!Live' \ given', NEW w \in Emails!Live' \ given', v # w,
                 user'[v].email = user'[w].email, user'[v].email > 0
          PROVE  user'[v].email \in mixed
        <3>1. CASE v = u
            BY <1>1, <1>3, <1>9, <1>11, <2>1, <3>1
        <3>2. CASE w = u
            BY <1>1, <1>3, <1>9, <1>11, <2>1, <3>2
        <3>3. CASE v # u /\ w # u
            BY <1>1, <1>3, <1>9, <2>1, <3>3 DEF EmailsInv, Emails!EmailsAreOfOne
        <3>. QED BY <3>1, <3>2, <3>3
    <2>. QED BY <1>1, <2>1 DEF Emails!EmailsAreOfOne
<1>. QED BY <1>4, <1>7, <1>8, <1>12, <1>13, <1>14 DEF EmailsInv

\* Passwords are of users and addresses, and nothing else depends on them.
LEMMA PasswordsKeep ==
    ASSUME EmailsConstants, EmailsInv, reqs' \in 0..MaxReqs,
           \A p \in user_password' : p.uid \in Uids /\ p.email \in Addresses,
           email_confirmation' \subseteq Letters,
           UNCHANGED <<user, clearing, now, req, given, confirmed, mixed>>
    PROVE  EmailsInv'
<1>1. Emails!TypeOK'
    <2>1. \A c \in email_confirmation' : c.uid \in Uids /\ c.email \in Addresses /\ c.secret \in 1..MaxReqs
        BY DEF Letters
    <2>. QED BY <2>1 DEF EmailsInv, Emails!TypeOK
<1>2. Emails!Live' = Emails!Live
    BY DEF Emails!Live
<1>3. MailsTyped' /\ AddressesAreMixed' /\ LookedUp'
    BY <1>2 DEF EmailsInv, MailsTyped, AddressesAreMixed, LookedUp
<1>4. DayIsOver' /\ Emails!EmailsAreOfOne'
    BY <1>2 DEF EmailsInv, DayIsOver, Emails!EmailsAreOfOne
<1>. QED BY <1>1, <1>3, <1>4 DEF EmailsInv

\* A request of Discord's or of staff's begins, which confirms nothing.
LEMMA EmailsEnter ==
    ASSUME EmailsConstants, EmailsInv, NEW r \in Reqs, NEW row \in Rows, row.uid \in Uids,
           Emails!Enter(r, Emails!Job("write", row)),
           UNCHANGED <<user, email_confirmation, user_password, mixed>>
    PROVE  EmailsInv'
<1>. DEFINE job == [pc |-> "write", uid |-> row.uid, row |-> row]
<1>. USE DEF EmailsConstants
<1>1. /\ reqs < MaxReqs /\ reqs' = reqs + 1 /\ req' = [req EXCEPT ![r] = job]
      /\ UNCHANGED <<clearing, now, given, confirmed>>
    BY DEF Emails!Enter, Emails!Job
<1>2. \A q \in Reqs : req'[q] = IF q = r THEN job ELSE req[q]
    BY <1>1 DEF EmailsInv, MailsTyped
<1>3. Emails!TypeOK'
    BY <1>1 DEF EmailsInv, Emails!TypeOK
<1>4. MailsTyped'
    <2>1. job \in [pc : Stages, uid : Uids \union {0}, row : Rows]
        BY DEF Stages
    <2>2. req' \in [Reqs -> [pc : Stages, uid : Uids \union {0}, row : Rows]]
        BY <1>1, <2>1 DEF EmailsInv, MailsTyped
    <2>. QED BY <1>1, <1>2, <2>2 DEF EmailsInv, MailsTyped
<1>5. AddressesAreMixed'
    BY <1>2 DEF EmailsInv, AddressesAreMixed
<1>6. Emails!Live' = Emails!Live
    BY DEF Emails!Live
<1>7. LookedUp'
    BY <1>1, <1>2, <1>6 DEF EmailsInv, LookedUp
<1>8. DayIsOver' /\ Emails!EmailsAreOfOne'
    BY <1>1, <1>6 DEF EmailsInv, DayIsOver, Emails!EmailsAreOfOne
<1>. QED BY <1>3, <1>4, <1>5, <1>7, <1>8 DEF EmailsInv

\* An address that Discord told or staff wrote is told apart.
LEMMA EmailsWrite ==
    ASSUME EmailsConstants, EmailsInv, NEW r \in Reqs, Emails!WriteEmail(r)
    PROVE  EmailsInv'
<1>. DEFINE u == req[r].uid
            e == req[r].row.email
<1>. USE DEF EmailsConstants, Emails!pending, Emails!gone
<1>1. CASE u \notin Emails!Live
    <2>1. /\ req' = [req EXCEPT ![r] = Emails!Idle] /\ email_confirmation' \subseteq Letters
          /\ UNCHANGED <<user, user_password, clearing, now, reqs, given, confirmed, mixed>>
        BY <1>1 DEF Emails!WriteEmail, EmailsInv, MailsTyped
    <2>2. \A p \in user_password' : p.uid \in Uids /\ p.email \in Addresses
        BY <2>1 DEF EmailsInv, Emails!TypeOK
    <2>. QED BY <2>1, <2>2, EmailsProceed
<1>2. CASE u \in Emails!Live
  <2>1. /\ req[r].pc = "write" /\ req' = [req EXCEPT ![r] = Emails!Idle]
        /\ user' = [user EXCEPT ![u].email = e] /\ given' = given \union {u}
        /\ confirmed' = IF e = -1 THEN [confirmed EXCEPT ![u] = 0] ELSE confirmed
        /\ UNCHANGED <<email_confirmation, user_password, clearing, now, reqs, mixed>>
      BY <1>2 DEF Emails!WriteEmail
  <2>2. u \in Uids /\ user[u].email # -2 /\ e \in Addresses \union {0, -1}
      BY <1>2 DEF Emails!Live, EmailsInv, MailsTyped, Rows
  <2>. HIDE DEF u, e
  <2>3. /\ \A v \in Uids : v # u => user'[v] = user[v]
        /\ \A v \in Uids : user'[v].since = user[v].since
        /\ user'[u].email = e /\ e # -2
      BY <2>1, <2>2 DEF EmailsInv, Emails!TypeOK
  <2>4. Emails!Live' = Emails!Live /\ Emails!Live \subseteq Uids
      BY <2>2, <2>3 DEF Emails!Live
  <2>5. Emails!TypeOK'
      BY <2>1, <2>2 DEF EmailsInv, Emails!TypeOK, Emails!none
  <2>6. \A q \in Reqs : req'[q] = IF q = r THEN Emails!Idle ELSE req[q]
      BY <2>1 DEF EmailsInv, MailsTyped
  <2>7. Emails!Idle.pc = "idle" /\ Emails!Idle \in [pc : Stages, uid : Uids \union {0}, row : Rows]
      BY DEF Emails!Idle, Emails!NoRow, Rows, Ops, Stages, Emails!none
  <2>8. confirmed' \in [Uids -> Nat] /\ \A v \in Uids : confirmed'[v] \in {0, confirmed[v]}
      BY <2>1, <2>2 DEF EmailsInv, MailsTyped
  <2>9. MailsTyped'
      <3>1. req' \in [Reqs -> [pc : Stages, uid : Uids \union {0}, row : Rows]]
          BY <2>1, <2>7 DEF EmailsInv, MailsTyped
      <3>. QED BY <2>1, <2>6, <2>7, <2>8, <3>1 DEF EmailsInv, MailsTyped
  <2>10. AddressesAreMixed'
      BY <2>1, <2>6, <2>7 DEF EmailsInv, AddressesAreMixed
  <2>11. \A v \in Emails!Live' \ given' : v \in Emails!Live \ given /\ user'[v] = user[v]
      BY <2>1, <2>3, <2>4
  <2>12. LookedUp'
      BY <2>1, <2>6, <2>7, <2>11 DEF EmailsInv, LookedUp
  <2>13. Emails!EmailsAreOfOne'
      BY <2>1, <2>11 DEF EmailsInv, Emails!EmailsAreOfOne
  <2>14. DayIsOver'
      <3>1. \A v \in Uids : user'[v].email = -1 => confirmed'[v] = 0
          BY <2>1, <2>2, <2>3, <2>8 DEF EmailsInv, DayIsOver, MailsTyped
      <3>2. \A v \in Uids : user'[v].since = 0 => user'[v].email = -2 /\ confirmed'[v] = 0
          BY <2>2, <2>3, <2>8 DEF EmailsInv, DayIsOver
      <3>3. clearing' \subseteq Uids
          BY <2>1 DEF EmailsInv, Emails!TypeOK
      <3>. QED BY <2>1, <2>3, <2>8, <3>1, <3>2, <3>3 DEF EmailsInv, DayIsOver
  <2>. QED BY <2>5, <2>9, <2>10, <2>12, <2>13, <2>14 DEF EmailsInv
<1>. QED BY <1>1, <1>2

\* Who loses an address has none.
LEMMA EmailsClear ==
    ASSUME EmailsConstants, EmailsInv, NEW u \in Uids, Emails!delete_connections(u)
    PROVE  EmailsInv'
<1>. USE DEF EmailsConstants, Emails!pending, Emails!gone, Emails!none
<1>1. /\ user[u].email # -2 /\ reqs' \in 0..MaxReqs
      /\ user' = [user EXCEPT ![u].email = 0]
      /\ UNCHANGED <<email_confirmation, user_password, clearing, now, req, given, confirmed, mixed>>
    BY DEF Emails!delete_connections, Emails!Live, EmailsInv, Emails!TypeOK
<1>2. /\ \A v \in Uids : v # u => user'[v] = user[v]
      /\ \A v \in Uids : user'[v].since = user[v].since
      /\ user'[u].email = 0
    BY <1>1 DEF EmailsInv, Emails!TypeOK
<1>3. Emails!Live' = Emails!Live /\ Emails!Live \subseteq Uids
    BY <1>1, <1>2 DEF Emails!Live
<1>4. Emails!TypeOK'
    BY <1>1, <1>2 DEF EmailsInv, Emails!TypeOK
<1>5. MailsTyped' /\ AddressesAreMixed'
    BY <1>1 DEF EmailsInv, MailsTyped, AddressesAreMixed
<1>6. LookedUp'
    <2>1. ASSUME NEW q \in Reqs, req[q].pc = "confirm", req[q].row.email \notin mixed,
                 NEW v \in Emails!Live \ given, v # req[q].row.uid
          PROVE  user'[v].email # req[q].row.email
        <3>1. req[q].row.email \in Addresses
            BY <2>1 DEF EmailsInv, MailsTyped
        <3>2. CASE v = u
            BY <1>2, <3>1, <3>2
        <3>3. CASE v # u
            BY <1>2, <1>3, <2>1, <3>3 DEF EmailsInv, LookedUp
        <3>. QED BY <3>2, <3>3
    <2>. QED BY <1>1, <1>3, <2>1 DEF LookedUp
<1>7. Emails!EmailsAreOfOne'
    BY <1>1, <1>2, <1>3 DEF EmailsInv, Emails!EmailsAreOfOne
<1>8. DayIsOver'
    BY <1>1, <1>2 DEF EmailsInv, DayIsOver
<1>. QED BY <1>4, <1>5, <1>6, <1>7, <1>8 DEF EmailsInv

\* Who is deleted is a user no more, and leaves no mail and no password.
LEMMA EmailsDelete ==
    ASSUME EmailsConstants, EmailsInv, NEW u \in Uids, Emails!Delete(u)
    PROVE  EmailsInv'
<1>. USE DEF EmailsConstants, Emails!pending, Emails!gone
<1>1. /\ clearing' = clearing \ {u} /\ user' = [user EXCEPT ![u].email = -2]
      /\ email_confirmation' \subseteq email_confirmation /\ user_password' \subseteq user_password
      /\ UNCHANGED <<now, req, reqs, given, confirmed, mixed>>
    BY DEF Emails!Delete
<1>2. /\ \A v \in Uids : v # u => user'[v] = user[v]
      /\ \A v \in Uids : user'[v].since = user[v].since
      /\ user'[u].email = -2
    BY <1>1 DEF EmailsInv, Emails!TypeOK
<1>3. \A v \in Emails!Live' : v \in Emails!Live /\ user'[v] = user[v]
    BY <1>1, <1>2 DEF Emails!Live
<1>4. Emails!TypeOK'
    BY <1>1, <1>2 DEF EmailsInv, Emails!TypeOK
<1>5. MailsTyped' /\ AddressesAreMixed'
    BY <1>1 DEF EmailsInv, MailsTyped, AddressesAreMixed
<1>6. LookedUp'
    BY <1>1, <1>3 DEF EmailsInv, LookedUp
<1>7. Emails!EmailsAreOfOne'
    BY <1>1, <1>3 DEF EmailsInv, Emails!EmailsAreOfOne
<1>8. DayIsOver'
    BY <1>1, <1>2 DEF EmailsInv, DayIsOver
<1>. QED BY <1>4, <1>5, <1>6, <1>7, <1>8 DEF EmailsInv

\* The loop reads who is late, and time passes.
LEMMA EmailsClock ==
    ASSUME EmailsConstants, EmailsInv, Emails!Select \/ Emails!Tick
    PROVE  EmailsInv'
<1>. USE DEF EmailsConstants, Emails!pending, Emails!gone
<1>1. UNCHANGED <<user, email_confirmation, user_password, req, reqs, given, confirmed, mixed>>
    BY DEF Emails!Select, Emails!Tick
<1>2. now \in Nat /\ now' \in 1..MaxTime /\ now' >= now /\ clearing' \subseteq Uids
    <2>1. now \in 1..MaxTime /\ clearing \subseteq Uids
        BY DEF EmailsInv, Emails!TypeOK
    <2>2. CASE Emails!Select
        BY <2>1, <2>2 DEF Emails!Select
    <2>3. CASE Emails!Tick
        BY <2>1, <2>3 DEF Emails!Tick
    <2>. QED BY <2>1, <2>2, <2>3
<1>3. Emails!Live' = Emails!Live
    BY <1>1 DEF Emails!Live
<1>4. Emails!TypeOK'
    BY <1>1, <1>2 DEF EmailsInv, Emails!TypeOK
<1>5. MailsTyped' /\ AddressesAreMixed' /\ LookedUp' /\ Emails!EmailsAreOfOne'
    BY <1>1, <1>3 DEF EmailsInv, MailsTyped, AddressesAreMixed, LookedUp, Emails!EmailsAreOfOne
<1>6. \A v \in Uids : user[v].since \in Nat
    BY DEF EmailsInv, Emails!TypeOK
<1>7. \A v \in clearing' : /\ user[v].since # 0 /\ user[v].since + Long < now'
                           /\ confirmed[v] = 0 \/ confirmed[v] > user[v].since + Long
    <2>1. CASE Emails!Tick
        BY <1>2, <1>6, <2>1 DEF Emails!Tick, EmailsInv, DayIsOver, Emails!TypeOK
    <2>2. CASE Emails!Select
        <3>1. \A v \in clearing' : v \in Uids /\ user[v].email = -1 /\ user[v].since < now - Long
            BY <2>2 DEF Emails!Select, Emails!Late
        <3>. QED BY <1>2, <1>6, <2>2, <3>1 DEF Emails!Select, EmailsInv, DayIsOver
    <2>. QED BY <2>1, <2>2
<1>8. DayIsOver'
    BY <1>1, <1>7 DEF EmailsInv, DayIsOver
<1>. QED BY <1>4, <1>5, <1>8 DEF EmailsInv

\* The invariant is kept by every step.
LEMMA EmailsNext ==
    ASSUME EmailsConstants, EmailsInv, [Emails!Next]_Emails!vars
    PROVE  EmailsInv'
<1>. USE DEF EmailsConstants
<1>1. /\ reqs \in 0..MaxReqs /\ now \in 1..MaxTime
      /\ email_confirmation \subseteq Letters /\ Emails!Unexpired \subseteq email_confirmation
      /\ \A p \in user_password : p.uid \in Uids /\ p.email \in Addresses
      /\ now + Long \in Nat /\ now + Short \in Nat
    BY DEF EmailsInv, Emails!TypeOK, MailsTyped, Emails!Unexpired
<1>2. \A u \in Uids, op \in Ops, e \in Addresses, n \in Nat :
        reqs < MaxReqs => Emails!Row(u, op, e, n) \in Letters
    BY <1>1 DEF Emails!Row, Letters
<1>3. \A c \in Letters : c \in Rows /\ c.email \in Addresses /\ c.secret \in 1..MaxReqs /\ c.uid \in Uids
    BY DEF Letters, Rows
<1>4. ASSUME NEW r \in Reqs, NEW e \in Addresses, Emails!post_register(r, e) PROVE EmailsInv'
    <2>. DEFINE row == Emails!Row(0, "register", e, 0)
    <2>1. Emails!Begin(r, Emails!Job("user", row)) /\ UNCHANGED <<user, email_confirmation, user_password>>
        BY <1>4 DEF Emails!post_register
    <2>2. reqs < MaxReqs
        BY <2>1 DEF Emails!Begin, Emails!Enter
    <2>3. row \in Rows /\ row.email \in Addresses /\ row.secret \in 1..MaxReqs
        BY <1>1, <2>2 DEF Emails!Row, Rows, Ops
    <2>. HIDE DEF row
    <2>. QED BY <1>1, <2>1, <2>3, EmailsBegin
<1>5. ASSUME NEW r \in Reqs, NEW e \in Addresses, Emails!post_reset(r, e) PROVE EmailsInv'
    <2>1. PICK u \in Uids :
            LET row == Emails!Row(u, "reset-password", e, now + Short) IN
            /\ Emails!Begin(r, Emails!Job("mail", row))
            /\ email_confirmation' = Emails!Unexpired \union {row} /\ UNCHANGED <<user, user_password>>
        BY <1>5 DEF Emails!post_reset, Emails!Others
    <2>. DEFINE row == Emails!Row(u, "reset-password", e, now + Short)
    <2>2. Emails!Begin(r, Emails!Job("mail", row)) /\ UNCHANGED <<user, user_password>>
        BY <2>1
    <2>3. row \in Letters
        BY <1>1, <1>2, <2>2 DEF Emails!Begin, Emails!Enter, Ops
    <2>4. email_confirmation' \subseteq Letters
        BY <1>1, <2>1, <2>3
    <2>. HIDE DEF row
    <2>. QED BY <1>3, <2>2, <2>3, <2>4, EmailsBegin
<1>6. ASSUME NEW r \in Reqs, NEW u \in Uids, NEW e \in Addresses, Emails!patch_email(r, u, e) PROVE EmailsInv'
    <2>. DEFINE row == Emails!Row(u, "update-email", e, now + Short)
    <2>1. Emails!Begin(r, Emails!Job("mail", row)) /\ UNCHANGED <<user, user_password>>
        BY <1>6 DEF Emails!patch_email
    <2>2. row \in Letters
        BY <1>1, <1>2, <2>1 DEF Emails!Begin, Emails!Enter, Ops
    <2>3. email_confirmation' \subseteq Letters
        BY <1>1, <1>6, <2>2 DEF Emails!patch_email
    <2>. HIDE DEF row
    <2>. QED BY <1>3, <2>1, <2>2, <2>3, EmailsBegin
<1>7. ASSUME NEW r \in Reqs, NEW u \in Uids, Emails!post_resend_confirmation(r, u) PROVE EmailsInv'
    <2>1. PICK old \in email_confirmation :
            LET row == Emails!Row(u, "register", old.email, old.expire) IN
            /\ Emails!Begin(r, Emails!Job("mail", row))
            /\ email_confirmation' = {row} \union
                {c \in Emails!Unexpired : ~ (c.uid = u /\ c.op \in {"register", "update-email"})}
            /\ UNCHANGED <<user, user_password>>
        BY <1>7 DEF Emails!post_resend_confirmation
    <2>. DEFINE row == Emails!Row(u, "register", old.email, old.expire)
    <2>2. Emails!Begin(r, Emails!Job("mail", row)) /\ UNCHANGED <<user, user_password>>
        BY <2>1
    <2>3. old.email \in Addresses /\ old.expire \in Nat
        BY <1>1 DEF Letters
    <2>4. row \in Letters
        BY <1>2, <2>2, <2>3 DEF Emails!Begin, Emails!Enter, Ops
    <2>5. email_confirmation' \subseteq Letters
        BY <1>1, <2>1, <2>4
    <2>. HIDE DEF row
    <2>. QED BY <1>3, <2>2, <2>4, <2>5, EmailsBegin
<1>8. ASSUME NEW r \in Reqs, NEW c \in email_confirmation, Emails!post_email(r, c) PROVE EmailsInv'
    <2>1. CASE Emails!Begin(r, Emails!Job("confirm", c)) /\ Emails!Taken(c) = {} /\ UNCHANGED email_confirmation
        <3>1. Emails!Others(c.uid, c.email) = {} /\ UNCHANGED <<user, user_password>> /\ email_confirmation' \subseteq Letters
            BY <1>1, <1>8, <2>1 DEF Emails!post_email, Emails!Taken
        <3>2. c \in Letters
            BY <1>1
        <3>. QED BY <1>3, <2>1, <3>1, <3>2, EmailsBegin
    <2>2. CASE email_confirmation' = Emails!Unexpired \ {c} /\ UNCHANGED <<clearing, now, req, reqs, given, confirmed, mixed>>
        BY <1>1, <1>8, <2>2, PasswordsKeep DEF Emails!post_email
    <2>. QED BY <1>8, <2>1, <2>2 DEF Emails!post_email
<1>9. ASSUME NEW r \in Reqs, Emails!RegisterRow(r) PROVE EmailsInv'
    <2>. DEFINE row == [req[r].row EXCEPT !.uid = req[r].uid, !.expire = now + Long]
    <2>1. /\ req[r].pc = "row" /\ req[r].row \in Rows /\ req[r].uid \in Uids
          /\ req[r].row.email \in Addresses /\ req[r].row.secret \in 1..MaxReqs
        BY <1>9 DEF Emails!RegisterRow, EmailsInv, MailsTyped
    <2>2. row \in Letters /\ row.email = req[r].row.email /\ row.uid = req[r].uid
        BY <1>1, <2>1 DEF Rows, Letters
    <2>3. /\ user_password' = {p \in user_password : p.email # row.email} \union {[uid |-> row.uid, email |-> row.email]}
          /\ email_confirmation' = Emails!Unexpired \union {row}
          /\ req' = [req EXCEPT ![r] = Emails!Job("mail", row)]
          /\ UNCHANGED <<user, clearing, now, reqs, given, confirmed, mixed>>
        BY <1>9 DEF Emails!RegisterRow
    <2>. HIDE DEF row
    <2>4. \A p \in user_password' : p.uid \in Uids /\ p.email \in Addresses
        BY <1>1, <2>1, <2>2, <2>3
    <2>5. email_confirmation' \subseteq Letters
        BY <1>1, <2>2, <2>3
    <2>. QED BY <2>1, <2>2, <2>3, <2>4, <2>5, EmailsProceed
<1>10. ASSUME NEW r \in Reqs, NEW ok \in BOOLEAN, Emails!SendMail(r, ok) PROVE EmailsInv'
    <2>1. /\ req' = [req EXCEPT ![r] = Emails!Idle] /\ email_confirmation' \subseteq email_confirmation
          /\ UNCHANGED <<user, user_password, clearing, now, reqs, given, confirmed, mixed>>
        BY <1>10 DEF Emails!SendMail
    <2>. QED BY <1>1, <2>1, EmailsProceed
<1>11. ASSUME NEW r \in Reqs, Emails!Cut(r) PROVE EmailsInv'
    <2>1. /\ req' = [req EXCEPT ![r] = Emails!Idle]
          /\ UNCHANGED <<user, email_confirmation, user_password, clearing, now, reqs, given, confirmed, mixed>>
        BY <1>11 DEF Emails!Cut
    <2>. QED BY <1>1, <2>1, EmailsProceed
<1>12. \A u \in Uids, e \in Addresses : \A p \in Emails!Password(u, e) : p.uid \in Uids /\ p.email \in Addresses
    BY <1>1 DEF Emails!Password
<1>13. ASSUME NEW r \in Reqs, Emails!Confirm(r) PROVE EmailsInv'
    <2>1. CASE req[r].row.op # "reset-password" /\ req[r].row.uid \in Emails!Live
        BY <1>13, <2>1, EmailsConfirm
    <2>2. CASE ~(req[r].row.op # "reset-password" /\ req[r].row.uid \in Emails!Live)
        <3>1. /\ req[r].pc = "confirm" /\ req' = [req EXCEPT ![r] = Emails!Idle]
              /\ email_confirmation' \subseteq email_confirmation
              /\ user_password' \in {user_password, Emails!Password(req[r].row.uid, req[r].row.email)}
              /\ UNCHANGED <<user, clearing, now, reqs, given, confirmed, mixed>>
            BY <1>13, <2>2, <1>1 DEF Emails!Confirm
        <3>2. req[r].row.uid \in Uids /\ req[r].row.email \in Addresses
            BY <3>1 DEF EmailsInv, MailsTyped
        <3>3. \A p \in user_password' : p.uid \in Uids /\ p.email \in Addresses
            BY <1>1, <1>12, <3>1, <3>2
        <3>. QED BY <1>1, <3>1, <3>3, EmailsProceed
    <2>. QED BY <2>1, <2>2
<1>14. ASSUME NEW u \in Uids, Emails!patch_password(u) PROVE EmailsInv'
    <2>1. /\ user[u].email \in Addresses /\ reqs' \in 0..MaxReqs
          /\ user_password' = Emails!Password(u, user[u].email)
          /\ UNCHANGED <<user, email_confirmation, clearing, now, req, given, confirmed, mixed>>
        BY <1>1, <1>14 DEF Emails!patch_password, EmailsInv, Emails!TypeOK, Emails!none, Emails!pending, Emails!gone
    <2>. QED BY <1>1, <1>12, <2>1, PasswordsKeep
<1>15. ASSUME NEW u \in Uids, Emails!post_password_disable(u) PROVE EmailsInv'
    <2>1. /\ user_password' \subseteq user_password
          /\ UNCHANGED <<user, email_confirmation, clearing, now, req, reqs, given, confirmed, mixed>>
        BY <1>15 DEF Emails!post_password_disable
    <2>. QED BY <1>1, <2>1, PasswordsKeep
<1>16. ASSUME UNCHANGED Emails!vars PROVE EmailsInv'
    BY <1>1, <1>16, PasswordsKeep DEF Emails!vars
<1>17. CASE \E r \in Reqs : Emails!RegisterUser(r)
    BY <1>17, EmailsRegister
<1>18. CASE \E u \in Uids : Emails!Delete(u) \/ Emails!delete_connections(u)
    BY <1>18, EmailsDelete, EmailsClear
<1>20. ASSUME NEW r \in Reqs, NEW u \in Uids, NEW e \in Addresses \union {Emails!none},
              Emails!SyncDiscordEmail(r, u, e) \/ Emails!patch_connections(r, u, e)
       PROVE  EmailsInv'
    <2>1. user[u].email \in Addresses \union {0, -1, -2} /\ (u \in Emails!Live => user[u].email # -2)
        BY DEF EmailsInv, Emails!TypeOK, Emails!Live, Emails!none, Emails!pending, Emails!gone
    <2>2. PICK op \in {"discord", "staff"}, x \in Addresses \union {0, -1} :
            /\ Emails!Enter(r, Emails!Job("write", Emails!Row(u, op, x, 0)))
            /\ UNCHANGED <<user, email_confirmation, user_password, mixed>>
        <3>1. CASE Emails!SyncDiscordEmail(r, u, e)
            BY <3>1 DEF Emails!SyncDiscordEmail, Emails!none
        <3>2. CASE Emails!patch_connections(r, u, e)
            BY <2>1, <3>2 DEF Emails!patch_connections, Emails!none
        <3>. QED BY <1>20, <3>1, <3>2
    <2>. DEFINE row == Emails!Row(u, op, x, 0)
    <2>3. reqs < MaxReqs
        BY <2>2 DEF Emails!Enter
    <2>4. row \in Rows /\ row.uid = u
        BY <1>1, <2>3 DEF Emails!Row, Rows, Ops
    <2>. HIDE DEF row
    <2>. QED BY <2>2, <2>4, EmailsEnter DEF row
<1>21. CASE \E r \in Reqs : Emails!WriteEmail(r)
    BY <1>21, EmailsWrite
<1>19. CASE Emails!Select \/ Emails!Tick
    BY <1>19, EmailsClock
<1>. QED BY <1>4, <1>5, <1>6, <1>7, <1>8, <1>9, <1>10, <1>11, <1>13, <1>14, <1>15, <1>16, <1>17, <1>18, <1>19,
         <1>20, <1>21 DEF Emails!Next

\* Only the loop deletes, and whom it has read is late and has not confirmed in time.
LEMMA OnlyTheLateAreDeleted ==
    ASSUME EmailsConstants, EmailsInv, [Emails!Next]_Emails!vars
    PROVE  Emails!ConfirmedUsersStay
<1>. SUFFICES ASSUME NEW u \in Emails!Live, user'[u].email = Emails!gone, confirmed[u] # 0
              PROVE  confirmed[u] > user[u].since + Long
    BY DEF Emails!ConfirmedUsersStay
<1>. USE DEF EmailsConstants, Emails!gone, Emails!pending, Emails!none
<1>1. u \in Uids /\ user[u].email # -2
    BY DEF Emails!Live
<1>2. user' # user
    BY <1>1
<1>3. ASSUME NEW r \in Reqs, Emails!Confirm(r) PROVE FALSE
    <2>1. req[r].pc = "confirm" /\ \/ user' = user
                                   \/ user' = [user EXCEPT ![req[r].row.uid].email = req[r].row.email]
        BY <1>3 DEF Emails!Confirm
    <2>2. req[r].row.uid \in Uids /\ req[r].row.email \in Addresses
        BY <2>1 DEF EmailsInv, MailsTyped
    <2>. QED BY <1>1, <1>2, <2>1, <2>2 DEF EmailsInv, Emails!TypeOK
<1>4. ASSUME NEW r \in Reqs, Emails!RegisterUser(r) PROVE FALSE
    <2>1. user' = [user EXCEPT ![Emails!Min(Emails!Unused)] = [email |-> -1, since |-> now]]
        BY <1>4 DEF Emails!RegisterUser
    <2>. QED BY <1>1, <2>1 DEF EmailsInv, Emails!TypeOK
<1>5. ASSUME NEW r \in Reqs, Emails!WriteEmail(r) PROVE FALSE
    <2>1. req[r].pc = "write" /\ user' = [user EXCEPT ![req[r].uid].email = req[r].row.email]
        BY <1>2, <1>5 DEF Emails!WriteEmail
    <2>2. req[r].row.email \in Addresses \union {0, -1}
        BY <2>1 DEF EmailsInv, MailsTyped, Rows
    <2>. QED BY <1>1, <2>1, <2>2 DEF EmailsInv, Emails!TypeOK
<1>8. ASSUME NEW v \in Uids, Emails!delete_connections(v) PROVE FALSE
    <2>1. user' = [user EXCEPT ![v].email = 0]
        BY <1>8 DEF Emails!delete_connections
    <2>. QED BY <1>1, <2>1 DEF EmailsInv, Emails!TypeOK
<1>9. ASSUME NEW r \in Reqs, NEW v \in Uids, NEW e \in Addresses \union {Emails!none},
             Emails!SyncDiscordEmail(r, v, e) \/ Emails!patch_connections(r, v, e) PROVE FALSE
    BY <1>2, <1>9 DEF Emails!SyncDiscordEmail, Emails!patch_connections
<1>6. ASSUME NEW v \in Uids, Emails!Delete(v) PROVE u \in clearing
    <2>1. v \in clearing /\ user' = [user EXCEPT ![v].email = -2]
        BY <1>6 DEF Emails!Delete
    <2>. QED BY <1>1, <2>1 DEF EmailsInv, Emails!TypeOK
<1>7. u \in clearing
    <2>1. ASSUME NEW r \in Reqs, NEW e \in Addresses, Emails!post_register(r, e) \/ Emails!post_reset(r, e) PROVE FALSE
        BY <1>2, <2>1 DEF Emails!post_register, Emails!post_reset
    <2>2. ASSUME NEW r \in Reqs, NEW v \in Uids, NEW e \in Addresses, Emails!patch_email(r, v, e) PROVE FALSE
        BY <1>2, <2>2 DEF Emails!patch_email
    <2>3. ASSUME NEW r \in Reqs, NEW v \in Uids, Emails!post_resend_confirmation(r, v) PROVE FALSE
        BY <1>2, <2>3 DEF Emails!post_resend_confirmation
    <2>4. ASSUME NEW r \in Reqs, NEW c \in email_confirmation, Emails!post_email(r, c) PROVE FALSE
        BY <1>2, <2>4 DEF Emails!post_email
    <2>5. ASSUME NEW r \in Reqs, NEW ok \in BOOLEAN, Emails!RegisterRow(r) \/ Emails!SendMail(r, ok) \/ Emails!Cut(r) PROVE FALSE
        BY <1>2, <2>5 DEF Emails!RegisterRow, Emails!SendMail, Emails!Cut
    <2>6. ASSUME NEW v \in Uids, Emails!patch_password(v) \/ Emails!post_password_disable(v) PROVE FALSE
        BY <1>2, <2>6 DEF Emails!patch_password, Emails!post_password_disable
    <2>7. ASSUME Emails!Select \/ Emails!Tick \/ UNCHANGED Emails!vars PROVE FALSE
        BY <1>2, <2>7 DEF Emails!Select, Emails!Tick, Emails!vars
    <2>. QED BY <1>3, <1>4, <1>5, <1>6, <1>8, <1>9, <2>1, <2>2, <2>3, <2>4, <2>5, <2>6, <2>7 DEF Emails!Next
<1>. QED BY <1>7 DEF EmailsInv, DayIsOver

\* Mails, passwords and users have their types, also when a request is cut off.
\* (auth/generic.py and user/connections.py: register, reset, change, resend and confirm.)
THEOREM EmailsAreTyped ==
    EmailsConstants => (Emails!Spec => []Emails!TypeOK)
<1>1. ASSUME EmailsConstants PROVE Emails!Init /\ [][Emails!Next]_Emails!vars => []Emails!TypeOK
    <2>1. EmailsInv /\ [Emails!Next]_Emails!vars => EmailsInv'
        BY <1>1, EmailsNext
    <2>2. Emails!Init => EmailsInv
        BY <1>1, EmailsInit
    <2>3. EmailsInv => Emails!TypeOK
        BY DEF EmailsInv
    <2>. QED BY <2>1, <2>2, <2>3, PTL
<1>. QED BY <1>1 DEF Emails!Spec

\* Nobody confirms an address that is another user's, unless requests for it overlap;
\* users whose address Discord told or staff wrote are told apart, who may have that of
\* another user. (post_email in auth/generic.py: the address is looked up again when a
\* confirmation begins; auth/discord.py:101-124; user/manage.py:209-225.)
THEOREM AddressesAreOfOne ==
    EmailsConstants => (Emails!Spec => []Emails!EmailsAreOfOne)
<1>1. ASSUME EmailsConstants PROVE Emails!Init /\ [][Emails!Next]_Emails!vars => []Emails!EmailsAreOfOne
    <2>1. EmailsInv /\ [Emails!Next]_Emails!vars => EmailsInv'
        BY <1>1, EmailsNext
    <2>2. Emails!Init => EmailsInv
        BY <1>1, EmailsInit
    <2>3. EmailsInv => Emails!EmailsAreOfOne
        BY DEF EmailsInv
    <2>. QED BY <2>1, <2>2, <2>3, PTL
<1>. QED BY <1>1 DEF Emails!Spec

\* Who confirms the address within the day is not deleted as one who has not, however
\* long the loop takes between reading and deleting, unless staff have written back
\* meanwhile that it is to be confirmed. (ClearOutdatedData in threads.py.)
THEOREM WhoConfirmsStays ==
    EmailsConstants => (Emails!Spec => [][Emails!ConfirmedUsersStay]_Emails!vars)
<1>1. ASSUME EmailsConstants PROVE Emails!Init /\ [][Emails!Next]_Emails!vars => [][Emails!ConfirmedUsersStay]_Emails!vars
    <2>1. EmailsInv /\ [Emails!Next]_Emails!vars => EmailsInv'
        BY <1>1, EmailsNext
    <2>2. Emails!Init => EmailsInv
        BY <1>1, EmailsInit
    <2>3. EmailsInv /\ [Emails!Next]_Emails!vars => [Emails!ConfirmedUsersStay]_Emails!vars
        BY <1>1, OnlyTheLateAreDeleted
    <2>. QED BY <2>1, <2>2, <2>3, PTL
<1>. QED BY <1>1 DEF Emails!Spec

-----------------------------------------------------------------------------
(* Connections.                                                            *)

Links == [Connections!Columns -> {0} \union Accounts]
LinkJobs == [pc : {"idle", "register", "done", "discord", "steam", "same", "truckersmp",
                   "staff", "staff-steam", "sync", "asked"},
             uid : {0} \union Uids, new : Links]

\* A user whom a request works on is registered.
LinksTyped ==
    /\ user \in [Uids -> Links] /\ registered \subseteq Uids
    /\ \A u \in Uids \ registered : user[u] = Connections!Nobody
    /\ req \in [Connections!Actors -> LinkJobs]
    /\ \A a \in Connections!Actors :
        /\ req[a].pc \in {"idle", "register"} => req[a].uid = 0
        /\ req[a].pc \notin {"idle", "register"} => req[a].uid \in registered
        /\ req[a].pc = "register" => req[a].new.truckersmpid = 0
    /\ \A p \in pass : p.uid \in registered /\ p.steamid \in {0} \union Accounts

\* Of a user and a Steam account there is one look-up at a time.
OneLooksUp ==
    /\ lock = {req[a].uid : a \in {b \in Connections!Actors : req[b].pc = "asked"}}
    /\ \A a, b \in Connections!Actors :
        (req[a].pc = "asked" /\ req[b].pc = "asked" /\ req[a].uid = req[b].uid) => a = b

\* A request that has seen the Steam account still sees it, unless another one overlaps.
SteamIsAsRead ==
    \A r \in Reqs : req[r].uid \notin mixed =>
        /\ req[r].pc = "same" => user[req[r].uid].steamid = req[r].new.steamid
        /\ req[r].pc = "truckersmp" => user[req[r].uid].steamid = req[r].new.truckersmpid

\* OverlapsAreMixed is as for Notifications: of two requests of a user at a time.
LinksInv ==
    /\ LinksTyped /\ OneLooksUp /\ OverlapsAreMixed /\ SteamIsAsRead
    /\ Connections!AccountsAreOfOne /\ Connections!TruckersMPFollowsSteam

\* Nobody is registered at first.
LEMMA LinksInit == ConnectionsConstants /\ Connections!Init => LinksInv
<1>. SUFFICES ASSUME ConnectionsConstants, Connections!Init PROVE LinksInv
    OBVIOUS
<1>. USE DEF ConnectionsConstants
<1>1. Connections!Nobody \in Links
    BY DEF Connections!Nobody, Links
<1>2. Connections!Idle \in LinkJobs /\ Connections!Idle.uid = 0 /\ Connections!Idle.pc = "idle"
    BY <1>1 DEF Connections!Idle, LinkJobs
<1>3. LinksTyped
    BY <1>1, <1>2 DEF Connections!Init, LinksTyped
<1>4. OneLooksUp
    BY <1>2 DEF Connections!Init, OneLooksUp
<1>5. OverlapsAreMixed /\ SteamIsAsRead
    BY <1>2 DEF Connections!Init, OverlapsAreMixed, SteamIsAsRead, Connections!Actors
<1>6. Connections!AccountsAreOfOne /\ Connections!TruckersMPFollowsSteam
    BY DEF Connections!Init, Connections!AccountsAreOfOne, Connections!TruckersMPFollowsSteam
<1>. QED BY <1>3, <1>4, <1>5, <1>6 DEF LinksInv

\* What a request does next does not matter to the others: it ends, or goes on with
\* a look-up for its user.
LEMMA JobsFollow ==
    ASSUME ConnectionsConstants, LinksInv, NEW a \in Connections!Actors, NEW job \in LinkJobs,
           req' = [req EXCEPT ![a] = job], registered \subseteq registered',
           \/ job.pc = "idle" /\ job.uid = 0
           \/ job.pc = "sync" /\ job.uid \in registered' /\ job.uid \in {req[a].uid} \union (Uids \ registered)
           \/ job.pc = "sync" /\ job.uid \in registered' /\ a = Loop,
           req[a].pc # "asked", UNCHANGED lock, mixed' = mixed
    PROVE  /\ req' \in [Connections!Actors -> LinkJobs]
           /\ \A b \in Connections!Actors :
                /\ req'[b].pc \in {"idle", "register"} => req'[b].uid = 0
                /\ req'[b].pc \notin {"idle", "register"} => req'[b].uid \in registered'
                /\ req'[b].pc = "register" => req'[b].new.truckersmpid = 0
           /\ OneLooksUp' /\ OverlapsAreMixed'
           /\ \A r \in Reqs : req'[r].pc \in {"same", "truckersmp"} => r # a /\ req'[r] = req[r]
<1>. USE DEF ConnectionsConstants
<1>1. req \in [Connections!Actors -> LinkJobs]
    BY DEF LinksInv, LinksTyped
<1>2. \A b \in Connections!Actors : req'[b] = IF b = a THEN job ELSE req[b]
    BY <1>1
<1>3. \A b \in Connections!Actors :
        /\ req[b].pc \in {"idle", "register"} => req[b].uid = 0
        /\ req[b].pc \notin {"idle", "register"} => req[b].uid \in registered
        /\ req[b].pc = "register" => req[b].new.truckersmpid = 0
    BY DEF LinksInv, LinksTyped
<1>4. req' \in [Connections!Actors -> LinkJobs]
    BY <1>1
<1>5. ASSUME NEW b \in Connections!Actors
      PROVE  /\ req'[b].pc \in {"idle", "register"} => req'[b].uid = 0
             /\ req'[b].pc \notin {"idle", "register"} => req'[b].uid \in registered'
             /\ req'[b].pc = "register" => req'[b].new.truckersmpid = 0
    BY <1>2, <1>3
<1>6. \A b \in Connections!Actors : /\ req'[b].pc = "asked" <=> req[b].pc = "asked"
                                    /\ req[b].pc = "asked" => req'[b] = req[b]
    BY <1>2
<1>7. OneLooksUp'
    BY <1>6 DEF LinksInv, OneLooksUp
<1>8. OverlapsAreMixed'
    <2>1. Reqs \subseteq Connections!Actors
        BY DEF Connections!Actors
    <2>2. ASSUME NEW r \in Reqs, NEW q \in Reqs, r # q, req'[r].uid = req'[q].uid, req'[r].uid # 0
          PROVE  req'[r].uid \in mixed
        <3>1. \A b \in Connections!Actors : req[b].uid \in registered \union {0}
            BY <1>3
        <3>2. CASE r = a
            <4>1. req'[r] = job /\ req'[q] = req[q] /\ job.uid = req[q].uid /\ req[q].uid \in registered
                BY <1>2, <2>1, <2>2, <3>1, <3>2
            <4>2. job.uid = req[a].uid
                BY <2>2, <3>2, <4>1
            <4>. QED BY <2>2, <3>2, <4>1, <4>2 DEF LinksInv, OverlapsAreMixed
        <3>3. CASE q = a
            <4>1. req'[q] = job /\ req'[r] = req[r] /\ job.uid = req[r].uid /\ req[r].uid \in registered
                BY <1>2, <2>1, <2>2, <3>1, <3>3
            <4>2. job.uid = req[a].uid
                BY <2>2, <3>3, <4>1
            <4>. QED BY <2>2, <3>3, <4>1, <4>2 DEF LinksInv, OverlapsAreMixed
        <3>4. CASE r # a /\ q # a
            BY <1>2, <2>1, <2>2, <3>4 DEF LinksInv, OverlapsAreMixed
        <3>. QED BY <3>2, <3>3, <3>4
    <2>. QED BY <2>2 DEF OverlapsAreMixed
<1>9. \A r \in Reqs : req'[r].pc \in {"same", "truckersmp"} => r # a /\ req'[r] = req[r]
    BY <1>2 DEF Connections!Actors
<1>. QED BY <1>4, <1>5, <1>7, <1>8, <1>9

\* A step that leaves the users alone keeps what is said of them.
LEMMA UsersAlone ==
    ASSUME ConnectionsConstants, LinksInv, UNCHANGED <<user, registered, loose, mixed>>,
           req' \in [Connections!Actors -> LinkJobs],
           \A b \in Connections!Actors :
                /\ req'[b].pc \in {"idle", "register"} => req'[b].uid = 0
                /\ req'[b].pc \notin {"idle", "register"} => req'[b].uid \in registered'
                /\ req'[b].pc = "register" => req'[b].new.truckersmpid = 0,
           \A p \in pass' : p.uid \in registered /\ p.steamid \in {0} \union Accounts,
           OneLooksUp', OverlapsAreMixed',
           \A r \in Reqs : req'[r].pc \in {"same", "truckersmp"} => req'[r] = req[r]
    PROVE  LinksInv'
<1>1. LinksTyped'
    BY DEF LinksInv, LinksTyped
<1>2. SteamIsAsRead'
    BY DEF LinksInv, SteamIsAsRead
<1>3. Connections!AccountsAreOfOne' /\ Connections!TruckersMPFollowsSteam'
    BY DEF LinksInv, Connections!AccountsAreOfOne, Connections!TruckersMPFollowsSteam
<1>. QED BY <1>1, <1>2, <1>3 DEF LinksInv

\* A request that begins.
LEMMA LinksBegin ==
    ASSUME ConnectionsConstants, LinksInv, NEW r \in Reqs, NEW job \in LinkJobs,
           job.pc \notin {"idle", "asked"},
           job.pc = "register" => job.uid = 0 /\ job.new.truckersmpid = 0,
           job.pc # "register" => job.uid \in registered,
           job.pc = "same" => user[job.uid].steamid = job.new.steamid,
           job.pc = "truckersmp" => user[job.uid].steamid = job.new.truckersmpid,
           Connections!Begin(r, job)
    PROVE  LinksInv'
<1>. USE DEF ConnectionsConstants
<1>1. /\ req[r] = Connections!Idle /\ req' = [req EXCEPT ![r] = job]
      /\ mixed' = IF job.uid # 0 /\ \E q \in Reqs : req[q].uid = job.uid THEN mixed \union {job.uid} ELSE mixed
      /\ UNCHANGED <<user, registered, identity, lock, pass, loose>>
    BY DEF Connections!Begin
<1>2. r \in Connections!Actors /\ Reqs \subseteq Connections!Actors /\ req[r].pc = "idle"
    BY <1>1 DEF Connections!Actors, Connections!Idle
<1>3. \A b \in Connections!Actors : req'[b] = IF b = r THEN job ELSE req[b]
    BY <1>1, <1>2 DEF LinksInv, LinksTyped
<1>4. mixed \subseteq mixed'
    BY <1>1
<1>5. LinksTyped'
    <2>1. req' \in [Connections!Actors -> LinkJobs]
        BY <1>1 DEF LinksInv, LinksTyped
    <2>2. ASSUME NEW b \in Connections!Actors
          PROVE  /\ req'[b].pc \in {"idle", "register"} => req'[b].uid = 0
                 /\ req'[b].pc \notin {"idle", "register"} => req'[b].uid \in registered
                 /\ req'[b].pc = "register" => req'[b].new.truckersmpid = 0
        BY <1>3 DEF LinksInv, LinksTyped
    <2>. QED BY <1>1, <2>1, <2>2 DEF LinksInv, LinksTyped
<1>6. OneLooksUp'
    <2>1. \A b \in Connections!Actors : /\ req'[b].pc = "asked" <=> req[b].pc = "asked"
                                        /\ req[b].pc = "asked" => req'[b] = req[b]
        BY <1>2, <1>3
    <2>. QED BY <1>1, <2>1 DEF LinksInv, OneLooksUp
<1>7. OverlapsAreMixed'
    <2>1. \A q \in Reqs : (req[q].uid = job.uid /\ job.uid # 0) => job.uid \in mixed'
        BY <1>1
    <2>. QED BY <1>2, <1>3, <1>4, <2>1 DEF LinksInv, OverlapsAreMixed
<1>8. SteamIsAsRead'
    BY <1>1, <1>2, <1>3, <1>4 DEF LinksInv, SteamIsAsRead
<1>9. Connections!AccountsAreOfOne' /\ Connections!TruckersMPFollowsSteam'
    BY <1>1, <1>4 DEF LinksInv, Connections!AccountsAreOfOne, Connections!TruckersMPFollowsSteam
<1>. QED BY <1>5, <1>6, <1>7, <1>8, <1>9 DEF LinksInv

\* A request writes columns of its user that are nobody else's.
LEMMA LinksWrite ==
    ASSUME ConnectionsConstants, LinksInv, NEW r \in Reqs, NEW new \in Links, NEW job \in LinkJobs,
           req[r].pc \notin {"idle", "register", "asked"},
           Connections!Unique(req[r].uid, new),
           user' = [user EXCEPT ![req[r].uid] = new],
           req' = [req EXCEPT ![r] = job],
           \/ job.pc = "idle" /\ job.uid = 0
           \/ job.pc = "sync" /\ job.uid = req[r].uid,
           loose' \in {loose, loose \ {req[r].uid}, loose \union {req[r].uid}},
           new.truckersmpid \in {0, new.steamid} \/ req[r].uid \in loose' \union mixed,
           UNCHANGED <<registered, lock, pass, mixed>>
    PROVE  LinksInv'
<1>. DEFINE u == req[r].uid
<1>. USE DEF ConnectionsConstants
<1>1. r \in Connections!Actors /\ Reqs \subseteq Connections!Actors
    BY DEF Connections!Actors
<1>2. u \in registered /\ u \in Uids /\ u # 0
    BY <1>1 DEF LinksInv, LinksTyped
<1>3. /\ req' \in [Connections!Actors -> LinkJobs]
      /\ \A b \in Connections!Actors :
            /\ req'[b].pc \in {"idle", "register"} => req'[b].uid = 0
            /\ req'[b].pc \notin {"idle", "register"} => req'[b].uid \in registered'
            /\ req'[b].pc = "register" => req'[b].new.truckersmpid = 0
      /\ OneLooksUp' /\ OverlapsAreMixed'
      /\ \A q \in Reqs : req'[q].pc \in {"same", "truckersmp"} => q # r /\ req'[q] = req[q]
    BY <1>1, <1>2, JobsFollow
<1>4. /\ user' \in [Uids -> Links] /\ user'[u] = new
      /\ \A v \in Uids : v # u => user'[v] = user[v]
    BY <1>2 DEF LinksInv, LinksTyped
<1>. HIDE DEF u
<1>5. LinksTyped'
    BY <1>2, <1>3, <1>4 DEF LinksInv, LinksTyped
<1>6. SteamIsAsRead'
    <2>1. ASSUME NEW q \in Reqs, req'[q].uid \notin mixed, req'[q].pc \in {"same", "truckersmp"}
          PROVE  req'[q] = req[q] /\ req[q].uid \in Uids /\ user'[req[q].uid] = user[req[q].uid]
        <3>1. q # r /\ req'[q] = req[q]
            BY <1>3, <2>1
        <3>2. req[q].uid \in Uids
            BY <1>1, <2>1, <3>1 DEF LinksInv, LinksTyped
        <3>3. req[q].uid # u
            BY <1>2, <2>1, <3>1 DEF LinksInv, OverlapsAreMixed, u
        <3>. QED BY <1>4, <3>1, <3>2, <3>3
    <2>. QED BY <2>1 DEF LinksInv, SteamIsAsRead
<1>7. Connections!AccountsAreOfOne'
    <2>1. \A v \in registered, c \in {"discordid", "steamid"} :
            (v # u /\ new[c] # 0) => user[v][c] # new[c]
        BY DEF Connections!Unique, Connections!Owners, u
    <2>2. registered \subseteq Uids
        BY DEF LinksInv, LinksTyped
    <2>3. ASSUME NEW v \in registered, NEW w \in registered, NEW c \in {"discordid", "steamid"},
                 v # w, user'[v][c] # 0
          PROVE  user'[v][c] # user'[w][c]
        <3>0. \A x \in registered : user'[x] = IF x = u THEN new ELSE user[x]
            BY <1>4, <2>2
        <3>1. CASE v = u
            <4>1. user'[v] = new /\ user'[w] = user[w] /\ w # u
                BY <2>3, <3>0, <3>1
            <4>. QED BY <2>1, <2>3, <4>1
        <3>2. CASE w = u
            <4>1. user'[w] = new /\ user'[v] = user[v] /\ v # u
                BY <2>3, <3>0, <3>2
            <4>. QED BY <2>1, <2>3, <4>1
        <3>3. CASE v # u /\ w # u
            BY <2>3, <3>0, <3>3 DEF LinksInv, Connections!AccountsAreOfOne
        <3>. QED BY <3>1, <3>2, <3>3
    <2>. QED BY <2>3 DEF Connections!AccountsAreOfOne
<1>8. Connections!TruckersMPFollowsSteam'
    <2>1. ASSUME NEW v \in registered, v \notin loose' \union mixed PROVE user'[v].truckersmpid \in {0, user'[v].steamid}
        <3>1. CASE v = u
            BY <1>2, <1>4, <2>1, <3>1 DEF u
        <3>2. CASE v # u
            <4>1. v \notin loose \union mixed /\ v \in Uids
                BY <2>1, <3>2 DEF LinksInv, LinksTyped, u
            <4>. QED BY <1>4, <3>2, <4>1 DEF LinksInv, Connections!TruckersMPFollowsSteam
        <3>. QED BY <3>1, <3>2
    <2>. QED BY <2>1 DEF Connections!TruckersMPFollowsSteam
<1>. QED BY <1>3, <1>5, <1>6, <1>7, <1>8 DEF LinksInv

\* Registration gives the account to a user who was not there, unless it is somebody's.
LEMMA LinksRegister ==
    ASSUME ConnectionsConstants, LinksInv, NEW r \in Reqs, Connections!Register(r)
    PROVE  LinksInv'
<1>. DEFINE Free == Uids \ registered
            u == Min(Free)
            new == req[r].new
            ends == Connections!Idle
            looks == Connections!Job("sync", u, [Connections!Nobody EXCEPT !.steamid = new.steamid])
<1>. USE DEF ConnectionsConstants
<1>1. r \in Connections!Actors /\ Reqs \subseteq Connections!Actors /\ registered \subseteq Uids
    BY DEF Connections!Actors, LinksInv, LinksTyped
<1>2. Free \in SUBSET Nat /\ Free # {}
    BY <1>1 DEF Connections!Register
<1>3. u \in Free
    <2>. HIDE DEF Free
    <2>. QED BY <1>2, MinIsLeast
<1>4. Connections!Min(Free) = u
    BY Zenon DEF Connections!Min, Min
<1>5. /\ req[r].pc = "register"
      /\ \/ /\ Connections!Unique(0, new)
            /\ registered' = registered \union {u} /\ user' = [user EXCEPT ![u] = new]
            /\ req' = [req EXCEPT ![r] = looks] \/ req' = [req EXCEPT ![r] = ends]
         \/ req' = [req EXCEPT ![r] = ends] /\ UNCHANGED <<user, registered>>
      /\ UNCHANGED <<identity, lock, pass, reqs, loose, mixed>>
    BY <1>4 DEF Connections!Register, Connections!ToSync, Connections!End
<1>6. u \in Uids /\ u \notin registered /\ new \in Links /\ new.truckersmpid = 0
    BY <1>1, <1>3, <1>5 DEF LinksInv, LinksTyped, LinkJobs
<1>. HIDE DEF u, Free, new
<1>7. /\ ends \in LinkJobs /\ ends.pc = "idle" /\ ends.uid = 0
      /\ looks \in LinkJobs /\ looks.pc = "sync" /\ looks.uid = u
    BY <1>6 DEF Connections!Idle, Connections!Job, Connections!Nobody, Connections!Columns, LinkJobs, Links
<1>. HIDE DEF ends, looks
<1>8. PICK job \in LinkJobs :
        /\ req' = [req EXCEPT ![r] = job]
        /\ job = ends \/ (job = looks /\ registered' = registered \union {u})
    BY <1>5, <1>7
<1>9. /\ registered \subseteq registered' /\ req[r].pc # "asked"
      /\ \/ job.pc = "idle" /\ job.uid = 0
         \/ job.pc = "sync" /\ job.uid \in registered' /\ job.uid \in {req[r].uid} \union (Uids \ registered)
    BY <1>5, <1>6, <1>7, <1>8
<1>10. /\ req' \in [Connections!Actors -> LinkJobs]
       /\ \A b \in Connections!Actors :
            /\ req'[b].pc \in {"idle", "register"} => req'[b].uid = 0
            /\ req'[b].pc \notin {"idle", "register"} => req'[b].uid \in registered'
            /\ req'[b].pc = "register" => req'[b].new.truckersmpid = 0
       /\ OneLooksUp' /\ OverlapsAreMixed'
       /\ \A q \in Reqs : req'[q].pc \in {"same", "truckersmp"} => q # r /\ req'[q] = req[q]
    BY <1>1, <1>5, <1>8, <1>9, JobsFollow
<1>11. CASE UNCHANGED <<user, registered>>
    <2>1. \A p \in pass' : p.uid \in registered /\ p.steamid \in {0} \union Accounts
        BY <1>5 DEF LinksInv, LinksTyped
    <2>. QED BY <1>5, <1>10, <1>11, <2>1, UsersAlone
<1>12. CASE /\ Connections!Unique(0, new)
            /\ registered' = registered \union {u} /\ user' = [user EXCEPT ![u] = new]
    <2>1. /\ user' \in [Uids -> Links] /\ user'[u] = new
          /\ \A v \in Uids : v # u => user'[v] = user[v]
        BY <1>6, <1>12 DEF LinksInv, LinksTyped
    <2>2. LinksTyped'
        BY <1>5, <1>6, <1>10, <1>12, <2>1 DEF LinksInv, LinksTyped
    <2>3. SteamIsAsRead'
        <3>1. ASSUME NEW q \in Reqs, req'[q].pc \in {"same", "truckersmp"}
              PROVE  req'[q] = req[q] /\ user'[req[q].uid] = user[req[q].uid]
            <4>1. req'[q] = req[q] /\ req[q].uid \in registered
                BY <1>1, <1>10, <3>1 DEF LinksInv, LinksTyped
            <4>. QED BY <1>1, <1>6, <2>1, <4>1
        <3>. QED BY <1>5, <3>1 DEF LinksInv, SteamIsAsRead
    <2>4. Connections!AccountsAreOfOne'
        <3>1. \A v \in registered, c \in {"discordid", "steamid"} : new[c] # 0 => user[v][c] # new[c]
            BY <1>1, <1>12 DEF Connections!Unique, Connections!Owners
        <3>2. ASSUME NEW v \in registered', NEW w \in registered', NEW c \in {"discordid", "steamid"},
                     v # w, user'[v][c] # 0
              PROVE  user'[v][c] # user'[w][c]
            <4>1. CASE v = u
                BY <1>1, <1>12, <2>1, <3>1, <3>2, <4>1
            <4>2. CASE w = u
                BY <1>1, <1>12, <2>1, <3>1, <3>2, <4>2
            <4>3. CASE v # u /\ w # u
                BY <1>1, <1>12, <2>1, <3>2, <4>3 DEF LinksInv, Connections!AccountsAreOfOne
            <4>. QED BY <4>1, <4>2, <4>3
        <3>. QED BY <3>2 DEF Connections!AccountsAreOfOne
    <2>5. Connections!TruckersMPFollowsSteam'
        BY <1>1, <1>5, <1>6, <1>12, <2>1 DEF LinksInv, Connections!TruckersMPFollowsSteam
    <2>. QED BY <1>10, <2>2, <2>3, <2>4, <2>5 DEF LinksInv
<1>. QED BY <1>5, <1>11, <1>12

\* What is taken away collides with nothing; a Steam account that goes leaves a
\* TruckersMP account that nobody verified.
LEMMA LinksDelete ==
    ASSUME ConnectionsConstants, LinksInv, NEW r \in Reqs, NEW u \in Uids,
           NEW c \in Connections!Columns, Connections!delete_connections(r, u, c)
    PROVE  LinksInv'
<1>. USE DEF ConnectionsConstants
<1>1. /\ u \in registered
      /\ user' = [user EXCEPT ![u][c] = 0]
      /\ loose' = IF c = "truckersmpid" THEN loose \ {u}
                  ELSE IF c = "steamid" /\ user[u].truckersmpid # 0 THEN loose \union {u} ELSE loose
      /\ mixed' = IF \E q \in Reqs : req[q].uid = u THEN mixed \union {u} ELSE mixed
      /\ UNCHANGED <<registered, identity, lock, pass, req>>
    BY DEF Connections!delete_connections
<1>2. /\ user' \in [Uids -> Links] /\ registered \subseteq Uids
      /\ \A v \in Uids : v # u => user'[v] = user[v]
      /\ \A d \in Connections!Columns : user'[u][d] = IF d = c THEN 0 ELSE user[u][d]
    BY <1>1 DEF LinksInv, LinksTyped, Links
<1>3. {"discordid", "steamid", "truckersmpid"} = Connections!Columns
    BY DEF Connections!Columns
<1>4. LinksTyped'
    BY <1>1, <1>2 DEF LinksInv, LinksTyped
<1>5. OneLooksUp' /\ OverlapsAreMixed'
    BY <1>1 DEF LinksInv, OneLooksUp, OverlapsAreMixed
<1>6. SteamIsAsRead'
    <2>1. ASSUME NEW q \in Reqs, req[q].uid \notin mixed', req[q].pc \in {"same", "truckersmp"}
          PROVE  req[q].uid \notin mixed /\ user'[req[q].uid] = user[req[q].uid]
        <3>1. req[q].uid # u /\ req[q].uid \notin mixed
            BY <1>1, <2>1
        <3>2. req[q].uid \in registered
            BY <2>1 DEF LinksInv, LinksTyped, Connections!Actors
        <3>. QED BY <1>2, <3>1, <3>2
    <2>. QED BY <1>1, <2>1 DEF LinksInv, SteamIsAsRead
<1>7. Connections!AccountsAreOfOne'
    <2>1. ASSUME NEW v \in registered, NEW w \in registered, NEW d \in {"discordid", "steamid"},
                 v # w, user'[v][d] # 0
          PROVE  user'[v][d] # user'[w][d]
        <3>1. user[v][d] # 0 /\ user'[v][d] = user[v][d]
            BY <1>2, <1>3, <2>1
        <3>2. user'[w][d] \in {0, user[w][d]}
            BY <1>2, <1>3
        <3>. QED BY <2>1, <3>1, <3>2 DEF LinksInv, Connections!AccountsAreOfOne
    <2>. QED BY <1>1, <2>1 DEF Connections!AccountsAreOfOne
<1>8. Connections!TruckersMPFollowsSteam'
    <2>1. ASSUME NEW v \in registered, v \notin loose' \union mixed'
          PROVE  user'[v].truckersmpid \in {0, user'[v].steamid}
        <3>1. CASE v # u
            BY <1>1, <1>2, <2>1, <3>1 DEF LinksInv, Connections!TruckersMPFollowsSteam
        <3>2. CASE v = u
            <4>1. user'[u].truckersmpid = (IF c = "truckersmpid" THEN 0 ELSE user[u].truckersmpid)
                  /\ user'[u].steamid = (IF c = "steamid" THEN 0 ELSE user[u].steamid)
                BY <1>2, <1>3
            <4>2. CASE c = "truckersmpid"
                BY <3>2, <4>1, <4>2
            <4>3. CASE c = "steamid"
                BY <1>1, <2>1, <3>2, <4>1, <4>3
            <4>4. CASE c = "discordid"
                BY <1>1, <2>1, <3>2, <4>1, <4>4 DEF LinksInv, Connections!TruckersMPFollowsSteam
            <4>. QED BY <4>2, <4>3, <4>4 DEF Connections!Columns
        <3>. QED BY <3>1, <3>2
    <2>. QED BY <1>1, <2>1 DEF Connections!TruckersMPFollowsSteam
<1>. QED BY <1>4, <1>5, <1>6, <1>7, <1>8 DEF LinksInv

\* What a look-up says of the Steam account it was asked about is written only while
\* that is the user's.
LEMMA VerifiedFollows ==
    ASSUME ConnectionsConstants, LinksInv, NEW u \in registered, NEW s \in {0} \union Accounts,
           user' = Connections!Verified(u, s, s), loose' = Connections!StillLoose(u, s),
           UNCHANGED <<registered, mixed>>
    PROVE  /\ user' \in [Uids -> Links] /\ \A v \in Uids \ registered : user'[v] = user[v]
           /\ \A v \in Uids : user'[v].steamid = user[v].steamid
           /\ Connections!AccountsAreOfOne' /\ Connections!TruckersMPFollowsSteam'
<1>. USE DEF ConnectionsConstants
<1>1. user \in [Uids -> Links] /\ registered \subseteq Uids
    BY DEF LinksInv, LinksTyped
<1>2. CASE user[u].steamid # s
    BY <1>1, <1>2 DEF Connections!Verified, Connections!StillLoose,
       LinksInv, Connections!AccountsAreOfOne, Connections!TruckersMPFollowsSteam
<1>3. CASE user[u].steamid = s
    <2>1. user' = [user EXCEPT ![u].truckersmpid = s] /\ loose' = loose \ {u}
        BY <1>3 DEF Connections!Verified, Connections!StillLoose
    <2>2. /\ user' \in [Uids -> Links]
          /\ \A v \in Uids : v # u => user'[v] = user[v]
          /\ user'[u].steamid = s /\ user'[u].truckersmpid = s
          /\ \A c \in {"discordid", "steamid"} : user'[u][c] = user[u][c]
        BY <1>1, <1>3, <2>1 DEF Links, Connections!Columns
    <2>3. Connections!AccountsAreOfOne'
        <3>1. \A v \in registered, c \in {"discordid", "steamid"} : user'[v][c] = user[v][c]
            BY <1>1, <2>2
        <3>. QED BY <3>1 DEF LinksInv, Connections!AccountsAreOfOne
    <2>4. Connections!TruckersMPFollowsSteam'
        BY <1>1, <2>1, <2>2 DEF LinksInv, Connections!TruckersMPFollowsSteam
    <2>. QED BY <1>1, <1>3, <2>2, <2>3, <2>4
<1>. QED BY <1>2, <1>3

\* A look-up that is answered from Redis, is refused, or begins.
LEMMA LinksSync ==
    ASSUME ConnectionsConstants, LinksInv, NEW a \in Connections!Actors, Connections!sync_user(a)
    PROVE  LinksInv'
<1>. DEFINE u == req[a].uid
            s == req[a].new.steamid
<1>. USE DEF ConnectionsConstants
<1>1. u \in registered /\ registered \subseteq Uids /\ s \in {0} \union Accounts /\ req[a].pc = "sync"
    BY DEF Connections!sync_user, LinksInv, LinksTyped, LinkJobs, Links, Connections!Columns
<1>2. UNCHANGED <<registered, pass, mixed>>
    BY DEF Connections!sync_user
<1>3. Connections!Idle \in LinkJobs /\ Connections!Idle.pc = "idle" /\ Connections!Idle.uid = 0
    BY DEF Connections!Idle, Connections!Nobody, Connections!Columns, LinkJobs, Links
<1>4. CASE req' = [req EXCEPT ![a] = Connections!Idle] /\ UNCHANGED lock
    <2>1. /\ req' \in [Connections!Actors -> LinkJobs]
          /\ \A b \in Connections!Actors :
                /\ req'[b].pc \in {"idle", "register"} => req'[b].uid = 0
                /\ req'[b].pc \notin {"idle", "register"} => req'[b].uid \in registered'
                /\ req'[b].pc = "register" => req'[b].new.truckersmpid = 0
          /\ OneLooksUp' /\ OverlapsAreMixed'
          /\ \A q \in Reqs : req'[q].pc \in {"same", "truckersmp"} => q # a /\ req'[q] = req[q]
        BY <1>1, <1>2, <1>3, <1>4, JobsFollow
    <2>2. CASE UNCHANGED <<user, loose>>
        <3>1. \A p \in pass' : p.uid \in registered /\ p.steamid \in {0} \union Accounts
            BY <1>2 DEF LinksInv, LinksTyped
        <3>. QED BY <1>2, <2>1, <2>2, <3>1, UsersAlone
    <2>3. CASE user' = Connections!Verified(u, s, s) /\ loose' = Connections!StillLoose(u, s)
        <3>1. /\ user' \in [Uids -> Links] /\ \A v \in Uids \ registered : user'[v] = user[v]
              /\ \A v \in Uids : user'[v].steamid = user[v].steamid
              /\ Connections!AccountsAreOfOne' /\ Connections!TruckersMPFollowsSteam'
            BY <1>1, <1>2, <2>3, VerifiedFollows
        <3>2. LinksTyped'
            BY <1>2, <2>1, <3>1 DEF LinksInv, LinksTyped
        <3>3. SteamIsAsRead'
            <4>1. ASSUME NEW q \in Reqs, req'[q].pc \in {"same", "truckersmp"}
                  PROVE  req'[q] = req[q] /\ req[q].uid \in Uids
                BY <1>1, <2>1, <4>1 DEF LinksInv, LinksTyped, Connections!Actors
            <4>2. ASSUME NEW q \in Reqs, req'[q].uid \notin mixed', req'[q].pc \in {"same", "truckersmp"}
                  PROVE  user'[req'[q].uid].steamid =
                            IF req'[q].pc = "same" THEN req'[q].new.steamid ELSE req'[q].new.truckersmpid
                <5>1. req'[q] = req[q] /\ req[q].uid \in Uids
                    BY <4>1, <4>2
                <5>2. user'[req[q].uid].steamid = user[req[q].uid].steamid
                    BY <3>1, <5>1
                <5>3. req[q].uid \notin mixed
                    BY <1>2, <4>2, <5>1
                <5>. QED BY <4>2, <5>1, <5>2, <5>3 DEF LinksInv, SteamIsAsRead
            <4>. QED BY <4>2 DEF SteamIsAsRead
        <3>. QED BY <2>1, <3>1, <3>2, <3>3 DEF LinksInv
    <2>. QED BY <1>4, <2>2, <2>3 DEF Connections!sync_user, Connections!End
<1>5. CASE u \notin lock /\ lock' = lock \union {u} /\ req' = [req EXCEPT ![a].pc = "asked"] /\ UNCHANGED <<user, loose>>
    <2>1. /\ req' \in [Connections!Actors -> LinkJobs]
          /\ \A b \in Connections!Actors : b # a => req'[b] = req[b]
          /\ req'[a].pc = "asked" /\ req'[a].uid = u /\ req'[a].new = req[a].new
        BY <1>5 DEF LinksInv, LinksTyped, LinkJobs
    <2>2. ASSUME NEW b \in Connections!Actors
          PROVE  /\ req'[b].pc \in {"idle", "register"} => req'[b].uid = 0
                 /\ req'[b].pc \notin {"idle", "register"} => req'[b].uid \in registered'
                 /\ req'[b].pc = "register" => req'[b].new.truckersmpid = 0
        <3>1. CASE b = a
            BY <1>1, <1>2, <2>1, <3>1
        <3>2. CASE b # a
            BY <1>2, <2>1, <3>2 DEF LinksInv, LinksTyped
        <3>. QED BY <3>1, <3>2
    <2>3. OneLooksUp'
        <3>1. \A b \in Connections!Actors : req[b].pc = "asked" => req[b].uid # u
            BY <1>5 DEF LinksInv, OneLooksUp
        <3>2. lock' = {req'[b].uid : b \in {c \in Connections!Actors : req'[c].pc = "asked"}}
            BY <1>1, <1>5, <2>1 DEF LinksInv, OneLooksUp
        <3>. QED BY <2>1, <3>1, <3>2 DEF LinksInv, OneLooksUp
    <2>4. OverlapsAreMixed'
        <3>1. \A b \in Connections!Actors : req'[b].uid = req[b].uid
            BY <2>1
        <3>. QED BY <1>2, <3>1 DEF LinksInv, OverlapsAreMixed, Connections!Actors
    <2>5. \A q \in Reqs : req'[q].pc \in {"same", "truckersmp"} => req'[q] = req[q]
        BY <2>1 DEF Connections!Actors
    <2>6. \A p \in pass' : p.uid \in registered /\ p.steamid \in {0} \union Accounts
        BY <1>2 DEF LinksInv, LinksTyped
    <2>. QED BY <1>2, <1>5, <2>1, <2>2, <2>3, <2>4, <2>5, <2>6, UsersAlone
<1>. QED BY <1>4, <1>5 DEF Connections!sync_user, Connections!End

\* A look-up is answered.
LEMMA LinksAnswered ==
    ASSUME ConnectionsConstants, LinksInv, NEW a \in Connections!Actors, NEW known \in BOOLEAN,
           Connections!Answered(a, known)
    PROVE  LinksInv'
<1>. DEFINE u == req[a].uid
            s == req[a].new.steamid
<1>. USE DEF ConnectionsConstants
<1>1. /\ u \in registered /\ registered \subseteq Uids /\ s \in {0} \union Accounts /\ req[a].pc = "asked" /\ u # 0
      /\ req' = [req EXCEPT ![a] = Connections!Idle] /\ lock' = lock \ {u}
      /\ UNCHANGED <<registered, pass, mixed>>
    BY DEF Connections!Answered, Connections!End, LinksInv, LinksTyped, LinkJobs, Links, Connections!Columns
<1>2. Connections!Idle \in LinkJobs /\ Connections!Idle.pc = "idle" /\ Connections!Idle.uid = 0
    BY DEF Connections!Idle, Connections!Nobody, Connections!Columns, LinkJobs, Links
<1>3. /\ req' \in [Connections!Actors -> LinkJobs]
      /\ \A b \in Connections!Actors : req'[b] = IF b = a THEN Connections!Idle ELSE req[b]
    BY <1>1, <1>2 DEF LinksInv, LinksTyped
<1>4. ASSUME NEW b \in Connections!Actors
      PROVE  /\ req'[b].pc \in {"idle", "register"} => req'[b].uid = 0
             /\ req'[b].pc \notin {"idle", "register"} => req'[b].uid \in registered'
             /\ req'[b].pc = "register" => req'[b].new.truckersmpid = 0
    BY <1>1, <1>2, <1>3 DEF LinksInv, LinksTyped
<1>5. OneLooksUp'
    <2>1. \A b \in Connections!Actors : (req[b].pc = "asked" /\ b # a) => req[b].uid # u
        BY <1>1 DEF LinksInv, OneLooksUp
    <2>2. \A b \in Connections!Actors : req'[b].pc = "asked" <=> req[b].pc = "asked" /\ b # a
        BY <1>2, <1>3
    <2>3. lock' = {req'[b].uid : b \in {c \in Connections!Actors : req'[c].pc = "asked"}}
        BY <1>1, <1>3, <2>1, <2>2 DEF LinksInv, OneLooksUp
    <2>. QED BY <1>3, <2>2, <2>3 DEF LinksInv, OneLooksUp
<1>6. OverlapsAreMixed'
    BY <1>1, <1>2, <1>3 DEF LinksInv, OverlapsAreMixed, Connections!Actors
<1>7. \A q \in Reqs : req'[q].pc \in {"same", "truckersmp"} => req'[q] = req[q]
    BY <1>2, <1>3 DEF Connections!Actors
<1>8. CASE UNCHANGED <<user, loose>>
    <2>1. \A p \in pass' : p.uid \in registered /\ p.steamid \in {0} \union Accounts
        BY <1>1 DEF LinksInv, LinksTyped
    <2>. QED BY <1>1, <1>3, <1>4, <1>5, <1>6, <1>7, <1>8, <2>1, UsersAlone
<1>9. CASE user' = Connections!Verified(u, s, s) /\ loose' = Connections!StillLoose(u, s)
    <2>1. /\ user' \in [Uids -> Links] /\ \A v \in Uids \ registered : user'[v] = user[v]
          /\ \A v \in Uids : user'[v].steamid = user[v].steamid
          /\ Connections!AccountsAreOfOne' /\ Connections!TruckersMPFollowsSteam'
        BY <1>1, <1>9, VerifiedFollows
    <2>2. LinksTyped'
        BY <1>1, <1>3, <1>4, <2>1 DEF LinksInv, LinksTyped
    <2>3. SteamIsAsRead'
        <3>1. ASSUME NEW q \in Reqs, req'[q].pc \in {"same", "truckersmp"}
              PROVE  req'[q] = req[q] /\ req[q].uid \in Uids
            BY <1>1, <1>7, <3>1 DEF LinksInv, LinksTyped, Connections!Actors
        <3>. QED BY <1>1, <2>1, <3>1 DEF LinksInv, SteamIsAsRead
    <2>. QED BY <1>5, <1>6, <2>1, <2>2, <2>3 DEF LinksInv
<1>. QED BY <1>8, <1>9 DEF Connections!Answered

\* The writes of the requests, each with what it has seen.
LEMMA LinksWrites ==
    ASSUME ConnectionsConstants, LinksInv, NEW r \in Reqs,
           \/ Connections!WriteDiscord(r) \/ Connections!WriteSteam(r)
           \/ Connections!WriteTruckersMP(r) \/ Connections!WriteConnections(r) \/ Connections!Done(r)
    PROVE  LinksInv'
<1>. DEFINE u == req[r].uid
            asks == req[r].new
            looks == Connections!Job("sync", u, [Connections!Nobody EXCEPT !.steamid = asks.steamid])
<1>. USE DEF ConnectionsConstants
<1>1. r \in Connections!Actors /\ asks \in Links
    BY DEF Connections!Actors, LinksInv, LinksTyped, LinkJobs
<1>2. /\ Connections!Idle \in LinkJobs /\ Connections!Idle.pc = "idle" /\ Connections!Idle.uid = 0
      /\ u \in Uids => looks \in LinkJobs /\ looks.pc = "sync" /\ looks.uid = u
    BY <1>1 DEF Connections!Idle, Connections!Job, Connections!Nobody, Connections!Columns, LinkJobs, Links
<1>. HIDE DEF looks
<1>3. ASSUME req[r].pc \notin {"idle", "register"} PROVE u \in registered /\ u \in Uids /\ user[u] \in Links
    BY <1>1, <1>3 DEF LinksInv, LinksTyped
\* Nothing is written: the account is somebody's, or there is nothing to write.
<1>4. ASSUME req[r].pc \notin {"idle", "register", "asked"}, req' = [req EXCEPT ![r] = Connections!Idle],
             UNCHANGED <<user, registered, lock, pass, loose, mixed>>
      PROVE  LinksInv'
    <2>1. /\ req' \in [Connections!Actors -> LinkJobs]
          /\ \A b \in Connections!Actors :
                /\ req'[b].pc \in {"idle", "register"} => req'[b].uid = 0
                /\ req'[b].pc \notin {"idle", "register"} => req'[b].uid \in registered'
                /\ req'[b].pc = "register" => req'[b].new.truckersmpid = 0
          /\ OneLooksUp' /\ OverlapsAreMixed'
          /\ \A q \in Reqs : req'[q].pc \in {"same", "truckersmp"} => q # r /\ req'[q] = req[q]
        BY <1>1, <1>2, <1>4, JobsFollow
    <2>2. \A p \in pass' : p.uid \in registered /\ p.steamid \in {0} \union Accounts
        BY <1>4 DEF LinksInv, LinksTyped
    <2>. QED BY <1>4, <2>1, <2>2, UsersAlone
<1>5. ASSUME Connections!WriteDiscord(r) PROVE LinksInv'
    <2>. DEFINE new == [user[u] EXCEPT !.discordid = asks.discordid]
    <2>1. /\ req[r].pc = "discord" /\ req' = [req EXCEPT ![r] = Connections!Idle]
          /\ user' = IF Connections!Unique(u, new) THEN [user EXCEPT ![u] = new] ELSE user
          /\ UNCHANGED <<registered, identity, lock, pass, reqs, loose, mixed>>
        BY <1>5 DEF Connections!WriteDiscord, Connections!End
    <2>2. u \in registered /\ u \in Uids /\ user[u] \in Links
        BY <1>3, <2>1
    <2>3. new \in Links /\ new.steamid = user[u].steamid /\ new.truckersmpid = user[u].truckersmpid
        BY <1>1, <2>2 DEF Links, Connections!Columns
    <2>4. new.truckersmpid \in {0, new.steamid} \/ u \in loose' \union mixed
        BY <2>1, <2>2, <2>3 DEF LinksInv, Connections!TruckersMPFollowsSteam
    <2>. HIDE DEF new
    <2>5. CASE Connections!Unique(u, new)
        <3>1. user' = [user EXCEPT ![u] = new]
            BY <2>1, <2>5
        <3>. QED BY <1>2, <2>1, <2>3, <2>4, <2>5, <3>1, LinksWrite
    <2>6. CASE ~Connections!Unique(u, new)
        BY <1>4, <2>1, <2>6
    <2>. QED BY <2>5, <2>6
<1>6. ASSUME Connections!WriteSteam(r) PROVE LinksInv'
    <2>. DEFINE new == [user[u] EXCEPT !.steamid = asks.steamid,
                                       !.truckersmpid = IF req[r].pc = "steam" THEN 0 ELSE @]
    <2>1. /\ req[r].pc \in {"steam", "same"}
          /\ IF Connections!Unique(u, new)
             THEN user' = [user EXCEPT ![u] = new] /\ req' = [req EXCEPT ![r] =
                    Connections!Job("sync", u, [Connections!Nobody EXCEPT !.steamid = new.steamid])]
             ELSE req' = [req EXCEPT ![r] = Connections!Idle] /\ UNCHANGED user
          /\ loose' = IF Connections!Unique(u, new) /\ req[r].pc = "steam" THEN loose \ {u} ELSE loose
          /\ UNCHANGED <<registered, identity, lock, pass, reqs, mixed>>
        BY <1>6 DEF Connections!WriteSteam, Connections!End, Connections!ToSync
    <2>2. u \in registered /\ u \in Uids /\ user[u] \in Links
        BY <1>3, <2>1
    <2>3. /\ new \in Links /\ new.steamid = asks.steamid
          /\ new.truckersmpid = IF req[r].pc = "steam" THEN 0 ELSE user[u].truckersmpid
        BY <1>1, <2>2 DEF Links, Connections!Columns
    <2>. HIDE DEF new
    <2>4. CASE Connections!Unique(u, new)
        <3>1. user' = [user EXCEPT ![u] = new] /\ req' = [req EXCEPT ![r] = looks]
            BY <2>1, <2>3, <2>4 DEF looks
        <3>2. new.truckersmpid \in {0, new.steamid} \/ u \in loose' \union mixed
            <4>1. CASE req[r].pc = "steam"
                BY <2>3, <4>1
            <4>2. CASE req[r].pc = "same"
                <5>1. u \in mixed \/ user[u].steamid = asks.steamid
                    BY <4>2 DEF LinksInv, SteamIsAsRead
                <5>2. loose' = loose
                    BY <2>1, <4>2
                <5>. QED BY <2>2, <2>3, <4>2, <5>1, <5>2 DEF LinksInv, Connections!TruckersMPFollowsSteam
            <4>. QED BY <2>1, <4>1, <4>2
        <3>3. loose' \in {loose, loose \ {u}, loose \union {u}} /\ req[r].pc \notin {"idle", "register", "asked"}
            BY <2>1
        <3>. QED BY <1>2, <2>1, <2>2, <2>3, <2>4, <3>1, <3>2, <3>3, LinksWrite
    <2>5. CASE ~Connections!Unique(u, new)
        BY <1>4, <2>1, <2>5
    <2>. QED BY <2>4, <2>5
<1>7. ASSUME Connections!WriteTruckersMP(r) PROVE LinksInv'
    <2>. DEFINE new == [user[u] EXCEPT !.truckersmpid = asks.truckersmpid]
    <2>1. /\ req[r].pc = "truckersmp" /\ req' = [req EXCEPT ![r] = Connections!Idle]
          /\ user' = [user EXCEPT ![u].truckersmpid = asks.truckersmpid]
          /\ loose' = loose \ {u}
          /\ UNCHANGED <<registered, identity, lock, pass, reqs, mixed>>
        BY <1>7 DEF Connections!WriteTruckersMP, Connections!End
    <2>2. u \in registered /\ u \in Uids /\ user[u] \in Links
        BY <1>3, <2>1
    <2>3. user' = [user EXCEPT ![u] = new]
        BY <2>1, <2>2 DEF LinksInv, LinksTyped
    <2>4. /\ new \in Links /\ new.steamid = user[u].steamid /\ new.truckersmpid = asks.truckersmpid
          /\ new["discordid"] = user[u]["discordid"] /\ new["steamid"] = user[u]["steamid"]
        BY <1>1, <2>2 DEF Links, Connections!Columns
    <2>5. new.truckersmpid \in {0, new.steamid} \/ u \in loose' \union mixed
        <3>1. u \in mixed \/ user[u].steamid = asks.truckersmpid
            BY <2>1 DEF LinksInv, SteamIsAsRead
        <3>. QED BY <2>4, <3>1
    <2>. HIDE DEF new
    <2>6. Connections!Unique(u, new)
        <3>1. \A c \in {"discordid", "steamid"} : new[c] = user[u][c]
            BY <2>4
        <3>. QED BY <2>2, <3>1 DEF Connections!Unique, Connections!Owners, LinksInv, Connections!AccountsAreOfOne
    <2>. QED BY <1>2, <2>1, <2>3, <2>4, <2>5, <2>6, LinksWrite
<1>8. ASSUME Connections!WriteConnections(r) PROVE LinksInv'
    <2>1. /\ req[r].pc \in {"staff", "staff-steam"}
          /\ user' = IF Connections!Unique(u, asks) THEN [user EXCEPT ![u] = asks] ELSE user
          /\ IF Connections!Unique(u, asks) /\ req[r].pc = "staff-steam"
             THEN req' = [req EXCEPT ![r] = looks] ELSE req' = [req EXCEPT ![r] = Connections!Idle]
          /\ loose' = IF ~Connections!Unique(u, asks) THEN loose
                      ELSE IF asks.truckersmpid \in {0, asks.steamid} THEN loose \ {u} ELSE loose \union {u}
          /\ UNCHANGED <<registered, identity, lock, pass, reqs, mixed>>
        BY <1>8 DEF Connections!WriteConnections, Connections!End, Connections!ToSync, looks
    <2>2. u \in registered /\ u \in Uids
        BY <1>3, <2>1
    <2>3. CASE Connections!Unique(u, asks)
        <3>1. user' = [user EXCEPT ![u] = asks]
            BY <2>1, <2>3
        <3>2. PICK job \in LinkJobs : /\ req' = [req EXCEPT ![r] = job]
                                      /\ (job.pc = "idle" /\ job.uid = 0) \/ (job.pc = "sync" /\ job.uid = u)
            BY <1>2, <2>1, <2>2
        <3>3. /\ loose' \in {loose, loose \ {u}, loose \union {u}} /\ req[r].pc \notin {"idle", "register", "asked"}
              /\ asks.truckersmpid \in {0, asks.steamid} \/ u \in loose' \union mixed
            BY <2>1, <2>3
        <3>. QED BY <1>1, <2>1, <2>3, <3>1, <3>2, <3>3, LinksWrite
    <2>4. CASE ~Connections!Unique(u, asks)
        BY <1>4, <2>1, <2>4
    <2>. QED BY <2>3, <2>4
<1>9. ASSUME Connections!Done(r) PROVE LinksInv'
    BY <1>4, <1>9 DEF Connections!Done, Connections!End
<1>. QED BY <1>5, <1>6, <1>7, <1>8, <1>9

\* The requests that begin, each with what it has seen.
LEMMA LinksBegins ==
    ASSUME ConnectionsConstants, LinksInv, NEW r \in Reqs, NEW id \in Accounts,
           \/ \E c \in {"discordid", "steamid"} : Connections!get_callback(r, c, id)
           \/ \E u \in Uids : \/ Connections!patch_discord(r, u, id) \/ Connections!patch_steam(r, u, id)
                              \/ Connections!patch_truckersmp(r, u, id)
                              \/ \E c \in Connections!Columns : Connections!patch_connections(r, u, c, id)
    PROVE  LinksInv'
<1>. USE DEF ConnectionsConstants
<1>1. /\ {"discordid", "steamid", "truckersmpid"} = Connections!Columns
      /\ Connections!Nobody \in Links /\ Connections!Nobody.truckersmpid = 0
      /\ registered \subseteq Uids /\ \A u \in Uids : user[u] \in Links
    BY DEF Connections!Columns, Connections!Nobody, Links, LinksInv, LinksTyped
<1>2. \A row \in Links, c \in Connections!Columns : [row EXCEPT ![c] = id] \in Links
    BY DEF Links
<1>3. ASSUME NEW c \in {"discordid", "steamid"}, NEW u \in registered,
             Connections!Begin(r, Connections!Job(IF c = "steamid" THEN "sync" ELSE "done", u, [Connections!Nobody EXCEPT ![c] = id]))
      PROVE  LinksInv'
    <2>. DEFINE job == Connections!Job(IF c = "steamid" THEN "sync" ELSE "done", u, [Connections!Nobody EXCEPT ![c] = id])
    <2>1. job \in LinkJobs /\ job.pc \in {"sync", "done"} /\ job.uid \in registered
        BY <1>1, <1>2 DEF Connections!Job, LinkJobs
    <2>. HIDE DEF job
    <2>2. Connections!Begin(r, job)
        BY <1>3 DEF job
    <2>. QED BY <2>1, <2>2, LinksBegin
<1>4. ASSUME NEW c \in {"discordid", "steamid"},
             Connections!Begin(r, Connections!Job("register", 0, [Connections!Nobody EXCEPT ![c] = id]))
      PROVE  LinksInv'
    <2>. DEFINE job == Connections!Job("register", 0, [Connections!Nobody EXCEPT ![c] = id])
    <2>1. job \in LinkJobs /\ job.pc = "register" /\ job.uid = 0 /\ job.new.truckersmpid = 0
        BY <1>1, <1>2 DEF Connections!Job, LinkJobs, Connections!Nobody, Connections!Columns
    <2>. HIDE DEF job
    <2>2. Connections!Begin(r, job)
        BY <1>4 DEF job
    <2>. QED BY <2>1, <2>2, LinksBegin
<1>5. ASSUME NEW c \in {"discordid", "steamid"}, Connections!get_callback(r, c, id) PROVE LinksInv'
    <2>1. Connections!Owners(c, id) \subseteq registered
        BY DEF Connections!Owners
    <2>. QED BY <1>3, <1>4, <1>5, <2>1 DEF Connections!get_callback
<1>6. ASSUME NEW u \in Uids, Connections!patch_discord(r, u, id) PROVE LinksInv'
    <2>. DEFINE job == Connections!Job("discord", u, [user[u] EXCEPT !.discordid = id])
    <2>1. Connections!Begin(r, job) /\ u \in registered
        BY <1>6 DEF Connections!patch_discord
    <2>2. job \in LinkJobs /\ job.pc = "discord" /\ job.uid = u
        BY <1>1, <1>2 DEF Connections!Job, LinkJobs
    <2>. HIDE DEF job
    <2>. QED BY <2>1, <2>2, LinksBegin
<1>7. ASSUME NEW u \in Uids, Connections!patch_steam(r, u, id) PROVE LinksInv'
    <2>. DEFINE job == Connections!Job(IF user[u].steamid = id THEN "same" ELSE "steam", u, [user[u] EXCEPT !.steamid = id])
    <2>1. Connections!Begin(r, job) /\ u \in registered
        BY <1>7 DEF Connections!patch_steam
    <2>2. /\ job \in LinkJobs /\ job.pc \in {"same", "steam"} /\ job.uid = u
          /\ job.pc = "same" => user[u].steamid = job.new.steamid
        BY <1>1, <1>2 DEF Connections!Job, LinkJobs, Links, Connections!Columns
    <2>. HIDE DEF job
    <2>. QED BY <2>1, <2>2, LinksBegin
<1>8. ASSUME NEW u \in Uids, Connections!patch_truckersmp(r, u, id) PROVE LinksInv'
    <2>. DEFINE job == Connections!Job("truckersmp", u, [user[u] EXCEPT !.truckersmpid = id])
    <2>1. Connections!Begin(r, job) /\ u \in registered /\ user[u].steamid = id
        BY <1>8 DEF Connections!patch_truckersmp
    <2>2. job \in LinkJobs /\ job.pc = "truckersmp" /\ job.uid = u /\ job.new.truckersmpid = id
        BY <1>1, <1>2 DEF Connections!Job, LinkJobs, Links, Connections!Columns
    <2>. HIDE DEF job
    <2>. QED BY <2>1, <2>2, LinksBegin
<1>9. ASSUME NEW u \in Uids, NEW c \in Connections!Columns, Connections!patch_connections(r, u, c, id) PROVE LinksInv'
    <2>. DEFINE new == [user[u] EXCEPT ![c] = id]
                steam == new.steamid # user[u].steamid
                job == Connections!Job(IF steam THEN "staff-steam" ELSE "staff", u,
                                       IF steam THEN [new EXCEPT !.truckersmpid = 0] ELSE new)
    <2>1. Connections!Begin(r, job) /\ u \in registered
        BY <1>9 DEF Connections!patch_connections
    <2>2. new \in Links
        BY <1>1, <1>2
    <2>. HIDE DEF new
    <2>3. [new EXCEPT !.truckersmpid = 0] \in Links
        BY <2>2 DEF Links, Connections!Columns
    <2>4. job \in LinkJobs /\ job.pc \in {"staff", "staff-steam"} /\ job.uid = u
        BY <2>2, <2>3 DEF Connections!Job, LinkJobs
    <2>. HIDE DEF job
    <2>. QED BY <2>1, <2>4, LinksBegin
<1>. QED BY <1>5, <1>6, <1>7, <1>8, <1>9

\* The loop reads whom to look up, and takes one after the other.
LEMMA LinksLoop ==
    ASSUME ConnectionsConstants, LinksInv, Connections!sync_loop \/ Connections!SyncNext
    PROVE  LinksInv'
<1>. USE DEF ConnectionsConstants
<1>1. Loop \in Connections!Actors /\ UNCHANGED <<user, registered, lock, reqs, loose, mixed>>
    BY DEF Connections!Actors, Connections!sync_loop, Connections!SyncNext
<1>2. CASE Connections!sync_loop
    <2>1. \A p \in pass' : p.uid \in registered /\ p.steamid \in {0} \union Accounts
        BY <1>2 DEF Connections!sync_loop, LinksInv, LinksTyped, Links, Connections!Columns
    <2>2. UNCHANGED req
        BY <1>2 DEF Connections!sync_loop
    <2>3. OneLooksUp' /\ OverlapsAreMixed'
        BY <1>1, <2>2 DEF LinksInv, OneLooksUp, OverlapsAreMixed
    <2>. QED BY <1>1, <2>1, <2>2, <2>3, UsersAlone DEF LinksInv, LinksTyped
<1>3. CASE Connections!SyncNext
    <2>1. PICK p \in pass : /\ req[Loop] = Connections!Idle /\ pass' = pass \ {p}
                            /\ Connections!ToSync(Loop, p.uid, p.steamid)
        BY <1>3 DEF Connections!SyncNext
    <2>. DEFINE job == Connections!Job("sync", p.uid, [Connections!Nobody EXCEPT !.steamid = p.steamid])
    <2>2. p.uid \in registered /\ p.uid \in Uids /\ p.steamid \in {0} \union Accounts
        BY DEF LinksInv, LinksTyped
    <2>3. job \in LinkJobs /\ job.pc = "sync" /\ job.uid = p.uid
        BY <2>2 DEF Connections!Job, Connections!Nobody, Connections!Columns, LinkJobs, Links
    <2>4. req' = [req EXCEPT ![Loop] = job] /\ req[Loop].pc # "asked"
        BY <2>1 DEF Connections!ToSync, Connections!Idle
    <2>. HIDE DEF job
    <2>5. /\ req' \in [Connections!Actors -> LinkJobs]
          /\ \A b \in Connections!Actors :
                /\ req'[b].pc \in {"idle", "register"} => req'[b].uid = 0
                /\ req'[b].pc \notin {"idle", "register"} => req'[b].uid \in registered'
                /\ req'[b].pc = "register" => req'[b].new.truckersmpid = 0
          /\ OneLooksUp' /\ OverlapsAreMixed'
          /\ \A q \in Reqs : req'[q].pc \in {"same", "truckersmp"} => q # Loop /\ req'[q] = req[q]
        BY <1>1, <2>2, <2>3, <2>4, JobsFollow
    <2>6. \A q \in pass' : q.uid \in registered /\ q.steamid \in {0} \union Accounts
        BY <2>1 DEF LinksInv, LinksTyped
    <2>. QED BY <1>1, <2>5, <2>6, UsersAlone
<1>. QED BY <1>2, <1>3

\* The invariant is kept by every step.
LEMMA LinksNext ==
    ASSUME ConnectionsConstants, LinksInv, [Connections!Next]_Connections!vars
    PROVE  LinksInv'
<1>1. ASSUME UNCHANGED <<user, registered, lock, pass, req, loose, mixed>> PROVE LinksInv'
    <2>1. OneLooksUp' /\ OverlapsAreMixed'
        BY <1>1 DEF LinksInv, OneLooksUp, OverlapsAreMixed
    <2>. QED BY <1>1, <2>1, UsersAlone DEF LinksInv, LinksTyped
<1>2. CASE \E u \in Uids, s \in Accounts : Connections!Expire(u, s)
    BY <1>1, <1>2 DEF Connections!Expire
<1>3. CASE UNCHANGED Connections!vars
    BY <1>1, <1>3 DEF Connections!vars
<1>4. CASE \E a \in Connections!Actors : Connections!sync_user(a) \/ \E known \in BOOLEAN : Connections!Answered(a, known)
    BY <1>4, LinksSync, LinksAnswered
<1>5. CASE Connections!sync_loop \/ Connections!SyncNext
    BY <1>5, LinksLoop
<1>6. ASSUME NEW r \in Reqs,
             \/ Connections!Register(r) \/ Connections!WriteDiscord(r) \/ Connections!WriteSteam(r)
             \/ Connections!WriteTruckersMP(r) \/ Connections!WriteConnections(r) \/ Connections!Done(r)
      PROVE  LinksInv'
    BY <1>6, LinksRegister, LinksWrites
<1>7. ASSUME NEW r \in Reqs, NEW c \in {"discordid", "steamid"}, NEW id \in Accounts, Connections!get_callback(r, c, id)
      PROVE  LinksInv'
    BY <1>7, LinksBegins
<1>8. ASSUME NEW r \in Reqs, NEW u \in Uids, NEW c \in Connections!Columns, Connections!delete_connections(r, u, c)
      PROVE  LinksInv'
    BY <1>8, LinksDelete
<1>9. ASSUME NEW r \in Reqs, NEW u \in Uids, NEW id \in Accounts,
             \/ Connections!patch_discord(r, u, id) \/ Connections!patch_steam(r, u, id)
             \/ Connections!patch_truckersmp(r, u, id)
             \/ \E c \in Connections!Columns : Connections!patch_connections(r, u, c, id)
      PROVE  LinksInv'
    BY <1>9, LinksBegins
<1>. QED BY <1>2, <1>3, <1>4, <1>5, <1>6, <1>7, <1>8, <1>9 DEF Connections!Next

\* Rows and look-ups have their types, and an account is looked up by one at a time.
\* (auth/steam.py, auth/discord.py, user/connections.py, functions/truckersmp_identity.py.)
THEOREM ConnectionsAreTyped ==
    ConnectionsConstants => (Connections!Spec => []Connections!TypeOK)
<1>1. ASSUME ConnectionsConstants PROVE Connections!Init /\ [][Connections!Next]_Connections!vars => []Connections!TypeOK
    <2>1. LinksInv /\ [Connections!Next]_Connections!vars => LinksInv'
        BY <1>1, LinksNext
    <2>2. Connections!Init => LinksInv
        BY <1>1, LinksInit
    <2>3. LinksInv => Connections!TypeOK
        BY <1>1 DEF LinksInv, LinksTyped, OneLooksUp, Links, Connections!TypeOK
    <2>. QED BY <2>1, <2>2, <2>3, PTL
<1>. QED BY <1>1 DEF Connections!Spec

\* However callbacks, users and staff overlap, an account of Discord or Steam is one
\* user's; the unique indexes see to it where the look-ups of the handlers do not.
THEOREM AccountsOfOneUser ==
    ConnectionsConstants => (Connections!Spec => []Connections!AccountsAreOfOne)
<1>1. ASSUME ConnectionsConstants PROVE Connections!Init /\ [][Connections!Next]_Connections!vars => []Connections!AccountsAreOfOne
    <2>1. LinksInv /\ [Connections!Next]_Connections!vars => LinksInv'
        BY <1>1, LinksNext
    <2>2. Connections!Init => LinksInv
        BY <1>1, LinksInit
    <2>3. LinksInv => Connections!AccountsAreOfOne
        BY DEF LinksInv
    <2>. QED BY <2>1, <2>2, <2>3, PTL
<1>. QED BY <1>1 DEF Connections!Spec

\* A TruckersMP account goes with the Steam account it was verified with, whatever
\* look-ups were under way when that changed; but for what staff did, and for users
\* of whom two requests overlapped.
THEOREM VerifiedWithSteam ==
    ConnectionsConstants => (Connections!Spec => []Connections!TruckersMPFollowsSteam)
<1>1. ASSUME ConnectionsConstants PROVE Connections!Init /\ [][Connections!Next]_Connections!vars => []Connections!TruckersMPFollowsSteam
    <2>1. LinksInv /\ [Connections!Next]_Connections!vars => LinksInv'
        BY <1>1, LinksNext
    <2>2. Connections!Init => LinksInv
        BY <1>1, LinksInit
    <2>3. LinksInv => Connections!TruckersMPFollowsSteam
        BY DEF LinksInv
    <2>. QED BY <2>1, <2>2, <2>3, PTL
<1>. QED BY <1>1 DEF Connections!Spec

-----------------------------------------------------------------------------
(* Members.                                                                *)

Userids == Members!nobody..MaxUserid
MemberJobs ==
    [pc : {"idle", "accept", "roles", "row", "leave", "ban", "delete", "ask", "clear"},
     uid : Users \union {0}, userid : Userids, old : SUBSET Roles, roles : SUBSET Roles]

\* The types that TypeOK leaves out; a request that is under way is of a user.
MembersTyped ==
    /\ trucky_identity \in [Users -> [row : BOOLEAN, assigned_userid : Userids,
                                      managed_roles : SUBSET Roles, auto_admitted : BOOLEAN]]
    /\ req \in [Reqs -> MemberJobs]
    /\ \A r \in Reqs : IF req[r].pc = "idle" THEN req[r].uid = 0 ELSE req[r].uid \in Users
    /\ asked \in [Users -> [at : Nat, logins : Nat]]
    /\ pending_user_deletion \in [Users -> [status : {0, 1}, expire : Nat]]
    /\ history \in [Users -> SUBSET Roles] /\ added \in [Users -> SUBSET Roles]

\* A row of Trucky's has the userid it gave, and manages roles that came with it.
IdentityRows ==
    \A u \in Users : /\ trucky_identity[u].row <=> trucky_identity[u].assigned_userid # Members!nobody
                     /\ trucky_identity[u].managed_roles \subseteq added[u]

\* The userids of a user: the present one, and the one Trucky would give back.
Held(u) == {user[u].userid, trucky_identity[u].assigned_userid}

\* The userid that a request has read was given before, and never to anybody else.
UseridsRead ==
    \A r \in Reqs :
        /\ req[r].userid < nxtuserid
        /\ req[r].userid # Members!nobody =>
                \A v \in Users \ {req[r].uid} : req[r].userid \notin Held(v)

\* The row of a deletion tells when it was asked for and whether a login followed.
Deadlines ==
    \A u \in Users : Members!Pending(u) =>
        /\ asked[u].at # 0 /\ pending_user_deletion[u].expire = asked[u].at + Grace
        /\ asked[u].logins = IF pending_user_deletion[u].status = 1 THEN 0 ELSE 1

\* What a request has read and counts on when it writes.
StillHolds(r) ==
    LET u == req[r].uid IN
    /\ req[r].pc \in {"accept", "ban", "delete", "ask"} => ~Members!Member(u)
    /\ req[r].pc = "accept" => u \notin banned
    /\ req[r].pc = "clear" =>
            /\ ~Members!Member(u) \/ u \in accepted
            /\ asked[u].at # 0 /\ asked[u].logins < 2 /\ now > asked[u].at + Grace
    /\ req[r].pc \in {"roles", "leave"} => Members!Member(u) /\ user[u].userid = req[r].userid
    /\ req[r].pc = "roles" => user[u].roles = req[r].old
    /\ req[r].pc = "row" => /\ history[u] = req[r].old /\ user[u].roles = req[r].roles
                            /\ user[u].userid # Members!nobody
AsRead == \A r \in Reqs : (req[r].pc # "idle" /\ req[r].uid \notin mixed) => StillHolds(r)

\* Of a user who is not mixed: no member is banned, a member's history adds up unless a
\* row is still to be written, and a member whose deletion is pending was accepted since.
WholeOf(u) ==
    /\ ~ (Members!Member(u) /\ u \in banned)
    /\ (/\ Members!Member(u)
        /\ \A r \in Reqs : req[r].uid = u => req[r].pc # "row")
            => history[u] = user[u].roles
    /\ Members!Pending(u) => (~Members!Member(u) \/ u \in accepted)
    /\ (~user[u].live /\ u \notin accepted) => user[u].userid = Members!nobody
UsersAreWhole == \A u \in Users \ mixed : WholeOf(u)

MembersInv ==
    /\ Members!TypeOK /\ MembersTyped /\ IdentityRows /\ OverlapsAreMixed /\ UseridsRead
    /\ Deadlines /\ AsRead /\ UsersAreWhole
    /\ Members!UseridsAreOfOne /\ Members!OnlyMembersHaveRoles /\ Members!FormerMembersOwnNothing

\* At the start nobody but the founder is a member, and nothing is under way.
LEMMA MembersInit == MembersConstants /\ Members!Init => MembersInv
<1>. SUFFICES ASSUME MembersConstants, Members!Init PROVE MembersInv
    OBVIOUS
<1>. USE DEF MembersConstants, Members!Init, Members!nobody, Members!Idle, Members!NoIdentity,
             Members!NotPending, Members!Member, Members!Pending, Userids, Held
<1>1. Members!TypeOK
    BY DEF Members!TypeOK
<1>2. MembersTyped
    BY DEF MembersTyped, MemberJobs
<1>3. IdentityRows /\ OverlapsAreMixed /\ UseridsRead
    BY DEF IdentityRows, OverlapsAreMixed, UseridsRead
<1>4. Deadlines /\ AsRead
    BY DEF Deadlines, AsRead
<1>5. UsersAreWhole
    BY DEF UsersAreWhole, WholeOf
<1>6. /\ Members!UseridsAreOfOne /\ Members!OnlyMembersHaveRoles
      /\ Members!FormerMembersOwnNothing
    BY DEF Members!UseridsAreOfOne, Members!OnlyMembersHaveRoles, Members!FormerMembersOwnNothing
<1>. QED BY <1>1, <1>2, <1>3, <1>4, <1>5, <1>6 DEF MembersInv

\* A request that begins has read the user as it is: whatever it counts on later
\* holds then, and if another of the user is under way that is noted.
LEMMA MembersBegin ==
    ASSUME MembersConstants, MembersInv,
           NEW r \in Reqs, NEW u \in Users, NEW roles \in SUBSET Roles,
           NEW pc \in {"accept", "roles", "leave", "ban", "delete", "ask", "clear"},
           Members!Begin(r, pc, u, roles),
           pc \in {"accept", "ban", "delete", "ask"} => ~Members!Member(u),
           pc = "accept" => u \notin banned,
           pc = "clear" => Members!Pending(u) /\ pending_user_deletion[u].expire < now,
           pc \in {"roles", "leave"} => Members!Member(u)
    PROVE  MembersInv'
<1>. DEFINE job == [pc |-> pc, uid |-> u, userid |-> user[u].userid,
                    old |-> user[u].roles, roles |-> roles]
<1>. USE DEF MembersConstants
<1>1. /\ reqs < MaxReqs /\ req[r].pc = "idle" /\ reqs' = reqs + 1
      /\ req' = [req EXCEPT ![r] = job]
      /\ mixed' = IF \E q \in Reqs \ {r} : req[q].pc # "idle" /\ req[q].uid = u
                  THEN mixed \union {u} ELSE mixed
      /\ UNCHANGED <<user, nxtuserid, banned, pending_user_deletion, economy, now, history,
                     accepted, replaced, asked, trucky_identity, added>>
    BY DEF Members!Begin
<1>2. user[u].userid \in Userids /\ user[u].roles \in SUBSET Roles
    BY DEF MembersInv, Members!TypeOK, Userids
<1>3. job \in MemberJobs
    BY <1>2 DEF MemberJobs
<1>4. req \in [Reqs -> MemberJobs]
    BY DEF MembersInv, MembersTyped
<1>5. /\ req' \in [Reqs -> MemberJobs] /\ req'[r] = job
      /\ \A q \in Reqs \ {r} : req'[q] = req[q]
    BY <1>1, <1>3, <1>4
<1>6. job.pc = pc /\ job.uid = u /\ job.userid = user[u].userid /\ job.old = user[u].roles
    OBVIOUS
<1>7. mixed \subseteq mixed'
    BY <1>1
<1>. HIDE DEF job
<1>8. Members!TypeOK'
    BY <1>1 DEF MembersInv, Members!TypeOK
<1>9. MembersTyped'
    BY <1>1, <1>5, <1>6 DEF MembersInv, MembersTyped
<1>10. OverlapsAreMixed'
    <2>. SUFFICES ASSUME NEW q \in Reqs, NEW p \in Reqs, q # p,
                         req'[q].uid = req'[p].uid, req'[q].uid # 0
                  PROVE  req'[q].uid \in mixed'
        BY DEF OverlapsAreMixed
    <2>1. CASE q # r /\ p # r
        BY <2>1, <1>5, <1>7 DEF MembersInv, OverlapsAreMixed
    <2>2. ASSUME NEW o \in Reqs \ {r}, req[o].uid = u PROVE u \in mixed'
        BY <2>2, <1>1 DEF MembersInv, MembersTyped
    <2>3. CASE q = r
        BY <2>3, <2>2, <1>5, <1>6
    <2>4. CASE p = r
        BY <2>4, <2>2, <1>5, <1>6
    <2>. QED BY <2>1, <2>3, <2>4
<1>11. UseridsRead'
    <2>1. user[u].userid < nxtuserid
        BY DEF MembersInv, Members!UseridsAreOfOne
    <2>2. user[u].userid # Members!nobody => \A v \in Users \ {u} : user[u].userid \notin Held(v)
        BY DEF MembersInv, Members!UseridsAreOfOne, Held
    <2>. QED BY <2>1, <2>2, <1>1, <1>5, <1>6 DEF MembersInv, UseridsRead, Held
<1>12. Deadlines' /\ IdentityRows'
    BY <1>1 DEF MembersInv, Deadlines, IdentityRows, Members!Pending
<1>13. AsRead'
    <2>. SUFFICES ASSUME NEW q \in Reqs, req'[q].pc # "idle", req'[q].uid \notin mixed'
                  PROVE  StillHolds(q)'
        BY DEF AsRead
    <2>1. CASE q # r
        <3>1. req'[q] = req[q] /\ StillHolds(q)
            BY <2>1, <1>5, <1>7 DEF MembersInv, AsRead
        <3>. QED BY <3>1, <1>1 DEF StillHolds, Members!Member
    <2>2. CASE q = r
        <3>1. u \notin mixed /\ WholeOf(u)
            BY <2>2, <1>5, <1>6, <1>7 DEF MembersInv, UsersAreWhole
        <3>2. pc = "clear" =>
                /\ ~Members!Member(u) \/ u \in accepted
                /\ asked[u].at # 0 /\ asked[u].logins < 2 /\ now > asked[u].at + Grace
            <4>. SUFFICES ASSUME pc = "clear"
                          PROVE  /\ ~Members!Member(u) \/ u \in accepted
                                 /\ asked[u].at # 0 /\ asked[u].logins < 2 /\ now > asked[u].at + Grace
                OBVIOUS
            <4>1. ~Members!Member(u) \/ u \in accepted
                BY <3>1 DEF WholeOf
            <4>2. /\ asked[u].at # 0 /\ pending_user_deletion[u].expire = asked[u].at + Grace
                  /\ asked[u].logins = IF pending_user_deletion[u].status = 1 THEN 0 ELSE 1
                BY DEF MembersInv, Deadlines
            <4>. QED BY <4>1, <4>2
        <3>. QED BY <2>2, <3>2, <1>1, <1>5, <1>6 DEF StillHolds, Members!Member
    <2>. QED BY <2>1, <2>2
<1>14. UsersAreWhole'
    <2>. SUFFICES ASSUME NEW v \in Users \ mixed' PROVE WholeOf(v)'
        BY DEF UsersAreWhole
    <2>1. WholeOf(v)
        BY <1>7 DEF MembersInv, UsersAreWhole
    <2>2. (\A q \in Reqs : req'[q].uid = v => req'[q].pc # "row")
            => (\A q \in Reqs : req[q].uid = v => req[q].pc # "row")
        BY <1>1, <1>5
    <2>. QED BY <2>1, <2>2, <1>1 DEF WholeOf, Members!Member, Members!Pending
<1>15. /\ Members!UseridsAreOfOne' /\ Members!OnlyMembersHaveRoles'
       /\ Members!FormerMembersOwnNothing'
    BY <1>1, <1>7 DEF MembersInv, Members!UseridsAreOfOne, Members!OnlyMembersHaveRoles,
                      Members!FormerMembersOwnNothing, Members!Member
<1>. QED BY <1>8, <1>9, <1>10, <1>11, <1>12, <1>13, <1>14, <1>15 DEF MembersInv

\* What a request does to its own user leaves what the others have read, and the
\* other users, as they were.
LEMMA OthersStay ==
    ASSUME MembersConstants, MembersInv, NEW r \in Reqs, NEW u \in Users, req[r].uid = u,
           req' = [req EXCEPT ![r] = Members!Idle] \/ req' = [req EXCEPT ![r].pc = "row"],
           mixed \subseteq mixed', accepted \subseteq accepted', now' = now,
           \A v \in Users \ {u} :
                /\ user'[v] = user[v] /\ history'[v] = history[v] /\ asked'[v] = asked[v]
                /\ pending_user_deletion'[v] = pending_user_deletion[v]
                /\ v \in banned' <=> v \in banned
                /\ v \in accepted' <=> v \in accepted
    PROVE  /\ req' \in [Reqs -> MemberJobs]
           /\ \A q \in Reqs : IF req'[q].pc = "idle" THEN req'[q].uid = 0 ELSE req'[q].uid \in Users
           /\ \A q \in Reqs \ {r} : req'[q] = req[q]
           /\ OverlapsAreMixed'
           /\ \A q \in Reqs \ {r} :
                (req'[q].pc # "idle" /\ req'[q].uid \notin mixed') => StillHolds(q)'
           /\ \A v \in Users \ ({u} \union mixed') : WholeOf(v)'
<1>. USE DEF MembersConstants
<1>1. req \in [Reqs -> MemberJobs] /\ req[r] \in MemberJobs /\ req[r].pc # "idle"
    BY DEF MembersInv, MembersTyped
<1>2. \A q \in Reqs \ {r} : req'[q] = req[q]
    BY <1>1
<1>3. \/ req'[r] = Members!Idle
      \/ req'[r] = [req[r] EXCEPT !.pc = "row"]
    BY <1>1
<1>4. Members!Idle \in MemberJobs /\ [req[r] EXCEPT !.pc = "row"] \in MemberJobs
    BY <1>1 DEF MemberJobs, Members!Idle, Members!nobody, Userids
<1>5. req' \in [Reqs -> MemberJobs]
    BY <1>1, <1>4
<1>6. IF req'[r].pc = "idle" THEN req'[r].uid = 0 ELSE req'[r].uid = u
    BY <1>3, <1>1 DEF Members!Idle, MemberJobs
<1>7. \A q \in Reqs : IF req'[q].pc = "idle" THEN req'[q].uid = 0 ELSE req'[q].uid \in Users
    BY <1>2, <1>6 DEF MembersInv, MembersTyped
<1>8. OverlapsAreMixed'
    BY <1>2, <1>6 DEF MembersInv, OverlapsAreMixed
<1>9. ASSUME NEW q \in Reqs \ {r}, req'[q].pc # "idle", req'[q].uid \notin mixed'
      PROVE  StillHolds(q)'
    <2>1. req'[q] = req[q] /\ StillHolds(q) /\ req[q].uid \in Users
        BY <1>9, <1>2 DEF MembersInv, AsRead, MembersTyped
    <2>2. req[q].uid # u
        BY <1>9, <2>1 DEF MembersInv, OverlapsAreMixed
    <2>. QED BY <2>1, <2>2 DEF StillHolds, Members!Member
<1>10. ASSUME NEW v \in Users \ ({u} \union mixed') PROVE WholeOf(v)'
    <2>1. WholeOf(v)
        BY DEF MembersInv, UsersAreWhole
    <2>2. (\A q \in Reqs : req'[q].uid = v => req'[q].pc # "row")
            => (\A q \in Reqs : req[q].uid = v => req[q].pc # "row")
        BY <1>2
    <2>. QED BY <2>1, <2>2 DEF WholeOf, Members!Member, Members!Pending
<1>. QED BY <1>2, <1>5, <1>7, <1>8, <1>9, <1>10

\* When a user is given no userid but the next one, it still is of one user, and no
\* request has read it for another.
LEMMA UseridsMove ==
    ASSUME MembersConstants, MembersInv, NEW u \in Users,
           nxtuserid' \in {nxtuserid, nxtuserid + 1},
           Held(u)' \subseteq Held(u) \union {nxtuserid, Members!nobody},
           nxtuserid \in Held(u)' => nxtuserid' = nxtuserid + 1,
           \A v \in Users \ {u} : Held(v)' = Held(v),
           \A r \in Reqs : /\ req'[r].userid \in {req[r].userid, Members!nobody}
                           /\ req'[r].userid # Members!nobody => req'[r].uid = req[r].uid
    PROVE  UseridsRead' /\ Members!UseridsAreOfOne'
<1>. USE DEF MembersConstants, Members!nobody
<1>1. nxtuserid \in Nat
    BY DEF MembersInv, Members!TypeOK
<1>2. \A v \in Users : Held(v) \subseteq Userids /\ \A id \in Held(v) : id < nxtuserid
    BY DEF MembersInv, Members!UseridsAreOfOne, Held, Members!TypeOK, MembersTyped, Userids
<1>3. \A v, w \in Users : v # w => Held(v) \intersect Held(w) \subseteq {Members!nobody}
    BY DEF MembersInv, Members!UseridsAreOfOne, Held
<1>4. \A r \in Reqs : /\ req[r].userid < nxtuserid /\ req[r].userid \in Userids
                      /\ req[r].userid # Members!nobody =>
                            \A v \in Users \ {req[r].uid} : req[r].userid \notin Held(v)
    BY DEF MembersInv, UseridsRead, MembersTyped, MemberJobs
<1>5. \A v \in Users : \A id \in Held(v)' : id < nxtuserid'
    BY <1>1, <1>2 DEF Userids
<1>6. \A v \in Users \ {u} : Held(u)' \intersect Held(v)' \subseteq {Members!nobody}
    BY <1>1, <1>2, <1>3
<1>7. UseridsRead'
    <2>. SUFFICES ASSUME NEW r \in Reqs
                  PROVE  /\ req'[r].userid < nxtuserid'
                         /\ req'[r].userid # Members!nobody =>
                                \A v \in Users \ {req'[r].uid} : req'[r].userid \notin Held(v)'
        BY DEF UseridsRead
    <2>1. req'[r].userid < nxtuserid'
        BY <1>1, <1>4 DEF Userids
    <2>2. ASSUME req'[r].userid # Members!nobody, NEW v \in Users \ {req'[r].uid}
          PROVE  req'[r].userid \notin Held(v)'
        <3>1. req'[r].userid = req[r].userid /\ req[r].userid \notin Held(v) /\ req[r].userid < nxtuserid
            BY <2>2, <1>4
        <3>2. CASE v = u
            BY <3>1, <3>2, <2>2, <1>1
        <3>. QED BY <3>1, <3>2
    <2>. QED BY <2>1, <2>2
<1>8. \A v, w \in Users : v # w => Held(v)' \intersect Held(w)' \subseteq {Members!nobody}
    BY <1>3, <1>6
<1>9. \A v \in Users : /\ user'[v].userid < nxtuserid'
                       /\ trucky_identity'[v].assigned_userid < nxtuserid'
    BY <1>5 DEF Held
<1>. HIDE DEF Members!nobody
<1>. QED BY <1>7, <1>8, <1>9 DEF Members!UseridsAreOfOne, Held

\* The rows that a request finds by the userid it has read are of its own user.
LEMMA RowsAreOfTheUser ==
    ASSUME MembersInv, NEW r \in Reqs
    PROVE  Members!RowsOf(req[r]) \subseteq {req[r].uid}
BY DEF MembersInv, UseridsRead, Members!RowsOf, Members!Member, Held

\* The member who is accepted gets the next userid, and had none unless an overlapping
\* accept gave one, which is noted as replaced.
LEMMA KeptByAccept ==
    ASSUME MembersConstants, MembersInv, NEW r \in Reqs, Members!WriteAccept(r)
    PROVE  MembersInv'
<1>. USE DEF MembersConstants
<1>0. req[r].pc = "accept" /\ req[r].uid \in Users /\ req \in [Reqs -> MemberJobs]
    BY DEF Members!WriteAccept, MembersInv, MembersTyped
<1>. PICK u \in Users : req[r].uid = u
    BY <1>0
<1>1. /\ req[r].pc = "accept" /\ nxtuserid < MaxUserid
      /\ user' = [user EXCEPT ![u].userid = IF user[u].live THEN nxtuserid ELSE @]
      /\ nxtuserid' = nxtuserid + 1
      /\ accepted' = IF Members!Pending(u) THEN accepted \union {u} ELSE accepted
      /\ replaced' = replaced \union {user[u].userid}
      /\ req' = [req EXCEPT ![r] = Members!Idle]
      /\ history' = [history EXCEPT ![u] = IF user[u].live THEN {} ELSE @]
      /\ UNCHANGED <<now, reqs, mixed, trucky_identity, added, banned, pending_user_deletion,
                     economy, asked>>
    BY DEF Members!WriteAccept, Members!NextUserid, Members!Done, Members!Same
<1>2. /\ history' \in [Users -> SUBSET Roles]
      /\ history'[u] = IF user[u].live THEN {} ELSE history[u]
      /\ \A v \in Users \ {u} : history'[v] = history[v]
    <2>1. history \in [Users -> SUBSET Roles]
        BY DEF MembersInv, MembersTyped
    <2>. QED BY <1>1, <2>1
<1>3. user \in [Users -> [live : BOOLEAN, userid : Userids, roles : SUBSET Roles, steamid : BOOLEAN]]
    BY DEF MembersInv, Members!TypeOK, Userids
<1>4. nxtuserid \in 1..MaxUserid
    BY DEF MembersInv, Members!TypeOK
<1>5. /\ user' \in [Users -> [live : BOOLEAN, userid : Userids, roles : SUBSET Roles, steamid : BOOLEAN]]
      /\ \A v \in Users \ {u} : user'[v] = user[v]
      /\ user'[u].live = user[u].live /\ user'[u].roles = user[u].roles
      /\ user'[u].userid = IF user[u].live THEN nxtuserid ELSE user[u].userid
    BY <1>1, <1>0, <1>3, <1>4 DEF Userids, Members!nobody
<1>6. u \notin mixed => (WholeOf(u) /\ ~Members!Member(u) /\ u \notin banned)
    BY <1>1, <1>0 DEF MembersInv, UsersAreWhole, AsRead, StillHolds
<1>7. Members!TypeOK'
    BY <1>1, <1>4, <1>5 DEF MembersInv, Members!TypeOK, Userids
<1>8. /\ req' \in [Reqs -> MemberJobs]
      /\ \A q \in Reqs : IF req'[q].pc = "idle" THEN req'[q].uid = 0 ELSE req'[q].uid \in Users
      /\ \A q \in Reqs \ {r} : req'[q] = req[q]
      /\ OverlapsAreMixed'
      /\ \A q \in Reqs \ {r} :
                (req'[q].pc # "idle" /\ req'[q].uid \notin mixed') => StillHolds(q)'
      /\ \A v \in Users \ ({u} \union mixed') : WholeOf(v)'
    BY <1>1, <1>0, <1>2, <1>5, OthersStay
<1>9. req'[r] = Members!Idle
    BY <1>1, <1>0
<1>10. MembersTyped' /\ IdentityRows' /\ Deadlines'
    BY <1>1, <1>2, <1>8 DEF MembersInv, MembersTyped, IdentityRows, Deadlines, Members!Pending
<1>11. AsRead'
    BY <1>8, <1>9 DEF AsRead, Members!Idle
<1>12. UsersAreWhole'
    <2>1. ASSUME u \notin mixed PROVE WholeOf(u)'
        <3>1. Members!Member(u)' => user[u].live
            BY <1>5 DEF Members!Member
        <3>2. Members!Member(u)' => user[u].roles = {}
            BY <3>1, <2>1, <1>6 DEF MembersInv, Members!OnlyMembersHaveRoles
        <3>3. Members!Pending(u)' => u \in accepted'
            BY <1>1 DEF Members!Pending
        <3>. QED BY <3>1, <3>2, <3>3, <2>1, <1>1, <1>0, <1>2, <1>5, <1>6 DEF WholeOf, Members!Member
    <2>. QED BY <2>1, <1>1, <1>8 DEF UsersAreWhole
<1>13. UseridsRead' /\ Members!UseridsAreOfOne'
    <2>1. Held(u)' \subseteq Held(u) \union {nxtuserid, Members!nobody}
        BY <1>1, <1>5 DEF Held
    <2>2. \A v \in Users \ {u} : Held(v)' = Held(v)
        BY <1>1, <1>5 DEF Held
    <2>3. \A q \in Reqs : /\ req'[q].userid \in {req[q].userid, Members!nobody}
                          /\ req'[q].userid # Members!nobody => req'[q].uid = req[q].uid
        BY <1>8, <1>9 DEF Members!Idle
    <2>. QED BY <2>1, <2>2, <2>3, <1>1, <1>0, UseridsMove
<1>14. Members!OnlyMembersHaveRoles'
    <2>1. nxtuserid # Members!nobody
        BY <1>4 DEF Members!nobody
    <2>. QED BY <2>1, <1>5 DEF MembersInv, Members!OnlyMembersHaveRoles, Members!Member
<1>15. Members!FormerMembersOwnNothing'
    <2>. SUFFICES ASSUME NEW id \in economy, id \notin replaced'
                  PROVE  \E v \in Users :
                            \/ user'[v].userid = id /\ (Members!Member(v)' \/ v \in accepted' \union mixed')
                            \/ trucky_identity'[v].assigned_userid = id
        BY <1>1 DEF Members!FormerMembersOwnNothing
    <2>1. PICK v \in Users : \/ user[v].userid = id /\ (Members!Member(v) \/ v \in accepted \union mixed)
                             \/ trucky_identity[v].assigned_userid = id
        BY <1>1 DEF MembersInv, Members!FormerMembersOwnNothing
    <2>2. trucky_identity[v].assigned_userid = id \/ v # u
        BY <2>1, <1>1
    <2>3. \/ user'[v].userid = id /\ (Members!Member(v)' \/ v \in accepted' \union mixed')
          \/ trucky_identity'[v].assigned_userid = id
        BY <2>1, <2>2, <1>1, <1>5 DEF Members!Member
    <2>. QED BY <2>3
<1>. QED BY <1>7, <1>8, <1>10, <1>11, <1>12, <1>13, <1>14, <1>15 DEF MembersInv

\* A write of roles finds the member, and the row of the history is to follow.
LEMMA KeptByRoles ==
    ASSUME MembersConstants, MembersInv, NEW r \in Reqs, Members!WriteRoles(r)
    PROVE  MembersInv'
<1>. USE DEF MembersConstants
<1>0. req[r].pc = "roles" /\ req[r].uid \in Users /\ req \in [Reqs -> MemberJobs]
    BY DEF Members!WriteRoles, MembersInv, MembersTyped
<1>. PICK u \in Users : req[r].uid = u
    BY <1>0
<1>1. /\ user' = [v \in Users |-> IF v \in Members!RowsOf(req[r])
                                  THEN [user[v] EXCEPT !.roles = req[r].roles] ELSE user[v]]
      /\ req' = [req EXCEPT ![r].pc = "row"]
      /\ UNCHANGED <<now, reqs, mixed, trucky_identity, added, nxtuserid, banned,
                     pending_user_deletion, economy, history, accepted, replaced, asked>>
    BY DEF Members!WriteRoles, Members!Same
<1>2. Members!RowsOf(req[r]) \subseteq {u} /\ \A v \in Members!RowsOf(req[r]) : Members!Member(v)
    BY RowsAreOfTheUser DEF Members!RowsOf
<1>3. user \in [Users -> [live : BOOLEAN, userid : Userids, roles : SUBSET Roles, steamid : BOOLEAN]]
    BY DEF MembersInv, Members!TypeOK, Userids
<1>4. req[r].roles \in SUBSET Roles
    BY <1>0 DEF MemberJobs
<1>5. /\ user' \in [Users -> [live : BOOLEAN, userid : Userids, roles : SUBSET Roles, steamid : BOOLEAN]]
      /\ \A v \in Users \ {u} : user'[v] = user[v]
      /\ \A v \in Users : user'[v].live = user[v].live /\ user'[v].userid = user[v].userid
      /\ Members!Member(u) /\ user[u].userid = req[r].userid => user'[u].roles = req[r].roles
      /\ user'[u].roles = user[u].roles \/ Members!Member(u)
    BY <1>1, <1>2, <1>3, <1>4 DEF Members!RowsOf
<1>6. u \notin mixed => /\ WholeOf(u) /\ Members!Member(u) /\ user[u].userid = req[r].userid
                        /\ user[u].roles = req[r].old
    BY <1>0 DEF MembersInv, UsersAreWhole, AsRead, StillHolds
<1>7. Members!TypeOK'
    BY <1>1, <1>5 DEF MembersInv, Members!TypeOK, Userids
<1>8. /\ req' \in [Reqs -> MemberJobs]
      /\ \A q \in Reqs : IF req'[q].pc = "idle" THEN req'[q].uid = 0 ELSE req'[q].uid \in Users
      /\ \A q \in Reqs \ {r} : req'[q] = req[q]
      /\ OverlapsAreMixed'
      /\ \A q \in Reqs \ {r} :
                (req'[q].pc # "idle" /\ req'[q].uid \notin mixed') => StillHolds(q)'
      /\ \A v \in Users \ ({u} \union mixed') : WholeOf(v)'
    BY <1>1, <1>0, <1>5, OthersStay
<1>9. req'[r] = [req[r] EXCEPT !.pc = "row"]
    BY <1>1, <1>0
<1>10. /\ req'[r].pc = "row" /\ req'[r].uid = u /\ req'[r].userid = req[r].userid
       /\ req'[r].old = req[r].old /\ req'[r].roles = req[r].roles
    BY <1>9, <1>0 DEF MemberJobs
<1>11. MembersTyped' /\ IdentityRows' /\ Deadlines'
    BY <1>1, <1>8 DEF MembersInv, MembersTyped, IdentityRows, Deadlines, Members!Pending
<1>12. AsRead'
    <2>1. ASSUME u \notin mixed PROVE StillHolds(r)'
        <3>1. \A q \in Reqs : req[q].uid = u => req[q].pc # "row"
            BY <2>1, <1>0 DEF MembersInv, OverlapsAreMixed
        <3>2. history[u] = user[u].roles
            BY <3>1, <2>1, <1>6 DEF WholeOf
        <3>. QED BY <3>2, <2>1, <1>1, <1>5, <1>6, <1>10 DEF StillHolds, Members!Member
    <2>. QED BY <2>1, <1>1, <1>8, <1>10 DEF AsRead
<1>13. UsersAreWhole'
    <2>1. ASSUME u \notin mixed PROVE WholeOf(u)'
        BY <2>1, <1>1, <1>5, <1>6, <1>10 DEF WholeOf, Members!Member, Members!Pending
    <2>. QED BY <2>1, <1>1, <1>8 DEF UsersAreWhole
<1>14. UseridsRead' /\ Members!UseridsAreOfOne'
    <2>1. \A v \in Users : Held(v)' = Held(v)
        BY <1>1, <1>5 DEF Held
    <2>2. \A q \in Reqs : req'[q].userid = req[q].userid /\ req'[q].uid = req[q].uid
        BY <1>8, <1>10
    <2>3. nxtuserid \notin Held(u)
        BY DEF MembersInv, Members!UseridsAreOfOne, Members!TypeOK, MembersTyped, Userids,
               Members!nobody, Held
    <2>. QED BY <2>1, <2>2, <2>3, <1>1, UseridsMove
<1>15. Members!OnlyMembersHaveRoles' /\ Members!FormerMembersOwnNothing'
    <2>1. \A v \in Users : user'[v].userid = user[v].userid /\ Members!Member(v)' = Members!Member(v)
        BY <1>5 DEF Members!Member
    <2>2. Members!OnlyMembersHaveRoles'
        BY <1>5, <2>1 DEF MembersInv, Members!OnlyMembersHaveRoles
    <2>3. Members!FormerMembersOwnNothing'
        BY <1>1, <2>1 DEF MembersInv, Members!FormerMembersOwnNothing
    <2>. QED BY <2>2, <2>3
<1>. QED BY <1>7, <1>8, <1>11, <1>12, <1>13, <1>14, <1>15 DEF MembersInv

\* The row of the history makes up for what was written.
LEMMA KeptByHistory ==
    ASSUME MembersConstants, MembersInv, NEW r \in Reqs, Members!WriteHistory(r)
    PROVE  MembersInv'
<1>. USE DEF MembersConstants
<1>0. req[r].pc = "row" /\ req[r].uid \in Users /\ req \in [Reqs -> MemberJobs]
    BY DEF Members!WriteHistory, MembersInv, MembersTyped
<1>. PICK u \in Users : req[r].uid = u
    BY <1>0
<1>1. /\ history' = [history EXCEPT ![u] = Members!Replayed(req[r], @)]
      /\ req' = [req EXCEPT ![r] = Members!Idle]
      /\ UNCHANGED <<now, reqs, mixed, trucky_identity, added, user, nxtuserid, banned,
                     pending_user_deletion, economy, accepted, replaced, asked>>
    BY DEF Members!WriteHistory, Members!Same, Members!Done
<1>2. history \in [Users -> SUBSET Roles] /\ req[r].roles \subseteq Roles /\ req[r].old \subseteq Roles
    BY <1>0 DEF MembersInv, MembersTyped, MemberJobs
<1>3. /\ history' \in [Users -> SUBSET Roles] /\ history'[u] = Members!Replayed(req[r], history[u])
      /\ \A v \in Users \ {u} : history'[v] = history[v]
    <2>. DEFINE new == Members!Replayed(req[r], history[u])
    <2>1. new \in SUBSET Roles
        BY <1>2 DEF Members!Replayed
    <2>2. history' = [history EXCEPT ![u] = new]
        BY <1>1
    <2>. HIDE DEF new
    <2>3. /\ history' \in [Users -> SUBSET Roles] /\ history'[u] = new
          /\ \A v \in Users \ {u} : history'[v] = history[v]
        BY <2>1, <2>2, <1>2
    <2>. QED BY <2>3 DEF new
<1>4. u \notin mixed => WholeOf(u) /\ history[u] = req[r].old /\ user[u].roles = req[r].roles
    BY <1>0 DEF MembersInv, UsersAreWhole, AsRead, StillHolds
<1>5. u \notin mixed => history'[u] = user[u].roles
    BY <1>3, <1>4 DEF Members!Replayed
<1>6. Members!TypeOK'
    BY <1>1 DEF MembersInv, Members!TypeOK
<1>8. /\ req' \in [Reqs -> MemberJobs]
      /\ \A q \in Reqs : IF req'[q].pc = "idle" THEN req'[q].uid = 0 ELSE req'[q].uid \in Users
      /\ \A q \in Reqs \ {r} : req'[q] = req[q]
      /\ OverlapsAreMixed'
      /\ \A q \in Reqs \ {r} :
                (req'[q].pc # "idle" /\ req'[q].uid \notin mixed') => StillHolds(q)'
      /\ \A v \in Users \ ({u} \union mixed') : WholeOf(v)'
    BY <1>1, <1>0, <1>3, OthersStay
<1>9. req'[r] = Members!Idle
    BY <1>1, <1>0
<1>10. MembersTyped' /\ IdentityRows' /\ Deadlines'
    BY <1>1, <1>3, <1>8 DEF MembersInv, MembersTyped, IdentityRows, Deadlines, Members!Pending
<1>11. AsRead'
    BY <1>8, <1>9 DEF AsRead, Members!Idle
<1>12. UsersAreWhole'
    <2>1. ASSUME u \notin mixed PROVE WholeOf(u)'
        BY <2>1, <1>1, <1>4, <1>5 DEF WholeOf, Members!Member, Members!Pending
    <2>. QED BY <2>1, <1>1, <1>8 DEF UsersAreWhole
<1>13. UseridsRead'
    BY <1>1, <1>8, <1>9 DEF MembersInv, UseridsRead, Held, Members!Idle, Members!TypeOK, Members!nobody
<1>14. /\ Members!UseridsAreOfOne' /\ Members!OnlyMembersHaveRoles'
       /\ Members!FormerMembersOwnNothing'
    BY <1>1 DEF MembersInv, Members!UseridsAreOfOne, Members!OnlyMembersHaveRoles,
                Members!FormerMembersOwnNothing, Members!Member
<1>. QED BY <1>6, <1>8, <1>10, <1>11, <1>12, <1>13, <1>14 DEF MembersInv

\* Who leaves loses the userid, the roles and what there is in the economy.
LEMMA KeptByLeave ==
    ASSUME MembersConstants, MembersInv, NEW r \in Reqs, Members!WriteLeave(r)
    PROVE  MembersInv'
<1>. USE DEF MembersConstants
<1>0. req[r].pc = "leave" /\ req[r].uid \in Users /\ req \in [Reqs -> MemberJobs]
    BY DEF Members!WriteLeave, MembersInv, MembersTyped
<1>. PICK u \in Users : req[r].uid = u
    BY <1>0
<1>1. /\ user' = [v \in Users |-> IF v \in Members!RowsOf(req[r])
                                  THEN [user[v] EXCEPT !.userid = Members!nobody, !.roles = {}]
                                  ELSE user[v]]
      /\ economy' = economy \ {req[r].userid}
      /\ req' = [req EXCEPT ![r] = Members!Idle]
      /\ UNCHANGED <<now, reqs, mixed, trucky_identity, added, nxtuserid, banned,
                     pending_user_deletion, history, accepted, replaced, asked>>
    BY DEF Members!WriteLeave, Members!Same, Members!Done, Members!LeftOf
<1>2. /\ Members!RowsOf(req[r]) \subseteq {u}
      /\ \A v \in Users : v \in Members!RowsOf(req[r])
                            <=> (Members!Member(v) /\ user[v].userid = req[r].userid)
    BY RowsAreOfTheUser DEF Members!RowsOf
<1>3. user \in [Users -> [live : BOOLEAN, userid : Userids, roles : SUBSET Roles, steamid : BOOLEAN]]
    BY DEF MembersInv, Members!TypeOK, Userids
<1>4. Members!nobody \in Userids
    BY DEF Members!nobody, Userids
<1>5. /\ user' \in [Users -> [live : BOOLEAN, userid : Userids, roles : SUBSET Roles, steamid : BOOLEAN]]
      /\ \A v \in Users \ {u} : user'[v] = user[v]
      /\ user'[u].live = user[u].live
      /\ IF Members!Member(u) /\ user[u].userid = req[r].userid
         THEN user'[u].userid = Members!nobody /\ user'[u].roles = {}
         ELSE user'[u] = user[u]
    <2>. DEFINE out == [user[u] EXCEPT !.userid = Members!nobody, !.roles = {}]
                leaves == Members!Member(u) /\ user[u].userid = req[r].userid
    <2>1. /\ out \in [live : BOOLEAN, userid : Userids, roles : SUBSET Roles, steamid : BOOLEAN]
          /\ out.live = user[u].live /\ out.userid = Members!nobody /\ out.roles = {}
        BY <1>3, <1>4
    <2>2. \A v \in Users : v \in Members!RowsOf(req[r]) <=> (v = u /\ leaves)
        BY <1>2
    <2>3. user' = [v \in Users |-> IF v = u /\ leaves THEN out ELSE user[v]]
        BY <1>1, <2>2
    <2>. HIDE DEF out
    <2>. QED BY <1>3, <2>1, <2>3
<1>6. u \notin mixed => /\ WholeOf(u) /\ Members!Member(u) /\ user[u].userid = req[r].userid
    BY <1>0 DEF MembersInv, UsersAreWhole, AsRead, StillHolds
<1>7. Members!TypeOK'
    BY <1>1, <1>5 DEF MembersInv, Members!TypeOK, Userids
<1>10. /\ req' \in [Reqs -> MemberJobs]
       /\ \A q \in Reqs : IF req'[q].pc = "idle" THEN req'[q].uid = 0 ELSE req'[q].uid \in Users
       /\ \A q \in Reqs \ {r} : req'[q] = req[q]
       /\ OverlapsAreMixed'
       /\ \A q \in Reqs \ {r} :
                (req'[q].pc # "idle" /\ req'[q].uid \notin mixed') => StillHolds(q)'
       /\ \A v \in Users \ ({u} \union mixed') : WholeOf(v)'
    BY <1>1, <1>0, <1>5, OthersStay
<1>11. req'[r] = Members!Idle
    BY <1>1, <1>0
<1>12. MembersTyped' /\ IdentityRows' /\ Deadlines'
    BY <1>1, <1>10 DEF MembersInv, MembersTyped, IdentityRows, Deadlines, Members!Pending
<1>13. AsRead'
    BY <1>10, <1>11 DEF AsRead, Members!Idle
<1>14. UsersAreWhole'
    <2>1. ASSUME u \notin mixed PROVE WholeOf(u)'
        BY <2>1, <1>1, <1>5, <1>6 DEF WholeOf, Members!Member, Members!Pending
    <2>. QED BY <2>1, <1>1, <1>10 DEF UsersAreWhole
<1>15. UseridsRead' /\ Members!UseridsAreOfOne'
    <2>1. Held(u)' \subseteq Held(u) \union {nxtuserid, Members!nobody}
        BY <1>1, <1>5 DEF Held
    <2>2. \A v \in Users \ {u} : Held(v)' = Held(v)
        BY <1>1, <1>5 DEF Held
    <2>3. \A q \in Reqs : /\ req'[q].userid \in {req[q].userid, Members!nobody}
                          /\ req'[q].userid # Members!nobody => req'[q].uid = req[q].uid
        BY <1>10, <1>11 DEF Members!Idle
    <2>4. nxtuserid \notin Held(u) /\ nxtuserid # Members!nobody
        BY DEF MembersInv, Members!UseridsAreOfOne, Members!TypeOK, MembersTyped, Userids,
               Members!nobody, Held
    <2>5. nxtuserid \notin Held(u)'
        BY <2>4, <1>1, <1>5 DEF Held
    <2>. QED BY <2>1, <2>2, <2>3, <2>5, <1>1, UseridsMove
<1>16. Members!OnlyMembersHaveRoles'
    BY <1>1, <1>5 DEF MembersInv, Members!OnlyMembersHaveRoles, Members!Member
<1>17. Members!FormerMembersOwnNothing'
    <2>. SUFFICES ASSUME NEW id \in economy', id \notin replaced
                  PROVE  \E v \in Users :
                            \/ user'[v].userid = id /\ (Members!Member(v)' \/ v \in accepted' \union mixed')
                            \/ trucky_identity'[v].assigned_userid = id
        BY <1>1 DEF Members!FormerMembersOwnNothing
    <2>1. id \in economy /\ id # req[r].userid
        BY <1>1
    <2>2. PICK v \in Users : \/ user[v].userid = id /\ (Members!Member(v) \/ v \in accepted \union mixed)
                             \/ trucky_identity[v].assigned_userid = id
        BY <2>1 DEF MembersInv, Members!FormerMembersOwnNothing
    <2>3. CASE trucky_identity[v].assigned_userid = id
        BY <2>3, <1>1
    <2>4. CASE user[v].userid = id /\ (Members!Member(v) \/ v \in accepted \union mixed)
        <3>1. user'[v] = user[v]
            BY <2>1, <2>4, <1>5
        <3>. QED BY <2>4, <3>1, <1>1 DEF Members!Member
    <2>. QED BY <2>2, <2>3, <2>4
<1>. QED BY <1>7, <1>10, <1>12, <1>13, <1>14, <1>15, <1>16, <1>17 DEF MembersInv

\* A ban is of somebody who is no member, and a deletion is asked for by one who is
\* none.
LEMMA KeptByBanAndAsked ==
    ASSUME MembersConstants, MembersInv, NEW r \in Reqs,
           Members!WriteBan(r) \/ Members!WriteAsked(r)
    PROVE  MembersInv'
<1>. USE DEF MembersConstants
<1>0. req[r].pc \in {"ban", "ask"} /\ req[r].uid \in Users /\ req \in [Reqs -> MemberJobs]
    BY DEF Members!WriteBan, Members!WriteAsked, MembersInv, MembersTyped
<1>. PICK u \in Users : req[r].uid = u
    BY <1>0
<1>1. /\ req' = [req EXCEPT ![r] = Members!Idle]
      /\ \/ /\ banned' = banned \union {u}
            /\ UNCHANGED <<pending_user_deletion, asked>>
         \/ /\ pending_user_deletion' = [pending_user_deletion EXCEPT
                                            ![u] = [status |-> 1, expire |-> now + Grace]]
            /\ asked' = [asked EXCEPT ![u] = [at |-> now, logins |-> 0]]
            /\ UNCHANGED banned
      /\ UNCHANGED <<now, reqs, mixed, trucky_identity, added, user, nxtuserid, economy, history,
                     accepted, replaced>>
    BY DEF Members!WriteBan, Members!WriteAsked, Members!Same, Members!Done
<1>2. /\ pending_user_deletion \in [Users -> [status : {0, 1}, expire : Nat]]
      /\ asked \in [Users -> [at : Nat, logins : Nat]]
      /\ now \in Nat \ {0}
    BY DEF MembersInv, MembersTyped, Members!TypeOK
<1>3. [status |-> 1, expire |-> now + Grace] \in [status : {0, 1}, expire : Nat]
    BY <1>2
<1>4. [at |-> now, logins |-> 0] \in [at : Nat, logins : Nat]
    BY <1>2
<1>5. /\ pending_user_deletion' \in [Users -> [status : {0, 1}, expire : Nat]]
      /\ asked' \in [Users -> [at : Nat, logins : Nat]]
      /\ \A v \in Users \ {u} : /\ pending_user_deletion'[v] = pending_user_deletion[v]
                                /\ asked'[v] = asked[v]
      /\ \/ pending_user_deletion'[u] = pending_user_deletion[u] /\ asked'[u] = asked[u]
         \/ /\ pending_user_deletion'[u] = [status |-> 1, expire |-> now + Grace]
            /\ asked'[u] = [at |-> now, logins |-> 0]
    BY <1>1, <1>2, <1>3, <1>4
<1>6. u \notin mixed => WholeOf(u) /\ ~Members!Member(u)
    BY <1>0 DEF MembersInv, UsersAreWhole, AsRead, StillHolds
<1>7. Members!TypeOK'
    BY <1>1 DEF MembersInv, Members!TypeOK
<1>8. /\ req' \in [Reqs -> MemberJobs]
      /\ \A q \in Reqs : IF req'[q].pc = "idle" THEN req'[q].uid = 0 ELSE req'[q].uid \in Users
      /\ \A q \in Reqs \ {r} : req'[q] = req[q]
      /\ OverlapsAreMixed'
      /\ \A q \in Reqs \ {r} :
                (req'[q].pc # "idle" /\ req'[q].uid \notin mixed') => StillHolds(q)'
      /\ \A v \in Users \ ({u} \union mixed') : WholeOf(v)'
    <2>1. \A v \in Users \ {u} : v \in banned' <=> v \in banned
        BY <1>1
    <2>. QED BY <2>1, <1>1, <1>0, <1>5, OthersStay
<1>9. req'[r] = Members!Idle
    BY <1>1, <1>0
<1>10. MembersTyped' /\ IdentityRows'
    BY <1>1, <1>5, <1>8 DEF MembersInv, MembersTyped, IdentityRows
<1>11. Deadlines'
    <2>1. \A v \in Users \ {u} : Members!Pending(v)' =>
            /\ asked'[v].at # 0 /\ pending_user_deletion'[v].expire = asked'[v].at + Grace
            /\ asked'[v].logins = IF pending_user_deletion'[v].status = 1 THEN 0 ELSE 1
        BY <1>5 DEF MembersInv, Deadlines, Members!Pending
    <2>2. Members!Pending(u)' =>
            /\ asked'[u].at # 0 /\ pending_user_deletion'[u].expire = asked'[u].at + Grace
            /\ asked'[u].logins = IF pending_user_deletion'[u].status = 1 THEN 0 ELSE 1
        BY <1>2, <1>5 DEF MembersInv, Deadlines, Members!Pending
    <2>. QED BY <2>1, <2>2 DEF Deadlines
<1>12. AsRead'
    BY <1>8, <1>9 DEF AsRead, Members!Idle
<1>13. UsersAreWhole'
    <2>1. ASSUME u \notin mixed PROVE WholeOf(u)'
        <3>1. \A q \in Reqs : req[q].uid = u => q = r
            BY <2>1 DEF MembersInv, OverlapsAreMixed
        <3>2. Members!Member(u) => history[u] = user[u].roles
            BY <3>1, <2>1, <1>0, <1>6 DEF WholeOf
        <3>. QED BY <3>2, <2>1, <1>1, <1>6 DEF WholeOf, Members!Member, Members!Pending
    <2>. QED BY <2>1, <1>1, <1>8 DEF UsersAreWhole
<1>14. UseridsRead'
    BY <1>1, <1>8, <1>9 DEF MembersInv, UseridsRead, Held, Members!Idle, Members!TypeOK, Members!nobody
<1>15. /\ Members!UseridsAreOfOne' /\ Members!OnlyMembersHaveRoles'
       /\ Members!FormerMembersOwnNothing'
    BY <1>1 DEF MembersInv, Members!UseridsAreOfOne, Members!OnlyMembersHaveRoles,
                Members!FormerMembersOwnNothing, Members!Member
<1>. QED BY <1>7, <1>8, <1>10, <1>11, <1>12, <1>13, <1>14, <1>15 DEF MembersInv

\* Who is deleted by staff was no member; who is deleted by the loop was none either,
\* unless accepted since.
LEMMA KeptByDelete ==
    ASSUME MembersConstants, MembersInv, NEW r \in Reqs, Members!WriteDelete(r)
    PROVE  MembersInv'
<1>. USE DEF MembersConstants
<1>0. req[r].pc \in {"delete", "clear"} /\ req[r].uid \in Users /\ req \in [Reqs -> MemberJobs]
    BY DEF Members!WriteDelete, MembersInv, MembersTyped
<1>. PICK u \in Users : req[r].uid = u
    BY <1>0
<1>1. /\ user' = [user EXCEPT ![u].live = FALSE]
      /\ pending_user_deletion' = [pending_user_deletion EXCEPT ![u] = Members!NotPending]
      /\ req' = [req EXCEPT ![r] = Members!Idle]
      /\ UNCHANGED <<now, reqs, mixed, trucky_identity, added, nxtuserid, banned, economy, history,
                     accepted, replaced, asked>>
    BY DEF Members!WriteDelete, Members!Same, Members!Done
<1>2. user \in [Users -> [live : BOOLEAN, userid : Userids, roles : SUBSET Roles, steamid : BOOLEAN]]
    BY DEF MembersInv, Members!TypeOK, Userids
<1>3. /\ user' \in [Users -> [live : BOOLEAN, userid : Userids, roles : SUBSET Roles, steamid : BOOLEAN]]
      /\ \A v \in Users \ {u} : user'[v] = user[v]
      /\ user'[u].live = FALSE /\ user'[u].roles = user[u].roles
      /\ \A v \in Users : user'[v].userid = user[v].userid
    <2>. DEFINE dead == [user[u] EXCEPT !.live = FALSE]
    <2>1. /\ dead \in [live : BOOLEAN, userid : Userids, roles : SUBSET Roles, steamid : BOOLEAN]
          /\ dead.live = FALSE /\ dead.roles = user[u].roles /\ dead.userid = user[u].userid
        BY <1>2
    <2>2. user' = [user EXCEPT ![u] = dead]
        BY <1>1
    <2>. HIDE DEF dead
    <2>. QED BY <1>2, <2>1, <2>2
<1>4. /\ pending_user_deletion' \in [Users -> [status : {0, 1}, expire : Nat]]
      /\ \A v \in Users \ {u} : pending_user_deletion'[v] = pending_user_deletion[v]
      /\ pending_user_deletion'[u].expire = 0
    BY <1>1 DEF MembersInv, MembersTyped, Members!NotPending
<1>5. u \notin mixed => WholeOf(u) /\ (~Members!Member(u) \/ u \in accepted)
    BY <1>0 DEF MembersInv, UsersAreWhole, AsRead, StillHolds
<1>6. Members!TypeOK'
    BY <1>1, <1>3 DEF MembersInv, Members!TypeOK, Userids
<1>7. /\ req' \in [Reqs -> MemberJobs]
      /\ \A q \in Reqs : IF req'[q].pc = "idle" THEN req'[q].uid = 0 ELSE req'[q].uid \in Users
      /\ \A q \in Reqs \ {r} : req'[q] = req[q]
      /\ OverlapsAreMixed'
      /\ \A q \in Reqs \ {r} :
                (req'[q].pc # "idle" /\ req'[q].uid \notin mixed') => StillHolds(q)'
      /\ \A v \in Users \ ({u} \union mixed') : WholeOf(v)'
    BY <1>1, <1>0, <1>3, <1>4, OthersStay
<1>8. req'[r] = Members!Idle
    BY <1>1, <1>0
<1>9. MembersTyped' /\ IdentityRows' /\ Deadlines'
    BY <1>1, <1>4, <1>7 DEF MembersInv, MembersTyped, IdentityRows, Deadlines, Members!Pending
<1>10. AsRead'
    BY <1>7, <1>8 DEF AsRead, Members!Idle
<1>11. UsersAreWhole'
    <2>1. ASSUME u \notin mixed PROVE WholeOf(u)'
        <3>1. \A q \in Reqs : req[q].uid = u => q = r
            BY <2>1 DEF MembersInv, OverlapsAreMixed
        <3>2. Members!Member(u) => history[u] = user[u].roles
            BY <3>1, <2>1, <1>0, <1>5 DEF WholeOf
        <3>. QED BY <3>2, <2>1, <1>1, <1>2, <1>3, <1>4, <1>5 DEF WholeOf, Members!Member, Members!Pending
    <2>. QED BY <2>1, <1>1, <1>7 DEF UsersAreWhole
<1>12. UseridsRead' /\ Members!UseridsAreOfOne'
    <2>1. \A v \in Users : Held(v)' = Held(v)
        BY <1>1, <1>3 DEF Held
    <2>2. UseridsRead'
        BY <2>1, <1>1, <1>7, <1>8 DEF MembersInv, UseridsRead, Members!Idle, Members!TypeOK, Members!nobody
    <2>. QED BY <2>2, <1>1, <1>3 DEF MembersInv, Members!UseridsAreOfOne
<1>13. Members!OnlyMembersHaveRoles'
    BY <1>3 DEF MembersInv, Members!OnlyMembersHaveRoles, Members!Member
<1>14. Members!FormerMembersOwnNothing'
    <2>. SUFFICES ASSUME NEW id \in economy, id \notin replaced
                  PROVE  \E v \in Users :
                            \/ user'[v].userid = id /\ (Members!Member(v)' \/ v \in accepted' \union mixed')
                            \/ trucky_identity'[v].assigned_userid = id
        BY <1>1 DEF Members!FormerMembersOwnNothing
    <2>1. PICK v \in Users : \/ user[v].userid = id /\ (Members!Member(v) \/ v \in accepted \union mixed)
                             \/ trucky_identity[v].assigned_userid = id
        BY DEF MembersInv, Members!FormerMembersOwnNothing
    <2>2. \/ user'[v].userid = id /\ (Members!Member(v)' \/ v \in accepted' \union mixed')
          \/ trucky_identity'[v].assigned_userid = id
        BY <2>1, <1>1, <1>3, <1>5 DEF Members!Member
    <2>. QED BY <2>2
<1>. QED BY <1>6, <1>7, <1>9, <1>10, <1>11, <1>12, <1>13, <1>14 DEF MembersInv

\* A request that is cut off is noted.
LEMMA KeptByCut ==
    ASSUME MembersConstants, MembersInv, NEW r \in Reqs, Members!Cut(r)
    PROVE  MembersInv'
<1>. USE DEF MembersConstants
<1>0. req[r].uid \in Users /\ req \in [Reqs -> MemberJobs]
    BY DEF Members!Cut, MembersInv, MembersTyped
<1>. PICK u \in Users : req[r].uid = u
    BY <1>0
<1>1. /\ req' = [req EXCEPT ![r] = Members!Idle] /\ mixed' = mixed \union {u}
      /\ UNCHANGED <<now, reqs, trucky_identity, added, user, nxtuserid, banned,
                     pending_user_deletion, economy, history, accepted, replaced, asked>>
    BY DEF Members!Cut, Members!Done
<1>2. /\ req' \in [Reqs -> MemberJobs]
      /\ \A q \in Reqs : IF req'[q].pc = "idle" THEN req'[q].uid = 0 ELSE req'[q].uid \in Users
      /\ \A q \in Reqs \ {r} : req'[q] = req[q]
      /\ OverlapsAreMixed'
      /\ \A q \in Reqs \ {r} :
                (req'[q].pc # "idle" /\ req'[q].uid \notin mixed') => StillHolds(q)'
      /\ \A v \in Users \ ({u} \union mixed') : WholeOf(v)'
    BY <1>1, <1>0, OthersStay
<1>3. req'[r] = Members!Idle
    BY <1>1, <1>0
<1>4. Members!TypeOK'
    BY <1>1 DEF MembersInv, Members!TypeOK
<1>5. MembersTyped' /\ IdentityRows' /\ Deadlines'
    BY <1>1, <1>2 DEF MembersInv, MembersTyped, IdentityRows, Deadlines, Members!Pending
<1>6. AsRead' /\ UsersAreWhole'
    BY <1>1, <1>2, <1>3 DEF AsRead, UsersAreWhole, Members!Idle
<1>7. UseridsRead'
    BY <1>1, <1>2, <1>3 DEF MembersInv, UseridsRead, Held, Members!Idle, Members!TypeOK, Members!nobody
<1>8. /\ Members!UseridsAreOfOne' /\ Members!OnlyMembersHaveRoles'
      /\ Members!FormerMembersOwnNothing'
    BY <1>1 DEF MembersInv, Members!UseridsAreOfOne, Members!OnlyMembersHaveRoles,
                Members!FormerMembersOwnNothing, Members!Member
<1>. QED BY <1>2, <1>4, <1>5, <1>6, <1>7, <1>8 DEF MembersInv

\* What changes a user without a request notes it if a request of the user is under
\* way, and the rest stays as read.
LEMMA RequestsStay ==
    ASSUME MembersConstants, MembersInv, NEW u \in Users, req' = req, mixed \subseteq mixed',
           (\E r \in Reqs : req[r].uid = u) => u \in mixed', UNCHANGED <<now, accepted, banned>>,
           \A v \in Users \ {u} :
                /\ user'[v] = user[v] /\ history'[v] = history[v] /\ asked'[v] = asked[v]
                /\ pending_user_deletion'[v] = pending_user_deletion[v]
    PROVE  /\ OverlapsAreMixed' /\ AsRead'
           /\ \A v \in Users \ ({u} \union mixed') : WholeOf(v)'
<1>1. OverlapsAreMixed'
    BY DEF MembersInv, OverlapsAreMixed
<1>2. AsRead'
    <2>. SUFFICES ASSUME NEW q \in Reqs, req'[q].pc # "idle", req'[q].uid \notin mixed'
                  PROVE  StillHolds(q)'
        BY DEF AsRead
    <2>1. req'[q] = req[q] /\ StillHolds(q) /\ req[q].uid \in Users \ {u}
        BY DEF MembersInv, AsRead, MembersTyped
    <2>. QED BY <2>1 DEF StillHolds, Members!Member
<1>3. ASSUME NEW v \in Users \ ({u} \union mixed') PROVE WholeOf(v)'
    <2>1. WholeOf(v)
        BY DEF MembersInv, UsersAreWhole
    <2>. QED BY <2>1 DEF WholeOf, Members!Member, Members!Pending
<1>. QED BY <1>1, <1>2, <1>3

\* The first login of a pending deletion is remembered, the second one ends it.
LEMMA KeptByLogin ==
    ASSUME MembersConstants, MembersInv, NEW u \in Users, Members!login(u)
    PROVE  MembersInv'
<1>. USE DEF MembersConstants
<1>1. /\ Members!Pending(u)
      /\ pending_user_deletion' =
            [pending_user_deletion EXCEPT ![u] = Members!AfterLogin(pending_user_deletion[u])]
      /\ asked' = [asked EXCEPT ![u].logins = @ + 1]
      /\ mixed' = IF \E r \in Reqs : req[r].uid = u THEN mixed \union {u} ELSE mixed
      /\ UNCHANGED <<user, nxtuserid, banned, economy, now, req, reqs, history, accepted, replaced,
                     trucky_identity, added>>
    BY DEF Members!login
<1>2. pending_user_deletion[u] \in [status : {0, 1}, expire : Nat]
    BY DEF MembersInv, MembersTyped
<1>. DEFINE row == Members!AfterLogin(pending_user_deletion[u])
<1>3. /\ pending_user_deletion' \in [Users -> [status : {0, 1}, expire : Nat]]
      /\ \A v \in Users \ {u} : pending_user_deletion'[v] = pending_user_deletion[v]
      /\ IF pending_user_deletion[u].status = 1
         THEN /\ pending_user_deletion'[u].status = 0
              /\ pending_user_deletion'[u].expire = pending_user_deletion[u].expire
         ELSE pending_user_deletion'[u].expire = 0
    <2>1. /\ row \in [status : {0, 1}, expire : Nat]
          /\ IF pending_user_deletion[u].status = 1
             THEN row.status = 0 /\ row.expire = pending_user_deletion[u].expire
             ELSE row.expire = 0
        BY <1>2 DEF Members!AfterLogin, Members!NotPending
    <2>2. pending_user_deletion' = [pending_user_deletion EXCEPT ![u] = row]
        BY <1>1
    <2>. HIDE DEF row
    <2>. QED BY <2>1, <2>2 DEF MembersInv, MembersTyped
<1>4. /\ asked' \in [Users -> [at : Nat, logins : Nat]]
      /\ \A v \in Users \ {u} : asked'[v] = asked[v]
      /\ asked'[u].at = asked[u].at /\ asked'[u].logins = asked[u].logins + 1
    <2>1. asked \in [Users -> [at : Nat, logins : Nat]]
        BY DEF MembersInv, MembersTyped
    <2>. DEFINE since == [asked[u] EXCEPT !.logins = asked[u].logins + 1]
    <2>2. /\ since \in [at : Nat, logins : Nat]
          /\ since.at = asked[u].at /\ since.logins = asked[u].logins + 1
        BY <2>1
    <2>3. asked' = [asked EXCEPT ![u] = since]
        BY <1>1
    <2>. HIDE DEF since
    <2>. QED BY <2>1, <2>2, <2>3
<1>5. /\ OverlapsAreMixed' /\ AsRead'
      /\ \A v \in Users \ ({u} \union mixed') : WholeOf(v)'
    BY <1>1, <1>3, <1>4, RequestsStay
<1>6. Members!TypeOK'
    BY <1>1 DEF MembersInv, Members!TypeOK
<1>7. MembersTyped' /\ IdentityRows' /\ UseridsRead'
    BY <1>1, <1>3, <1>4 DEF MembersInv, MembersTyped, IdentityRows, UseridsRead, Held
<1>8. Deadlines'
    <2>1. \A v \in Users \ {u} : Members!Pending(v)' =>
            /\ asked'[v].at # 0 /\ pending_user_deletion'[v].expire = asked'[v].at + Grace
            /\ asked'[v].logins = IF pending_user_deletion'[v].status = 1 THEN 0 ELSE 1
        BY <1>3, <1>4 DEF MembersInv, Deadlines, Members!Pending
    <2>2. Members!Pending(u)' =>
            /\ asked'[u].at # 0 /\ pending_user_deletion'[u].expire = asked'[u].at + Grace
            /\ asked'[u].logins = IF pending_user_deletion'[u].status = 1 THEN 0 ELSE 1
        BY <1>1, <1>3, <1>4 DEF MembersInv, Deadlines, Members!Pending
    <2>. QED BY <2>1, <2>2 DEF Deadlines
<1>9. UsersAreWhole'
    <2>1. ASSUME u \notin mixed' PROVE WholeOf(u)'
        <3>1. WholeOf(u)
            BY <2>1, <1>1 DEF MembersInv, UsersAreWhole
        <3>. QED BY <3>1, <1>1 DEF WholeOf, Members!Member, Members!Pending
    <2>. QED BY <2>1, <1>5 DEF UsersAreWhole
<1>10. /\ Members!UseridsAreOfOne' /\ Members!OnlyMembersHaveRoles'
       /\ Members!FormerMembersOwnNothing'
    BY <1>1 DEF MembersInv, Members!UseridsAreOfOne, Members!OnlyMembersHaveRoles,
                Members!FormerMembersOwnNothing, Members!Member
<1>. QED BY <1>5, <1>6, <1>7, <1>8, <1>9, <1>10 DEF MembersInv

\* Lifting a ban, the economy and the clock do not disturb what was read.
LEMMA KeptByTheRest ==
    ASSUME MembersConstants, MembersInv,
           \/ \E u \in Users : Members!delete_ban(u) \/ Members!Earn(u)
           \/ Members!Tick
    PROVE  MembersInv'
<1>. USE DEF MembersConstants
<1>1. /\ banned' \subseteq banned
      /\ UNCHANGED <<user, nxtuserid, pending_user_deletion, req, reqs, history, mixed, accepted,
                     replaced, asked, trucky_identity, added>>
    BY DEF Members!delete_ban, Members!Earn, Members!Tick
<1>0. now \in 1..MaxTime /\ now' \in 1..MaxTime /\ now' >= now
    BY DEF Members!delete_ban, Members!Earn, Members!Tick, MembersInv, Members!TypeOK
<1>9. \A id \in economy' : id \in economy \/ \E u \in Users : Members!Member(u) /\ id = user[u].userid
    BY DEF Members!delete_ban, Members!Earn, Members!Tick
<1>2. Members!TypeOK'
    <2>1. \A u \in Users : Members!Member(u) => user[u].userid \in 0..MaxUserid
        BY DEF MembersInv, Members!TypeOK, Members!Member, Members!nobody
    <2>2. economy \subseteq 0..MaxUserid
        BY DEF MembersInv, Members!TypeOK
    <2>3. economy' \subseteq 0..MaxUserid
        BY <2>1, <2>2, <1>9
    <2>. QED BY <2>3, <1>0, <1>1 DEF MembersInv, Members!TypeOK
<1>3. MembersTyped' /\ IdentityRows' /\ UseridsRead' /\ OverlapsAreMixed'
    BY <1>1 DEF MembersInv, MembersTyped, IdentityRows, UseridsRead, OverlapsAreMixed, Held
<1>4. Deadlines'
    BY <1>1 DEF MembersInv, Deadlines, Members!Pending
<1>5. AsRead'
    <2>. SUFFICES ASSUME NEW q \in Reqs, req[q].pc # "idle", req[q].uid \notin mixed
                  PROVE  StillHolds(q)'
        BY <1>1 DEF AsRead
    <2>1. StillHolds(q) /\ req[q].uid \in Users
        BY DEF MembersInv, AsRead, MembersTyped
    <2>2. asked \in [Users -> [at : Nat, logins : Nat]]
        BY DEF MembersInv, MembersTyped
    <2>3. \A t \in Nat : now > t + Grace => now' > t + Grace
        BY <1>0
    <2>4. asked[req[q].uid].at \in Nat
        BY <2>1, <2>2
    <2>. QED BY <2>1, <2>3, <2>4, <1>1 DEF StillHolds, Members!Member
<1>6. UsersAreWhole'
    BY <1>1 DEF MembersInv, UsersAreWhole, WholeOf, Members!Member, Members!Pending
<1>7. Members!UseridsAreOfOne' /\ Members!OnlyMembersHaveRoles'
    BY <1>1 DEF MembersInv, Members!UseridsAreOfOne, Members!OnlyMembersHaveRoles, Members!Member
<1>8. Members!FormerMembersOwnNothing'
    <2>1. \A v \in Users : Members!Member(v)' = Members!Member(v)
        BY <1>1 DEF Members!Member
    <2>2. Members!FormerMembersOwnNothing
        BY DEF MembersInv
    <2>. QED BY <1>1, <1>9, <2>1, <2>2 DEF Members!FormerMembersOwnNothing
<1>. QED BY <1>2, <1>3, <1>4, <1>5, <1>6, <1>7, <1>8 DEF MembersInv

\* What the history of a membership is with the row of such a change; a new one starts
\* with it.
Told(u, updated) ==
    ((IF Members!Member(u) THEN history[u] ELSE {}) \ (user[u].roles \ updated))
        \union (updated \ user[u].roles)

\* What Trucky's transaction makes of a user: the userid is the one the row keeps, the
\* next one, or the present one, and what goes had come with Trucky.
SyncedTo(u, updated, managed, assigned) ==
    /\ user[u].roles \ updated \subseteq added[u]
    /\ managed \subseteq added[u] \union (updated \ user[u].roles)
    /\ assigned # Members!nobody /\ assigned < MaxUserid
    /\ assigned \in Held(u) \union {nxtuserid}
    /\ trucky_identity[u].row => assigned = trucky_identity[u].assigned_userid
    /\ trucky_identity'[u].row /\ trucky_identity'[u].assigned_userid = assigned
    /\ trucky_identity'[u].managed_roles = managed
    /\ trucky_identity' \in [Users -> [row : BOOLEAN, assigned_userid : Userids,
                                       managed_roles : SUBSET Roles, auto_admitted : BOOLEAN]]
    /\ \A v \in Users \ {u} : trucky_identity'[v] = trucky_identity[v]
    /\ user' \in [Users -> [live : BOOLEAN, userid : Userids, roles : SUBSET Roles, steamid : BOOLEAN]]
    /\ \A v \in Users \ {u} : user'[v] = user[v]
    /\ user[u].live /\ user'[u].live /\ user'[u].roles = updated
    /\ \/ ~Members!Member(u) /\ user'[u].userid = assigned
       \/ updated = {} /\ user'[u].userid = Members!nobody
       \/ user'[u].userid = user[u].userid /\ (~Members!Member(u) => updated \subseteq user[u].roles)
    /\ nxtuserid' = IF assigned = nxtuserid THEN nxtuserid + 1 ELSE nxtuserid
    /\ history' \in [Users -> SUBSET Roles] /\ \A v \in Users \ {u} : history'[v] = history[v]
    /\ user'[u].userid # Members!nobody => history'[u] = Told(u, updated)
    /\ added' = [added EXCEPT ![u] = @ \union (updated \ user[u].roles)]
    /\ replaced' = IF Members!Member(u) /\ user'[u].userid = Members!nobody
                      /\ user[u].userid # assigned
                   THEN replaced \union {user[u].userid} ELSE replaced

\* That is what the transaction does, whether Trucky has the user as a member or not.
LEMMA SyncOutcome ==
    ASSUME MembersConstants, MembersInv, NEW u \in Users, NEW desired \in Members!Desired,
           Members!sync_user(u, desired)
    PROVE  \E updated \in SUBSET Roles, managed \in SUBSET Roles, assigned \in Userids :
                SyncedTo(u, updated, managed, assigned)
<1>. DEFINE old == trucky_identity[u]
            member == desired # {}
            manual == user[u].roles \ old.managed_roles
            updated == manual \union desired
            admitted == member /\ ~Members!Member(u)
            assigned == IF old.row THEN old.assigned_userid
                        ELSE IF admitted THEN nxtuserid ELSE user[u].userid
            auto == old.auto_admitted \/ admitted
            managed == desired \ manual
            userid == IF admitted THEN assigned
                      ELSE IF ~member /\ auto /\ updated = {} THEN Members!nobody ELSE user[u].userid
            row == [row |-> TRUE, assigned_userid |-> assigned, managed_roles |-> managed, auto_admitted |-> auto]
            became == [user[u] EXCEPT !.roles = updated, !.userid = userid]
<1>. USE DEF MembersConstants
<1>1. /\ user[u].live /\ assigned < MaxUserid /\ (member \/ old.row)
      /\ user' = [user EXCEPT ![u].roles = updated, ![u].userid = userid]
      /\ nxtuserid' = IF assigned = nxtuserid THEN nxtuserid + 1 ELSE nxtuserid
      /\ trucky_identity' = [trucky_identity EXCEPT ![u] = row]
      /\ history' = [history EXCEPT ![u] = ((IF admitted THEN {} ELSE @) \ (user[u].roles \ updated))
                                                \union (updated \ user[u].roles)]
      /\ added' = [added EXCEPT ![u] = @ \union (updated \ user[u].roles)]
      /\ replaced' = IF Members!Member(u) /\ user'[u].userid = Members!nobody /\ user[u].userid # assigned
                     THEN replaced \union {user[u].userid} ELSE replaced
    BY DEF Members!sync_user, Members!Managed
<1>2. /\ user[u] \in [live : BOOLEAN, userid : Userids, roles : SUBSET Roles, steamid : BOOLEAN]
      /\ old \in [row : BOOLEAN, assigned_userid : Userids, managed_roles : SUBSET Roles, auto_admitted : BOOLEAN]
      /\ nxtuserid \in 1..MaxUserid
    BY DEF MembersInv, MembersTyped, Members!TypeOK, Userids
<1>3. /\ old.row <=> old.assigned_userid # Members!nobody
      /\ old.managed_roles \subseteq added[u]
    BY DEF MembersInv, IdentityRows
<1>4. updated \in SUBSET Roles /\ managed \in SUBSET Roles /\ auto \in BOOLEAN
    BY <1>2 DEF Members!Desired
<1>5. user[u].roles \ updated \subseteq added[u] /\ managed \subseteq added[u] \union (updated \ user[u].roles)
    BY <1>3
<1>6. assigned \in Userids /\ assigned # Members!nobody
    BY <1>1, <1>2, <1>3 DEF Members!Member, Members!nobody, Userids
<1>7. assigned \in Held(u) \union {nxtuserid}
    BY DEF Held
<1>8. row \in [row : BOOLEAN, assigned_userid : Userids, managed_roles : SUBSET Roles, auto_admitted : BOOLEAN]
    BY <1>4, <1>6
<1>9. userid \in Userids
    BY <1>2, <1>6 DEF Members!nobody, Userids
<1>10. /\ became \in [live : BOOLEAN, userid : Userids, roles : SUBSET Roles, steamid : BOOLEAN]
       /\ became.live = user[u].live /\ became.roles = updated /\ became.userid = userid
    BY <1>2, <1>4, <1>9
<1>11. \/ ~Members!Member(u) /\ userid = assigned
       \/ updated = {} /\ userid = Members!nobody
       \/ userid = user[u].userid /\ (~Members!Member(u) => updated \subseteq user[u].roles)
    BY <1>1
<1>12. user \in [Users -> [live : BOOLEAN, userid : Userids, roles : SUBSET Roles, steamid : BOOLEAN]]
    BY DEF MembersInv, Members!TypeOK, Userids
<1>13. trucky_identity \in [Users -> [row : BOOLEAN, assigned_userid : Userids,
                                      managed_roles : SUBSET Roles, auto_admitted : BOOLEAN]]
    BY DEF MembersInv, MembersTyped
<1>14. old.row => assigned = trucky_identity[u].assigned_userid
    OBVIOUS
<1>15. row.row /\ row.assigned_userid = assigned /\ row.managed_roles = managed
    OBVIOUS
<1>16. user' = [user EXCEPT ![u] = became]
    BY <1>1, <1>12
<1>21. history \in [Users -> SUBSET Roles]
    BY DEF MembersInv, MembersTyped
<1>22. admitted \/ userid = Members!nobody \/ Members!Member(u)
    BY <1>1 DEF Members!Member
<1>. DEFINE rows == ((IF admitted THEN {} ELSE history[u]) \ (user[u].roles \ updated))
                        \union (updated \ user[u].roles)
<1>23. rows \in SUBSET Roles /\ (userid # Members!nobody => rows = Told(u, updated))
    BY <1>2, <1>4, <1>21, <1>22 DEF Told
<1>24. history' = [history EXCEPT ![u] = rows]
    BY <1>1, <1>21
<1>. HIDE DEF rows, row, became, updated, userid, managed, assigned
<1>17. /\ user' \in [Users -> [live : BOOLEAN, userid : Userids, roles : SUBSET Roles, steamid : BOOLEAN]]
       /\ user'[u] = became /\ \A v \in Users \ {u} : user'[v] = user[v]
    BY <1>10, <1>12, <1>16
<1>18. /\ trucky_identity' \in [Users -> [row : BOOLEAN, assigned_userid : Userids,
                                          managed_roles : SUBSET Roles, auto_admitted : BOOLEAN]]
       /\ trucky_identity'[u] = row
       /\ \A v \in Users \ {u} : trucky_identity'[v] = trucky_identity[v]
    BY <1>1, <1>8, <1>13
<1>25. /\ history' \in [Users -> SUBSET Roles] /\ history'[u] = rows
       /\ \A v \in Users \ {u} : history'[v] = history[v]
    BY <1>21, <1>23, <1>24
<1>. HIDE DEF old, manual, member, admitted, auto
<1>19. trucky_identity[u].row => assigned = trucky_identity[u].assigned_userid
    BY <1>14 DEF old
<1>20. SyncedTo(u, updated, managed, assigned)
    BY <1>1, <1>5, <1>6, <1>7, <1>10, <1>11, <1>15, <1>17, <1>18, <1>19, <1>23, <1>25 DEF SyncedTo
<1>. QED BY <1>4, <1>6, <1>20

\* Trucky's transaction gives no userid that is another's, and is noted for the
\* requests of the same user.
LEMMA KeptBySync ==
    ASSUME MembersConstants, MembersInv, NEW u \in Users, NEW desired \in Members!Desired,
           Members!sync_user(u, desired)
    PROVE  MembersInv'
<1>. USE DEF MembersConstants
<1>1. PICK updated \in SUBSET Roles, managed \in SUBSET Roles, assigned \in Userids :
            SyncedTo(u, updated, managed, assigned)
    BY SyncOutcome
<1>2. /\ u \notin banned /\ ~Members!Pending(u) /\ reqs < MaxReqs /\ reqs' = reqs + 1
      /\ mixed' = IF \E r \in Reqs : req[r].uid = u THEN mixed \union {u} ELSE mixed
      /\ UNCHANGED <<banned, pending_user_deletion, economy, now, req, accepted, asked>>
    BY DEF Members!sync_user
<1>3. nxtuserid \in 1..MaxUserid /\ reqs \in 0..MaxReqs
    BY DEF MembersInv, Members!TypeOK
<1>4. Members!TypeOK'
    <2>1. nxtuserid' \in 1..MaxUserid /\ reqs' \in 0..MaxReqs
        BY <1>1, <1>2, <1>3 DEF SyncedTo
    <2>. QED BY <2>1, <1>1, <1>2 DEF SyncedTo, MembersInv, Members!TypeOK, Userids
<1>5. /\ history' \in [Users -> SUBSET Roles] /\ added' \in [Users -> SUBSET Roles]
      /\ user'[u].userid # Members!nobody => history'[u] = Told(u, updated)
      /\ added'[u] = added[u] \union (updated \ user[u].roles)
      /\ \A v \in Users \ {u} : history'[v] = history[v] /\ added'[v] = added[v]
    <2>1. added \in [Users -> SUBSET Roles]
        BY DEF MembersInv, MembersTyped
    <2>2. added' = [added EXCEPT ![u] = @ \union (updated \ user[u].roles)]
        BY <1>1 DEF SyncedTo
    <2>3. \A v \in Users : added'[v] = IF v = u THEN added[u] \union (updated \ user[u].roles) ELSE added[v]
        BY <2>1, <2>2
    <2>4. added' \in [Users -> SUBSET Roles]
        BY <2>1, <2>2
    <2>. QED BY <1>1, <2>3, <2>4 DEF SyncedTo
<1>6. MembersTyped'
    BY <1>1, <1>2, <1>5 DEF SyncedTo, MembersInv, MembersTyped
<1>7. IdentityRows'
    BY <1>1, <1>5 DEF SyncedTo, MembersInv, IdentityRows
<1>8. Deadlines'
    BY <1>2 DEF MembersInv, Deadlines, Members!Pending
<1>9. /\ OverlapsAreMixed' /\ AsRead'
      /\ \A v \in Users \ ({u} \union mixed') : WholeOf(v)'
    <2>1. \A v \in Users \ {u} : user'[v] = user[v]
        BY <1>1 DEF SyncedTo
    <2>. QED BY <2>1, <1>2, <1>5, RequestsStay
<1>10. UsersAreWhole'
    <2>1. ASSUME u \notin mixed' PROVE WholeOf(u)'
        <3>1. WholeOf(u) /\ \A q \in Reqs : req[q].uid # u
            BY <2>1, <1>2 DEF MembersInv, UsersAreWhole
        <3>2. Members!Member(u) => history[u] = user[u].roles
            BY <3>1 DEF WholeOf
        <3>3. user[u].live /\ user'[u].live /\ user'[u].roles = updated
            BY <1>1 DEF SyncedTo
        <3>4. ~Members!Member(u) => user[u].roles = {}
            BY <3>3 DEF MembersInv, Members!OnlyMembersHaveRoles
        <3>5. Told(u, updated) = updated
            BY <3>2, <3>4 DEF Told
        <3>6. Members!Member(u)' => history'[u] = user'[u].roles
            BY <3>3, <3>5, <1>5 DEF Members!Member
        <3>. QED BY <3>3, <3>6, <1>2 DEF WholeOf, Members!Member, Members!Pending
    <2>. QED BY <2>1, <1>9 DEF UsersAreWhole
<1>11. UseridsRead' /\ Members!UseridsAreOfOne'
    <2>1. Held(u)' \subseteq Held(u) \union {nxtuserid, Members!nobody}
        BY <1>1 DEF SyncedTo, Held
    <2>2. \A v \in Users \ {u} : Held(v)' = Held(v)
        BY <1>1 DEF SyncedTo, Held
    <2>3. nxtuserid \notin Held(u) /\ nxtuserid # Members!nobody
        BY DEF MembersInv, Members!UseridsAreOfOne, Members!TypeOK, MembersTyped, Userids,
               Members!nobody, Held
    <2>4. nxtuserid \in Held(u)' => nxtuserid' = nxtuserid + 1
        BY <2>3, <1>1 DEF SyncedTo, Held
    <2>5. nxtuserid' \in {nxtuserid, nxtuserid + 1}
        BY <1>1 DEF SyncedTo
    <2>. QED BY <2>1, <2>2, <2>4, <2>5, <1>2, UseridsMove
<1>12. Members!OnlyMembersHaveRoles'
    BY <1>1 DEF SyncedTo, MembersInv, Members!OnlyMembersHaveRoles, Members!Member
<1>13. Members!FormerMembersOwnNothing'
    <2>. SUFFICES ASSUME NEW id \in economy, id \notin replaced'
                  PROVE  \E v \in Users :
                            \/ user'[v].userid = id /\ (Members!Member(v)' \/ v \in accepted' \union mixed')
                            \/ trucky_identity'[v].assigned_userid = id
        BY <1>2 DEF Members!FormerMembersOwnNothing
    <2>1. replaced \subseteq replaced'
        BY <1>1 DEF SyncedTo
    <2>2. PICK v \in Users : \/ user[v].userid = id /\ (Members!Member(v) \/ v \in accepted \union mixed)
                             \/ trucky_identity[v].assigned_userid = id
        BY <2>1 DEF MembersInv, Members!FormerMembersOwnNothing
    <2>3. id # Members!nobody
        BY DEF MembersInv, Members!TypeOK, Members!nobody
    <2>4. CASE v # u
        BY <2>2, <2>4, <1>1, <1>2 DEF SyncedTo, Members!Member
    <2>5. CASE v = u
        <3>1. trucky_identity[u].assigned_userid = id => trucky_identity'[u].assigned_userid = id
            BY <2>3, <1>1 DEF SyncedTo, MembersInv, IdentityRows
        <3>2. user[u].userid = id => Members!Member(u)
            BY <2>3, <1>1 DEF SyncedTo, Members!Member
        <3>3. user[u].userid = id =>
                    \/ user'[u].userid = id
                    \/ trucky_identity'[u].assigned_userid = id
            BY <2>3, <3>2, <1>1 DEF SyncedTo
        <3>4. user'[u].userid = id => Members!Member(u)'
            BY <2>3, <1>1 DEF SyncedTo, Members!Member
        <3>. QED BY <2>2, <2>5, <3>1, <3>3, <3>4
    <2>. QED BY <2>4, <2>5
<1>. QED BY <1>4, <1>6, <1>7, <1>8, <1>9, <1>10, <1>11, <1>12, <1>13 DEF MembersInv

\* Every step keeps the invariant.
LEMMA MembersNext ==
    MembersConstants /\ MembersInv /\ [Members!Next]_Members!vars => MembersInv'
<1>. SUFFICES ASSUME MembersConstants, MembersInv, [Members!Next]_Members!vars PROVE MembersInv'
    OBVIOUS
<1>1. CASE UNCHANGED Members!vars
    BY <1>1 DEF Members!vars, MembersInv, Members!TypeOK, MembersTyped, IdentityRows, OverlapsAreMixed,
                UseridsRead, Deadlines, AsRead, UsersAreWhole, WholeOf, StillHolds, Held, Members!Member,
                Members!Pending, Members!UseridsAreOfOne, Members!OnlyMembersHaveRoles,
                Members!FormerMembersOwnNothing
<1>2. ASSUME NEW r \in Reqs, NEW u \in Users,
             \/ Members!post_accept(r, u) \/ Members!post_resign(r, u) \/ Members!put_ban(r, u)
             \/ Members!ClearOutdatedData(r, u)
      PROVE  MembersInv'
    <2>1. {} \in SUBSET Roles
        OBVIOUS
    <2>2. CASE Members!post_accept(r, u)
        BY <2>1, <2>2, MembersBegin DEF Members!post_accept
    <2>3. CASE Members!post_resign(r, u)
        BY <2>1, <2>3, MembersBegin DEF Members!post_resign
    <2>4. CASE Members!put_ban(r, u)
        BY <2>1, <2>4, MembersBegin DEF Members!put_ban
    <2>5. CASE Members!ClearOutdatedData(r, u)
        BY <2>1, <2>5, MembersBegin DEF Members!ClearOutdatedData
    <2>. QED BY <1>2, <2>2, <2>3, <2>4, <2>5
<1>3. ASSUME NEW r \in Reqs, NEW u \in Users, NEW staff \in BOOLEAN, Members!delete_user(r, u, staff)
      PROVE  MembersInv'
    <2>1. {} \in SUBSET Roles
        OBVIOUS
    <2>2. CASE staff
        BY <1>3, <2>1, <2>2, MembersBegin DEF Members!delete_user
    <2>3. CASE ~staff
        BY <1>3, <2>1, <2>3, MembersBegin DEF Members!delete_user
    <2>. QED BY <2>2, <2>3
<1>4. ASSUME NEW r \in Reqs, NEW u \in Users, NEW staff \in Users, Members!post_dismiss(r, staff, u)
      PROVE  MembersInv'
    <2>1. {} \in SUBSET Roles
        OBVIOUS
    <2>. QED BY <1>4, <2>1, MembersBegin DEF Members!post_dismiss
<1>5. ASSUME NEW r \in Reqs, NEW u \in Users, NEW staff \in Users, NEW roles \in SUBSET Roles,
             Members!patch_roles(r, staff, u, roles)
      PROVE  MembersInv'
    BY <1>5, MembersBegin DEF Members!patch_roles
<1>6. ASSUME NEW r \in Reqs,
             \/ Members!WriteAccept(r) \/ Members!WriteRoles(r) \/ Members!WriteHistory(r)
             \/ Members!WriteLeave(r) \/ Members!WriteBan(r) \/ Members!WriteAsked(r)
             \/ Members!WriteDelete(r) \/ Members!Cut(r)
      PROVE  MembersInv'
    BY <1>6, KeptByAccept, KeptByRoles, KeptByHistory, KeptByLeave, KeptByBanAndAsked, KeptByDelete,
       KeptByCut
<1>7. ASSUME NEW u \in Users, \/ Members!delete_ban(u) \/ Members!login(u) \/ Members!Earn(u)
                              \/ \E desired \in Members!Desired : Members!sync_user(u, desired)
      PROVE  MembersInv'
    BY <1>7, KeptByTheRest, KeptByLogin, KeptBySync
<1>8. CASE Members!Tick
    BY <1>8, KeptByTheRest
<1>. QED BY <1>1, <1>2, <1>3, <1>4, <1>5, <1>6, <1>7, <1>8 DEF Members!Next

\* A user and Trucky's row change by a write to them only.
LEMMA WhoWrites ==
    ASSUME Members!Next
    PROVE  \/ user' = user /\ trucky_identity' = trucky_identity
           \/ /\ trucky_identity' = trucky_identity
              /\ \E r \in Reqs : \/ Members!WriteRoles(r) \/ Members!WriteLeave(r)
                                 \/ Members!WriteAccept(r) \/ Members!WriteDelete(r)
           \/ \E u \in Users, desired \in Members!Desired : Members!sync_user(u, desired)
<1>. SUFFICES ASSUME ~ (user' = user /\ trucky_identity' = trucky_identity),
                     trucky_identity' = trucky_identity =>
                        \A r \in Reqs : /\ ~Members!WriteRoles(r) /\ ~Members!WriteLeave(r)
                                        /\ ~Members!WriteAccept(r) /\ ~Members!WriteDelete(r),
                     \A u \in Users, desired \in Members!Desired : ~Members!sync_user(u, desired)
              PROVE  FALSE
    OBVIOUS
<1>1. ASSUME NEW r \in Reqs, NEW u \in Users,
             \/ Members!post_accept(r, u) \/ Members!post_resign(r, u) \/ Members!put_ban(r, u)
             \/ Members!ClearOutdatedData(r, u)
      PROVE  FALSE
    BY <1>1 DEF Members!post_accept, Members!post_resign, Members!put_ban, Members!ClearOutdatedData,
                Members!Begin
<1>2. ASSUME NEW r \in Reqs, NEW u \in Users, NEW staff, Members!delete_user(r, u, staff)
      PROVE  FALSE
    BY <1>2 DEF Members!delete_user, Members!Begin
<1>7. ASSUME NEW r \in Reqs, NEW u \in Users, NEW staff, Members!post_dismiss(r, staff, u)
      PROVE  FALSE
    BY <1>7 DEF Members!post_dismiss, Members!Begin
<1>8. ASSUME NEW r \in Reqs, NEW u \in Users, NEW staff, NEW roles, Members!patch_roles(r, staff, u, roles)
      PROVE  FALSE
    BY <1>8 DEF Members!patch_roles, Members!Begin
<1>3. ASSUME NEW r \in Reqs, \/ Members!WriteAccept(r) \/ Members!WriteRoles(r)
                             \/ Members!WriteLeave(r) \/ Members!WriteDelete(r)
      PROVE  FALSE
    <2>1. CASE Members!WriteAccept(r)
        <3>1. trucky_identity' = trucky_identity
            BY <2>1, Zenon DEF Members!WriteAccept, Members!Same
        <3>. QED BY <2>1, <3>1
    <2>2. CASE Members!WriteRoles(r)
        <3>1. trucky_identity' = trucky_identity
            BY <2>2, Zenon DEF Members!WriteRoles, Members!Same
        <3>. QED BY <2>2, <3>1
    <2>3. CASE Members!WriteLeave(r)
        <3>1. trucky_identity' = trucky_identity
            BY <2>3, Zenon DEF Members!WriteLeave, Members!Same
        <3>. QED BY <2>3, <3>1
    <2>4. CASE Members!WriteDelete(r)
        <3>1. trucky_identity' = trucky_identity
            BY <2>4, Zenon DEF Members!WriteDelete, Members!Same
        <3>. QED BY <2>4, <3>1
    <2>. QED BY <1>3, <2>1, <2>2, <2>3, <2>4
<1>4. ASSUME NEW r \in Reqs, \/ Members!WriteHistory(r) \/ Members!WriteBan(r)
                             \/ Members!WriteAsked(r) \/ Members!Cut(r)
      PROVE  FALSE
    BY <1>4 DEF Members!WriteHistory, Members!WriteBan, Members!WriteAsked, Members!Cut, Members!Same
<1>5. ASSUME NEW u \in Users, \/ Members!delete_ban(u) \/ Members!login(u) \/ Members!Earn(u)
                              \/ \E desired \in Members!Desired : Members!sync_user(u, desired)
      PROVE  FALSE
    <2>1. CASE Members!delete_ban(u) \/ Members!login(u) \/ Members!Earn(u)
        BY <2>1 DEF Members!delete_ban, Members!login, Members!Earn
    <2>2. CASE \E desired \in Members!Desired : Members!sync_user(u, desired)
        BY <2>2
    <2>. QED BY <1>5, <2>1, <2>2
<1>6. ~Members!Tick
    BY DEF Members!Tick
<1>. QED BY <1>1, <1>2, <1>3, <1>4, <1>5, <1>6, <1>7, <1>8 DEF Members!Next

\* Who is deleted was deleted by a request, and what the loop's had read still holds.
LEMMA DeletionsAreAsked ==
    MembersConstants /\ MembersInv /\ [Members!Next]_Members!vars => [Members!DeletedAsAsked]_Members!vars
<1>. SUFFICES ASSUME MembersConstants, MembersInv, Members!Next, NEW u \in Users \ mixed,
                     user[u].live, ~user'[u].live
              PROVE  \/ \E r \in Reqs : req[r].pc = "delete" /\ req[r].uid = u
                     \/ asked[u].at # 0 /\ asked[u].logins < 2 /\ now > asked[u].at + Grace
    BY DEF Members!DeletedAsAsked
<1>1. user \in [Users -> [live : BOOLEAN, userid : Userids, roles : SUBSET Roles, steamid : BOOLEAN]]
    BY DEF MembersInv, Members!TypeOK, Userids
<1>2. \A r \in Reqs : Members!WriteDelete(r) => req[r].uid = u
    BY <1>1 DEF Members!WriteDelete
<1>3. ASSUME NEW r \in Reqs, Members!WriteDelete(r)
      PROVE  \/ req[r].pc = "delete" /\ req[r].uid = u
             \/ asked[u].at # 0 /\ asked[u].logins < 2 /\ now > asked[u].at + Grace
    <2>1. req[r].uid = u /\ req[r].pc \in {"delete", "clear"}
        BY <1>2, <1>3 DEF Members!WriteDelete
    <2>2. StillHolds(r)
        BY <2>1 DEF MembersInv, AsRead
    <2>. QED BY <2>1, <2>2 DEF StillHolds
<1>4. \A v \in Users, desired \in Members!Desired : ~Members!sync_user(v, desired)
    <2>. SUFFICES ASSUME NEW v \in Users, NEW desired \in Members!Desired, Members!sync_user(v, desired) PROVE FALSE
        OBVIOUS
    <2>1. \E updated \in SUBSET Roles, managed \in SUBSET Roles, assigned \in Userids :
                SyncedTo(v, updated, managed, assigned)
        BY SyncOutcome
    <2>. QED BY <2>1 DEF SyncedTo
<1>5. \A r \in Reqs : ~Members!WriteRoles(r)
    BY <1>1 DEF Members!WriteRoles
<1>6. ASSUME NEW r \in Reqs, Members!WriteLeave(r) PROVE FALSE
    <2>1. user'[u] \in {user[u], [user[u] EXCEPT !.userid = Members!nobody, !.roles = {}]}
        BY <1>6 DEF Members!WriteLeave
    <2>2. [user[u] EXCEPT !.userid = Members!nobody, !.roles = {}].live = user[u].live
        BY <1>1
    <2>. QED BY <2>1, <2>2
<1>7. ASSUME NEW r \in Reqs, Members!WriteAccept(r) PROVE FALSE
    <2>1. \E id : user' = [user EXCEPT ![req[r].uid].userid = id]
        BY <1>7 DEF Members!WriteAccept
    <2>. QED BY <2>1, <1>1
<1>8. user' # user
    OBVIOUS
<1>9. \E r \in Reqs : Members!WriteDelete(r)
    BY <1>4, <1>5, <1>6, <1>7, <1>8, WhoWrites
<1>. QED BY <1>3, <1>9

\* The rows of Trucky change in its transaction only, and what that takes away came
\* with Trucky.
LEMMA OnlySyncedRolesGo ==
    MembersConstants /\ MembersInv /\ [Members!Next]_Members!vars => [Members!ManualRolesStay]_Members!vars
<1>. SUFFICES ASSUME MembersConstants, MembersInv, Members!Next, NEW u \in Users,
                     trucky_identity'[u] # trucky_identity[u]
              PROVE  user[u].roles \ user'[u].roles \subseteq added[u]
    BY DEF Members!ManualRolesStay
<1>1. ASSUME NEW v \in Users, NEW desired \in Members!Desired, Members!sync_user(v, desired)
      PROVE  user[u].roles \ user'[u].roles \subseteq added[u]
    <2>1. \E updated \in SUBSET Roles, managed \in SUBSET Roles, assigned \in Userids :
                SyncedTo(v, updated, managed, assigned)
        BY <1>1, SyncOutcome
    <2>. QED BY <2>1 DEF SyncedTo
<1>2. trucky_identity' # trucky_identity
    OBVIOUS
<1>3. \E v \in Users, desired \in Members!Desired : Members!sync_user(v, desired)
    BY <1>2, WhoWrites
<1>. QED BY <1>1, <1>3

\* The variables have their types, userids in their range. (user/manage.py, member/manage.py.)
THEOREM MembersAreTyped ==
    MembersConstants => (Members!Spec => []Members!TypeOK)
<1>1. ASSUME MembersConstants PROVE Members!Init /\ [][Members!Next]_Members!vars => []Members!TypeOK
    <2>1. MembersInv /\ [Members!Next]_Members!vars => MembersInv'
        BY <1>1, MembersNext
    <2>2. Members!Init => MembersInv
        BY <1>1, MembersInit
    <2>3. MembersInv => Members!TypeOK
        BY DEF MembersInv
    <2>. QED BY <2>1, <2>2, <2>3, PTL
<1>. QED BY <1>1 DEF Members!Spec

\* A userid is of one user for good: accepts, dismissals and Trucky's transactions that
\* overlap in any order give each number once. (nxtuserid, which post_accept and
\* sync_user lock: user/manage.py, functions/trucky_identity.py.)
THEOREM UseridsOfOne ==
    MembersConstants => (Members!Spec => []Members!UseridsAreOfOne)
<1>1. ASSUME MembersConstants PROVE Members!Init /\ [][Members!Next]_Members!vars => []Members!UseridsAreOfOne
    <2>1. MembersInv /\ [Members!Next]_Members!vars => MembersInv'
        BY <1>1, MembersNext
    <2>2. Members!Init => MembersInv
        BY <1>1, MembersInit
    <2>3. MembersInv => Members!UseridsAreOfOne
        BY DEF MembersInv
    <2>. QED BY <2>1, <2>2, <2>3, PTL
<1>. QED BY <1>1 DEF Members!Spec

\* A write of roles that arrives after the member has left finds no row, as it looks for
\* the userid and not for the uid. (patch_roles and post_dismiss in member/manage.py.)
THEOREM NoMemberNoRoles ==
    MembersConstants => (Members!Spec => []Members!OnlyMembersHaveRoles)
<1>1. ASSUME MembersConstants PROVE Members!Init /\ [][Members!Next]_Members!vars => []Members!OnlyMembersHaveRoles
    <2>1. MembersInv /\ [Members!Next]_Members!vars => MembersInv'
        BY <1>1, MembersNext
    <2>2. Members!Init => MembersInv
        BY <1>1, MembersInit
    <2>3. MembersInv => Members!OnlyMembersHaveRoles
        BY DEF MembersInv
    <2>. QED BY <2>1, <2>2, <2>3, PTL
<1>. QED BY <1>1 DEF Members!Spec

\* What is written in several statements and commits is whole again when no request of
\* the user is under way: membership and bans, roles and the rows of their history since
\* the user last became a member, deletion and membership; but for users of whom two
\* requests overlapped or one was cut off. (patch_roles in member/manage.py writes roles
\* and row in two commits; leaving and accepting write no row.)
THEOREM WholeMembership ==
    MembersConstants => (Members!Spec => []Members!MembershipIsWhole)
<1>1. ASSUME MembersConstants PROVE Members!Init /\ [][Members!Next]_Members!vars => []Members!MembershipIsWhole
    <2>1. MembersInv /\ [Members!Next]_Members!vars => MembersInv'
        BY <1>1, MembersNext
    <2>2. Members!Init => MembersInv
        BY <1>1, MembersInit
    <2>3. MembersInv => Members!MembershipIsWhole
        BY DEF MembersInv, UsersAreWhole, WholeOf, Members!MembershipIsWhole
    <2>. QED BY <2>1, <2>2, <2>3, PTL
<1>. QED BY <1>1 DEF Members!Spec

\* What is left in the economy of a member who is gone comes from the listed ways of
\* losing a userid and from no others. (post_dismiss, post_resign, post_accept, sync_user.)
THEOREM NothingLeftBehind ==
    MembersConstants => (Members!Spec => []Members!FormerMembersOwnNothing)
<1>1. ASSUME MembersConstants PROVE Members!Init /\ [][Members!Next]_Members!vars => []Members!FormerMembersOwnNothing
    <2>1. MembersInv /\ [Members!Next]_Members!vars => MembersInv'
        BY <1>1, MembersNext
    <2>2. Members!Init => MembersInv
        BY <1>1, MembersInit
    <2>3. MembersInv => Members!FormerMembersOwnNothing
        BY DEF MembersInv
    <2>. QED BY <2>1, <2>2, <2>3, PTL
<1>. QED BY <1>1 DEF Members!Spec

\* The transaction of sync_user takes away only roles that it had once given.
THEOREM RolesByStaffStay ==
    MembersConstants => (Members!Spec => [][Members!ManualRolesStay]_Members!vars)
<1>1. ASSUME MembersConstants PROVE Members!Init /\ [][Members!Next]_Members!vars => [][Members!ManualRolesStay]_Members!vars
    <2>1. MembersInv /\ [Members!Next]_Members!vars => MembersInv'
        BY <1>1, MembersNext
    <2>2. Members!Init => MembersInv
        BY <1>1, MembersInit
    <2>3. MembersInv /\ [Members!Next]_Members!vars => [Members!ManualRolesStay]_Members!vars
        BY <1>1, OnlySyncedRolesGo
    <2>. QED BY <2>1, <2>2, <2>3, PTL
<1>. QED BY <1>1 DEF Members!Spec

\* The loop deletes nobody before the whole time has passed since they asked, nor after
\* a second login; but for users of whom two requests overlapped. (ClearOutdatedData
\* in threads.py, delete_user in user/manage.py, the logins in auth/generic.py.)
THEOREM DeletedAfterGrace ==
    MembersConstants => (Members!Spec => [][Members!DeletedAsAsked]_Members!vars)
<1>1. ASSUME MembersConstants PROVE Members!Init /\ [][Members!Next]_Members!vars => [][Members!DeletedAsAsked]_Members!vars
    <2>1. MembersInv /\ [Members!Next]_Members!vars => MembersInv'
        BY <1>1, MembersNext
    <2>2. Members!Init => MembersInv
        BY <1>1, MembersInit
    <2>3. MembersInv /\ [Members!Next]_Members!vars => [Members!DeletedAsAsked]_Members!vars
        BY <1>1, DeletionsAreAsked
    <2>. QED BY <2>1, <2>2, <2>3, PTL
<1>. QED BY <1>1 DEF Members!Spec

-----------------------------------------------------------------------------
(* Together: a behaviour is of one part, and keeps what that part keeps.   *)

AccountsInv ==
    /\ focus \in {"members", "connections", "emails", "notifications"}
    /\ focus = "members" => MembersInv
    /\ focus = "connections" => LinksInv
    /\ focus = "emails" => EmailsInv
    /\ focus = "notifications" => SettingsInv

\* Each part begins as it does alone.
LEMMA AccountsInit == Init => AccountsInv
<1>. SUFFICES ASSUME Init PROVE AccountsInv
    OBVIOUS
<1>. USE UserAccountsConstants
<1>1. CASE focus = "members" /\ Members!Init
    BY <1>1, MembersInit DEF AccountsInv
<1>2. CASE focus = "connections" /\ Connections!Init
    BY <1>2, LinksInit DEF AccountsInv
<1>3. CASE focus = "emails" /\ Emails!Init
    BY <1>3, EmailsInit DEF AccountsInv
<1>4. CASE focus = "notifications" /\ Notifications!Init
    BY <1>4, SettingsInit DEF AccountsInv
<1>. QED BY <1>1, <1>2, <1>3, <1>4 DEF Init

\* A step of the whole is one of the part the behaviour is of, or changes nothing in it.
LEMMA StepsOfAPart ==
    ASSUME [Next]_vars
    PROVE  /\ focus' = focus
           /\ focus = "members" => [Members!Next]_Members!vars
           /\ focus = "connections" => [Connections!Next]_Connections!vars
           /\ focus = "emails" => [Emails!Next]_Emails!vars
           /\ focus = "notifications" => [Notifications!Next]_Notifications!vars
<1>1. CASE MembersOnly /\ Members!Next
    BY <1>1 DEF MembersOnly
<1>2. CASE ConnectionsOnly /\ Connections!Next
    BY <1>2 DEF ConnectionsOnly
<1>3. CASE EmailsOnly /\ Emails!Next
    BY <1>3 DEF EmailsOnly
<1>4. CASE NotificationsOnly /\ Notifications!Next
    BY <1>4 DEF NotificationsOnly
<1>5. CASE UNCHANGED vars
    BY <1>5 DEF vars, membersVars, connectionsVars, emailsVars, notificationsVars,
                Members!vars, Connections!vars, Emails!vars, Notifications!vars
<1>. QED BY <1>1, <1>2, <1>3, <1>4, <1>5 DEF Next

\* Every step of every part keeps the invariant of that part.
LEMMA AccountsNext == AccountsInv /\ [Next]_vars => AccountsInv'
<1>. SUFFICES ASSUME AccountsInv, [Next]_vars PROVE AccountsInv'
    OBVIOUS
<1>. USE UserAccountsConstants
<1>1. focus' = focus /\ focus \in {"members", "connections", "emails", "notifications"}
    BY StepsOfAPart DEF AccountsInv
<1>2. focus = "members" => MembersInv'
    BY StepsOfAPart, MembersNext DEF AccountsInv
<1>3. focus = "connections" => LinksInv'
    BY StepsOfAPart, LinksNext DEF AccountsInv
<1>4. focus = "emails" => EmailsInv'
    BY StepsOfAPart, EmailsNext DEF AccountsInv
<1>5. focus = "notifications" => SettingsInv'
    BY StepsOfAPart, SettingsNext DEF AccountsInv
<1>. QED BY <1>1, <1>2, <1>3, <1>4, <1>5 DEF AccountsInv

\* What is kept of users has its types, in every part and however requests overlap.
THEOREM AccountsAreTyped == Spec => []AllTyped
<1>1. AccountsInv => AllTyped
    BY UserAccountsConstants
       DEF AccountsInv, AllTyped, MembersInv, EmailsInv, SettingsInv,
           LinksInv, LinksTyped, OneLooksUp, Links, Connections!TypeOK, ConnectionsConstants
<1>. QED BY <1>1, AccountsInit, AccountsNext, PTL DEF Spec

\* A userid and an account of another service are one user's, by locks and by unique
\* indexes; and so is an address, by look-ups that overlapping requests can defeat, among
\* those that neither Discord told nor staff wrote. (user/manage.py, trucky_identity.py,
\* user/connections.py, auth/generic.py.)
THEOREM IdentitiesOfOne == Spec => []IdentitiesAreOfOne
<1>1. AccountsInv => IdentitiesAreOfOne
    BY DEF AccountsInv, IdentitiesAreOfOne, MembersInv, LinksInv, EmailsInv
<1>. QED BY <1>1, AccountsInit, AccountsNext, PTL DEF Spec

\* Membership, bans, the economy, and roles with their history since the user last became
\* a member, agree when nothing of the user is under way, although they are written in
\* several statements and commits.
\* (user/manage.py, member/manage.py, member/userop.py, trucky_identity.py.)
THEOREM MembersAreWhole == Spec => []MembershipIsWhole
<1>1. AccountsInv => MembershipIsWhole
    BY DEF AccountsInv, MembershipIsWhole, MembersInv, UsersAreWhole, WholeOf, Members!MembershipIsWhole
<1>. QED BY <1>1, AccountsInit, AccountsNext, PTL DEF Spec

\* The text of the settings and the channel for direct messages are what the requests
\* that wrote them asked for, whatever Discord refuses and users connect in between,
\* unless requests of the user overlapped or one was cut off. Whether the user is then
\* told is not claimed. (user/notification.py, functions/notification.py:96-126.)
THEOREM SettingsStay == Spec => []SettingsAreKept
<1>1. AccountsInv => SettingsAreKept
    BY DEF AccountsInv, SettingsAreKept, SettingsInv, TextFollows, Fit, ChannelFollows,
           EnablesMessages, Notifications!SettingsAreAsAsked, Notifications!Splits
<1>. QED BY <1>1, AccountsInit, AccountsNext, PTL DEF Spec

\* No step of a loop deletes a user who came back or confirmed in time, unless staff have
\* written back that the address is to be confirmed, and none of Trucky's transaction
\* takes roles that did not come with it. (ClearOutdatedData in threads.py, sync_user in
\* trucky_identity.py.)
THEOREM NobodyLosesInPassing == Spec => NothingIsTakenInPassing
<1>1. AccountsInv /\ [Next]_vars => [NothingTaken]_vars
    <2>. SUFFICES ASSUME AccountsInv, [Next]_vars PROVE NothingTaken
        OBVIOUS
    <2>. USE UserAccountsConstants
    <2>1. ASSUME focus = "members" PROVE Members!DeletedAsAsked /\ Members!ManualRolesStay
        <3>1. MembersInv /\ [Members!Next]_Members!vars
            BY <2>1, StepsOfAPart DEF AccountsInv
        <3>2. CASE UNCHANGED Members!vars
            BY <3>2 DEF Members!vars, Members!DeletedAsAsked, Members!ManualRolesStay
        <3>3. CASE ~ UNCHANGED Members!vars
            BY <3>1, <3>3, DeletionsAreAsked, OnlySyncedRolesGo
        <3>. QED BY <3>2, <3>3
    <2>2. ASSUME focus = "emails" PROVE Emails!ConfirmedUsersStay
        <3>1. EmailsInv /\ [Emails!Next]_Emails!vars
            BY <2>2, StepsOfAPart DEF AccountsInv
        <3>. QED BY <3>1, OnlyTheLateAreDeleted
    <2>. QED BY <2>1, <2>2 DEF NothingTaken
<1>. QED BY <1>1, AccountsInit, AccountsNext, PTL DEF Spec, NothingIsTakenInPassing
=============================================================================
