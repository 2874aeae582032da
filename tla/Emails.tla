------------------------------- MODULE Emails -------------------------------
(***************************************************************************)
(* Addresses and passwords: registration by email, confirmation of an      *)
(* address, reset and change of a password, the addresses that Discord     *)
(* tells and staff write, and the loop that deletes who has not confirmed  *)
(* within a day. No index keeps two users from having one address.         *)
(*                                                                         *)
(* A secret is the number of the request that made it, and whoever has it  *)
(* got the mail. A mail that could not be sent may have arrived all the    *)
(* same. Of a password there is only that it exists.                       *)
(***************************************************************************)
EXTENDS Integers, FiniteSetsExt

CONSTANTS
    Reqs, Uids,
    Connected,   \* users who came by Discord or Steam and have no address yet
    Joined,      \* users who are members
    Addresses,   \* positive numbers
    sync_discord_email,    \* whether Discord's address replaces one that is there
    Long, Short, \* a day, and an hour
    MaxReqs, MaxTime       \* bounds

VARIABLES
    user,        \* by uid, [email, since]
    email_confirmation,  \* a set of [uid, secret, op, email, expire]
    user_password,       \* a set of [uid, email]
    clearing,    \* the users that the loop has read and will delete
    now,
    req, reqs,
    given,       \* history: users whose address Discord told or staff wrote
    confirmed,   \* history: by uid, when the address was confirmed, 0 if never or if
                 \* staff have written back that it is to be confirmed
    mixed        \* history: addresses for which requests overlapped

vars == <<user, email_confirmation, user_password, clearing, now, req, reqs, given, confirmed, mixed>>

\* Values of the column: the address, none, the word for an address that is to be
\* confirmed; and that there is no such user any more, or not yet.
none == 0
pending == -1
gone == -2
Unused == {u \in Uids : user[u].since = 0}
Live == {u \in Uids : user[u].email # gone}
NoRow == [uid |-> 0, secret |-> 0, op |-> "none", email |-> none, expire |-> 0]
Idle == [pc |-> "idle", uid |-> 0, row |-> NoRow]

Init ==
    /\ user = [u \in Uids |-> IF u \in Connected THEN [email |-> none, since |-> 1] ELSE [email |-> gone, since |-> 0]]
    /\ email_confirmation = {} /\ user_password = {} /\ clearing = {}
    /\ now = 1
    /\ req = [r \in Reqs |-> Idle] /\ reqs = 0
    /\ given = {} /\ confirmed = [u \in Uids |-> 0] /\ mixed = {}

-----------------------------------------------------------------------------
Enter(r, job) ==
    /\ reqs < MaxReqs /\ req[r] = Idle
    /\ reqs' = reqs + 1
    /\ req' = [req EXCEPT ![r] = job]
    /\ UNCHANGED <<clearing, now, given, confirmed>>
Begin(r, job) ==
    /\ Enter(r, job)
    /\ mixed' = IF \E q \in Reqs : req[q].row.email = job.row.email THEN mixed \union {job.row.email} ELSE mixed
Row(u, op, e, expire) == [uid |-> u, secret |-> reqs + 1, op |-> op, email |-> e, expire |-> expire]
Job(pc, row) == [pc |-> pc, uid |-> row.uid, row |-> row]
Others(u, e) == {v \in Uids \ {u} : user[v].email = e}
Unexpired == {c \in email_confirmation : c.expire >= now}

\* A row for the same address stands in the way even after its time.
post_register(r, e) ==
    /\ Others(0, e) = {} /\ \A c \in email_confirmation : ~ (c.op = "register" /\ c.email = e)
    /\ Unused # {}
    /\ Begin(r, Job("user", Row(0, "register", e, 0)))
    /\ UNCHANGED <<user, email_confirmation, user_password>>

RegisterUser(r) ==
    LET u == Min(Unused) IN
    /\ req[r].pc = "user" /\ Unused # {}
    /\ user' = [user EXCEPT ![u] = [email |-> pending, since |-> now]]
    /\ req' = [req EXCEPT ![r].pc = "row", ![r].uid = u]
    /\ UNCHANGED <<email_confirmation, user_password, clearing, now, reqs, given, confirmed, mixed>>

RegisterRow(r) ==
    LET row == [req[r].row EXCEPT !.uid = req[r].uid, !.expire = now + Long] IN
    /\ req[r].pc = "row"
    /\ user_password' = {p \in user_password : p.email # row.email} \union {[uid |-> row.uid, email |-> row.email]}
    /\ email_confirmation' = Unexpired \union {row}
    /\ req' = [req EXCEPT ![r] = Job("mail", row)]
    /\ UNCHANGED <<user, clearing, now, reqs, given, confirmed, mixed>>

post_reset(r, e) ==
    \E u \in Others(0, e) :
        LET row == Row(u, "reset-password", e, now + Short) IN
        /\ Begin(r, Job("mail", row))
        /\ email_confirmation' = Unexpired \union {row}
        /\ UNCHANGED <<user, user_password>>

patch_email(r, u, e) ==
    LET row == Row(u, "update-email", e, now + Short) IN
    /\ u \in Live /\ Others(u, e) = {}
    /\ Begin(r, Job("mail", row))
    /\ email_confirmation' = {c \in Unexpired : ~ (c.uid = u /\ c.op = "update-email")} \union {row}
    /\ UNCHANGED <<user, user_password>>

\* The new row ends when the old one does.
post_resend_confirmation(r, u) ==
    \E old \in email_confirmation :
        LET row == Row(u, "register", old.email, old.expire) IN
        /\ u \in Live /\ old.uid = u /\ old.op = "register"
        /\ Begin(r, Job("mail", row))
        /\ email_confirmation' = {row} \union
            {c \in Unexpired : ~ (c.uid = u /\ c.op \in {"register", "update-email"})}
        /\ UNCHANGED <<user, user_password>>

SendMail(r, ok) ==
    /\ req[r].pc = "mail"
    /\ email_confirmation' = IF ok THEN email_confirmation
                             ELSE {c \in email_confirmation : c.secret # req[r].row.secret}
    /\ req' = [req EXCEPT ![r] = Idle]
    /\ UNCHANGED <<user, user_password, clearing, now, reqs, given, confirmed, mixed>>

-----------------------------------------------------------------------------
\* The mutant: the address is looked up when the mail is asked for only.
TakenUnchecked(c) == {}
Taken(c) == Others(c.uid, c.email)

\* An address that somebody else has by now ends the confirmation.
post_email(r, c) ==
    /\ c \in Unexpired
    /\ \/ Taken(c) = {} /\ Begin(r, Job("confirm", c)) /\ UNCHANGED email_confirmation
       \/ Taken(c) # {} /\ email_confirmation' = Unexpired \ {c}
          /\ UNCHANGED <<clearing, now, req, reqs, given, confirmed, mixed>>
    /\ UNCHANGED <<user, user_password>>

Password(u, e) == {p \in user_password : p.uid # u /\ p.email # e} \union {[uid |-> u, email |-> e]}

Confirm(r) ==
    LET c == req[r].row IN
    /\ req[r].pc = "confirm"
    /\ email_confirmation' = Unexpired \ {c}
    /\ \/ c.op = "reset-password" /\ user_password' = Password(c.uid, c.email)
          /\ UNCHANGED <<user, confirmed, given>>
       \/ c.op # "reset-password" /\ c.uid \in Live
          /\ user' = [user EXCEPT ![c.uid].email = c.email]
          /\ confirmed' = [confirmed EXCEPT ![c.uid] = now] /\ given' = given \ {c.uid}
          /\ UNCHANGED user_password
       \/ c.op # "reset-password" /\ c.uid \notin Live
          /\ UNCHANGED <<user, user_password, confirmed, given>>
    /\ req' = [req EXCEPT ![r] = Idle]
    /\ UNCHANGED <<clearing, now, reqs, mixed>>

\* Only with an address that is one user's.
patch_password(u) ==
    /\ u \in Live /\ user[u].email > 0 /\ Others(u, user[u].email) = {} /\ reqs < MaxReqs /\ reqs' = reqs + 1
    /\ user_password' = Password(u, user[u].email)
    /\ UNCHANGED <<user, email_confirmation, clearing, now, req, given, confirmed, mixed>>

\* Steam or Discord is connected, so that a login is left.
post_password_disable(u) ==
    /\ u \in Live
    /\ user_password' = {p \in user_password : p.uid # u /\ p.email # user[u].email}
    /\ UNCHANGED <<user, email_confirmation, clearing, now, req, reqs, given, confirmed, mixed>>

\* At a login or a change of the connection: whoever else has the address. Discord may
\* know none.
SyncDiscordEmail(r, u, e) ==
    /\ u \in Live
    /\ user[u].email <= 0 \/ sync_discord_email
    /\ Enter(r, Job("write", Row(u, "discord", e, 0)))
    /\ UNCHANGED <<user, email_confirmation, user_password, mixed>>

\* Staff give a user an address, or another account. Of the users who have the address
\* the first stands in the way, if that is a member. Without an address the column is
\* written back as it was read, or emptied if the user hides it from who asks.
patch_connections(r, u, e) ==
    /\ u \in Live
    /\ e # none /\ Others(u, e) # {} => Min(Others(u, e)) \notin Joined
    /\ \E written \in IF e # none THEN {e} ELSE {user[u].email, none} :
        Enter(r, Job("write", Row(u, "staff", written, 0)))
    /\ UNCHANGED <<user, email_confirmation, user_password, mixed>>

\* Whatever has become of the column since.
WriteEmail(r) ==
    LET u == req[r].uid  e == req[r].row.email IN
    /\ req[r].pc = "write" /\ req' = [req EXCEPT ![r] = Idle]
    /\ IF u \in Live
       THEN /\ user' = [user EXCEPT ![u].email = e] /\ given' = given \union {u}
            /\ confirmed' = IF e = pending THEN [confirmed EXCEPT ![u] = 0] ELSE confirmed
       ELSE UNCHANGED <<user, given, confirmed>>
    /\ UNCHANGED <<email_confirmation, user_password, clearing, now, reqs, mixed>>

delete_connections(u) ==
    /\ u \in Live /\ reqs < MaxReqs /\ reqs' = reqs + 1
    /\ user' = [user EXCEPT ![u].email = none]
    /\ UNCHANGED <<email_confirmation, user_password, clearing, now, req, given, confirmed, mixed>>

-----------------------------------------------------------------------------
\* The mutant: the last moment at which a mail can be answered counts as too late.
LateEarly(u) == user[u].since <= now - Long
Late(u) == user[u].since < now - Long

Select ==
    /\ clearing = {} /\ clearing' = {u \in Uids : user[u].email = pending /\ Late(u)}
    /\ clearing' # {}
    /\ UNCHANGED <<user, email_confirmation, user_password, now, req, reqs, given, confirmed, mixed>>

\* Whatever has become of them; Discord is told about each, which takes time.
Delete(u) ==
    /\ u \in clearing /\ clearing' = clearing \ {u}
    /\ user' = [user EXCEPT ![u].email = gone]
    /\ email_confirmation' = {c \in email_confirmation : c.uid # u}
    /\ user_password' = {p \in user_password : p.uid # u}
    /\ UNCHANGED <<now, req, reqs, given, confirmed, mixed>>

Cut(r) ==
    /\ req[r] # Idle /\ req' = [req EXCEPT ![r] = Idle]
    /\ UNCHANGED <<user, email_confirmation, user_password, clearing, now, reqs, given, confirmed, mixed>>
Tick ==
    /\ now < MaxTime /\ now' = now + 1
    /\ UNCHANGED <<user, email_confirmation, user_password, clearing, req, reqs, given, confirmed, mixed>>

Next ==
    \/ \E r \in Reqs :
        \/ RegisterUser(r) \/ RegisterRow(r) \/ Confirm(r) \/ WriteEmail(r) \/ Cut(r)
        \/ \E ok \in BOOLEAN : SendMail(r, ok)
        \/ \E e \in Addresses : post_register(r, e) \/ post_reset(r, e) \/ \E u \in Uids : patch_email(r, u, e)
        \/ \E u \in Uids : post_resend_confirmation(r, u)
        \/ \E u \in Uids, e \in Addresses \union {none} :
            SyncDiscordEmail(r, u, e) \/ patch_connections(r, u, e)
        \/ \E c \in email_confirmation : post_email(r, c)
    \/ \E u \in Uids :
        \/ patch_password(u) \/ post_password_disable(u) \/ delete_connections(u) \/ Delete(u)
    \/ Select \/ Tick

Spec == Init /\ [][Next]_vars

-----------------------------------------------------------------------------
\* Every variable has its type.
TypeOK ==
    /\ user \in [Uids -> [email : {gone, pending, none} \union Addresses, since : 0..MaxTime]]
    /\ \A c \in email_confirmation : c.uid \in Uids /\ c.email \in Addresses /\ c.secret \in 1..MaxReqs
    /\ \A p \in user_password : p.uid \in Uids /\ p.email \in Addresses
    /\ clearing \subseteq Uids /\ now \in 1..MaxTime /\ reqs \in 0..MaxReqs /\ mixed \subseteq Addresses

\* Nobody confirms an address that is another user's, unless requests for it overlap: two
\* users have the same one only if Discord told it of one of them or staff wrote it for
\* one (who may give the address of a user who is no member, user/manage.py:212).
EmailsAreOfOne ==
    \A u, v \in Live \ given :
        (u # v /\ user[u].email = user[v].email /\ user[u].email > 0) => user[u].email \in mixed

\* Who confirms an address within the day is not deleted as one who has not, unless staff
\* have written back meanwhile that it is to be confirmed (user/manage.py:225).
ConfirmedUsersStay ==
    \A u \in Live : (user'[u].email = gone /\ confirmed[u] # 0)
            => confirmed[u] > user[u].since + Long
=============================================================================
