---------------------------- MODULE UserAccounts ----------------------------
(***************************************************************************)
(* What is kept of users: memberships, connected accounts, addresses and   *)
(* settings of notifications. Of a user each module has what its code      *)
(* reads and writes, and no request touches the parts of two of them: a    *)
(* behaviour is of the part that focus names, the others being off.        *)
(***************************************************************************)
EXTENDS Integers

CONSTANTS
    Reqs, MaxReqs, Users, Uids, MaxTime,                           \* of several
    Admins, Types, drivershub, discord, Reminders, MaxNotices,     \* Notifications
    Loop, Joined, Accounts,                                        \* Connections, Emails
    Connected, Addresses, sync_discord_email, Long, Short,         \* Emails
    Roles, administrator, driver, TruckyRoles, Founder, Grace, MaxUserid    \* Members

\* Users and types are numbers, 0 is neither, and the two first types are types.
NotificationsConstants ==
    /\ Users \subseteq Nat \ {0} /\ Types \subseteq Nat \ {0}
    /\ drivershub \in Types /\ discord \in Types
    /\ MaxReqs \in Nat /\ MaxNotices \in Nat

\* Users, addresses and times are numbers, and 0 and what is below it are no address.
EmailsConstants ==
    /\ Uids \subseteq Nat \ {0} /\ Addresses \subseteq Nat \ {0} /\ sync_discord_email \in BOOLEAN
    /\ Long \in Nat /\ Short \in Nat /\ MaxReqs \in Nat /\ MaxTime \in Nat \ {0}

\* Users and accounts are numbers, as 0 stands for NULL, and the loop is no request.
ConnectionsConstants ==
    /\ Uids \subseteq Nat \ {0} /\ Accounts \subseteq Nat \ {0} /\ Loop \notin Reqs
    /\ MaxReqs \in Nat

\* Uids are numbers from 1 on, there are userids besides the founder's, and the
\* clock goes.
MembersConstants ==
    /\ Users \subseteq Nat \ {0} /\ administrator \in Roles /\ driver \in Roles /\ TruckyRoles \subseteq Roles
    /\ Grace \in Nat /\ MaxReqs \in Nat /\ MaxUserid \in Nat \ {0} /\ MaxTime \in Nat \ {0}

ASSUME UserAccountsConstants ==
    NotificationsConstants /\ EmailsConstants /\ ConnectionsConstants /\ MembersConstants

VARIABLES
    focus, req, reqs, now, mixed, user,                     \* of several
    registered, identity, lock, pass, loose,                \* Connections
    email_confirmation, user_password, clearing, given, confirmed,  \* Emails
    sval, channel, discordid, user_notification, sent, wanted,       \* Notifications
    nxtuserid, banned, pending_user_deletion, trucky_identity, economy,
    history, accepted, replaced, asked, added               \* Members

Notifications == INSTANCE Notifications
Connections == INSTANCE Connections
Emails == INSTANCE Emails
Members == INSTANCE Members

membersVars == <<nxtuserid, banned, pending_user_deletion, trucky_identity, economy,
                 history, accepted, replaced, asked, added>>
connectionsVars == <<registered, identity, lock, pass, loose>>
emailsVars == <<email_confirmation, user_password, clearing, given, confirmed>>
notificationsVars == <<sval, channel, discordid, user_notification, sent, wanted>>
vars == <<focus, req, reqs, now, mixed, user,
          membersVars, connectionsVars, emailsVars, notificationsVars>>

-----------------------------------------------------------------------------
off == "off"
MembersOff ==
    /\ nxtuserid = off /\ banned = off /\ pending_user_deletion = off /\ trucky_identity = off
    /\ economy = off /\ history = off /\ accepted = off /\ replaced = off /\ asked = off /\ added = off
ConnectionsOff == registered = off /\ identity = off /\ lock = off /\ pass = off /\ loose = off
EmailsOff ==
    email_confirmation = off /\ user_password = off /\ clearing = off /\ given = off /\ confirmed = off
NotificationsOff ==
    sval = off /\ channel = off /\ discordid = off /\ user_notification = off /\ sent = off /\ wanted = off

Init ==
    \/ /\ focus = "members" /\ Members!Init
       /\ ConnectionsOff /\ EmailsOff /\ NotificationsOff
    \/ /\ focus = "connections" /\ Connections!Init /\ now = off
       /\ MembersOff /\ EmailsOff /\ NotificationsOff
    \/ /\ focus = "emails" /\ Emails!Init
       /\ MembersOff /\ ConnectionsOff /\ NotificationsOff
    \/ /\ focus = "notifications" /\ Notifications!Init /\ user = off /\ now = off
       /\ MembersOff /\ ConnectionsOff /\ EmailsOff

MembersOnly == focus = "members" /\ UNCHANGED <<focus, connectionsVars, emailsVars, notificationsVars>>
ConnectionsOnly == focus = "connections" /\ UNCHANGED <<focus, now, membersVars, emailsVars, notificationsVars>>
EmailsOnly == focus = "emails" /\ UNCHANGED <<focus, membersVars, connectionsVars, notificationsVars>>
NotificationsOnly ==
    focus = "notifications" /\ UNCHANGED <<focus, user, now, membersVars, connectionsVars, emailsVars>>

Next ==
    \/ MembersOnly /\ Members!Next
    \/ ConnectionsOnly /\ Connections!Next
    \/ EmailsOnly /\ Emails!Next
    \/ NotificationsOnly /\ Notifications!Next

Spec == Init /\ [][Next]_vars

-----------------------------------------------------------------------------
\* Every variable of every part has its type.
AllTyped ==
    /\ focus = "members" => Members!TypeOK
    /\ focus = "connections" => Connections!TypeOK
    /\ focus = "emails" => Emails!TypeOK
    /\ focus = "notifications" => Notifications!TypeOK

\* What names a user names no other: a userid, for good; a Discord or Steam account,
\* with the TruckersMP account that belongs to it; an address, but for those that Discord
\* told or staff wrote. The unique indexes see to the accounts, look-ups between requests
\* to the rest.
IdentitiesAreOfOne ==
    /\ focus = "members" => Members!UseridsAreOfOne
    /\ focus = "connections" => Connections!AccountsAreOfOne /\ Connections!TruckersMPFollowsSteam
    /\ focus = "emails" => Emails!EmailsAreOfOne

\* Members are whole: no roles without membership, no ban with it, the roles that the
\* rows of the history since they became members add up to, and nothing left in the
\* economy when they go. (user/manage.py, member/manage.py, member/userop.py,
\* trucky_identity.py.)
MembershipIsWhole ==
    focus = "members" =>
        Members!OnlyMembersHaveRoles /\ Members!MembershipIsWhole /\ Members!FormerMembersOwnNothing

\* What a user's settings of notifications have, read as text split at its commas, and
\* whether there is a channel for direct messages, is what the requests that wrote them
\* asked for, unless two of the user overlapped or one was cut off. Whether the user is
\* then told is not claimed. (user/notification.py.)
SettingsAreKept == focus = "notifications" => Notifications!SettingsAreAsAsked

\* No step of a loop or of Trucky takes from a user what it must not: nobody is
\* deleted who came back in time or confirmed the address in time, and no role goes
\* with Trucky's member that did not come with it.
NothingTaken ==
    /\ focus = "members" => Members!DeletedAsAsked /\ Members!ManualRolesStay
    /\ focus = "emails" => Emails!ConfirmedUsersStay
NothingIsTakenInPassing == [][NothingTaken]_vars
=============================================================================
