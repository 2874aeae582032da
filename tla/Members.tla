------------------------------- MODULE Members -------------------------------
(***************************************************************************)
(* Users become members and leave, get roles, are banned, and are deleted  *)
(* by staff or, some days after they asked for it, by a loop. Trucky lists *)
(* members too: a login and a loop admit them, with the userid they had.   *)
(*                                                                         *)
(* A user keeps the uid; the userid is the membership: the next number of  *)
(* a row of settings that is locked while it is used. Of the economy there *)
(* is the set of the userids that own something in it.                     *)
(***************************************************************************)
EXTENDS Integers, FiniteSetsExt

CONSTANTS
    Reqs, Users,
    Roles,           \* numbers, the lower the higher
    administrator, driver,    \* roles
    TruckyRoles,     \* roles that a role in Trucky's company stands for, no administrator's
    Founder,         \* a user who starts as administrator
    Grace,           \* how long a deletion is pending: 14 days
    MaxUserid, MaxReqs, MaxTime    \* bounds

VARIABLES
    user,        \* by uid, [live, userid, roles, steamid]
    nxtuserid,
    banned,
    pending_user_deletion,    \* by uid, [status, expire]; expire 0 for no row
    trucky_identity,    \* by uid, [row, assigned_userid, managed_roles, auto_admitted]
    economy,     \* the userids with a balance or a truck
    now,
    req, reqs,
    history,     \* by uid, what the rows of user_role_history add up to that were written
                 \* since the user last became a member: leaving writes none
    mixed,       \* history: users for whom requests overlapped, or one was cut off
    accepted,    \* history: users accepted while their deletion was pending
    replaced,    \* history: userids that an overlapping accept took away again, or
                 \* Trucky did, which keeps another one for the member
    asked,       \* history: by uid, when the deletion was asked for and the logins since
    added        \* history: by uid, the roles that came with Trucky

vars == <<user, nxtuserid, banned, pending_user_deletion, economy, now, req, reqs,
          history, mixed, accepted, replaced, asked, added, trucky_identity>>

nobody == -1
NoIdentity == [row |-> FALSE, assigned_userid |-> nobody, managed_roles |-> {}, auto_admitted |-> FALSE]
NotPending == [status |-> 0, expire |-> 0]
Idle == [pc |-> "idle", uid |-> 0, userid |-> nobody, old |-> {}, roles |-> {}]
Member(u) == user[u].live /\ user[u].userid # nobody
Pending(u) == pending_user_deletion[u].expire # 0

Init ==
    /\ user = [u \in Users |->
            [live |-> TRUE, userid |-> IF u = Founder THEN 0 ELSE nobody,
             roles |-> IF u = Founder THEN {administrator} ELSE {}, steamid |-> u # Founder]]
    /\ nxtuserid = 1 /\ banned = {} /\ economy = {}
    /\ pending_user_deletion = [u \in Users |-> NotPending]
    /\ now = 1
    /\ req = [r \in Reqs |-> Idle] /\ reqs = 0
    /\ history = [u \in Users |-> user[u].roles] /\ mixed = {} /\ accepted = {} /\ replaced = {}
    /\ trucky_identity = [u \in Users |-> NoIdentity] /\ added = [u \in Users |-> {}]
    /\ asked = [u \in Users |-> [at |-> 0, logins |-> 0]]

-----------------------------------------------------------------------------
(* Each request looks first, in one snapshot, and writes later.            *)

Begin(r, pc, u, roles) ==
    /\ reqs < MaxReqs /\ req[r].pc = "idle"
    /\ reqs' = reqs + 1
    /\ req' = [req EXCEPT ![r] = [pc |-> pc, uid |-> u, userid |-> user[u].userid,
                                  old |-> user[u].roles, roles |-> roles]]
    /\ mixed' = IF \E q \in Reqs \ {r} : req[q].pc # "idle" /\ req[q].uid = u
                THEN mixed \union {u} ELSE mixed
    /\ UNCHANGED <<user, nxtuserid, banned, pending_user_deletion, economy, now, history, accepted, replaced, asked, trucky_identity, added>>

post_accept(r, u) ==
    /\ user[u].live /\ ~Member(u) /\ u \notin banned
    /\ Begin(r, "accept", u, {})

Highest(roles) == IF roles = {} THEN Max(Roles) + 1 ELSE Min(roles)
HighestActive == Min({Highest(user[u].roles) : u \in Users})

\* Staff of a lower role than the highest somebody has change lower roles only.
MayChange(staff, roles) ==
    \/ Highest(user[staff].roles) = HighestActive
    \/ \A role \in roles : role > Highest(user[staff].roles)

patch_roles(r, staff, u, roles) ==
    LET changed == (roles \ user[u].roles) \union (user[u].roles \ roles) IN
    /\ Member(staff) /\ administrator \in user[staff].roles /\ Member(u)
    /\ changed # {} /\ MayChange(staff, changed)
    /\ ~ (staff = u /\ administrator \in user[u].roles \ roles)
    /\ driver \in roles => user[u].steamid
    /\ Begin(r, "roles", u, roles)

\* Of a lower position than the staff; a resignation asks for none.
post_dismiss(r, staff, u) ==
    /\ Member(staff) /\ Member(u)
    /\ Highest(user[staff].roles) < Highest(user[u].roles) \/ user[u].roles = {}
    /\ Begin(r, "leave", u, {})
post_resign(r, u) == Member(u) /\ Begin(r, "leave", u, {})

put_ban(r, u) ==
    /\ user[u].live /\ ~Member(u) /\ u \notin banned
    /\ Begin(r, "ban", u, {})

\* By staff at once; by themselves it becomes pending.
delete_user(r, u, staff) ==
    /\ user[u].live /\ ~Member(u)
    /\ Begin(r, IF staff THEN "delete" ELSE "ask", u, {})

\* The loop reads the rows whose time has come, and tells Discord before it deletes.
ClearOutdatedData(r, u) ==
    /\ Pending(u) /\ pending_user_deletion[u].expire < now
    /\ Begin(r, "clear", u, {})

-----------------------------------------------------------------------------
(* Writes, by the part of a job. A statement finds the rows by the userid, *)
(* which is of one membership only.                                        *)

Done(r) == req' = [req EXCEPT ![r] = Idle]
Same == UNCHANGED <<now, reqs, mixed, trucky_identity, added>>

\* The mutant: the number is the one there was when the request began.
NextUseridRead(r) == Cardinality({u \in Users : Member(u)})
\* The mutant: it is counted before it is given.
NextUseridCounted(r) == nxtuserid + 1
NextUserid(r) == nxtuserid

WriteAccept(r) ==
    LET job == req[r] IN
    /\ job.pc = "accept" /\ nxtuserid < MaxUserid
    /\ user' = [user EXCEPT ![job.uid].userid = IF user[job.uid].live THEN NextUserid(r) ELSE @]
    /\ nxtuserid' = NextUserid(r) + 1
    /\ accepted' = IF Pending(job.uid) THEN accepted \union {job.uid} ELSE accepted
    /\ replaced' = replaced \union {user[job.uid].userid}
    /\ history' = [history EXCEPT ![job.uid] = IF user[job.uid].live THEN {} ELSE @]
    /\ Done(r) /\ Same
    /\ UNCHANGED <<banned, pending_user_deletion, economy, asked>>

\* The mutant: the row is found by its uid.
RowsByUid(job) == {job.uid}
RowsOf(job) == {u \in Users : Member(u) /\ user[u].userid = job.userid}

WriteRoles(r) ==
    LET job == req[r] IN
    /\ job.pc = "roles"
    /\ user' = [u \in Users |-> IF u \in RowsOf(job) THEN [user[u] EXCEPT !.roles = job.roles] ELSE user[u]]
    /\ req' = [req EXCEPT ![r].pc = "row"]
    /\ Same /\ UNCHANGED <<nxtuserid, banned, pending_user_deletion, economy, history, accepted, replaced, asked>>

\* The mutant: the row of the history has what was added and not what was removed.
ReplayedAdded(job, roles) == roles \union (job.roles \ job.old)
Replayed(job, roles) == (roles \ (job.old \ job.roles)) \union (job.roles \ job.old)

\* In a commit of its own, after messages to the trackers and to Discord.
WriteHistory(r) ==
    LET job == req[r] IN
    /\ job.pc = "row"
    /\ history' = [history EXCEPT ![job.uid] = Replayed(job, @)]
    /\ Done(r) /\ Same
    /\ UNCHANGED <<user, nxtuserid, banned, pending_user_deletion, economy, accepted, replaced, asked>>

\* The mutant: what a member had in the economy stays.
LeftOvers(job) == economy
LeftOf(job) == economy \ {job.userid}

WriteLeave(r) ==
    LET job == req[r] IN
    /\ job.pc = "leave"
    /\ user' = [u \in Users |-> IF u \in RowsOf(job)
                                THEN [user[u] EXCEPT !.userid = nobody, !.roles = {}] ELSE user[u]]
    /\ economy' = LeftOf(job)
    /\ Done(r) /\ Same
    /\ UNCHANGED <<nxtuserid, banned, pending_user_deletion, history, accepted, replaced, asked>>

WriteBan(r) ==
    /\ req[r].pc = "ban" /\ banned' = banned \union {req[r].uid}
    /\ Done(r) /\ Same
    /\ UNCHANGED <<user, nxtuserid, pending_user_deletion, economy, history, accepted, replaced, asked>>

WriteAsked(r) ==
    LET u == req[r].uid IN
    /\ req[r].pc = "ask"
    /\ pending_user_deletion' = [pending_user_deletion EXCEPT
                                    ![u] = [status |-> 1, expire |-> now + Grace]]
    /\ asked' = [asked EXCEPT ![u] = [at |-> now, logins |-> 0]]
    /\ Done(r) /\ Same /\ UNCHANGED <<user, nxtuserid, banned, economy, history, accepted, replaced>>

\* Whoever has the uid, a member too; nothing of the economy is touched.
WriteDelete(r) ==
    LET u == req[r].uid IN
    /\ req[r].pc \in {"delete", "clear"}
    /\ user' = [user EXCEPT ![u].live = FALSE]
    /\ pending_user_deletion' = [pending_user_deletion EXCEPT ![u] = NotPending]
    /\ Done(r) /\ Same /\ UNCHANGED <<nxtuserid, banned, economy, history, accepted, replaced, asked>>

\* A request ends before what is left of it.
Cut(r) ==
    /\ req[r].pc # "idle" /\ Done(r)
    /\ mixed' = mixed \union {req[r].uid}
    /\ UNCHANGED <<user, nxtuserid, banned, pending_user_deletion, economy, now, reqs, history, accepted, replaced, asked, trucky_identity, added>>

-----------------------------------------------------------------------------
delete_ban(u) ==
    /\ u \in banned /\ banned' = banned \ {u}
    /\ UNCHANGED <<user, nxtuserid, pending_user_deletion, economy, now, req, reqs, history, mixed, accepted, replaced, asked, trucky_identity, added>>

\* The mutant: the row stays.
AfterLoginKept(row) == [row EXCEPT !.status = 0]
\* The first login is refused and remembered, the second one ends the deletion.
AfterLogin(row) == IF row.status = 1 THEN [row EXCEPT !.status = 0] ELSE NotPending

login(u) ==
    /\ user[u].live /\ Pending(u) /\ u \notin banned
    /\ pending_user_deletion' = [pending_user_deletion EXCEPT ![u] = AfterLogin(@)]
    /\ asked' = [asked EXCEPT ![u].logins = @ + 1]
    /\ mixed' = IF \E r \in Reqs : req[r].uid = u THEN mixed \union {u} ELSE mixed
    /\ UNCHANGED <<user, nxtuserid, banned, economy, now, req, reqs, history, accepted, replaced, trucky_identity, added>>

-----------------------------------------------------------------------------
(* Trucky's company has the user as a member, for whom it asks for roles,  *)
(* or has not, and asks for none. Its transaction locks the row of the     *)
(* user. Deliveries of nobody's that become the member's are left out.     *)

\* The mutant: all that Trucky asks for is managed, given by staff before or not.
ManagedAll(u, manual, desired) == desired
Managed(u, manual, desired) == desired \ manual

\* Who has another role is a driver too.
Desired == {{}} \union {{driver, role} : role \in {driver} \union TruckyRoles}

sync_user(u, desired) ==
    LET old == trucky_identity[u]
        member == desired # {}
        manual == user[u].roles \ old.managed_roles
        updated == manual \union desired
        admitted == member /\ ~Member(u)
        assigned == IF old.row THEN old.assigned_userid
                    ELSE IF admitted THEN nxtuserid ELSE user[u].userid
        auto == old.auto_admitted \/ admitted
    IN
    /\ user[u].live /\ user[u].steamid /\ reqs < MaxReqs /\ assigned < MaxUserid
    /\ member \/ old.row
    /\ u \notin banned /\ ~Pending(u)
    /\ user' = [user EXCEPT
            ![u].roles = updated,
            ![u].userid = IF admitted THEN assigned
                          ELSE IF ~member /\ auto /\ updated = {} THEN nobody ELSE @]
    /\ nxtuserid' = IF assigned = nxtuserid THEN nxtuserid + 1 ELSE nxtuserid
    /\ trucky_identity' = [trucky_identity EXCEPT ![u] =
            [row |-> TRUE, assigned_userid |-> assigned,
             managed_roles |-> Managed(u, manual, desired), auto_admitted |-> auto]]
    /\ history' = [history EXCEPT ![u] = ((IF admitted THEN {} ELSE @) \ (user[u].roles \ updated))
                                            \union (updated \ user[u].roles)]
    /\ added' = [added EXCEPT ![u] = @ \union (updated \ user[u].roles)]
    /\ mixed' = IF \E r \in Reqs : req[r].uid = u THEN mixed \union {u} ELSE mixed
    /\ replaced' = IF Member(u) /\ user'[u].userid = nobody /\ user[u].userid # assigned
                   THEN replaced \union {user[u].userid} ELSE replaced
    /\ reqs' = reqs + 1
    /\ UNCHANGED <<banned, pending_user_deletion, economy, now, req, accepted, asked>>

\* External: a member earns or buys something; time passes.
Earn(u) ==
    /\ Member(u) /\ economy' = economy \union {user[u].userid}
    /\ UNCHANGED <<user, nxtuserid, banned, pending_user_deletion, now, req, reqs, history, mixed, accepted, replaced, asked, trucky_identity, added>>
Tick ==
    /\ now < MaxTime /\ now' = now + 1
    /\ UNCHANGED <<user, nxtuserid, banned, pending_user_deletion, economy, req, reqs, history, mixed, accepted, replaced, asked, trucky_identity, added>>

Next ==
    \/ \E r \in Reqs, u \in Users :
        \/ post_accept(r, u) \/ post_resign(r, u) \/ put_ban(r, u) \/ ClearOutdatedData(r, u)
        \/ \E staff \in BOOLEAN : delete_user(r, u, staff)
        \/ \E staff \in Users : post_dismiss(r, staff, u)
        \/ \E staff \in Users, roles \in SUBSET Roles : patch_roles(r, staff, u, roles)
    \/ \E r \in Reqs :
        \/ WriteAccept(r) \/ WriteRoles(r) \/ WriteHistory(r) \/ WriteLeave(r)
        \/ WriteBan(r) \/ WriteAsked(r) \/ WriteDelete(r) \/ Cut(r)
    \/ \E u \in Users : delete_ban(u) \/ login(u) \/ Earn(u) \/ \E desired \in Desired : sync_user(u, desired)
    \/ Tick

Spec == Init /\ [][Next]_vars

-----------------------------------------------------------------------------
\* Every variable has its type.
TypeOK ==
    /\ user \in [Users -> [live : BOOLEAN, userid : nobody..MaxUserid, roles : SUBSET Roles, steamid : BOOLEAN]]
    /\ nxtuserid \in 1..MaxUserid /\ now \in 1..MaxTime /\ reqs \in 0..MaxReqs
    /\ economy \subseteq 0..MaxUserid /\ banned \subseteq Users

\* A userid is of one user, and is never another's later: neither a userid that
\* somebody has, nor one that Trucky keeps for a member who is to come back.
UseridsAreOfOne ==
    /\ \A u \in Users : user[u].userid < nxtuserid /\ trucky_identity[u].assigned_userid < nxtuserid
    /\ \A u, v \in Users : u # v =>
        {user[u].userid, trucky_identity[u].assigned_userid} \intersect
        {user[v].userid, trucky_identity[v].assigned_userid} \subseteq {nobody}

\* Who is no member has no roles: roles that staff gave to a member who left in
\* between are lost.
OnlyMembersHaveRoles ==
    \A u \in Users : Member(u) \/ user[u].roles = {} \/ ~user[u].live

\* When Trucky's member leaves, no role goes that did not come with Trucky.
ManualRolesStay ==
    \A u \in Users : (trucky_identity'[u] # trucky_identity[u])
            => user[u].roles \ user'[u].roles \subseteq added[u]

\* Unless requests for the user overlap or one is cut off, nobody is a member and
\* banned, and a member's roles are what the rows of the history written since the user
\* last became one add up to; who is deleted was no member, unless accepted while the
\* deletion was pending: the loop deletes those too.
MembershipIsWhole ==
    \A u \in Users \ mixed :
        LET quiet == \A r \in Reqs : req[r].uid # u IN
        /\ quiet => ~ (Member(u) /\ u \in banned)
        /\ (quiet /\ Member(u)) => history[u] = user[u].roles
        /\ (~user[u].live /\ u \notin accepted) => user[u].userid = nobody

\* What is in the economy is some member's: dismissal and resignation clear it. Left
\* over is what belongs to a userid that a second accept replaced, to members who
\* were deleted as such, to the userid that Trucky would give back, and to one that
\* staff gave after Trucky had given another, when Trucky's member leaves.
FormerMembersOwnNothing ==
    \A id \in economy : id \in replaced \/ \E u \in Users :
        \/ user[u].userid = id /\ (Member(u) \/ u \in accepted \union mixed)
        \/ trucky_identity[u].assigned_userid = id

\* Who is deleted without staff doing it asked for it, was given the whole time to
\* come back, and has not: the second login of that time keeps the user for good.
DeletedAsAsked ==
    \A u \in Users \ mixed : (user[u].live /\ ~user'[u].live) =>
        \/ \E r \in Reqs : req[r].pc = "delete" /\ req[r].uid = u
        \/ asked[u].at # 0 /\ asked[u].logins < 2 /\ now > asked[u].at + Grace
=============================================================================
