---------------------------- MODULE Connections ----------------------------
(***************************************************************************)
(* The Discord, Steam and TruckersMP accounts of users: registration by a  *)
(* callback, connection by the user or by staff, and the look-up of a      *)
(* TruckersMP account by its Steam account, which a loop repeats.          *)
(*                                                                         *)
(* A TruckersMP account has the number of the Steam account that it is     *)
(* verified with; 0 is NULL. A request sees the rows as they were when it  *)
(* first read any (the database's REPEATABLE READ).                        *)
(***************************************************************************)
EXTENDS Integers, FiniteSetsExt

CONSTANTS
    Reqs, Loop,  \* requests, and the worker of truckersmp_identity
    Uids,
    Joined,     \* those who, once registered, have a userid
    Accounts,    \* of Discord and of Steam: positive numbers
    MaxReqs      \* bound on the requests that begin

VARIABLES
    user,        \* by uid, [discordid, steamid, truckersmpid]
    registered,  \* the uids in use
    identity,    \* Redis: by uid and Steam account, what the last look-up said
    lock,        \* the uids that are being looked up
    pass,        \* the worker's list: [uid, steamid]
    req, reqs,
    loose,       \* history: users whose TruckersMP account nobody verified
    mixed        \* history: users for whom requests overlapped

vars == <<user, registered, identity, lock, pass, req, reqs, loose, mixed>>

Actors == Reqs \union {Loop}
Columns == {"discordid", "steamid", "truckersmpid"}
Nobody == [c \in Columns |-> 0]
Idle == [pc |-> "idle", uid |-> 0, new |-> Nobody]

Init ==
    /\ user = [u \in Uids |-> Nobody] /\ registered = {}
    /\ identity = [u \in Uids |-> [s \in Accounts |-> "absent"]]
    /\ lock = {} /\ pass = {}
    /\ req = [a \in Actors |-> Idle] /\ reqs = 0
    /\ loose = {} /\ mixed = {}

Owners(c, id) == {v \in registered : user[v][c] = id}

\* The unique indexes on discordid and steamid; NULLs do not collide.
\* The mutant: the checks of the handlers alone.
UniqueUnlessRead(u, new) == TRUE
Unique(u, new) == \A c \in {"discordid", "steamid"} : new[c] # 0 => Owners(c, new[c]) \subseteq {u}

Begin(r, job) ==
    /\ reqs < MaxReqs /\ req[r] = Idle /\ reqs' = reqs + 1
    /\ req' = [req EXCEPT ![r] = job]
    /\ mixed' = IF job.uid # 0 /\ \E q \in Reqs : req[q].uid = job.uid THEN mixed \union {job.uid} ELSE mixed
    /\ UNCHANGED <<user, registered, identity, lock, pass, loose>>
Job(pc, u, new) == [pc |-> pc, uid |-> u, new |-> new]
End(r) == req' = [req EXCEPT ![r] = Idle]
ToSync(r, u, s) == req' = [req EXCEPT ![r] = Job("sync", u, [Nobody EXCEPT !.steamid = s])]

-----------------------------------------------------------------------------
(* Callbacks of a login.                                                   *)

get_callback(r, c, id) ==
    \/ \E u \in Owners(c, id) :
        Begin(r, Job(IF c = "steamid" THEN "sync" ELSE "done", u, [Nobody EXCEPT ![c] = id]))
    \/ Owners(c, id) = {} /\ Begin(r, Job("register", 0, [Nobody EXCEPT ![c] = id]))

\* If a parallel callback registered the account first the row it made is not
\* in what this one sees, and the login fails.
Register(r) ==
    LET new == req[r].new
        u == Min(Uids \ registered) IN
    /\ req[r].pc = "register" /\ Uids # registered
    /\ IF Unique(0, new)
       THEN /\ registered' = registered \union {u}
            /\ user' = [user EXCEPT ![u] = new]
            /\ IF new.steamid # 0 THEN ToSync(r, u, new.steamid) ELSE End(r)
       ELSE End(r) /\ UNCHANGED <<user, registered>>
    /\ UNCHANGED <<identity, lock, pass, reqs, loose, mixed>>

-----------------------------------------------------------------------------
(* The user's own connections. The old value is part of the request.       *)

patch_discord(r, u, id) ==
    /\ u \in registered /\ Owners("discordid", id) \subseteq {u}
    /\ Begin(r, Job("discord", u, [user[u] EXCEPT !.discordid = id]))
WriteDiscord(r) ==
    LET u == req[r].uid  new == [user[u] EXCEPT !.discordid = req[r].new.discordid] IN
    /\ req[r].pc = "discord" /\ End(r)
    /\ user' = IF Unique(u, new) THEN [user EXCEPT ![u] = new] ELSE user
    /\ UNCHANGED <<registered, identity, lock, pass, reqs, loose, mixed>>

\* Another Steam account ends the connection to TruckersMP; req.new has what is
\* left of it.
patch_steam(r, u, id) ==
    /\ u \in registered /\ Owners("steamid", id) \subseteq {u}
    /\ Begin(r, Job(IF user[u].steamid = id THEN "same" ELSE "steam", u, [user[u] EXCEPT !.steamid = id]))
WriteSteam(r) ==
    LET u == req[r].uid
        new == [user[u] EXCEPT !.steamid = req[r].new.steamid,
                               !.truckersmpid = IF req[r].pc = "steam" THEN 0 ELSE @] IN
    /\ req[r].pc \in {"steam", "same"}
    /\ IF Unique(u, new) THEN user' = [user EXCEPT ![u] = new] /\ ToSync(r, u, new.steamid)
       ELSE End(r) /\ UNCHANGED user
    /\ loose' = IF Unique(u, new) /\ req[r].pc = "steam" THEN loose \ {u} ELSE loose
    /\ UNCHANGED <<registered, identity, lock, pass, reqs, mixed>>

patch_truckersmp(r, u, id) ==
    /\ u \in registered /\ user[u].steamid = id
    /\ Begin(r, Job("truckersmp", u, [user[u] EXCEPT !.truckersmpid = id]))
WriteTruckersMP(r) ==
    /\ req[r].pc = "truckersmp" /\ End(r)
    /\ user' = [user EXCEPT ![req[r].uid].truckersmpid = req[r].new.truckersmpid]
    /\ loose' = loose \ {req[r].uid}
    /\ UNCHANGED <<registered, identity, lock, pass, reqs, mixed>>

-----------------------------------------------------------------------------
(* Staff.                                                                  *)

\* Whose account it is matters only if that user is a member: the unique index
\* speaks for the others. Every column is written, with what was read of it.
patch_connections(r, u, c, id) ==
    LET new == [user[u] EXCEPT ![c] = id]
        steam == new.steamid # user[u].steamid IN
    /\ u \in registered /\ Owners(c, id) \ {u} \subseteq Uids \ Joined
    /\ Begin(r, Job(IF steam THEN "staff-steam" ELSE "staff", u,
                    IF steam THEN [new EXCEPT !.truckersmpid = 0] ELSE new))
WriteConnections(r) ==
    LET u == req[r].uid  new == req[r].new  done == Unique(u, new) IN
    /\ req[r].pc \in {"staff", "staff-steam"}
    /\ user' = IF done THEN [user EXCEPT ![u] = new] ELSE user
    /\ IF done /\ req[r].pc = "staff-steam" THEN ToSync(r, u, new.steamid) ELSE End(r)
    /\ loose' = IF ~ done THEN loose
                ELSE IF new.truckersmpid \in {0, new.steamid} THEN loose \ {u} ELSE loose \union {u}
    /\ UNCHANGED <<registered, identity, lock, pass, reqs, mixed>>

\* The TruckersMP account outlives the Steam account it was verified with.
delete_connections(r, u, c) ==
    /\ u \in registered /\ user[u][c] # 0 /\ reqs < MaxReqs /\ reqs' = reqs + 1
    /\ user' = [user EXCEPT ![u][c] = 0]
    /\ loose' = IF c = "truckersmpid" THEN loose \ {u}
                ELSE IF c = "steamid" /\ user[u].truckersmpid # 0 THEN loose \union {u} ELSE loose
    /\ mixed' = IF \E q \in Reqs : req[q].uid = u THEN mixed \union {u} ELSE mixed
    /\ UNCHANGED <<registered, identity, lock, pass, req>>

-----------------------------------------------------------------------------
(* sync_user: by a request that is done with the Steam account, or by the  *)
(* worker for a list that it read when the pass began.                     *)

\* The mutant: whatever Steam account the user has by now.
VerifiedLate(u, s, id) == [user EXCEPT ![u].truckersmpid = id]
Verified(u, s, id) == IF user[u].steamid = s THEN [user EXCEPT ![u].truckersmpid = id] ELSE user
StillLoose(u, s) == IF user[u].steamid = s THEN loose \ {u} ELSE loose

sync_user(a) ==
    LET u == req[a].uid  s == req[a].new.steamid IN
    /\ req[a].pc = "sync"
    /\ \/ /\ identity[u][s] = "known" /\ End(a)
          /\ user' = Verified(u, s, s) /\ loose' = StillLoose(u, s) /\ UNCHANGED lock
       \/ /\ identity[u][s] = "unavailable" \/ (identity[u][s] = "absent" /\ u \in lock)
          /\ End(a) /\ UNCHANGED <<user, lock, loose>>
       \/ /\ identity[u][s] = "absent" /\ u \notin lock
          /\ lock' = lock \union {u} /\ req' = [req EXCEPT ![a].pc = "asked"]
          /\ UNCHANGED <<user, loose>>
    /\ UNCHANGED <<registered, identity, pass, reqs, mixed>>

Answered(a, known) ==
    LET u == req[a].uid  s == req[a].new.steamid IN
    /\ req[a].pc = "asked" /\ End(a)
    /\ lock' = lock \ {u}
    /\ identity' = [identity EXCEPT ![u][s] = IF known THEN "known" ELSE "unavailable"]
    /\ user' = IF known THEN Verified(u, s, s) ELSE user
    /\ loose' = IF known THEN StillLoose(u, s) ELSE loose
    /\ UNCHANGED <<registered, pass, reqs, mixed>>

\* One pass goes over every user with a Steam account.
sync_loop ==
    /\ pass = {} /\ req[Loop] = Idle
    /\ pass' = {[uid |-> u, steamid |-> user[u].steamid] : u \in {v \in registered : user[v].steamid # 0}}
    /\ pass' # {}
    /\ UNCHANGED <<user, registered, identity, lock, req, reqs, loose, mixed>>
SyncNext ==
    \E p \in pass :
        /\ req[Loop] = Idle /\ ToSync(Loop, p.uid, p.steamid) /\ pass' = pass \ {p}
        /\ UNCHANGED <<user, registered, identity, lock, reqs, loose, mixed>>

\* The answers that Redis keeps run out.
Expire(u, s) ==
    /\ identity[u][s] # "absent" /\ identity' = [identity EXCEPT ![u][s] = "absent"]
    /\ UNCHANGED <<user, registered, lock, pass, req, reqs, loose, mixed>>

Done(r) ==
    /\ req[r].pc = "done" /\ End(r)
    /\ UNCHANGED <<user, registered, identity, lock, pass, reqs, loose, mixed>>

Next ==
    \/ \E r \in Reqs :
        \/ Register(r) \/ WriteDiscord(r) \/ WriteSteam(r) \/ WriteTruckersMP(r) \/ WriteConnections(r) \/ Done(r)
        \/ \E c \in {"discordid", "steamid"}, id \in Accounts : get_callback(r, c, id)
        \/ \E u \in Uids, c \in Columns : delete_connections(r, u, c)
        \/ \E u \in Uids, id \in Accounts :
            \/ patch_discord(r, u, id) \/ patch_steam(r, u, id) \/ patch_truckersmp(r, u, id)
            \/ \E c \in Columns : patch_connections(r, u, c, id)
    \/ \E a \in Actors : sync_user(a) \/ \E known \in BOOLEAN : Answered(a, known)
    \/ sync_loop \/ SyncNext
    \/ \E u \in Uids, s \in Accounts : Expire(u, s)

Spec == Init /\ [][Next]_vars

-----------------------------------------------------------------------------
\* Every variable has its type, and an account is looked up by one at a time.
TypeOK ==
    /\ user \in [Uids -> [Columns -> {0} \union Accounts]] /\ registered \subseteq Uids
    /\ \A u \in Uids \ registered : user[u] = Nobody
    /\ lock = {req[a].uid : a \in {b \in Actors : req[b].pc = "asked"}}
    /\ \A a, b \in Actors : (req[a].pc = "asked" /\ req[b].pc = "asked" /\ req[a].uid = req[b].uid) => a = b

\* However callbacks, users and staff overlap, a Discord or Steam account is one
\* user's: two callbacks of a new account register one user.
AccountsAreOfOne ==
    \A u, v \in registered, c \in {"discordid", "steamid"} :
        (u # v /\ user[u][c] # 0) => user[u][c] # user[v][c]

\* Whatever look-ups are under way when a Steam account changes, a user has the
\* TruckersMP account of the Steam account; except where staff set one or took the
\* Steam account away, or two requests for the user overlap.
TruckersMPFollowsSteam ==
    \A u \in registered \ (loose \union mixed) : user[u].truckersmpid \in {0, user[u].steamid}
=============================================================================
