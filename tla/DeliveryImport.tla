--------------------------- MODULE DeliveryImport ---------------------------
(***************************************************************************)
(* How deliveries reported by the trackers become rows of dlog.            *)
(*                                                                         *)
(* Trucky and TruckersHub may report the same trip, each under an id of    *)
(* its own and each more than once. Their imports take two named locks of  *)
(* the database, the job's and the driver's, look the job up in one        *)
(* snapshot, and then log it, link it to a delivery that is there, or ask  *)
(* an administrator. The other trackers (called direct here) go straight   *)
(* to the common writer, which checks for a duplicate twice.               *)
(*                                                                         *)
(* A named lock outlives commits; it goes with the connection. Between any *)
(* two steps of a request other requests, an administrator and deletions   *)
(* may act, and a request may raise an exception or be killed.             *)
(***************************************************************************)
EXTENDS Naturals, Sequences

CONSTANTS
    Requests,   \* connections: how many imports run at a time
    Nobody,     \* holder of a free lock
    Jobs,       \* what the trackers report: a provider and its job id
    NoJob,
    Drivers,    \* Steam accounts
    Provider,   \* [Jobs -> {"trucky", "truckershub", "direct"}]
    Driver,     \* [Jobs -> Drivers]
    Match,      \* how two jobs compare: "same", "possible" or "different"
    MaxLogs,    \* bound on the rows ever inserted into dlog
    MaxFaults   \* bound on the requests that raise or are killed

Synced == {j \in Jobs : Provider[j] # "direct"}
Hub(j) == Provider[j] = "truckershub"

ASSUME ImportConstants ==
    /\ Nobody \notin Requests
    /\ NoJob \notin Jobs
    /\ Provider \in [Jobs -> {"trucky", "truckershub", "direct"}]
    /\ Driver \in [Jobs -> Drivers]
    /\ Match \in [Jobs -> [Jobs -> {"same", "possible", "different"}]]
    /\ MaxLogs \in Nat
    /\ MaxFaults \in Nat

\* Only jobs of one driver compare, and it does not matter which is new.
ASSUME MatchesAreMutual ==
    \A i, j \in Jobs :
        /\ Match[i][j] = Match[j][i]
        /\ Match[i][j] # "different" => Driver[i] = Driver[j]

VARIABLES
    dlog,        \* the jobs logged, in the order of their logids
    deleted,     \* logids that moved to dlog_deleted
    source,      \* delivery_source: state and logid of each synced job
    sourceLock,  \* holder of the lock hub-source:<provider>:<id>
    driverLock,  \* holder of the lock hub-driver:<steamid>
    req,         \* the requests
    faults,      \* how many raised or were killed
    rewarded,    \* history: how often a job went on to challenges and economy
    confirmed,   \* history: jobs an administrator declared separate
    notified     \* history: jobs whose webhook was accepted or a duplicate

locks == <<sourceLock, driverLock>>
history == <<rewarded, confirmed, notified>>
vars == <<dlog, deleted, source, locks, req, faults, history>>

States == {"none", "linked", "review", "separate", "failed", "pending"}
Steps == {"idle", "scan", "lockSource", "lockDriver", "look", "link",
          "review", "insert", "reward", "saveFailed"}

NoSource == [state |-> "none", log |-> 0]
Idle == [pc |-> "idle", job |-> NoJob, historical |-> FALSE, log |-> 0]

Init ==
    /\ dlog = <<>>
    /\ deleted = {}
    /\ source = [j \in Jobs |-> NoSource]
    /\ sourceLock = [j \in Jobs |-> Nobody]
    /\ driverLock = [d \in Drivers |-> Nobody]
    /\ req = [r \in Requests |-> Idle]
    /\ faults = 0
    /\ rewarded = [j \in Jobs |-> 0]
    /\ confirmed = {}
    /\ notified = {}

-----------------------------------------------------------------------------
(* The tables as a request sees them.                                      *)

LogsOf(j) == {l \in DOMAIN dlog : dlog[l] = j}
LiveLogsOf(j) == LogsOf(j) \ deleted

\* The mutant: the archive of deleted deliveries is not searched.
LiveLogsLike(j, match) ==
    {l \in DOMAIN dlog \ deleted : /\ dlog[l] \in Synced
                                   /\ Provider[dlog[l]] # Provider[j]
                                   /\ Match[j][dlog[l]] = match}

\* Deliveries of the other provider that compare like this with j, the
\* deleted ones included.
LogsLike(j, match) ==
    {l \in DOMAIN dlog : /\ dlog[l] \in Synced
                         /\ Provider[dlog[l]] # Provider[j]
                         /\ Match[j][dlog[l]] = match}

Matches(j) == LogsLike(j, "same")
Possible(j) == Matches(j) \union LogsLike(j, "possible")

-----------------------------------------------------------------------------
(* Steps of a request.                                                     *)

Goto(r, pc) == req' = [req EXCEPT ![r].pc = pc]

Freed(lock, r) ==
    [x \in DOMAIN lock |-> IF lock[x] = r THEN Nobody ELSE lock[x]]

\* The mutant: the driver's lock stays with the connection.
ReleaseSource(r) ==
    /\ sourceLock' = Freed(sourceLock, r)
    /\ UNCHANGED driverLock

\* The finally of ingest, or the end of the connection.
Release(r) ==
    /\ sourceLock' = Freed(sourceLock, r)
    /\ driverLock' = Freed(driverLock, r)

\* Accepted (204), or a duplicate (409).
Answer(r) ==
    /\ Release(r)
    /\ req' = [req EXCEPT ![r] = Idle]
    /\ notified' = IF req[r].historical THEN notified
                   ELSE notified \union {req[r].job}

\* Any other answer: 403, 404, 422.
Refuse(r) ==
    /\ Release(r)
    /\ req' = [req EXCEPT ![r] = Idle]
    /\ UNCHANGED notified

\* The import of a job failed. The TruckersHub worker keeps it for a retry.
GiveUp(r) ==
    /\ Release(r)
    /\ IF Hub(req[r].job) THEN Goto(r, "saveFailed")
       ELSE req' = [req EXCEPT ![r] = Idle]
    /\ UNCHANGED <<dlog, deleted, source, history>>

Begin(r, j, pc, historical) ==
    /\ req[r] = Idle
    /\ req' = [req EXCEPT ![r] = [pc |-> pc, job |-> j,
                                  historical |-> historical, log |-> 0]]
    /\ UNCHANGED <<dlog, deleted, source, locks, faults, history>>

\* A tracker reports a job; it may report it again.
Webhook(r, j) ==
    /\ ~ Hub(j)
    /\ Begin(r, j, IF j \in Synced THEN "lockSource" ELSE "look", FALSE)

\* The Trucky worker, or a member of staff, fetches a job from Trucky.
Import(r, j) ==
    /\ Provider[j] = "trucky"
    /\ Begin(r, j, "lockSource", TRUE)

\* The TruckersHub worker, of which the lease in Redis allows one, comes to
\* a job of the company's list.
Reconcile(r, j) ==
    /\ Hub(j)
    /\ \A q \in Requests : req[q].job # NoJob => ~ Hub(req[q].job)
    /\ Begin(r, j, "scan", TRUE)

\* The mutant: a job that has its delivery is fetched again.
ScanReviewed(r) ==
    /\ req[r].pc = "scan"
    /\ \/ Goto(r, "lockSource") /\ source[req[r].job].state # "review"
       \/ req' = [req EXCEPT ![r] = Idle]
    /\ UNCHANGED <<dlog, deleted, source, locks, faults, history>>

\* It leaves alone what is linked or under review, what failed a short while
\* ago and what is still under way.
Scan(r) ==
    LET link == source[req[r].job] IN
    /\ req[r].pc = "scan"
    /\ \/ Goto(r, "lockSource") /\ link.state # "review" /\ link.log = 0
       \/ req' = [req EXCEPT ![r] = Idle]
    /\ UNCHANGED <<dlog, deleted, source, locks, faults, history>>

LockSource(r) ==
    /\ req[r].pc = "lockSource"
    /\ sourceLock[req[r].job] = Nobody
    /\ sourceLock' = [sourceLock EXCEPT ![req[r].job] = r]
    /\ Goto(r, "lockDriver")
    /\ UNCHANGED <<dlog, deleted, source, driverLock, faults, history>>

\* The mutant: the driver's lock is not waited for.
LockNoDriver(r) ==
    /\ req[r].pc = "lockDriver"
    /\ Goto(r, "look")
    /\ UNCHANGED <<dlog, deleted, source, locks, faults, history>>

LockDriver(r) ==
    LET d == Driver[req[r].job] IN
    /\ req[r].pc = "lockDriver"
    /\ driverLock[d] = Nobody
    /\ driverLock' = [driverLock EXCEPT ![d] = r]
    /\ Goto(r, "look")
    /\ UNCHANGED <<dlog, deleted, source, sourceLock, faults, history>>

\* GET_LOCK timed out: 503.
Busy(r) ==
    /\ \/ /\ req[r].pc = "lockSource"
          /\ sourceLock[req[r].job] # Nobody
       \/ /\ req[r].pc = "lockDriver"
          /\ driverLock[Driver[req[r].job]] # Nobody
    /\ GiveUp(r)
    /\ UNCHANGED faults

-----------------------------------------------------------------------------
(* What a request finds, in one snapshot, and what it does about it.       *)

Found(r, l) == req' = [req EXCEPT ![r].pc = "link", ![r].log = l]

LookDirect(r, j) ==
    IF LiveLogsOf(j) # {} THEN Answer(r)
    ELSE Goto(r, "insert") /\ UNCHANGED <<locks, notified>>

\* The job has no delivery yet: does the other provider's trip match?
LookForTrip(r, j) ==
    /\ \/ /\ source[j].state # "separate"
          /\ \E l \in Matches(j) : Matches(j) = {l} /\ Found(r, l)
       \/ /\ source[j].state # "separate"
          /\ Possible(j) # {}
          /\ \A l \in Matches(j) : Matches(j) # {l}
          /\ Goto(r, "review")
       \/ /\ source[j].state = "separate" \/ Possible(j) = {}
          /\ Goto(r, "insert")
    /\ UNCHANGED <<locks, notified>>

LookSynced(r, j) ==
    \/ /\ source[j].log # 0
       /\ Answer(r)
    \/ /\ source[j].log = 0
       /\ source[j].state = "review"
       /\ Refuse(r)
    \/ /\ source[j].log = 0
       /\ source[j].state # "review"
       /\ \/ /\ LogsOf(j) \intersect deleted # {}
             /\ Answer(r)
          \/ /\ LogsOf(j) \intersect deleted = {}
             /\ \/ /\ \E l \in LiveLogsOf(j) : Found(r, l)
                   /\ UNCHANGED <<locks, notified>>
                \/ LiveLogsOf(j) = {} /\ LookForTrip(r, j)

\* The mutant: neither the links nor the archive of deleted jobs are read.
LookLiveOnly(r) ==
    /\ req[r].pc = "look"
    /\ LookDirect(r, req[r].job)
    /\ UNCHANGED <<dlog, deleted, source, faults, rewarded, confirmed>>

Look(r) ==
    LET j == req[r].job IN
    /\ req[r].pc = "look"
    /\ IF j \in Synced THEN LookSynced(r, j) ELSE LookDirect(r, j)
    /\ UNCHANGED <<dlog, deleted, source, faults, rewarded, confirmed>>

\* save_source, and its commit.
Link(r) ==
    /\ req[r].pc = "link"
    /\ source' = [source EXCEPT ![req[r].job] = [state |-> "linked", log |-> req[r].log]]
    /\ Answer(r)
    /\ UNCHANGED <<dlog, deleted, faults, rewarded, confirmed>>

Review(r) ==
    /\ req[r].pc = "review"
    /\ source' = [source EXCEPT ![req[r].job] = [state |-> "review", log |-> 0]]
    /\ Refuse(r)
    /\ UNCHANGED <<dlog, deleted, faults, rewarded, confirmed>>

Logged(r, j) ==
    /\ Len(dlog) < MaxLogs
    /\ dlog' = Append(dlog, j)
    /\ source' = IF j \in Synced
                 THEN [source EXCEPT ![j] = [state |-> "linked", log |-> Len(dlog) + 1]]
                 ELSE source
    /\ IF req[r].historical THEN Answer(r)
       ELSE Goto(r, "reward") /\ UNCHANGED <<locks, notified>>

\* The mutant: the duplicate is not looked for again before the insert.
InsertUnchecked(r) ==
    /\ req[r].pc = "insert"
    /\ Logged(r, req[r].job)
    /\ UNCHANGED <<deleted, faults, rewarded, confirmed>>

\* The check FOR UPDATE, the INSERTs, save_source and their commit.
Insert(r) ==
    LET j == req[r].job IN
    /\ req[r].pc = "insert"
    /\ IF LiveLogsOf(j) # {} THEN Answer(r) /\ UNCHANGED <<dlog, source>>
       ELSE Logged(r, j)
    /\ UNCHANGED <<deleted, faults, rewarded, confirmed>>

\* Another tracker is the driver's choice, or a delivery rule blocks the job.
\* What the TruckersHub worker brings is past both.
TurnAway(r) ==
    /\ req[r].pc = "insert"
    /\ ~ Hub(req[r].job)
    /\ Refuse(r)
    /\ UNCHANGED <<dlog, deleted, source, faults, rewarded, confirmed>>

\* Challenges and the economy hear of the job.
Reward(r) ==
    /\ req[r].pc = "reward"
    /\ rewarded' = [rewarded EXCEPT ![req[r].job] = @ + 1]
    /\ Answer(r)
    /\ UNCHANGED <<dlog, deleted, source, faults, confirmed>>

-----------------------------------------------------------------------------
(* Failures.                                                               *)

\* An exception before the commit, from the fetch of the job on: ROLLBACK, and
\* the finally.
Raise(r) ==
    /\ faults < MaxFaults
    /\ req[r].pc \in {"lockSource", "lockDriver", "look", "link", "review", "insert"}
    /\ faults' = faults + 1
    /\ GiveUp(r)

\* The connection ends, at any step.
Die(r) ==
    /\ faults < MaxFaults
    /\ req[r] # Idle
    /\ faults' = faults + 1
    /\ Release(r)
    /\ req' = [req EXCEPT ![r] = Idle]
    /\ UNCHANGED <<dlog, deleted, source, history>>

\* The worker writes the failure over whatever the row says.
SaveFailed(r) ==
    /\ req[r].pc = "saveFailed"
    /\ source' = [source EXCEPT ![req[r].job] = [state |-> "failed", log |-> 0]]
    /\ req' = [req EXCEPT ![r] = Idle]
    /\ UNCHANGED <<dlog, deleted, locks, faults, history>>

-----------------------------------------------------------------------------
(* Administrators.                                                         *)

Decide(j, from, to, log) ==
    /\ source[j].state = from
    /\ source' = [source EXCEPT ![j] = [state |-> to, log |-> log]]
    /\ UNCHANGED <<dlog, deleted, locks, req, faults, rewarded, notified>>

\* The mutant: a delivery of any driver will do.
LinkToAny(j) ==
    /\ \E l \in DOMAIN dlog \ deleted : Decide(j, "review", "linked", l)
    /\ UNCHANGED confirmed

\* The delivery named must be there, and be the same driver's. (It may be deleted
\* before the UPDATE; the outcome is that of deleting it right after.)
LinkTo(j) ==
    /\ \E l \in DOMAIN dlog \ deleted :
        Driver[dlog[l]] = Driver[j] /\ Decide(j, "review", "linked", l)
    /\ UNCHANGED confirmed

KeepSeparate(j) ==
    /\ Decide(j, "review", "separate", 0)
    /\ confirmed' = confirmed \union {j}

Retry(j) == Decide(j, "failed", "pending", 0) /\ UNCHANGED confirmed

\* The mutant: the row to archive is not looked for.
DeleteAnyLog(l) ==
    /\ deleted' = deleted \union {l}
    /\ UNCHANGED <<dlog, source, locks, req, faults, history>>

DeleteLog(l) ==
    /\ l \in DOMAIN dlog \ deleted
    /\ deleted' = deleted \union {l}
    /\ UNCHANGED <<dlog, source, locks, req, faults, history>>

-----------------------------------------------------------------------------
Proceed(r) ==
    \/ Scan(r) \/ LockSource(r) \/ LockDriver(r) \/ Busy(r) \/ Look(r)
    \/ Link(r) \/ Review(r) \/ Insert(r) \/ TurnAway(r) \/ Reward(r)
    \/ SaveFailed(r)

Arrive(r) ==
    \E j \in Jobs : Webhook(r, j) \/ Import(r, j) \/ Reconcile(r, j)

Administrate ==
    \/ \E j \in Synced : LinkTo(j) \/ KeepSeparate(j) \/ Retry(j)
    \/ \E l \in 1..MaxLogs : DeleteLog(l)

Next ==
    \/ \E r \in Requests : Arrive(r) \/ Proceed(r) \/ Raise(r) \/ Die(r)
    \/ Administrate

Spec == Init /\ [][Next]_vars

-----------------------------------------------------------------------------
(* Properties.                                                             *)

\* Every variable has its type: a logid in use is one that was given out, and
\* a request knows its job exactly while it has one.
TypeOK ==
    /\ dlog \in Seq(Jobs)
    /\ deleted \subseteq DOMAIN dlog
    /\ source \in [Jobs -> [state : States, log : {0} \union DOMAIN dlog]]
    /\ sourceLock \in [Jobs -> Requests \union {Nobody}]
    /\ driverLock \in [Drivers -> Requests \union {Nobody}]
    /\ req \in [Requests -> [pc : Steps, job : Jobs \union {NoJob},
                             historical : BOOLEAN, log : {0} \union DOMAIN dlog]]
    /\ \A r \in Requests : req[r].job = NoJob <=> req[r].pc = "idle"
    /\ faults \in 0..MaxFaults
    /\ rewarded \in [Jobs -> Nat]
    /\ confirmed \subseteq Jobs
    /\ notified \subseteq Jobs

\* A job of Trucky or TruckersHub is logged once and for all: neither imports
\* that overlap nor one that comes after its deletion log it again. A job of
\* another tracker has one row at a time.
OneLogPerJob ==
    \A k, l \in DOMAIN dlog :
        dlog[k] = dlog[l] /\ k # l =>
            /\ dlog[k] \notin Synced
            /\ {k, l} \intersect deleted # {}

\* Two deliveries of the two providers that are, or may be, one trip are both
\* in the log, or were, only if an administrator declared the later separate.
OneLogPerTrip ==
    \A k, l \in DOMAIN dlog :
        /\ k < l
        /\ {dlog[k], dlog[l]} \subseteq Synced
        /\ Provider[dlog[k]] # Provider[dlog[l]]
        /\ Match[dlog[l]][dlog[k]] # "different"
        => dlog[l] \in confirmed

\* However imports overlap and whatever is deleted, a trip is logged once: neither two
\* rows of one job, nor rows of two jobs of one trip that no administrator separated.
LoggedOnce == OneLogPerJob /\ OneLogPerTrip

\* A source that is linked leads to a delivery of its own driver, and one that
\* is not linked leads nowhere.
LinksStayWithTheDriver ==
    \A j \in Jobs :
        /\ source[j].state = "linked" <=> source[j].log # 0
        /\ source[j].log # 0 => Driver[dlog[source[j].log]] = Driver[j]

\* A job goes on to challenges and the economy once at most, however often
\* its tracker reports it.
RewardedOnce == \A j \in Synced : rewarded[j] <= 1

\* Nothing unlinks a source again or links it to another delivery: not the
\* failure of a retry, nor an administrator, nor a later report.
LinkedStaysLinked ==
    [][\A j \in Jobs : source[j].log # 0 => source'[j] = source[j]]_vars

\* A lock belongs to an import that is at a step for which it took it: none
\* outlives its import, whether that ends with an answer, with a timeout, with
\* an exception or with its connection, so that none keeps a driver's later jobs
\* out.
UsesItsLocks(r) ==
    /\ \A j \in Jobs : sourceLock[j] = r =>
        /\ req[r].job = j
        /\ req[r].pc \in {"lockDriver", "look", "link", "review", "insert", "reward"}
    /\ \A d \in Drivers : driverLock[d] = r =>
        /\ req[r].pc \in {"look", "link", "review", "insert", "reward"}
        /\ Driver[req[r].job] = d

LocksHaveUsers == \A r \in Requests : UsesItsLocks(r)

\* What the documentation says of a review: a job confirmed as separate is
\* waiting for its import, and leaves that state by being imported.
SeparateIsKept ==
    [][\A j \in Jobs : source[j].state = "separate" =>
                          source'[j].state \in {"separate", "linked"}]_vars

\* What the documentation says of challenges: a job its tracker submitted,
\* and the Hub took, has been put to them.
SubmittedIsRewarded == \A j \in notified : rewarded[j] >= 1
=============================================================================
