----------------------- MODULE DeliveryImportProofs -----------------------
(***************************************************************************)
(* Proofs about DeliveryImport, for any jobs, drivers and connections: the *)
(* two named locks are enough to log a job, and a trip, once.              *)
(***************************************************************************)
EXTENDS DeliveryImport, TLAPS

\* From its look at the tables on, an import holds both locks.
UnderLocks == {"look", "link", "review", "insert", "reward"}

HoldsLocks(r) ==
    req[r].job \in Synced =>
        /\ req[r].pc \in UnderLocks \union {"lockDriver"} => sourceLock[req[r].job] = r
        /\ req[r].pc \in UnderLocks => driverLock[Driver[req[r].job]] = r

\* Which jobs come to which steps.
StepFits(r) ==
    req[r].job \in Jobs =>
        /\ req[r].pc \in {"lockSource", "lockDriver", "link", "review"} => req[r].job \in Synced
        /\ req[r].pc \in {"scan", "saveFailed"} => Hub(req[r].job)
        /\ req[r].pc = "reward" => ~ req[r].historical
        /\ Hub(req[r].job) => req[r].historical

\* The lease allows one TruckersHub worker.
OneWorker ==
    \A q, r \in Requests :
        req[q].job # NoJob /\ Hub(req[q].job) /\ req[r].job # NoJob /\ Hub(req[r].job)
            => q = r

\* What an import has found out still holds when it acts on it.
Undecided(j) == source[j].log = 0 /\ source[j].state # "review"

FindingsHold(r) ==
    req[r].job \in Synced =>
        /\ req[r].pc \in {"link", "review", "insert"} => Undecided(req[r].job)
        /\ Hub(req[r].job) /\ req[r].pc # "scan" => Undecided(req[r].job)
        /\ req[r].pc = "link" =>
            /\ req[r].log \in DOMAIN dlog
            /\ Driver[dlog[req[r].log]] = Driver[req[r].job]
        /\ req[r].pc = "insert" =>
            /\ LogsOf(req[r].job) = {}
            /\ Possible(req[r].job) = {} \/ req[r].job \in confirmed

\* A job is kept separate only on an administrator's word.
SeparateWasConfirmed ==
    \A j \in Jobs : source[j].state = "separate" => j \in confirmed

\* A reward follows a log, and the request about to give it gives the first.
RewardsFollowLogs == \A j \in Synced : rewarded[j] > 0 => LogsOf(j) # {}

FirstReward(r) ==
    req[r].job \in Synced /\ req[r].pc = "reward" =>
        LogsOf(req[r].job) # {} /\ rewarded[req[r].job] = 0

LockInv ==
    /\ TypeOK
    /\ \A r \in Requests : HoldsLocks(r) /\ StepFits(r)
    /\ OneWorker

ImportInv ==
    /\ LockInv
    /\ \A r \in Requests : FindingsHold(r) /\ FirstReward(r)
    /\ SeparateWasConfirmed /\ RewardsFollowLogs
    /\ OneLogPerJob /\ OneLogPerTrip /\ LinksStayWithTheDriver /\ RewardedOnce

-----------------------------------------------------------------------------
(* Types.                                                                  *)

\* Appending to a sequence leaves its elements alone.
LEMMA Appended ==
    ASSUME NEW S, NEW s \in Seq(S), NEW x \in S
    PROVE  /\ Append(s, x) \in Seq(S)
           /\ Len(s) \in Nat
           /\ DOMAIN s = 1..Len(s)
           /\ DOMAIN Append(s, x) = 1..(Len(s) + 1)
           /\ DOMAIN s \subseteq DOMAIN Append(s, x)
           /\ \A i \in DOMAIN s : Append(s, x)[i] = s[i] /\ s[i] \in S
           /\ Append(s, x)[Len(s) + 1] = x
    OBVIOUS

Source == [state : States, log : {0} \union DOMAIN dlog]
Request == [pc : Steps, job : Jobs \union {NoJob}, historical : BOOLEAN,
            log : {0} \union DOMAIN dlog]

LocksTyped ==
    /\ sourceLock \in [Jobs -> Requests \union {Nobody}]
    /\ driverLock \in [Drivers -> Requests \union {Nobody}]

RequestsTyped ==
    /\ req \in [Requests -> Request]
    /\ \A r \in Requests : req[r].job = NoJob <=> req[r].pc = "idle"

\* Whatever a request does at the end, its locks and the requests keep their
\* types.
LEMMA ReleaseTypes ==
    ASSUME LocksTyped, NEW r \in Requests, Release(r)
    PROVE  LocksTyped'
    BY DEF LocksTyped, Release, Freed

\* A request that ends is typed, with the log as it was or longer.
LEMMA IdleTypes ==
    ASSUME RequestsTyped, NEW r \in Requests, DOMAIN dlog \subseteq DOMAIN dlog',
           req' = [req EXCEPT ![r] = Idle]
    PROVE  RequestsTyped'
    BY ImportConstants DEF RequestsTyped, Request, Idle, Steps

\* So is one that goes to another step.
LEMMA GotoTypes ==
    ASSUME RequestsTyped, NEW r \in Requests, DOMAIN dlog \subseteq DOMAIN dlog',
           NEW pc \in Steps \ {"idle"}, req[r].pc # "idle", Goto(r, pc)
    PROVE  RequestsTyped'
    BY DEF RequestsTyped, Request, Goto

\* The type invariant, with its parts named.
LEMMA TypeOKParts ==
    TypeOK <=> /\ dlog \in Seq(Jobs)
               /\ deleted \subseteq DOMAIN dlog
               /\ source \in [Jobs -> Source]
               /\ LocksTyped
               /\ RequestsTyped
               /\ faults \in 0..MaxFaults
               /\ rewarded \in [Jobs -> Nat]
               /\ confirmed \subseteq Jobs
               /\ notified \subseteq Jobs
    BY DEF TypeOK, Source, LocksTyped, RequestsTyped, Request

\* It holds at first.
LEMMA TypeInit == Init => TypeOK
    BY ImportConstants
    DEF Init, TypeOK, NoSource, Idle, States, Steps

\* The ways a request can end.
LEMMA EndTypes ==
    ASSUME TypeOK, NEW r \in Requests, req[r].pc # "idle",
           DOMAIN dlog \subseteq DOMAIN dlog',
           Answer(r) \/ Refuse(r)
    PROVE  LocksTyped' /\ RequestsTyped' /\ notified' \subseteq Jobs
<1>1. LocksTyped /\ RequestsTyped /\ notified \subseteq Jobs
    BY TypeOKParts
<1>2. Release(r) /\ req' = [req EXCEPT ![r] = Idle]
    BY DEF Answer, Refuse
<1>3. LocksTyped' /\ RequestsTyped'
    BY <1>1, <1>2, ReleaseTypes, IdleTypes
<1>4. req[r].job \in Jobs
    BY <1>1 DEF RequestsTyped, Request
<1>5. notified' \subseteq Jobs
    BY <1>1, <1>4 DEF Answer, Refuse
<1> QED
    BY <1>3, <1>5

\* A failed import keeps the types.
LEMMA GiveUpTypes ==
    ASSUME TypeOK, NEW r \in Requests, req[r].pc # "idle",
           faults' \in 0..MaxFaults, GiveUp(r)
    PROVE  TypeOK'
<1>1. LocksTyped /\ RequestsTyped
    BY TypeOKParts
<1>2. Release(r) /\ DOMAIN dlog \subseteq DOMAIN dlog'
    BY DEF GiveUp
<1>3. LocksTyped'
    BY <1>1, <1>2, ReleaseTypes
<1>4. CASE Goto(r, "saveFailed")
  <2>1. RequestsTyped'
      BY <1>1, <1>2, <1>4, GotoTypes DEF Steps
  <2> QED
      BY <2>1, <1>3, TypeOKParts DEF GiveUp, history, TypeOK, RequestsTyped, Request, LocksTyped
<1>5. CASE req' = [req EXCEPT ![r] = Idle]
  <2>1. RequestsTyped'
      BY <1>1, <1>2, <1>5, IdleTypes
  <2> QED
      BY <2>1, <1>3, TypeOKParts DEF GiveUp, history, TypeOK, RequestsTyped, Request, LocksTyped
<1> QED
    BY <1>4, <1>5 DEF GiveUp

\* A request that begins with a job keeps the types.
LEMMA BeginTypes ==
    ASSUME TypeOK, NEW r \in Requests, NEW j \in Jobs, NEW pc \in Steps \ {"idle"},
           NEW historical \in BOOLEAN, Begin(r, j, pc, historical)
    PROVE  TypeOK'
<1>1. RequestsTyped'
    BY ImportConstants, TypeOKParts DEF RequestsTyped, Request, Begin
<1> QED
    BY <1>1 DEF Begin, history, locks, TypeOK, RequestsTyped, Request

\* However it arrives.
LEMMA TypeArrive ==
    ASSUME TypeOK, NEW r \in Requests, Arrive(r)
    PROVE  TypeOK'
<1>1. PICK j \in Jobs : Webhook(r, j) \/ Import(r, j) \/ Reconcile(r, j)
    BY DEF Arrive
<1>2. \E pc \in Steps \ {"idle"}, historical \in BOOLEAN : Begin(r, j, pc, historical)
    BY <1>1 DEF Webhook, Import, Reconcile, Steps
<1> QED
    BY <1>2, BeginTypes

\* A job a request has logged, or has failed to log because another had.
LEMMA TypeInsert ==
    ASSUME TypeOK, NEW r \in Requests, Insert(r)
    PROVE  TypeOK'
<1> DEFINE j == req[r].job
<1>1. req[r].pc = "insert" /\ j \in Jobs
    BY TypeOKParts DEF Insert, RequestsTyped, Request
<1>2. LocksTyped /\ RequestsTyped
    BY TypeOKParts
<1>3. CASE LiveLogsOf(j) # {}
  <2>1. Answer(r) /\ UNCHANGED <<dlog, source>>
      BY <1>3 DEF Insert
  <2>2. LocksTyped' /\ RequestsTyped' /\ notified' \subseteq Jobs
      BY <1>1, <2>1, EndTypes
  <2> QED
      BY <2>1, <2>2 DEF Insert, TypeOK, RequestsTyped, Request, LocksTyped
<1>4. CASE LiveLogsOf(j) = {}
  <2>1. Logged(r, j)
      BY <1>4 DEF Insert
  <2>2. /\ dlog' \in Seq(Jobs)
        /\ DOMAIN dlog \subseteq DOMAIN dlog'
        /\ Len(dlog) + 1 \in DOMAIN dlog'
      BY <2>1, <1>1, Appended DEF Logged, TypeOK
  <2>3. LocksTyped' /\ RequestsTyped' /\ notified' \subseteq Jobs
    <3>1. CASE Answer(r)
        BY <3>1, <1>1, <2>2, EndTypes
    <3>2. CASE Goto(r, "reward") /\ UNCHANGED <<locks, notified>>
      <4>1. RequestsTyped'
          BY <3>2, <1>1, <1>2, <2>2, GotoTypes DEF Steps
      <4> QED
          BY <4>1, <1>2, <3>2, TypeOKParts DEF locks, LocksTyped
    <3> QED
        BY <2>1, <3>1, <3>2 DEF Logged
  <2>4. source' \in [Jobs -> [state : States, log : {0} \union DOMAIN dlog']]
      BY <2>1, <2>2, <1>1 DEF Logged, TypeOK, States
  <2> QED
      BY <2>2, <2>3, <2>4 DEF Insert, TypeOK, RequestsTyped, Request, LocksTyped
<1> QED
    BY <1>3, <1>4

\* A look at the tables leads to an end or to another step.
LEMMA TypeLook ==
    ASSUME TypeOK, NEW r \in Requests, Look(r)
    PROVE  TypeOK'
<1>1. /\ req[r].pc = "look"
      /\ UNCHANGED <<dlog, deleted, source, faults, rewarded, confirmed>>
    BY DEF Look
<1>2. LocksTyped /\ RequestsTyped
    BY TypeOKParts
<1>3. \/ Answer(r)
      \/ Refuse(r)
      \/ /\ \/ \E pc \in Steps \ {"idle"} : Goto(r, pc)
            \/ \E l \in DOMAIN dlog : Found(r, l)
         /\ UNCHANGED <<locks, notified>>
    BY DEF Look, LookDirect, LookSynced, LookForTrip, LiveLogsOf, LogsOf, Matches,
           LogsLike, Steps
<1>4. CASE Answer(r) \/ Refuse(r)
  <2>1. LocksTyped' /\ RequestsTyped' /\ notified' \subseteq Jobs
      BY <1>1, <1>4, EndTypes
  <2> QED
      BY <1>1, <2>1 DEF TypeOK, RequestsTyped, Request, LocksTyped
<1>5. CASE /\ \/ \E pc \in Steps \ {"idle"} : Goto(r, pc)
              \/ \E l \in DOMAIN dlog : Found(r, l)
           /\ UNCHANGED <<locks, notified>>
  <2>1. RequestsTyped'
    <3>1. CASE \E pc \in Steps \ {"idle"} : Goto(r, pc)
        BY <1>1, <1>2, <3>1, GotoTypes
    <3>2. CASE \E l \in DOMAIN dlog : Found(r, l)
      <4>1. PICK l \in DOMAIN dlog : Found(r, l)
          BY <3>2
      <4>2. /\ req[r] \in Request
            /\ req' = [req EXCEPT ![r] = [req[r] EXCEPT !.pc = "link", !.log = l]]
          BY <1>2, <4>1 DEF RequestsTyped, Found, Request
      <4>3. [req[r] EXCEPT !.pc = "link", !.log = l] \in Request
          BY <4>2 DEF Request, Steps
      <4>4. req' \in [Requests -> Request]
          BY <1>2, <4>2, <4>3 DEF RequestsTyped
      <4>5. \A q \in Requests : req'[q].job = NoJob <=> req'[q].pc = "idle"
          BY <1>1, <1>2, <4>2 DEF RequestsTyped, Request
      <4> QED
          BY <1>1, <4>4, <4>5 DEF RequestsTyped, Request
    <3> QED
        BY <1>5, <3>1, <3>2
  <2> QED
      BY <1>1, <1>5, <2>1 DEF locks, TypeOK, RequestsTyped, Request, LocksTyped
<1> QED
    BY <1>3, <1>4, <1>5

\* Every step of a request keeps the types.
LEMMA TypeProceed ==
    ASSUME TypeOK, NEW r \in Requests, Proceed(r)
    PROVE  TypeOK'
<1> USE DEF history, locks
<1>0. LocksTyped /\ RequestsTyped /\ req[r].pc \in Steps
    BY TypeOKParts DEF RequestsTyped, Request
<1>1. CASE Scan(r)
  <2>1. RequestsTyped'
      BY <1>0, <1>1, GotoTypes, IdleTypes DEF Scan, Steps
  <2> QED
      BY <1>1, <2>1 DEF Scan, TypeOK, RequestsTyped, Request
<1>2. CASE LockSource(r)
  <2>1. RequestsTyped'
      BY <1>0, <1>2, GotoTypes DEF LockSource, Steps
  <2> QED
      BY <1>2, <2>1 DEF LockSource, TypeOK, RequestsTyped, Request
<1>3. CASE LockDriver(r)
  <2>1. RequestsTyped'
      BY <1>0, <1>3, GotoTypes DEF LockDriver, Steps
  <2> QED
      BY <1>3, <2>1 DEF LockDriver, TypeOK, RequestsTyped, Request
<1>4. CASE Busy(r)
    BY <1>4, GiveUpTypes DEF Busy, TypeOK
<1>5. CASE Look(r)
    BY <1>5, TypeLook
<1>6. CASE Link(r) \/ Review(r)
  <2>1. /\ req[r].pc # "idle" /\ UNCHANGED <<dlog, deleted, faults, rewarded, confirmed>>
        /\ Answer(r) \/ Refuse(r)
      BY <1>6 DEF Link, Review
  <2>2. LocksTyped' /\ RequestsTyped' /\ notified' \subseteq Jobs
      BY <2>1, EndTypes
  <2>3. source' \in [Jobs -> [state : States, log : {0} \union DOMAIN dlog]]
    <3>1. req[r].log \in {0} \union DOMAIN dlog
        BY <1>0 DEF RequestsTyped, Request
    <3>2. CASE Link(r)
        BY <3>1, <3>2 DEF Link, TypeOK, States
    <3>3. CASE Review(r)
        BY <3>3 DEF Review, TypeOK, States
    <3> QED
        BY <1>6, <3>2, <3>3
  <2> QED
      BY <2>1, <2>2, <2>3 DEF TypeOK, RequestsTyped, Request, LocksTyped
<1>7. CASE Insert(r)
    BY <1>7, TypeInsert
<1>8. CASE TurnAway(r)
  <2>1. LocksTyped' /\ RequestsTyped' /\ notified' \subseteq Jobs
      BY <1>8, EndTypes DEF TurnAway
  <2> QED
      BY <1>8, <2>1 DEF TurnAway, TypeOK, RequestsTyped, Request, LocksTyped
<1>9. CASE Reward(r)
  <2>1. LocksTyped' /\ RequestsTyped' /\ notified' \subseteq Jobs
      BY <1>9, EndTypes DEF Reward
  <2>2. rewarded' \in [Jobs -> Nat]
      BY <1>0, <1>9 DEF Reward, TypeOK, RequestsTyped, Request
  <2> QED
      BY <1>9, <2>1, <2>2 DEF Reward, TypeOK, RequestsTyped, Request, LocksTyped
<1>10. CASE SaveFailed(r)
  <2>1. RequestsTyped'
      BY <1>0, <1>10, IdleTypes DEF SaveFailed
  <2> QED
      BY <1>10, <2>1 DEF SaveFailed, TypeOK, RequestsTyped, Request, States
<1> QED
    BY <1>1, <1>2, <1>3, <1>4, <1>5, <1>6, <1>7, <1>8, <1>9, <1>10 DEF Proceed

\* Every step does.
LEMMA TypeNext == TypeOK /\ [Next]_vars => TypeOK'
<1> SUFFICES ASSUME TypeOK, [Next]_vars
             PROVE  TypeOK'
    OBVIOUS
<1>1. CASE \E r \in Requests : Arrive(r)
    BY <1>1, TypeArrive
<1>2. CASE \E r \in Requests : Proceed(r)
    BY <1>2, TypeProceed
<1>3. ASSUME NEW r \in Requests, Raise(r)
      PROVE  TypeOK'
  <2>1. faults' \in 0..MaxFaults
      BY <1>3, ImportConstants DEF Raise, TypeOK
  <2> QED
      BY <1>3, <2>1, GiveUpTypes DEF Raise
<1>4. ASSUME NEW r \in Requests, Die(r)
      PROVE  TypeOK'
  <2>1. LocksTyped' /\ RequestsTyped'
      BY <1>4, TypeOKParts, ReleaseTypes, IdleTypes DEF Die
  <2>2. faults' \in 0..MaxFaults
      BY <1>4, ImportConstants DEF Die, TypeOK
  <2> QED
      BY <1>4, <2>1, <2>2 DEF Die, history, TypeOK, RequestsTyped, Request, LocksTyped
<1>5. CASE Administrate
  <2>1. ASSUME NEW j \in Jobs, NEW from, NEW to \in States,
               NEW l \in {0} \union DOMAIN dlog, Decide(j, from, to, l),
               confirmed' \subseteq Jobs
        PROVE  TypeOK'
      BY <2>1 DEF Decide, locks, TypeOK
  <2>2. ASSUME NEW j \in Synced, LinkTo(j) \/ KeepSeparate(j) \/ Retry(j)
        PROVE  TypeOK'
    <3>1. j \in Jobs /\ confirmed' \subseteq Jobs /\ {"linked", "separate", "pending"} \subseteq States
        BY <2>2 DEF LinkTo, KeepSeparate, Retry, TypeOK, Synced, States
    <3>2. \E from, to \in States, l \in {0} \union DOMAIN dlog : Decide(j, from, to, l)
        BY <2>2, <3>1 DEF LinkTo, KeepSeparate, Retry, States
    <3> QED
        BY <2>1, <3>1, <3>2
  <2>3. ASSUME NEW l \in 1..MaxLogs, DeleteLog(l)
        PROVE  TypeOK'
      BY <2>3 DEF DeleteLog, locks, history, TypeOK
  <2> QED
      BY <1>5, <2>2, <2>3 DEF Administrate
<1>6. CASE UNCHANGED vars
    BY <1>6 DEF vars, locks, history, TypeOK
<1> QED
    BY <1>1, <1>2, <1>3, <1>4, <1>5, <1>6 DEF Next

\* The tables, the locks and the requests keep their types: no step leads to a
\* logid that was never given out, or forgets the job it works on.
THEOREM TypeCorrect == Spec => []TypeOK
<1> QED
    BY TypeInit, TypeNext, PTL DEF Spec

-----------------------------------------------------------------------------
(* Locks. A step of one request leaves the others, and their locks, alone. *)

RequestStep(r) == Arrive(r) \/ Proceed(r) \/ Raise(r) \/ Die(r)

\* How a step changes its request.
Goes(r, pc) == req' = [req EXCEPT ![r].pc = pc]
Ends(r) == req' = [req EXCEPT ![r] = Idle]
Starts(r) ==
    \E j \in Jobs :
        \/ /\ j \in Synced /\ ~ Hub(j)
           /\ \E h \in BOOLEAN : Begin(r, j, "lockSource", h)
        \/ j \notin Synced /\ Begin(r, j, "look", FALSE)
        \/ Reconcile(r, j)

\* The four ways a step changes its own request.
LEMMA Changes ==
    ASSUME NEW r \in Requests, RequestStep(r)
    PROVE  \/ Starts(r)
           \/ Ends(r)
           \/ \E pc \in Steps \ {"idle"} : Goes(r, pc)
           \/ \E l \in DOMAIN dlog : Found(r, l)
<1>1. CASE Arrive(r)
    BY <1>1 DEF Arrive, Webhook, Import, Starts, Synced, Hub
<1>2. CASE Look(r)
    BY <1>2
    DEF Look, LookDirect, LookSynced, LookForTrip, LiveLogsOf, LogsOf, Matches,
        LogsLike, Steps, Answer, Refuse, Goto, Ends, Goes
<1>3. CASE RequestStep(r) /\ ~ Arrive(r) /\ ~ Look(r)
    BY <1>3
    DEF RequestStep, Proceed, Scan, LockSource, LockDriver, Busy, Link, Review, Insert,
        Logged, TurnAway, Reward, SaveFailed, Raise, Die, GiveUp, Answer, Refuse, Goto,
        Ends, Goes, Steps
<1> QED
    BY <1>1, <1>2, <1>3 DEF RequestStep

\* No step changes another request.
LEMMA OthersStay ==
    ASSUME TypeOK, NEW r \in Requests, RequestStep(r), NEW q \in Requests, q # r
    PROVE  req'[q] = req[q]
<1>1. req \in [Requests -> Request]
    BY TypeOKParts DEF RequestsTyped
<1>2. CASE Starts(r)
    BY <1>1, <1>2 DEF Starts, Begin, Reconcile
<1>3. CASE Ends(r)
    BY <1>1, <1>3 DEF Ends
<1>4. CASE \E pc \in Steps \ {"idle"} : Goes(r, pc)
    BY <1>1, <1>4 DEF Goes
<1>5. CASE \E l \in DOMAIN dlog : Found(r, l)
    BY <1>1, <1>5 DEF Found
<1> QED
    BY <1>2, <1>3, <1>4, <1>5, Changes

\* What a step does to the locks.
LEMMA LockChanges ==
    ASSUME NEW r \in Requests, RequestStep(r)
    PROVE  Release(r) \/ UNCHANGED locks \/ LockSource(r) \/ LockDriver(r)
<1>1. CASE Arrive(r)
    BY <1>1 DEF Arrive, Webhook, Import, Reconcile, Begin
<1>2. CASE Look(r)
    BY <1>2
    DEF Look, LookDirect, LookSynced, LookForTrip, Answer, Refuse
<1>3. CASE RequestStep(r) /\ ~ Arrive(r) /\ ~ Look(r)
    BY <1>3
    DEF RequestStep, Proceed, Scan, Busy, Link, Review, Insert,
        Logged, TurnAway, Reward, SaveFailed, Raise, Die, GiveUp, Answer, Refuse
<1> QED
    BY <1>1, <1>2, <1>3 DEF RequestStep

\* No step frees or takes a lock another request holds.
LEMMA OthersLocksStay ==
    ASSUME TypeOK, NEW r \in Requests, RequestStep(r), NEW q \in Requests, q # r
    PROVE  /\ \A j \in Jobs : sourceLock[j] = q => sourceLock'[j] = q
           /\ \A d \in Drivers : driverLock[d] = q => driverLock'[d] = q
<1>1. Nobody \notin Requests
    BY ImportConstants
<1>2. CASE Release(r)
    BY <1>2 DEF Release, Freed, TypeOK
<1>3. CASE UNCHANGED locks
    BY <1>3 DEF locks
<1>4. CASE LockSource(r)
    BY <1>1, <1>4 DEF LockSource, TypeOK
<1>5. CASE LockDriver(r)
    BY <1>1, <1>5 DEF LockDriver, TypeOK
<1> QED
    BY <1>2, <1>3, <1>4, <1>5, LockChanges

\* No request has a job at first, so no lock is called for.
LEMMA LocksInit == Init => LockInv
<1> SUFFICES ASSUME Init
             PROVE  /\ \A r \in Requests : HoldsLocks(r) /\ StepFits(r)
                    /\ OneWorker
    BY TypeInit DEF LockInv
<1>1. \A r \in Requests : req[r].job = NoJob
    BY DEF Init, Idle
<1>2. NoJob \notin Jobs /\ NoJob \notin Synced
    BY ImportConstants DEF Synced
<1> QED
    BY <1>1, <1>2 DEF HoldsLocks, StepFits, OneWorker

\* What Look leads to, if the request goes on.
LEMMA LookLeads ==
    ASSUME NEW r \in Requests, Look(r), ~ Ends(r)
    PROVE  /\ UNCHANGED <<locks, notified>>
           /\ \/ Goes(r, "insert")
              \/ /\ req[r].job \in Synced
                 /\ Goes(r, "review") \/ \E l \in DOMAIN dlog : Found(r, l)
    BY DEF Look, LookDirect, LookSynced, LookForTrip, LiveLogsOf, LogsOf, Matches,
           LogsLike, Answer, Refuse, Goto, Ends, Goes

\* A step that leads its request on has taken the locks for it.
LEMMA OwnLocks ==
    ASSUME LockInv, NEW r \in Requests, RequestStep(r)
    PROVE  HoldsLocks(r)' /\ StepFits(r)'
<1>0. /\ TypeOK /\ HoldsLocks(r) /\ StepFits(r)
      /\ req \in [Requests -> Request]
      /\ req[r] \in Request
      /\ req[r].job = NoJob <=> req[r].pc = "idle"
      /\ NoJob \notin Jobs /\ NoJob \notin Synced
    BY TypeOKParts, ImportConstants DEF LockInv, RequestsTyped, Synced
<1> USE DEF UnderLocks
<1>1. CASE Starts(r)
  <2>1. CASE \E j \in Jobs : Reconcile(r, j)
      BY <1>0, <2>1 DEF Reconcile, Begin, HoldsLocks, StepFits, Synced, Hub
  <2>2. CASE \E j \in Jobs, h \in BOOLEAN :
                j \in Synced /\ ~ Hub(j) /\ Begin(r, j, "lockSource", h)
      BY <1>0, <2>2 DEF Begin, HoldsLocks, StepFits, Synced, Hub
  <2>3. CASE \E j \in Jobs : j \notin Synced /\ Begin(r, j, "look", FALSE)
      BY <1>0, <2>3 DEF Begin, HoldsLocks, StepFits, Synced, Hub
  <2> QED
      BY <1>1, <2>1, <2>2, <2>3 DEF Starts
<1>2. CASE Ends(r)
  <2>1. req'[r].job = NoJob
      BY <1>0, <1>2 DEF Ends, Idle
  <2> QED
      BY <1>0, <2>1 DEF HoldsLocks, StepFits
<1>3. CASE Scan(r) /\ ~ Ends(r)
    BY <1>0, <1>3 DEF Scan, Goto, Ends, HoldsLocks, StepFits, Request, Hub, Synced
<1>4. CASE LockSource(r)
    BY <1>0, <1>4 DEF LockSource, Goto, HoldsLocks, StepFits, Request, TypeOK
<1>5. CASE LockDriver(r)
  <2>1. req[r].job \in Jobs /\ req[r].job \in Synced
      BY <1>0, <1>5 DEF LockDriver, StepFits, Request
  <2>2. Driver[req[r].job] \in Drivers
      BY <2>1, ImportConstants
  <2> QED
      BY <1>0, <1>5, <2>1, <2>2 DEF LockDriver, Goto, HoldsLocks, StepFits, Request, TypeOK
<1>6. CASE Look(r) /\ ~ Ends(r)
  <2>1. req[r].pc = "look" /\ UNCHANGED locks
      BY <1>6, LookLeads DEF Look
  <2>2. CASE Goes(r, "insert")
      BY <1>0, <2>1, <2>2 DEF Goes, locks, HoldsLocks, StepFits, Request
  <2>3. CASE req[r].job \in Synced /\ Goes(r, "review")
      BY <1>0, <2>1, <2>3 DEF Goes, locks, HoldsLocks, StepFits, Request
  <2>4. CASE req[r].job \in Synced /\ \E l \in DOMAIN dlog : Found(r, l)
      BY <1>0, <2>1, <2>4 DEF Found, locks, HoldsLocks, StepFits, Request
  <2> QED
      BY <1>6, <2>2, <2>3, <2>4, LookLeads
<1>7. CASE Insert(r) /\ ~ Ends(r)
    BY <1>0, <1>7
    DEF Insert, Logged, Answer, Goto, Ends, locks, HoldsLocks, StepFits, Request
<1>8. CASE GiveUp(r) /\ ~ Ends(r)
    BY <1>0, <1>8 DEF GiveUp, Goto, Ends, HoldsLocks, StepFits, Request, Synced, Hub
<1>9. Arrive(r) => Starts(r)
    BY DEF Arrive, Webhook, Import, Starts, Synced, Hub
<1> QED
    BY <1>1, <1>2, <1>3, <1>4, <1>5, <1>6, <1>7, <1>8, <1>9
    DEF RequestStep, Proceed, Busy, Link, Review, TurnAway, Reward, SaveFailed, Raise,
        Die, Answer, Refuse, Ends

\* A second TruckersHub worker never starts.
LEMMA OwnWorker ==
    ASSUME LockInv, NEW r \in Requests, RequestStep(r)
    PROVE  OneWorker'
<1>0. /\ TypeOK /\ OneWorker
      /\ req \in [Requests -> Request]
      /\ \A q \in Requests : q # r => req'[q] = req[q]
    BY TypeOKParts, OthersStay DEF LockInv, RequestsTyped
<1>1. req'[r].job = req[r].job \/ req'[r].job = NoJob
      \/ ~ Hub(req'[r].job)
      \/ \A q \in Requests : req[q].job # NoJob => ~ Hub(req[q].job)
  <2>1. CASE \E j \in Jobs : Reconcile(r, j)
      BY <2>1 DEF Reconcile
  <2>2. CASE Starts(r) /\ ~ \E j \in Jobs : Reconcile(r, j)
      BY <1>0, <2>2 DEF Starts, Begin, Synced, Hub
  <2>3. CASE Ends(r)
      BY <1>0, <2>3 DEF Ends, Idle
  <2>4. CASE \E pc \in Steps \ {"idle"} : Goes(r, pc)
      BY <1>0, <2>4 DEF Goes, Request
  <2>5. CASE \E l \in DOMAIN dlog : Found(r, l)
      BY <1>0, <2>5 DEF Found, Request
  <2> QED
      BY <2>1, <2>2, <2>3, <2>4, <2>5, Changes
<1> QED
    BY <1>0, <1>1 DEF OneWorker

\* Administrators neither import, nor lock, nor reward.
LEMMA AdministrateLeaves ==
    Administrate => UNCHANGED <<dlog, locks, req, faults, rewarded, notified>>
    BY DEF Administrate, LinkTo, KeepSeparate, Retry, DeleteLog, Decide, history

\* Every step keeps the locks with the requests that need them.
LEMMA LockNext == LockInv /\ [Next]_vars => LockInv'
<1> SUFFICES ASSUME LockInv, [Next]_vars
             PROVE  LockInv'
    OBVIOUS
<1>1. TypeOK'
    BY TypeNext DEF LockInv
<1>2. ASSUME NEW r \in Requests, RequestStep(r)
      PROVE  LockInv'
  <2>1. HoldsLocks(r)' /\ StepFits(r)' /\ OneWorker'
      BY <1>2, OwnLocks, OwnWorker
  <2>2. ASSUME NEW q \in Requests, q # r
        PROVE  HoldsLocks(q)' /\ StepFits(q)'
    <3>1. req'[q] = req[q] /\ HoldsLocks(q) /\ StepFits(q)
        BY <1>2, <2>2, OthersStay DEF LockInv
    <3>2. \A j \in Synced : j \in Jobs /\ Driver[j] \in Drivers
        BY ImportConstants DEF Synced
    <3> QED
        BY <1>2, <2>2, <3>1, <3>2, OthersLocksStay DEF LockInv, HoldsLocks, StepFits
  <2> QED
      BY <1>1, <2>1, <2>2 DEF LockInv
<1>3. CASE UNCHANGED <<locks, req>>
    BY <1>1, <1>3 DEF LockInv, locks, HoldsLocks, StepFits, OneWorker
<1> QED
    BY <1>2, <1>3, AdministrateLeaves DEF Next, RequestStep, vars

\* No step gives another request a lock.
LEMMA OthersTakeNone ==
    ASSUME TypeOK, NEW r \in Requests, RequestStep(r), NEW q \in Requests, q # r
    PROVE  /\ \A j \in Jobs : sourceLock'[j] = q => sourceLock[j] = q
           /\ \A d \in Drivers : driverLock'[d] = q => driverLock[d] = q
<1>1. Nobody \notin Requests
    BY ImportConstants
<1>2. CASE Release(r)
    BY <1>1, <1>2 DEF Release, Freed, TypeOK
<1>3. CASE UNCHANGED locks
    BY <1>3 DEF locks
<1>4. CASE LockSource(r)
    BY <1>4 DEF LockSource, TypeOK
<1>5. CASE LockDriver(r)
    BY <1>5 DEF LockDriver, TypeOK
<1> QED
    BY <1>2, <1>3, <1>4, <1>5, LockChanges

\* A request that releases its locks, or has none, uses what it holds.
HoldsNone(r) ==
    /\ \A j \in Jobs : sourceLock[j] # r
    /\ \A d \in Drivers : driverLock[d] # r

\* Who releases holds no lock any more.
LEMMA ReleasedHoldsNone ==
    ASSUME TypeOK, NEW r \in Requests, Release(r)
    PROVE  HoldsNone(r)'
<1>1. Nobody \notin Requests
    BY ImportConstants
<1> QED
    BY <1>1 DEF Release, Freed, HoldsNone, TypeOK

\* Who holds no lock has none that it does not use.
LEMMA HoldsNoneUses == \A r \in Requests : HoldsNone(r) => UsesItsLocks(r)
    BY DEF HoldsNone, UsesItsLocks

\* A step that does not release its request's locks leads it to where it still
\* uses them.
LEMMA OwnLocksUsed ==
    ASSUME LockInv, NEW r \in Requests, UsesItsLocks(r), RequestStep(r)
    PROVE  UsesItsLocks(r)'
<1>0. /\ TypeOK /\ StepFits(r)
      /\ req \in [Requests -> Request]
      /\ req[r] \in Request
      /\ req[r].job = NoJob <=> req[r].pc = "idle"
      /\ Nobody \notin Requests
    BY TypeOKParts, ImportConstants DEF LockInv, RequestsTyped
<1>1. CASE Release(r)
    BY <1>0, <1>1, ReleasedHoldsNone DEF HoldsNone, UsesItsLocks
<1>2. CASE UNCHANGED locks /\ req[r].pc \in {"idle", "scan", "lockSource", "saveFailed"}
  <2>1. HoldsNone(r)'
      BY <1>2 DEF UsesItsLocks, HoldsNone, locks
  <2> QED
      BY <2>1 DEF HoldsNone, UsesItsLocks
<1>3. CASE LockSource(r)
    BY <1>0, <1>3 DEF LockSource, Goto, UsesItsLocks, Request, TypeOK
<1>4. CASE LockDriver(r)
    BY <1>0, <1>4 DEF LockDriver, Goto, UsesItsLocks, Request, TypeOK
<1>5. CASE Look(r) /\ ~ Ends(r)
  <2>1. req[r].pc = "look" /\ UNCHANGED locks
      BY <1>5, LookLeads DEF Look
  <2>2. CASE Goes(r, "insert") \/ Goes(r, "review")
      BY <1>0, <2>1, <2>2 DEF Goes, locks, UsesItsLocks, Request
  <2>3. CASE \E l \in DOMAIN dlog : Found(r, l)
      BY <1>0, <2>1, <2>3 DEF Found, locks, UsesItsLocks, Request
  <2> QED
      BY <1>5, <2>2, <2>3, LookLeads
<1>6. CASE Insert(r) /\ ~ Release(r)
  <2>1. req[r].pc = "insert" /\ UNCHANGED locks /\ Goes(r, "reward")
      BY <1>6 DEF Insert, Logged, Answer, Goto, Goes
  <2> QED
      BY <1>0, <2>1 DEF Goes, locks, UsesItsLocks, Request
<1>7. Look(r) /\ Ends(r) => Release(r)
  <2> SUFFICES ASSUME Look(r), Ends(r), ~ Release(r)
               PROVE  FALSE
      OBVIOUS
  <2>1. req[r].pc = "look" /\ req'[r].pc = "idle"
      BY <1>0 DEF Look, Ends, Idle
  <2> QED
      BY <1>0, <2>1
      DEF Look, LookDirect, LookSynced, LookForTrip, Answer, Refuse, Goto, Found, Request
<1>8. Arrive(r) => UNCHANGED locks /\ req[r].pc = "idle"
    BY <1>0 DEF Arrive, Webhook, Import, Reconcile, Begin, Idle
<1> QED
    BY <1>1, <1>2, <1>3, <1>4, <1>5, <1>6, <1>7, <1>8
    DEF RequestStep, Proceed, Scan, Busy, Link, Review, TurnAway, Reward, SaveFailed,
        Raise, Die, GiveUp, Answer, Refuse

\* Nobody holds a lock at first.
LEMMA UsersInit == Init => LocksHaveUsers
    BY ImportConstants DEF Init, LocksHaveUsers, UsesItsLocks

\* After every step, each lock that is held is still used.
LEMMA UsersNext == LockInv /\ LocksHaveUsers /\ [Next]_vars => LocksHaveUsers'
<1> SUFFICES ASSUME LockInv, LocksHaveUsers, [Next]_vars, NEW q \in Requests
             PROVE  UsesItsLocks(q)'
    BY DEF LocksHaveUsers
<1>1. UsesItsLocks(q) /\ TypeOK
    BY DEF LocksHaveUsers, LockInv
<1>2. CASE RequestStep(q)
    BY <1>1, <1>2, OwnLocksUsed
<1>3. ASSUME NEW r \in Requests, r # q, RequestStep(r)
      PROVE  UsesItsLocks(q)'
  <2>1. req'[q] = req[q]
      BY <1>1, <1>3, OthersStay
  <2> QED
      BY <1>1, <1>3, <2>1, OthersTakeNone DEF UsesItsLocks
<1>4. CASE UNCHANGED <<locks, req>>
    BY <1>1, <1>4 DEF locks, UsesItsLocks
<1> QED
    BY <1>2, <1>3, <1>4, AdministrateLeaves DEF Next, RequestStep, vars

\* No lock outlives the import that took it, however that ends.
THEOREM LocksAreFreed == Spec => []LocksHaveUsers
<1>1. Init => LockInv /\ LocksHaveUsers
    BY LocksInit, UsersInit
<1>2. LockInv /\ LocksHaveUsers /\ [Next]_vars => (LockInv /\ LocksHaveUsers)'
    BY LockNext, UsersNext
<1> QED
    BY <1>1, <1>2, PTL DEF Spec

-----------------------------------------------------------------------------
(* The tables. Whoever writes about a job holds the locks that keep what   *)
(* the others found out about it true.                                     *)

\* Two requests cannot both act on one job, nor on jobs of one driver.
LEMMA Exclusion ==
    ASSUME LockInv, NEW q \in Requests, NEW r \in Requests, q # r,
           req[q].job \in Synced, req[r].job \in Synced,
           req[q].pc \in UnderLocks, req[r].pc \in UnderLocks
    PROVE  Driver[req[q].job] # Driver[req[r].job]
    BY DEF LockInv, HoldsLocks

\* Who changes a source, and how.
Writes(r) ==
    /\ req[r].job \in Synced
    /\ \/ req[r].pc \in {"link", "review", "insert"}
       \/ req[r].pc = "saveFailed" /\ Hub(req[r].job)

\* Only a request that links, reviews or inserts a job, or the worker that
\* saves its failure, writes the source of it.
LEMMA SourceChanges ==
    ASSUME LockInv, NEW r \in Requests, RequestStep(r)
    PROVE  \/ UNCHANGED source
           \/ /\ Writes(r)
              /\ \E s \in Source : source' = [source EXCEPT ![req[r].job] = s]
           \/ Insert(r) /\ Logged(r, req[r].job)
<1>1. /\ TypeOK /\ StepFits(r) /\ req[r] \in Request
      /\ req[r].job = NoJob <=> req[r].pc = "idle"
    BY TypeOKParts DEF LockInv, RequestsTyped
<1>2. CASE Arrive(r)
    BY <1>2 DEF Arrive, Webhook, Import, Reconcile, Begin
<1>3. CASE Link(r)
  <2>1. [state |-> "linked", log |-> req[r].log] \in Source
      BY <1>1 DEF Request, Source, States
  <2> QED
      BY <1>1, <1>3, <2>1 DEF Link, Writes, StepFits, Request
<1>4. CASE Review(r)
  <2>1. [state |-> "review", log |-> 0] \in Source
      BY DEF Source, States
  <2> QED
      BY <1>1, <1>4, <2>1 DEF Review, Writes, StepFits, Request
<1>5. CASE SaveFailed(r)
  <2>1. [state |-> "failed", log |-> 0] \in Source
      BY DEF Source, States
  <2> QED
      BY <1>1, <1>5, <2>1 DEF SaveFailed, Writes, StepFits, Request, Hub, Synced
<1>6. CASE Insert(r)
    BY <1>6 DEF Insert
<1> QED
    BY <1>2, <1>3, <1>4, <1>5, <1>6
    DEF RequestStep, Proceed, Scan, LockSource, LockDriver, Busy, Look, TurnAway,
        Reward, Raise, Die, GiveUp

\* Who changes the log.
LEMMA LogChanges ==
    ASSUME NEW r \in Requests, RequestStep(r)
    PROVE  UNCHANGED dlog \/ (Insert(r) /\ Logged(r, req[r].job))
<1>1. CASE Arrive(r)
    BY <1>1 DEF Arrive, Webhook, Import, Reconcile, Begin
<1>2. CASE Insert(r)
    BY <1>2 DEF Insert
<1> QED
    BY <1>1, <1>2
    DEF RequestStep, Proceed, Scan, LockSource, LockDriver, Busy, Look, Link, Review,
        TurnAway, Reward, SaveFailed, Raise, Die, GiveUp

\* What a new row means for the logs of a job and for its possible trips.
LEMMA LogsAppended ==
    ASSUME dlog \in Seq(Jobs), NEW i \in Jobs, dlog' = Append(dlog, i), NEW j \in Jobs
    PROVE  /\ i # j => LogsOf(j)' = LogsOf(j)
           /\ i = j => LogsOf(j)' # {}
           /\ LogsOf(j) \subseteq LogsOf(j)'
           /\ i \notin Synced \/ Match[j][i] = "different" => Possible(j)' = Possible(j)
<1>1. /\ DOMAIN dlog' = DOMAIN dlog \union {Len(dlog) + 1}
      /\ \A l \in DOMAIN dlog : dlog'[l] = dlog[l]
      /\ dlog'[Len(dlog) + 1] = i
    BY Appended
<1>2. /\ i # j => LogsOf(j)' = LogsOf(j)
      /\ i = j => LogsOf(j)' # {}
      /\ LogsOf(j) \subseteq LogsOf(j)'
    BY <1>1 DEF LogsOf
<1>3. ASSUME i \notin Synced \/ Match[j][i] = "different",
             NEW match \in {"same", "possible"}
      PROVE  LogsLike(j, match)' = LogsLike(j, match)
    BY <1>1, <1>3 DEF LogsLike
<1> QED
    BY <1>2, <1>3 DEF Possible, Matches

\* Nobody else writes the source of a job under its locks, or of a job the one
\* TruckersHub worker is at.
LEMMA SourceStays ==
    ASSUME LockInv, NEW r \in Requests, RequestStep(r), NEW q \in Requests, q # r,
           NEW j \in Synced, req[q].job = j, req[q].pc \in UnderLocks \/ Hub(j)
    PROVE  source'[j] = source[j]
<1>1. j \in Jobs /\ source \in [Jobs -> Source] /\ j # NoJob /\ NoJob \notin Synced
    BY ImportConstants, TypeOKParts DEF LockInv, Synced
<1>2. ASSUME Writes(r)
      PROVE  req[r].job # j
  <2>1. CASE Hub(j)
      BY <1>1, <1>2, <2>1 DEF LockInv, OneWorker, Writes
  <2>2. CASE ~ Hub(j)
      BY <1>2, <2>2, Exclusion DEF Writes, UnderLocks
  <2> QED
      BY <2>1, <2>2
<1>3. CASE Insert(r) /\ Logged(r, req[r].job)
    BY <1>1, <1>2, <1>3 DEF Insert, Logged, Writes
<1> QED
    BY <1>1, <1>2, <1>3, SourceChanges

\* Nobody else logs a job under its locks, nor a trip of its driver.
LEMMA LogsStay ==
    ASSUME LockInv, NEW r \in Requests, RequestStep(r), NEW q \in Requests, q # r,
           NEW j \in Synced, req[q].job = j, req[q].pc \in UnderLocks
    PROVE  LogsOf(j)' = LogsOf(j) /\ Possible(j)' = Possible(j)
<1> DEFINE i == req[r].job
<1>1. /\ j \in Jobs /\ req[r] \in Request /\ dlog \in Seq(Jobs)
      /\ req[r].job = NoJob <=> req[r].pc = "idle"
    BY TypeOKParts DEF LockInv, RequestsTyped, Synced, TypeOK
<1>2. CASE UNCHANGED dlog
    BY <1>2 DEF LogsOf, Possible, Matches, LogsLike
<1>3. CASE Insert(r) /\ Logged(r, i)
  <2>1. i \in Jobs /\ dlog' = Append(dlog, i) /\ req[r].pc = "insert"
      BY <1>1, <1>3 DEF Insert, Logged, Request
  <2>2. i \in Synced => Driver[i] # Driver[j]
      BY <2>1, Exclusion DEF UnderLocks
  <2>3. i # j /\ (i \notin Synced \/ Match[j][i] = "different")
      BY <1>1, <2>1, <2>2, MatchesAreMutual
  <2> QED
      BY <1>1, <2>1, <2>3, LogsAppended
<1> QED
    BY <1>2, <1>3, LogChanges

\* Rows of the log are added and never changed.
LEMMA LogGrows ==
    ASSUME LockInv, NEW r \in Requests, RequestStep(r)
    PROVE  /\ DOMAIN dlog \subseteq DOMAIN dlog'
           /\ \A l \in DOMAIN dlog : dlog'[l] = dlog[l] /\ dlog[l] \in Jobs
<1>1. /\ req[r] \in Request /\ dlog \in Seq(Jobs)
      /\ req[r].job = NoJob <=> req[r].pc = "idle"
    BY TypeOKParts DEF LockInv, RequestsTyped, TypeOK
<1>2. CASE UNCHANGED dlog
    BY <1>1, <1>2
<1>3. CASE Insert(r) /\ Logged(r, req[r].job)
  <2>1. req[r].job \in Jobs /\ dlog' = Append(dlog, req[r].job)
      BY <1>1, <1>3 DEF Insert, Logged, Request
  <2> QED
      BY <1>1, <2>1, Appended
<1> QED
    BY <1>2, <1>3, LogChanges

\* Rewards and confirmations, and who changes them.
LEMMA HistoryChanges ==
    ASSUME NEW r \in Requests, RequestStep(r)
    PROVE  /\ UNCHANGED confirmed
           /\ UNCHANGED rewarded \/ Reward(r)
<1>1. CASE Arrive(r)
    BY <1>1 DEF Arrive, Webhook, Import, Reconcile, Begin, history
<1> QED
    BY <1>1
    DEF RequestStep, Proceed, Scan, LockSource, LockDriver, Busy, Look, Link, Review,
        Insert, TurnAway, Reward, SaveFailed, Raise, Die, GiveUp, history

\* No step of one request makes false what another found.
LEMMA OthersFindings ==
    ASSUME ImportInv, NEW r \in Requests, RequestStep(r), NEW q \in Requests, q # r
    PROVE  FindingsHold(q)' /\ FirstReward(q)'
<1>1. /\ LockInv /\ FindingsHold(q) /\ FirstReward(q)
      /\ req'[q] = req[q] /\ confirmed' = confirmed
    BY OthersStay, HistoryChanges DEF ImportInv, LockInv
<1>2. CASE req[q].job \notin Synced
    BY <1>1, <1>2 DEF FindingsHold, FirstReward
<1>3. CASE req[q].job \in Synced
  <2>1. PICK j \in Synced : req[q].job = j
      BY <1>3
  <2>2. req[q].pc \in UnderLocks \/ Hub(j) => source'[j] = source[j]
      BY <1>1, <2>1, SourceStays
  <2>3. req[q].pc \in UnderLocks =>
           LogsOf(j)' = LogsOf(j) /\ Possible(j)' = Possible(j)
      BY <1>1, <2>1, LogsStay
  <2>4. FindingsHold(q)'
    <3>1. \A l \in DOMAIN dlog : l \in DOMAIN dlog' /\ dlog'[l] = dlog[l]
        BY <1>1, LogGrows
    <3> QED
        BY <1>1, <2>1, <2>2, <2>3, <3>1 DEF FindingsHold, Undecided, UnderLocks
  <2>5. FirstReward(q)'
    <3>1. req[q].pc = "reward" => rewarded'[j] = rewarded[j]
      <4>1. ASSUME req[q].pc = "reward", Reward(r)
            PROVE  req[r].job # j
          BY <1>1, <2>1, <4>1, Exclusion DEF Reward, UnderLocks
      <4> QED
          BY <4>1, HistoryChanges DEF Reward, ImportInv, LockInv, TypeOK, Synced
    <3> QED
        BY <1>1, <2>1, <2>3, <3>1 DEF FirstReward, UnderLocks
  <2> QED
      BY <2>4, <2>5
<1> QED
    BY <1>2, <1>3

\* What a request finds when it looks, and what follows for its next step.
LEMMA LookFinds ==
    ASSUME ImportInv, NEW r \in Requests, Look(r), ~ Ends(r)
    PROVE  FindingsHold(r)' /\ FirstReward(r)'
<1> DEFINE j == req[r].job
<1>1. /\ SeparateWasConfirmed /\ req[r] \in Request /\ req \in [Requests -> Request]
      /\ ImportConstants
      /\ dlog \in Seq(Jobs)
      /\ UNCHANGED <<dlog, source, confirmed>>
    BY TypeOKParts, ImportConstants DEF ImportInv, LockInv, RequestsTyped, TypeOK, Look
<1>2. req'[r].job = j /\ req'[r].pc \in {"insert", "review", "link"}
  <2>1. CASE \E pc \in {"insert", "review"} : Goes(r, pc)
      BY <1>1, <2>1 DEF Goes, Request
  <2>2. CASE \E l \in DOMAIN dlog : Found(r, l)
      BY <1>1, <2>2 DEF Found, Request
  <2> QED
      BY <2>1, <2>2, LookLeads
<1>3. CASE j \in Synced
  <2>1. LookSynced(r, j) /\ ~ Answer(r) /\ ~ Refuse(r) /\ j \in Jobs
      BY <1>3 DEF Look, Answer, Refuse, Ends, Synced
  <2>2. Undecided(j) /\ LogsOf(j) \intersect deleted = {}
      BY <2>1 DEF LookSynced, Undecided
  <2>3. \/ \E l \in LogsOf(j) : Found(r, l)
        \/ LogsOf(j) = {} /\ LookForTrip(r, j)
      BY <2>1, <2>2 DEF LookSynced, LiveLogsOf
  <2>4. ASSUME NEW l \in LogsOf(j) \union Matches(j), Found(r, l)
        PROVE  /\ req'[r].pc = "link" /\ req'[r].log \in DOMAIN dlog
               /\ Driver[dlog[req'[r].log]] = Driver[j]
    <3>1. req'[r].pc = "link" /\ req'[r].log = l /\ l \in DOMAIN dlog
        BY <1>1, <2>4 DEF Found, Request, LogsOf, Matches, LogsLike
    <3>2. Driver[dlog[l]] = Driver[j]
      <4>1. dlog[l] \in Jobs
          BY <1>1, <3>1, Appended
      <4> QED
          BY <2>1, <2>4, <4>1, MatchesAreMutual DEF LogsOf, Matches, LogsLike
    <3> QED
        BY <3>1, <3>2
  <2>5. CASE \E l \in LogsOf(j) \union Matches(j) : Found(r, l)
      BY <1>1, <1>2, <2>2, <2>4, <2>5 DEF FindingsHold, FirstReward, Undecided
  <2>6. CASE Goto(r, "review")
    <3>1. req'[r].pc = "review"
        BY <1>1, <2>6 DEF Goto, Request
    <3> QED
        BY <1>1, <1>2, <2>2, <3>1 DEF FindingsHold, FirstReward, Undecided
  <2>7. CASE LogsOf(j) = {} /\ Goto(r, "insert")
             /\ (source[j].state = "separate" \/ Possible(j) = {})
    <3>1. req'[r].pc = "insert" /\ (Possible(j) = {} \/ j \in confirmed)
        BY <1>1, <2>1, <2>7 DEF Goto, Request, SeparateWasConfirmed
    <3>2. LogsOf(req[r].job)' = {} /\ Possible(req[r].job)' = Possible(j)
        BY <1>1, <1>2, <2>7 DEF LogsOf, Possible, Matches, LogsLike
    <3> QED
        BY <1>1, <1>2, <2>2, <3>1, <3>2 DEF FindingsHold, FirstReward, Undecided
  <2> QED
      BY <2>3, <2>5, <2>6, <2>7 DEF LookForTrip
<1>4. CASE j \notin Synced
    BY <1>2, <1>4 DEF FindingsHold, FirstReward
<1> QED
    BY <1>3, <1>4

\* A request's own step starts from what it found and keeps it true.
LEMMA OwnFindings ==
    ASSUME ImportInv, NEW r \in Requests, RequestStep(r)
    PROVE  FindingsHold(r)' /\ FirstReward(r)'
<1>0. /\ TypeOK /\ FindingsHold(r) /\ FirstReward(r) /\ StepFits(r)
      /\ req \in [Requests -> Request]
      /\ req[r] \in Request
      /\ req[r].job = NoJob <=> req[r].pc = "idle"
      /\ NoJob \notin Jobs /\ NoJob \notin Synced
    BY TypeOKParts, ImportConstants DEF ImportInv, LockInv, RequestsTyped, Synced
<1>1. CASE Starts(r)
  <2>1. CASE \E j \in Jobs : Reconcile(r, j)
      BY <1>0, <2>1 DEF Reconcile, Begin, FindingsHold, FirstReward
  <2>2. CASE \E j \in Jobs, h \in BOOLEAN :
                j \in Synced /\ ~ Hub(j) /\ Begin(r, j, "lockSource", h)
      BY <1>0, <2>2 DEF Begin, FindingsHold, FirstReward
  <2>3. CASE \E j \in Jobs : j \notin Synced /\ Begin(r, j, "look", FALSE)
      BY <1>0, <2>3 DEF Begin, FindingsHold, FirstReward
  <2> QED
      BY <1>1, <2>1, <2>2, <2>3 DEF Starts
<1>2. CASE Ends(r)
  <2>1. req'[r].job = NoJob
      BY <1>0, <1>2 DEF Ends, Idle
  <2> QED
      BY <1>0, <2>1 DEF FindingsHold, FirstReward
<1>3. CASE Scan(r) /\ ~ Ends(r)
    BY <1>0, <1>3 DEF Scan, Goto, Ends, FindingsHold, FirstReward, Undecided, Request
<1>4. CASE LockSource(r)
    BY <1>0, <1>4 DEF LockSource, Goto, FindingsHold, FirstReward, Undecided, Request
<1>5. CASE LockDriver(r)
    BY <1>0, <1>5 DEF LockDriver, Goto, FindingsHold, FirstReward, Undecided, Request
<1>6. CASE Look(r) /\ ~ Ends(r)
    BY <1>6, LookFinds
<1>7. CASE Insert(r) /\ ~ Ends(r)
  <2> DEFINE j == req[r].job
  <2>1. /\ Logged(r, j) /\ Goto(r, "reward") /\ ~ req[r].historical
        /\ j \in Jobs /\ req[r].pc = "insert" /\ dlog' = Append(dlog, j)
      BY <1>0, <1>7 DEF Insert, Logged, Answer, Ends, Request
  <2>2. req'[r].job = j /\ req'[r].pc = "reward" /\ ~ Hub(j)
      BY <1>0, <2>1 DEF Goto, Request, StepFits
  <2>3. LogsOf(req[r].job)' # {}
    <3>1. PICK i \in Jobs : i = j
        BY <2>1
    <3>2. LogsOf(i)' # {}
        BY <1>0, <2>1, <3>1, LogsAppended DEF TypeOK
    <3> QED
        BY <2>2, <3>1, <3>2
  <2>4. j \in Synced => rewarded'[j] = 0
    <3>1. j \in Synced => LogsOf(j) = {} /\ ~ rewarded[j] > 0
        BY <1>0, <2>1 DEF ImportInv, RewardsFollowLogs, FindingsHold
    <3>2. rewarded[j] \in Nat /\ rewarded' = rewarded
        BY <1>0, <1>7, <2>1 DEF TypeOK, Insert
    <3> QED
        BY <3>1, <3>2
  <2> QED
      BY <2>2, <2>3, <2>4 DEF FindingsHold, FirstReward
<1>8. CASE GiveUp(r) /\ ~ Ends(r)
      /\ req[r].pc \in {"lockSource", "lockDriver", "look", "link", "review", "insert"}
    BY <1>0, <1>8
    DEF GiveUp, Goto, Ends, FindingsHold, FirstReward, Undecided, Request
<1>9. Arrive(r) => Starts(r)
    BY DEF Arrive, Webhook, Import, Starts, Synced, Hub
<1> QED
    BY <1>1, <1>2, <1>3, <1>4, <1>5, <1>6, <1>7, <1>8, <1>9
    DEF RequestStep, Proceed, Busy, Link, Review, TurnAway, Reward, SaveFailed, Raise,
        Die, Answer, Refuse, Ends

-----------------------------------------------------------------------------
(* The properties, one by one, over a step of a request.                   *)

\* A row of delivery_source that a request may write.
Sound(s, j) ==
    /\ s.state \in {"linked", "review", "failed"}
    /\ s.state = "linked" <=> s.log # 0
    /\ s.log # 0 => s.log \in DOMAIN dlog /\ Driver[dlog[s.log]] = Driver[j]

\* What a request writes about a job is sound, and the job was undecided.
LEMMA OwnSource ==
    ASSUME ImportInv, NEW r \in Requests, RequestStep(r)
    PROVE  \/ UNCHANGED source
           \/ \E j \in Synced, s \in [state : States, log : Nat] :
                /\ req[r].job = j
                /\ Undecided(j)
                /\ source' = [source EXCEPT ![j] = s]
                /\ Sound(s, j)'
<1>1. /\ LockInv /\ TypeOK /\ FindingsHold(r) /\ StepFits(r) /\ req[r] \in Request
      /\ req[r].job = NoJob <=> req[r].pc = "idle"
      /\ dlog \in Seq(Jobs)
    BY TypeOKParts DEF ImportInv, LockInv, RequestsTyped, TypeOK
<1>2. CASE Arrive(r)
    BY <1>2 DEF Arrive, Webhook, Import, Reconcile, Begin
<1>3. CASE Link(r)
  <2>1. PICK j \in Synced : req[r].job = j
      BY <1>1, <1>3 DEF Link, StepFits, Request
  <2> DEFINE s == [state |-> "linked", log |-> req[r].log]
  <2>2. /\ req[r].log \in DOMAIN dlog /\ Driver[dlog[req[r].log]] = Driver[j]
        /\ Undecided(j) /\ dlog' = dlog
      BY <1>1, <1>3, <2>1 DEF Link, FindingsHold
  <2>3. s \in [state : States, log : Nat] /\ s.log # 0
      BY <1>1, <2>2, Appended DEF States
  <2>4. PICK l \in Nat : l = req[r].log
      BY <2>3
  <2>5. Sound([state |-> "linked", log |-> l], j)'
      BY <2>2, <2>3, <2>4 DEF Sound
  <2> QED
      BY <1>3, <2>1, <2>2, <2>3, <2>4, <2>5 DEF Link
<1>4. CASE Review(r)
  <2>1. PICK j \in Synced : req[r].job = j
      BY <1>1, <1>4 DEF Review, StepFits, Request
  <2>2. Sound([state |-> "review", log |-> 0], j)'
      BY DEF Sound
  <2> QED
      BY <1>1, <1>4, <2>1, <2>2 DEF Review, FindingsHold, States
<1>5. CASE SaveFailed(r)
  <2>1. PICK j \in Synced : req[r].job = j /\ Hub(j)
      BY <1>1, <1>5 DEF SaveFailed, StepFits, Request, Hub, Synced
  <2>2. Sound([state |-> "failed", log |-> 0], j)'
      BY DEF Sound
  <2> QED
      BY <1>1, <1>5, <2>1, <2>2 DEF SaveFailed, FindingsHold, States
<1>6. CASE Insert(r) /\ req[r].job \in Synced /\ source' # source
  <2>1. PICK j \in Synced : req[r].job = j
      BY <1>6
  <2>2. PICK l \in Nat : l = Len(dlog) + 1
      BY <1>1, Appended
  <2>3. /\ source' = [source EXCEPT ![j] = [state |-> "linked", log |-> l]]
        /\ dlog' = Append(dlog, j) /\ Undecided(j)
      BY <1>1, <1>6, <2>1, <2>2 DEF Insert, Logged, FindingsHold
  <2>4. j \in Jobs /\ l \in DOMAIN dlog' /\ dlog'[l] = j /\ l # 0
      BY <1>1, <2>2, <2>3, Appended DEF Synced
  <2>5. Sound([state |-> "linked", log |-> l], j)'
      BY <2>4 DEF Sound
  <2> QED
      BY <2>1, <2>3, <2>5 DEF States
<1> QED
    BY <1>2, <1>3, <1>4, <1>5, <1>6
    DEF RequestStep, Proceed, Scan, LockSource, LockDriver, Busy, Look, TurnAway,
        Insert, Logged, Reward, Raise, Die, GiveUp

\* So links stay with their driver and with their delivery.
LEMMA SourcesStep ==
    ASSUME ImportInv, NEW r \in Requests, RequestStep(r)
    PROVE  /\ SeparateWasConfirmed' /\ LinksStayWithTheDriver'
           /\ \A j \in Jobs : source[j].log # 0 => source'[j] = source[j]
<1>1. /\ SeparateWasConfirmed /\ LinksStayWithTheDriver /\ confirmed' = confirmed
      /\ source \in [Jobs -> Source] /\ Synced \subseteq Jobs
      /\ \A l \in DOMAIN dlog : l \in DOMAIN dlog' /\ dlog'[l] = dlog[l]
    BY HistoryChanges, LogGrows, TypeOKParts DEF ImportInv, LockInv, Synced
<1>2. ASSUME NEW j \in Jobs, source'[j] = source[j]
      PROVE  /\ source'[j].state = "separate" => j \in confirmed'
             /\ source'[j].state = "linked" <=> source'[j].log # 0
             /\ source'[j].log # 0 => Driver[dlog'[source'[j].log]] = Driver[j]
  <2>1. source[j].log \in {0} \union DOMAIN dlog
      BY <1>1 DEF Source
  <2> QED
      BY <1>1, <1>2, <2>1 DEF SeparateWasConfirmed, LinksStayWithTheDriver
<1>3. CASE UNCHANGED source
    BY <1>2, <1>3 DEF SeparateWasConfirmed, LinksStayWithTheDriver
<1>4. ASSUME NEW i \in Synced, NEW s \in [state : States, log : Nat], Undecided(i),
             source' = [source EXCEPT ![i] = s], Sound(s, i)'
      PROVE  /\ SeparateWasConfirmed' /\ LinksStayWithTheDriver'
             /\ \A j \in Jobs : source[j].log # 0 => source'[j] = source[j]
  <2>1. source'[i] = s /\ \A j \in Jobs : j # i => source'[j] = source[j]
      BY <1>1, <1>4
  <2> QED
      BY <1>2, <1>4, <2>1
      DEF SeparateWasConfirmed, LinksStayWithTheDriver, Sound, Undecided
<1> QED
    BY <1>3, <1>4, OwnSource

\* A reward is the first of its job.
LEMMA RewardsStep ==
    ASSUME ImportInv, NEW r \in Requests, RequestStep(r)
    PROVE  RewardsFollowLogs' /\ RewardedOnce'
<1>1. /\ RewardsFollowLogs /\ RewardedOnce /\ FirstReward(r) /\ Synced \subseteq Jobs
      /\ rewarded \in [Jobs -> Nat]
      /\ \A l \in DOMAIN dlog : l \in DOMAIN dlog' /\ dlog'[l] = dlog[l]
    BY LogGrows DEF ImportInv, LockInv, TypeOK, Synced
<1>2. \A j \in Jobs : LogsOf(j) # {} => LogsOf(j)' # {}
    BY <1>1 DEF LogsOf
<1>3. CASE UNCHANGED rewarded
    BY <1>1, <1>2, <1>3 DEF RewardsFollowLogs, RewardedOnce
<1>4. CASE Reward(r)
    BY <1>1, <1>2, <1>4 DEF Reward, RewardsFollowLogs, RewardedOnce, FirstReward
<1> QED
    BY <1>3, <1>4, HistoryChanges

\* A row is the first of its job, and of its trip unless confirmed.
LEMMA LogsStep ==
    ASSUME ImportInv, NEW r \in Requests, RequestStep(r)
    PROVE  OneLogPerJob' /\ OneLogPerTrip'
<1>1. /\ OneLogPerJob /\ OneLogPerTrip /\ FindingsHold(r) /\ req[r] \in Request
      /\ req[r].job = NoJob <=> req[r].pc = "idle"
      /\ dlog \in Seq(Jobs) /\ deleted \subseteq DOMAIN dlog
      /\ confirmed' = confirmed
    BY HistoryChanges, TypeOKParts DEF ImportInv, LockInv, RequestsTyped, TypeOK
<1>2. deleted' = deleted
  <2>1. CASE Arrive(r)
      BY <2>1 DEF Arrive, Webhook, Import, Reconcile, Begin
  <2> QED
      BY <2>1
      DEF RequestStep, Proceed, Scan, LockSource, LockDriver, Busy, Look, Link, Review,
          Insert, TurnAway, Reward, SaveFailed, Raise, Die, GiveUp
<1>3. CASE UNCHANGED dlog
    BY <1>1, <1>2, <1>3 DEF OneLogPerJob, OneLogPerTrip
<1>4. CASE Insert(r) /\ Logged(r, req[r].job)
  <2>1. PICK j \in Jobs : req[r].job = j
      BY <1>1, <1>4 DEF Insert, Request
  <2> DEFINE new == Len(dlog) + 1
  <2>2. /\ dlog' = Append(dlog, j) /\ req[r].pc = "insert" /\ LiveLogsOf(j) \subseteq LogsOf(j)
      BY <1>4, <2>1 DEF Insert, Logged, LiveLogsOf
  <2>3. /\ DOMAIN dlog' = DOMAIN dlog \union {new} /\ new \notin DOMAIN dlog
        /\ \A l \in DOMAIN dlog : dlog'[l] = dlog[l] /\ l < new /\ dlog[l] \in Jobs
        /\ dlog'[new] = j
      BY <1>1, <2>2, Appended
  <2>4. \A l \in DOMAIN dlog : dlog[l] = j => j \notin Synced /\ l \in deleted
    <3>1. j \in Synced => LogsOf(j) = {}
        BY <1>1, <2>1, <2>2 DEF FindingsHold
    <3>2. LiveLogsOf(j) = {} \/ UNCHANGED dlog
        BY <1>4, <2>1 DEF Insert
    <3>3. dlog' # dlog
        BY <2>3
    <3> QED
        BY <3>1, <3>2, <3>3 DEF LiveLogsOf, LogsOf
  <2>5. OneLogPerJob'
      BY <1>1, <1>2, <2>3, <2>4 DEF OneLogPerJob
  <2>6. ASSUME NEW k \in DOMAIN dlog, dlog[k] \in Synced, j \in Synced,
               Provider[dlog[k]] # Provider[j], Match[j][dlog[k]] # "different"
        PROVE  j \in confirmed
    <3>1. Match[j][dlog[k]] \in {"same", "possible"}
        BY <2>3, <2>6, ImportConstants
    <3>2. k \in Possible(j)
        BY <2>6, <3>1 DEF Possible, Matches, LogsLike
    <3> QED
        BY <1>1, <2>1, <2>2, <2>6, <3>2 DEF FindingsHold
  <2>7. OneLogPerTrip'
    <3> SUFFICES ASSUME NEW k \in DOMAIN dlog', NEW l \in DOMAIN dlog', k < l,
                        dlog'[k] \in Synced, dlog'[l] \in Synced,
                        Provider[dlog'[k]] # Provider[dlog'[l]],
                        Match[dlog'[l]][dlog'[k]] # "different"
                 PROVE  dlog'[l] \in confirmed'
        BY DEF OneLogPerTrip
    <3>1. k \in DOMAIN dlog
        BY <1>1, <2>3, Appended
    <3>2. CASE l \in DOMAIN dlog
        BY <1>1, <2>3, <3>1, <3>2 DEF OneLogPerTrip
    <3>3. CASE l = new
        BY <1>1, <2>3, <2>6, <3>1, <3>3
    <3> QED
        BY <2>3, <3>2, <3>3
  <2> QED
      BY <2>5, <2>7
<1> QED
    BY <1>3, <1>4, LogChanges

-----------------------------------------------------------------------------
(* Administrators, and the theorems.                                       *)

\* What an administrator decides.
LEMMA Decisions ==
    ASSUME TypeOK, Administrate
    PROVE  \/ UNCHANGED <<source, confirmed>> /\ deleted \subseteq deleted'
           \/ \E j \in Synced, l \in Nat, state \in {"linked", "separate", "pending"} :
                /\ source[j].state \in {"review", "failed"}
                /\ state # "pending" => source[j].state = "review"
                /\ source' = [source EXCEPT ![j] = [state |-> state, log |-> l]]
                /\ state = "linked" <=> l # 0
                /\ l # 0 => l \in DOMAIN dlog /\ Driver[dlog[l]] = Driver[j]
                /\ confirmed \subseteq confirmed'
                /\ state = "separate" => j \in confirmed'
                /\ UNCHANGED deleted
<1>1. ASSUME NEW j \in Synced, LinkTo(j)
      PROVE  \E l \in DOMAIN dlog :
                Driver[dlog[l]] = Driver[j] /\ Decide(j, "review", "linked", l)
                /\ UNCHANGED confirmed
    BY <1>1 DEF LinkTo
<1>2. \A l \in DOMAIN dlog : l \in Nat /\ l # 0
    BY Appended DEF TypeOK
<1>3. ASSUME NEW j \in Synced, LinkTo(j)
      PROVE  \E l \in Nat :
                /\ source[j].state = "review"
                /\ source' = [source EXCEPT ![j] = [state |-> "linked", log |-> l]]
                /\ l # 0 /\ l \in DOMAIN dlog /\ Driver[dlog[l]] = Driver[j]
                /\ UNCHANGED <<confirmed, deleted>>
    BY <1>1, <1>2, <1>3 DEF Decide
<1>4. CASE \E j \in Synced : LinkTo(j)
    BY <1>3, <1>4
<1>5. CASE \E j \in Synced : KeepSeparate(j)
    BY <1>5 DEF KeepSeparate, Decide
<1>6. CASE \E j \in Synced : Retry(j)
    BY <1>6 DEF Retry, Decide
<1>7. CASE \E l \in 1..MaxLogs : DeleteLog(l)
    BY <1>7 DEF DeleteLog, history
<1> QED
    BY <1>4, <1>5, <1>6, <1>7 DEF Administrate

\* Administrators decide what is undecided, and touch no link.
LEMMA AdministrateStep ==
    ASSUME ImportInv, Administrate
    PROVE  /\ \A r \in Requests : FindingsHold(r)' /\ FirstReward(r)'
           /\ SeparateWasConfirmed' /\ RewardsFollowLogs' /\ RewardedOnce'
           /\ OneLogPerJob' /\ OneLogPerTrip' /\ LinksStayWithTheDriver'
           /\ \A j \in Jobs : source[j].log # 0 => source'[j] = source[j]
<1>1. /\ UNCHANGED <<dlog, req, rewarded>>
      /\ TypeOK /\ Synced \subseteq Jobs /\ source \in [Jobs -> Source]
    BY AdministrateLeaves, TypeOKParts DEF ImportInv, LockInv, Synced
<1>2. confirmed \subseteq confirmed' /\ deleted \subseteq deleted'
    BY <1>1, Decisions
<1>3. /\ \A i \in Jobs : LogsOf(i)' = LogsOf(i) /\ Possible(i)' = Possible(i)
      /\ OneLogPerJob' /\ OneLogPerTrip' /\ RewardedOnce'
    BY <1>1, <1>2
    DEF ImportInv, LogsOf, Possible, Matches, LogsLike, OneLogPerJob, OneLogPerTrip,
        RewardedOnce
<1>4. RewardsFollowLogs'
    BY <1>1, <1>3 DEF ImportInv, RewardsFollowLogs
<1>5. ASSUME NEW r \in Requests,
             \A j \in Synced : Undecided(j) => Undecided(j)'
      PROVE  FindingsHold(r)' /\ FirstReward(r)'
  <2>1. FindingsHold(r) /\ FirstReward(r) /\ req'[r] = req[r]
      BY <1>1 DEF ImportInv
  <2>2. CASE req[r].job \in Synced
    <3>1. PICK j \in Synced : req[r].job = j
        BY <2>2
    <3>2. j \in Jobs /\ (Undecided(j) => Undecided(j)')
        BY <1>1, <1>5
    <3> QED
        BY <1>1, <1>2, <1>3, <2>1, <3>1, <3>2 DEF FindingsHold, FirstReward, Undecided
  <2> QED
      BY <2>1, <2>2 DEF FindingsHold, FirstReward
<1>6. CASE UNCHANGED <<source, confirmed>>
    BY <1>1, <1>2, <1>3, <1>4, <1>5, <1>6
    DEF ImportInv, SeparateWasConfirmed, LinksStayWithTheDriver, Undecided
<1>7. ASSUME NEW j \in Synced, NEW l \in Nat, NEW state \in {"linked", "separate", "pending"},
             source[j].state \in {"review", "failed"},
             state # "pending" => source[j].state = "review",
             source' = [source EXCEPT ![j] = [state |-> state, log |-> l]],
             state = "linked" <=> l # 0,
             l # 0 => l \in DOMAIN dlog /\ Driver[dlog[l]] = Driver[j],
             state = "separate" => j \in confirmed'
      PROVE  /\ \A r \in Requests : FindingsHold(r)' /\ FirstReward(r)'
             /\ SeparateWasConfirmed' /\ LinksStayWithTheDriver'
             /\ \A i \in Jobs : source[i].log # 0 => source'[i] = source[i]
  <2>1. /\ source'[j] = [state |-> state, log |-> l]
        /\ \A i \in Jobs : i # j => source'[i] = source[i]
      BY <1>1, <1>7
  <2>2. source[j].log = 0
      BY <1>1, <1>7 DEF ImportInv, LinksStayWithTheDriver
  <2>3. \A i \in Synced : Undecided(i) => Undecided(i)'
      BY <1>1, <1>7, <2>1 DEF Undecided
  <2>4. SeparateWasConfirmed'
      BY <1>2, <1>7, <2>1 DEF ImportInv, SeparateWasConfirmed
  <2>5. LinksStayWithTheDriver'
      BY <1>1, <1>7, <2>1 DEF ImportInv, LinksStayWithTheDriver
  <2> QED
      BY <1>5, <2>1, <2>2, <2>3, <2>4, <2>5
<1> QED
    BY <1>1, <1>3, <1>4, <1>6, <1>7, Decisions

\* Every step keeps the invariant, and every link.
LEMMA ImportNext ==
    ASSUME ImportInv, [Next]_vars
    PROVE  /\ ImportInv'
           /\ \A j \in Jobs : source[j].log # 0 => source'[j] = source[j]
<1>1. LockInv'
    BY LockNext DEF ImportInv
<1>2. CASE \E r \in Requests : RequestStep(r)
  <2>1. PICK r \in Requests : RequestStep(r)
      BY <1>2
  <2>2. \A q \in Requests : FindingsHold(q)' /\ FirstReward(q)'
      BY <2>1, OwnFindings, OthersFindings
  <2> QED
      BY <1>1, <2>1, <2>2, SourcesStep, RewardsStep, LogsStep DEF ImportInv
<1>3. CASE Administrate
    BY <1>1, <1>3, AdministrateStep DEF ImportInv
<1>4. CASE UNCHANGED vars
  <2>1. /\ \A r \in Requests : FindingsHold(r)' /\ FirstReward(r)'
        /\ SeparateWasConfirmed' /\ RewardsFollowLogs'
      BY <1>4
      DEF vars, history, ImportInv, FindingsHold, FirstReward, Undecided, LogsOf, Possible,
          Matches, LogsLike, SeparateWasConfirmed, RewardsFollowLogs
  <2>2. OneLogPerJob' /\ OneLogPerTrip' /\ LinksStayWithTheDriver' /\ RewardedOnce'
      BY <1>4
      DEF vars, history, ImportInv, OneLogPerJob, OneLogPerTrip, LinksStayWithTheDriver,
          RewardedOnce
  <2> QED
      BY <1>1, <1>4, <2>1, <2>2 DEF ImportInv, vars
<1> QED
    BY <1>2, <1>3, <1>4 DEF Next, RequestStep

\* The invariant holds at first.
LEMMA ImportInit == Init => ImportInv
<1> SUFFICES ASSUME Init
             PROVE  ImportInv
    OBVIOUS
<1>1. /\ \A r \in Requests : req[r].job = NoJob
      /\ NoJob \notin Synced /\ DOMAIN dlog = {}
      /\ \A j \in Jobs : source[j] = NoSource /\ rewarded[j] = 0
      /\ Synced \subseteq Jobs
    BY ImportConstants DEF Init, Idle, Synced
<1> QED
    BY <1>1, LocksInit
    DEF ImportInv, FindingsHold, FirstReward, SeparateWasConfirmed, RewardsFollowLogs,
        OneLogPerJob, OneLogPerTrip, LinksStayWithTheDriver, RewardedOnce, NoSource

\* The inductive invariant: what an import found out is still so when it acts
\* on it, because its two locks exclude everyone who could change it.
THEOREM ImportsAreSound == Spec => []ImportInv
<1> QED
    BY ImportInit, ImportNext, PTL DEF Spec

\* The job's lock and one snapshot of both tables, the archive included, are
\* enough: no overlap, repetition or deletion makes a second row of a job.
THEOREM JobsLoggedOnce == Spec => []OneLogPerJob
<1>1. ImportInv => OneLogPerJob
    BY DEF ImportInv
<1> QED
    BY <1>1, ImportsAreSound, PTL

\* The driver's lock is enough to keep the two providers' reports of one trip
\* apart: the second is logged only on an administrator's word.
THEOREM TripsLoggedOnce == Spec => []OneLogPerTrip
<1>1. ImportInv => OneLogPerTrip
    BY DEF ImportInv
<1> QED
    BY <1>1, ImportsAreSound, PTL

\* So a delivery is in the log once.
THEOREM DeliveriesLoggedOnce == Spec => []LoggedOnce
<1>1. OneLogPerJob /\ OneLogPerTrip => LoggedOnce
    BY DEF LoggedOnce
<1> QED
    BY <1>1, JobsLoggedOnce, TripsLoggedOnce, PTL

\* Whoever links a source, it leads to a delivery of its own driver.
THEOREM LinksAreSound == Spec => []LinksStayWithTheDriver
<1>1. ImportInv => LinksStayWithTheDriver
    BY DEF ImportInv
<1> QED
    BY <1>1, ImportsAreSound, PTL

\* A job that Trucky or TruckersHub reports again is not rewarded again.
THEOREM RewardsGivenOnce == Spec => []RewardedOnce
<1>1. ImportInv => RewardedOnce
    BY DEF ImportInv
<1> QED
    BY <1>1, ImportsAreSound, PTL

\* No step of an import, a retry or an administrator touches a source that
\* has its delivery.
THEOREM LinksAreFinal == Spec => LinkedStaysLinked
<1>1. ImportInv /\ [Next]_vars =>
         [\A j \in Jobs : source[j].log # 0 => source'[j] = source[j]]_vars
    BY ImportNext
<1> QED
    BY <1>1, ImportsAreSound, PTL DEF Spec, LinkedStaysLinked
=============================================================================
