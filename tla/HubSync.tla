------------------------------ MODULE HubSync -------------------------------
(***************************************************************************)
(* The passes over the history of jobs at TruckersHub: month by month from *)
(* the current one, a bounded number of jobs to import in one pass, months *)
(* without a failure skipped for a day. A webhook leaves a receipt; while  *)
(* one waits no month is skipped, and it counts as processed when a pass   *)
(* went through everything without a failure.                              *)
(*                                                                         *)
(* The import itself is in DeliveryImport; here it links a job, asks for a *)
(* review or fails. Routes, the list of live jobs and the drivers that are *)
(* found later are left out.                                               *)
(***************************************************************************)
EXTENDS Integers, FiniteSetsExt

CONSTANTS
    Procs,
    Jobs,
    Months, MonthOf(_),   \* numbered from the current month back
    Past,       \* jobs that were done before the first pass
    Notified,   \* jobs that a webhook tells of
    Faulty,     \* jobs whose import may fail
    Batch,      \* bound on the imports and failures of a pass: 75
    MaxStops    \* bound on failures of the provider, of the lease and of processes

VARIABLES
    hub,         \* the provider's jobs: "none", "in_progress" or "done"
    source,      \* delivery_source, the state by job, "none" for no row
    month_key,   \* the months whose key is in Redis
    inbox,       \* tracker_inbox, by job [id, committed, processed]; id 0 for no row
    lease,       \* who holds truckershub-import-lock
    pass,        \* by process
    configured,  \* there is an API key
    halts

hubVars == <<hub, source, month_key, inbox, lease, pass, configured, halts>>

Nobody == "nobody"
NoReceipt == [id |-> 0, committed |-> FALSE, processed |-> FALSE]
NoPass == [pc |-> "idle", month |-> 0, todo |-> {}, receipt |-> 0, imported |-> 0, failed |-> 0, exhausted |-> FALSE]

Init ==
    /\ hub = [j \in Jobs |-> IF j \in Past THEN "done" ELSE "none"]
    /\ source = [j \in Jobs |-> "none"]
    /\ month_key = {} /\ inbox = [j \in Jobs |-> NoReceipt]
    /\ lease = Nobody /\ pass = [p \in Procs |-> NoPass]
    /\ configured = TRUE /\ halts = 0

Waiting == {inbox[j].id : j \in {i \in Jobs : inbox[i].committed /\ ~inbox[i].processed}}
\* The mutant: the receipts that are there when the pass ends.
ReceiptAtTheEnd(p) == Max(Waiting \union {0})
Receipt(p) == pass[p].receipt
Full(p) == pass[p].imported + pass[p].failed >= Batch

Halt == halts < MaxStops /\ halts' = halts + 1
Free(p) == lease' = IF lease = p THEN Nobody ELSE lease
To(p, new) == pass' = [pass EXCEPT ![p] = new]

-----------------------------------------------------------------------------
reconcile(p) ==
    /\ pass[p].pc = "idle" /\ configured /\ lease = Nobody
    /\ lease' = p
    /\ To(p, [NoPass EXCEPT !.pc = "month", !.month = Min(Months), !.receipt = Max(Waiting \union {0})])
    /\ UNCHANGED <<hub, source, month_key, inbox, configured, halts>>

\* The mutant: a month is skipped whatever has come in.
SkippedAlways(p, m) == m # Min(Months) /\ m \in month_key
Skipped(p, m) == m # Min(Months) /\ m \in month_key /\ pass[p].receipt = 0

month_jobs(p) ==
    LET m == pass[p].month IN
    /\ pass[p].pc = "month" /\ m \in Months
    /\ IF Skipped(p, m) THEN To(p, [pass[p] EXCEPT !.month = @ + 1])
       ELSE To(p, [pass[p] EXCEPT !.pc = "scan",
                   !.todo = {j \in Jobs : MonthOf(j) = m /\ hub[j] # "none"}])
    /\ UNCHANGED <<hub, source, month_key, inbox, lease, configured, halts>>

\* One job of the list: reviews and links are left alone, and for 300 s what failed:
\* it counts as failed again. One step: those of the import are in DeliveryImport.
Job(p, j) ==
    LET done == [pass[p] EXCEPT !.todo = @ \ {j}]
        failed == [done EXCEPT !.failed = @ + 1]
    IN
    /\ pass[p].pc = "scan" /\ j \in pass[p].todo
    /\ ~Full(p) /\ lease = p
    /\ \/ /\ source[j] \in {"review", "linked"} /\ To(p, done) /\ UNCHANGED source
       \/ /\ source[j] = "failed" /\ To(p, failed) /\ UNCHANGED source
       \/ /\ source[j] \notin {"review", "linked"}
          /\ \/ hub[j] = "in_progress" /\ To(p, done) /\ UNCHANGED source
             \/ /\ hub[j] = "done" /\ j \in Faulty
                /\ To(p, failed)
                /\ source' = [source EXCEPT ![j] = "failed"]
             \/ /\ hub[j] = "done"
                /\ \E new \in BOOLEAN : To(p, [done EXCEPT !.imported = IF new THEN @ + 1 ELSE @])
                /\ source' = [source EXCEPT ![j] = "linked"]
             \/ /\ hub[j] = "done" /\ source[j] # "separate"
                /\ To(p, done)
                /\ source' = [source EXCEPT ![j] = "review"]
    /\ UNCHANGED <<hub, month_key, inbox, lease, configured, halts>>

\* With jobs left, the pass ends here: 75 imports and failures, or 150 s.
Exhausted(p) ==
    /\ pass[p].pc = "scan" /\ pass[p].todo # {}
    /\ \/ Full(p) /\ UNCHANGED halts
       \/ Halt
    /\ To(p, [pass[p] EXCEPT !.pc = "finish", !.exhausted = TRUE, !.todo = {}])
    /\ UNCHANGED <<hub, source, month_key, inbox, lease, configured>>

MonthDone(p) ==
    LET m == pass[p].month IN
    /\ pass[p].pc = "scan" /\ pass[p].todo = {}
    /\ month_key' = IF m # Min(Months) /\ pass[p].failed = 0 THEN month_key \union {m} ELSE month_key
    /\ To(p, [pass[p] EXCEPT !.pc = "month", !.month = @ + 1])
    /\ UNCHANGED <<hub, source, inbox, lease, configured, halts>>

\* Whether the lease is still held is not looked at here; old receipts are deleted.
Finish(p) ==
    LET all == Receipt(p) # 0 /\ ~pass[p].exhausted /\ pass[p].failed = 0
        done == [j \in Jobs |->
            IF all /\ inbox[j].committed /\ inbox[j].id <= Receipt(p)
            THEN [inbox[j] EXCEPT !.processed = TRUE] ELSE inbox[j]]
    IN
    /\ \/ pass[p].pc = "finish"
       \/ pass[p].pc = "month" /\ pass[p].month \notin Months
    /\ inbox' = done
    /\ To(p, NoPass) /\ Free(p)
    /\ UNCHANGED <<hub, source, month_key, configured, halts>>

\* The lease expired: the pass stops before the next job.
LeaseLost(p) ==
    /\ pass[p].pc = "scan" /\ pass[p].todo # {} /\ lease # p
    /\ To(p, NoPass) /\ UNCHANGED <<hub, source, month_key, inbox, lease, configured, halts>>

\* An answer of the provider that is no answer ends the pass as well.
ProviderFails(p) ==
    /\ pass[p].pc \in {"month", "scan"} /\ Halt
    /\ To(p, NoPass) /\ Free(p)
    /\ UNCHANGED <<hub, source, month_key, inbox, configured>>

Die(p) ==
    /\ pass[p].pc # "idle" /\ Halt
    /\ To(p, NoPass) /\ UNCHANGED <<hub, source, month_key, inbox, lease, configured>>

Pass(p) ==
    \/ reconcile(p) \/ month_jobs(p) \/ MonthDone(p) \/ Finish(p) \/ LeaseLost(p)
    \/ \E j \in Jobs : Job(p, j)
    \/ Full(p) /\ Exhausted(p)

-----------------------------------------------------------------------------
(* What expires: the lease (early only if the pass takes too long), the    *)
(* keys of months.                                                         *)
LeaseExpires ==
    /\ lease # Nobody /\ lease' = Nobody
    /\ \/ pass[lease].pc = "idle" /\ UNCHANGED halts
       \/ pass[lease].pc # "idle" /\ Halt
    /\ UNCHANGED <<hub, source, month_key, inbox, pass, configured>>
MonthExpires(m) ==
    /\ m \in month_key /\ month_key' = month_key \ {m}
    /\ UNCHANGED <<hub, source, inbox, lease, pass, configured, halts>>

-----------------------------------------------------------------------------
(* The provider's jobs, its webhooks, and the staff.                       *)
Progress(j) ==
    /\ \/ hub[j] = "none" /\ hub' = [hub EXCEPT ![j] = "in_progress"]
       \/ hub[j] # "done" /\ hub' = [hub EXCEPT ![j] = "done"]
    /\ UNCHANGED <<source, month_key, inbox, lease, pass, configured, halts>>

\* A receipt is of one content: sent again, it is ignored. It gets its id when it is
\* inserted and is seen when it is committed.
post_update(j) ==
    /\ configured /\ j \in Notified /\ hub[j] = "done" /\ inbox[j].id = 0
    /\ inbox' = [inbox EXCEPT ![j].id = Max({inbox[i].id : i \in Jobs}) + 1]
    /\ UNCHANGED <<hub, source, month_key, lease, pass, configured, halts>>
Received(j) ==
    /\ inbox[j].id # 0 /\ ~inbox[j].committed
    /\ inbox' = [inbox EXCEPT ![j].committed = TRUE]
    /\ UNCHANGED <<hub, source, month_key, lease, pass, configured, halts>>

\* All months are looked at again. A link that staff choose needs no import.
post_retry(j) ==
    /\ \/ /\ source[j] = "failed"
          /\ source' = [source EXCEPT ![j] = "pending"] /\ month_key' = {}
       \/ /\ source[j] = "review"
          /\ source' = [source EXCEPT ![j] = "separate"] /\ month_key' = {}
       \/ /\ source[j] = "review"
          /\ source' = [source EXCEPT ![j] = "linked"] /\ UNCHANGED month_key
    /\ UNCHANGED <<hub, inbox, lease, pass, configured, halts>>

put_settings ==
    /\ Halt /\ configured' = ~configured
    /\ UNCHANGED <<hub, source, month_key, inbox, lease, pass>>

Next ==
    \/ \E p \in Procs : Pass(p) \/ Exhausted(p) \/ ProviderFails(p) \/ Die(p)
    \/ LeaseExpires \/ put_settings
    \/ \E m \in Months : MonthExpires(m)
    \/ \E j \in Jobs : Progress(j) \/ post_update(j) \/ Received(j) \/ post_retry(j)

HubFairness ==
    /\ \A p \in Procs : WF_hubVars(Pass(p))
    /\ WF_hubVars(LeaseExpires) /\ \A m \in Months : WF_hubVars(MonthExpires(m))
Spec == Init /\ [][Next]_hubVars /\ HubFairness

-----------------------------------------------------------------------------
\* Every variable has its type.
HubTyped ==
    /\ hub \in [Jobs -> {"none", "in_progress", "done"}]
    /\ source \in [Jobs -> {"none", "linked", "review", "failed", "separate", "pending"}]
    /\ month_key \subseteq Months \ {Min(Months)} /\ lease \in Procs \union {Nobody}
    /\ \A p \in Procs : pass[p].imported + pass[p].failed <= Batch /\ pass[p].todo \subseteq Jobs

\* The job of a receipt that counts as processed is known: imported, failed and noted
\* as such, or before the staff. Not so if the receipts were looked up after the jobs,
\* or a month were skipped while one waits. (truckershub_sync.py, reconcile.)
ReceiptsAreAnswered == \A j \in Jobs : inbox[j].processed => source[j] # "none"

\* A job that is done is logged or brought to the staff, again and again until it is,
\* however many others fail, as long as they are fewer than a pass can take and
\* the key is not withdrawn. (truckershub_sync.py, reconcile.)
Waits(j) == hub[j] = "done" /\ source[j] \notin {"linked", "review"}
Taken(j) == source[j] \in {"linked", "review"} \/ ~configured
JobsAreTaken == \A j \in Jobs \ Faulty : Waits(j) ~> Taken(j)
=============================================================================
