-------------------------------- MODULE Tasks --------------------------------
(***************************************************************************)
(* The tasks of a company: to whom they are assigned, whether they are     *)
(* marked and confirmed as completed, the bonus points that follows from   *)
(* it, and the copies that a recurring task leaves behind.                 *)
(*                                                                         *)
(* A request reads the row in one step and commits in later ones: the      *)
(* confirmation first, the points after it. Titles, notes, priorities and  *)
(* reminders are left out (reminders are in Reminders).                    *)
(***************************************************************************)
EXTENDS Integers, FiniteSetsExt

CONSTANTS
    Reqs,        \* connections
    Members,     \* userids
    Staff,       \* those who may manage public tasks
    Ids,         \* the numbers a list may hold: userids or roles, and their digits
    RolesOf,     \* the roles of a member
    Assignments, \* what a request may ask for: mode and to
    Bonuses, Dues, Periods,
    MaxPosts, MaxTasks, MaxReqs, MaxTime    \* bounds

VARIABLES
    task,        \* the rows, by taskid; a deleted one has the id negated
    bonus_point, \* by task and id, the sum of the points in its rows
    now,
    copying,     \* the tasks RecurringTaskHandler has selected and not yet copied
    req, reqs,
    grant,       \* history: by task, the points of the last confirmation
    odd,         \* history: tasks whose confirmations overlapped, were cut off
                 \* or were taken back without the points
    series,      \* history: the first task of those a task is a copy of
    loose        \* history: first tasks of series that staff gave another period,
                 \* or edited while a copy was made

history == <<grant, odd, series, loose>>
vars == <<task, bonus_point, now, copying, req, reqs, history>>

Tasks == 1..MaxTasks
NoOne == [i \in Ids |-> 0]
\* to: how often the list names a number. recurring: negative once it was copied.
NoTask == [live |-> FALSE, by |-> 0, due |-> 0, bonus |-> 0, recurring |-> 0,
           mode |-> 0, to |-> NoOne, mark |-> FALSE, confirm |-> FALSE]
Used == {t \in Tasks : task[t].by # 0}
Live == {t \in Tasks : task[t].live}

Idle == [pc |-> "idle", id |-> 0, row |-> NoTask, points |-> NoOne, remove |-> FALSE,
         again |-> FALSE]

Init ==
    /\ task = [t \in Tasks |-> NoTask]
    /\ bonus_point = [t \in Tasks |-> NoOne]
    /\ now = 1 /\ copying = {}
    /\ req = [r \in Reqs |-> Idle] /\ reqs = 0
    /\ grant = [t \in Tasks |-> NoOne]
    /\ odd = {} /\ loose = {}
    /\ series = [t \in Tasks |-> t]

-----------------------------------------------------------------------------
Listed(to) == {i \in Ids : to[i] > 0}

Concerns(row, u) ==
    \/ row.mode = 0 /\ u = row.by
    \/ row.mode = 1 /\ u \in Listed(row.to)
    \/ row.mode = 2 /\ RolesOf[u] \cap Listed(row.to) # {}

\* Self-assigned tasks are confirmed by their creators, the others by staff.
MayConfirm(row, u) == IF row.mode = 0 THEN u = row.by ELSE u \in Staff

Digits(n) == IF n < 10 THEN <<n>> ELSE <<n \div 10, n % 10>>
\* A list that is not given is taken from the row as text, and its characters are
\* joined: every number falls apart into its digits.
Respelled(to) ==
    [i \in Ids |-> MapThenSumSet(
        LAMBDA n : to[n] * Cardinality({k \in DOMAIN Digits(n) : Digits(n)[k] = i}), Ids)]

\* A self-assigned task is assigned to who asks and to nobody else.
MayAssign(u, mode, to) ==
    /\ mode = 0 => to = [NoOne EXCEPT ![u] = 1]
    /\ Listed(to) # {}

Begin(r, job) ==
    /\ reqs < MaxReqs /\ req[r].pc = "idle"
    /\ reqs' = reqs + 1
    /\ req' = [req EXCEPT ![r] = job]
    /\ UNCHANGED <<task, bonus_point, now, copying, grant, series>>

End(r) == req' = [req EXCEPT ![r] = Idle]
Job(pc, t) == [Idle EXCEPT !.pc = pc, !.id = t, !.row = task[t]]
Busy(t, pcs) == \E r \in Reqs : req[r].id = t /\ req[r].pc \in pcs

-----------------------------------------------------------------------------
post_task(r, u, a, due, bonus, recurring) ==
    /\ req[r].pc = "idle" /\ Used # Tasks
    /\ Cardinality({series[t] : t \in Used}) < MaxPosts
    /\ MayAssign(u, a.mode, a.to)
    /\ a.mode # 0 \/ bonus > 0 => u \in Staff
    /\ task' = [task EXCEPT ![Min(Tasks \ Used)] =
                    [live |-> TRUE, by |-> u, due |-> due, bonus |-> bonus,
                     recurring |-> recurring, mode |-> a.mode, to |-> a.to,
                     mark |-> FALSE, confirm |-> FALSE]]
    /\ UNCHANGED <<bonus_point, now, copying, req, reqs, history>>

\* What is not given is written back as it was read, but for the list: given is
\* the set of the assignments the request may give, empty if it gives none.
patch_task(r, u, t, given, due, bonus, recurring) ==
    /\ t \in Live
    /\ LET row == task[t]
           new == [row EXCEPT !.due = due, !.bonus = bonus, !.recurring = recurring]
       IN \E a \in IF given # {} THEN given
                   ELSE IF row.mode = 0 THEN {}
                   ELSE {[mode |-> row.mode, to |-> Respelled(row.to)]} :
            /\ MayAssign(u, a.mode, a.to) \/ (given = {} /\ a.mode # 0)
            /\ a.mode # 0 \/ bonus > 0 \/ u # row.by => u \in Staff
            /\ Begin(r, [Job("patch", t) EXCEPT
                    !.row = [new EXCEPT !.mode = a.mode, !.to = a.to]])
            /\ loose' = IF recurring # row.recurring THEN loose \union {series[t]} ELSE loose
    /\ UNCHANGED odd

WritePatch(r) ==
    /\ req[r].pc = "patch"
    /\ LET t == req[r].id  row == req[r].row IN
        /\ task' = IF t \notin Live THEN task
                   ELSE [task EXCEPT ![t] = [row EXCEPT !.mark = task[t].mark,
                                                        !.confirm = task[t].confirm]]
        /\ loose' = IF t \in Live /\ row.recurring # task[t].recurring
                    THEN loose \union {series[t]} ELSE loose
    /\ End(r)
    /\ UNCHANGED <<bonus_point, now, copying, reqs, grant, odd, series>>

delete_task(r, u, t) ==
    /\ reqs < MaxReqs /\ req[r].pc = "idle" /\ t \in Live
    /\ u = task[t].by \/ u \in Staff
    /\ reqs' = reqs + 1
    /\ task' = [task EXCEPT ![t].live = FALSE]
    /\ UNCHANGED <<bonus_point, now, copying, req, history>>

-----------------------------------------------------------------------------
put_task_complete_mark(r, u, t) ==
    /\ t \in Live /\ Concerns(task[t], u) /\ ~ task[t].mark /\ ~ task[t].confirm
    /\ Begin(r, [Job("mark", t) EXCEPT !.row.mark = TRUE])
    /\ UNCHANGED <<odd, loose>>

delete_task_complete_mark(r, u, t) ==
    /\ t \in Live /\ Concerns(task[t], u) /\ task[t].mark /\ ~ task[t].confirm
    /\ Begin(r, [Job("mark", t) EXCEPT !.row.mark = FALSE])
    /\ UNCHANGED <<odd, loose>>

WriteMark(r) ==
    /\ req[r].pc = "mark"
    /\ LET t == req[r].id IN
        task' = IF t \in Live THEN [task EXCEPT ![t].mark = req[r].row.mark] ELSE task
    /\ End(r)
    /\ UNCHANGED <<bonus_point, now, copying, reqs, history>>

Confirmations == {"accept", "distribute", "reject", "remove"}

\* What each number gets: as often as the list names it, or once by its roles. If
\* no one of a list is a member, nothing is committed.
Shares(row, bonus) ==
    IF row.mode = 2
    THEN [i \in Ids |-> IF i \in Members /\ Concerns(row, i) THEN bonus ELSE 0]
    ELSE [i \in Ids |-> IF Listed(row.to) \cap Members # {} THEN row.to[i] * bonus ELSE 0]

\* ask: "yes", "no", or "" when the request leaves it to the due time: after it,
\* the points are distributed.
ByDefault(row) == now > row.due

\* The mutant: a task is confirmed a second time.
post_task_complete_accept_again(r, u, t, ask) ==
    /\ t \in Live /\ MayConfirm(task[t], u)
    /\ LET distribute == ask = "yes" \/ (ask = "" /\ ByDefault(task[t]))
           bonus == IF distribute /\ task[t].bonus > 0 THEN task[t].bonus ELSE 0
       IN Begin(r, [Job("accept", t) EXCEPT !.points = Shares(task[t], bonus)])
    /\ odd' = IF Busy(t, Confirmations) THEN odd \union {t} ELSE odd
    /\ UNCHANGED loose

\* A task that is confirmed is refused.
post_task_complete_accept(r, u, t, ask) ==
    /\ t \in Live /\ MayConfirm(task[t], u) /\ ~ task[t].confirm
    /\ LET distribute == ask = "yes" \/ (ask = "" /\ ByDefault(task[t]))
           bonus == IF distribute /\ task[t].bonus > 0 THEN task[t].bonus ELSE 0
       IN Begin(r, [Job("accept", t) EXCEPT !.points = Shares(task[t], bonus)])
    /\ odd' = IF Busy(t, Confirmations) THEN odd \union {t} ELSE odd
    /\ UNCHANGED loose

\* The confirmation is committed, then the points are.
Accept(r) ==
    /\ req[r].pc = "accept"
    /\ LET t == req[r].id IN
        /\ task' = IF t \in Live THEN [task EXCEPT ![t].confirm = TRUE] ELSE task
        /\ grant' = [grant EXCEPT ![t] = req[r].points]
    /\ req' = [req EXCEPT ![r].pc = "distribute"]
    /\ UNCHANGED <<bonus_point, now, copying, reqs, odd, series, loose>>

Distribute(r) ==
    /\ req[r].pc = "distribute"
    /\ bonus_point' = [bonus_point EXCEPT ![req[r].id] =
                            [i \in Ids |-> @[i] + req[r].points[i]]]
    /\ End(r)
    /\ UNCHANGED <<task, now, copying, reqs, history>>

post_task_complete_reject(r, u, t, remove_bonus) ==
    /\ t \in Live /\ MayConfirm(task[t], u)
    /\ Begin(r, [Job("reject", t) EXCEPT !.remove = task[t].confirm /\ remove_bonus])
    /\ odd' = IF Busy(t, Confirmations) \/ (task[t].confirm /\ ~ remove_bonus)
              THEN odd \union {t} ELSE odd
    /\ UNCHANGED loose

Reject(r) ==
    /\ req[r].pc = "reject"
    /\ LET t == req[r].id IN
        task' = IF t \in Live THEN [task EXCEPT ![t].mark = FALSE, ![t].confirm = FALSE]
                ELSE task
    /\ req' = [req EXCEPT ![r].pc = "remove"]
    /\ UNCHANGED <<bonus_point, now, copying, reqs, history>>

Remove(r) ==
    /\ req[r].pc = "remove"
    /\ bonus_point' = IF req[r].remove THEN [bonus_point EXCEPT ![req[r].id] = NoOne]
                      ELSE bonus_point
    /\ End(r)
    /\ UNCHANGED <<task, now, copying, reqs, history>>

\* The request fails or the process ends: what it has committed stays.
Cut(r) ==
    /\ req[r].pc # "idle"
    /\ odd' = IF req[r].pc \in Confirmations THEN odd \union {req[r].id} ELSE odd
    /\ End(r)
    /\ UNCHANGED <<task, bonus_point, now, copying, reqs, grant, series, loose>>

-----------------------------------------------------------------------------
\* One process at a time runs this. It may end between two copies.
Select ==
    /\ copying = {}
    /\ copying' = {t \in Live : task[t].recurring > 0 /\ task[t].due <= now}
    /\ copying' # {}
    /\ UNCHANGED <<task, bonus_point, now, req, reqs, history>>

\* The next one, due a period later; the copied one recurs no more.
Copied(t) ==
    LET row == task[t] IN
    [task EXCEPT ![Min(Tasks \ Used)] = [row EXCEPT !.due = @ + row.recurring,
                                           !.mark = FALSE, !.confirm = FALSE],
                 ![t].recurring = - @]

\* The row is read again, and may have been edited or deleted since.
Copy(t) ==
    /\ t \in copying
    /\ copying' = copying \ {t}
    /\ IF t \in Live
       THEN /\ Used # Tasks
            /\ task' = Copied(t)
            /\ series' = [series EXCEPT ![Min(Tasks \ Used)] = series[t]]
       ELSE UNCHANGED <<task, series>>
    /\ UNCHANGED <<bonus_point, now, req, reqs, grant, odd, loose>>

Stop == copying # {} /\ copying' = {}
        /\ UNCHANGED <<task, bonus_point, now, req, reqs, history>>

Tick == now < MaxTime /\ now' = now + 1
        /\ UNCHANGED <<task, bonus_point, copying, req, reqs, history>>

Next ==
    \/ \E r \in Reqs :
        \/ \E u \in Members, due \in Dues, bonus \in Bonuses, recurring \in Periods :
            \/ \E a \in Assignments : post_task(r, u, a, due, bonus, recurring)
            \/ \E t \in Tasks, given \in {{}, Assignments} :
                patch_task(r, u, t, given, due, bonus, recurring)
        \/ \E u \in Members, t \in Tasks :
            \/ \* nothing but a title is given
               t \in Live /\ patch_task(r, u, t, {}, task[t].due, task[t].bonus,
                                        task[t].recurring)
            \/ delete_task(r, u, t)
            \/ put_task_complete_mark(r, u, t) \/ delete_task_complete_mark(r, u, t)
            \/ \E ask \in {"yes", "no", ""} : post_task_complete_accept(r, u, t, ask)
            \/ \E remove_bonus \in BOOLEAN : post_task_complete_reject(r, u, t, remove_bonus)
        \/ WritePatch(r) \/ WriteMark(r) \/ Accept(r) \/ Distribute(r)
        \/ Reject(r) \/ Remove(r) \/ Cut(r)
    \/ Select
    \/ \E t \in Tasks : Copy(t)
    \/ Stop
    \/ Tick

Spec == Init /\ [][Next]_vars

-----------------------------------------------------------------------------
\* Every variable has its type.
TypeOK ==
    /\ \A t \in Tasks : /\ task[t].to \in [Ids -> Nat]
                        /\ task[t].live => t \in Used
                        /\ bonus_point[t] \in [Ids -> Nat]
    /\ copying \subseteq Tasks
    /\ now \in 1..MaxTime /\ reqs \in 0..MaxReqs

\* Once its confirmations are over, and if none overlapped or was cut off, a task
\* that is confirmed has brought exactly the points of its last confirmation,
\* and one that is not, or no more, has brought none.
PointsFollowConfirmation ==
    \A t \in Live : t \notin odd /\ ~ Busy(t, Confirmations) =>
        bonus_point[t] = IF task[t].confirm THEN grant[t] ELSE NoOne

\* As long as staff give no other period, and edit none while it is copied, at
\* most one task of a series recurs.
OneRecurs ==
    \A t, v \in Live : series[t] = series[v] /\ series[t] \notin loose
                         /\ task[t].recurring > 0 /\ task[v].recurring > 0 => t = v
=============================================================================
