----------------------------- MODULE DailyBonus -----------------------------
(***************************************************************************)
(* The daily bonus: claimed once a day in the time zone of the member, for *)
(* points that grow with the days in a row; a loop reminds those who set a *)
(* time of the day for it.                                                 *)
(*                                                                         *)
(* Time is counted in parts of a day; a reminder keeps a member from       *)
(* another one for Keep parts (ten minutes). The loop may look several     *)
(* times within one part, and its process may end at any point.            *)
(***************************************************************************)
EXTENDS Integers, FiniteSets

CONSTANTS
    Reqs, Users,
    Founder,     \* the user with userid 0
    Day,         \* parts of a day
    Zones,       \* differences from UTC in parts of a day, 0 among them
    Keep,
    Base, StreakValue,       \* of the rank: points, and points for a day in a row
    MaxReqs, MaxMoves, MaxTime      \* bounds

VARIABLES
    daily_bonus_history, \* a set of [user, point, streak, at]
    bonus_point,         \* by user, the sum of the points
    timezone, notification_time,     \* settings by user; notification_time -1 for none
    last10min,           \* in Redis, by user, when reminded; -1 for no entry
    round,               \* the loop: [pc, todo, sent]
    now,
    req, reqs, moves,
    told,                \* history: by user, when they were reminded last, and how often then
    mixed                \* history: users whose claims overlapped, or who changed the zone

vars == <<daily_bonus_history, bonus_point, timezone, notification_time, last10min, round,
          now, req, reqs, moves, told, mixed>>

Idle == [user |-> 0, point |-> 0, streak |-> 0]
Rest == [pc |-> "rest", todo |-> {}, sent |-> {}]

Init ==
    /\ daily_bonus_history = {} /\ bonus_point = [u \in Users |-> 0]
    /\ timezone = [u \in Users |-> 0] /\ notification_time = [u \in Users |-> -1]
    /\ last10min = [u \in Users |-> -1] /\ round = Rest
    /\ now = 2 * Day    \* without a claim, the last one was on day 0
    /\ req = [r \in Reqs |-> Idle] /\ reqs = 0 /\ moves = 0
    /\ told = [u \in Users |-> [at |-> 0, times |-> 0]] /\ mixed = {}

-----------------------------------------------------------------------------
DateOf(u, time) == (time + timezone[u]) \div Day
Claims(u) == {c \in daily_bonus_history : c.user = u}
Last(u) == IF Claims(u) = {} THEN [at |-> 0, streak |-> 0]
           ELSE CHOOSE c \in Claims(u) : \A d \in Claims(u) : d.at <= c.at

\* The mutant: the row of yesterday is looked for by a day of the clock.
DaysSinceByTime(u) == (now - Last(u).at) \div Day
DaysSince(u) == DateOf(u, now) - DateOf(u, Last(u).at)

\* The mutant: a day that was left out does not matter.
NextStreakKept(u) == IF Claims(u) = {} THEN 0 ELSE Last(u).streak + 1
NextStreak(u) == IF DaysSince(u) = 1 THEN Last(u).streak + 1 ELSE 0

post_bonus_claim(r, u) ==
    /\ reqs < MaxReqs /\ req[r] = Idle
    /\ DaysSince(u) # 0
    /\ reqs' = reqs + 1
    /\ req' = [req EXCEPT ![r] = [user |-> u, streak |-> NextStreak(u),
                                  point |-> Base + StreakValue * NextStreak(u)]]
    /\ mixed' = IF \E q \in Reqs : req[q].user = u THEN mixed \union {u} ELSE mixed
    /\ UNCHANGED <<daily_bonus_history, bonus_point, timezone, notification_time, last10min,
                   round, now, moves, told>>

\* Both rows are written in one transaction, at a time that is read again.
WriteClaim(r) ==
    LET c == req[r] IN
    /\ c # Idle
    /\ daily_bonus_history' = daily_bonus_history \union
        {[user |-> c.user, point |-> c.point, streak |-> c.streak, at |-> now]}
    /\ bonus_point' = [bonus_point EXCEPT ![c.user] = @ + c.point]
    /\ mixed' = IF DaysSince(c.user) = 0 \/ NextStreak(c.user) # c.streak
                THEN mixed \union {c.user} ELSE mixed
    /\ req' = [req EXCEPT ![r] = Idle]
    /\ UNCHANGED <<timezone, notification_time, last10min, round, now, reqs, moves, told>>

Cut(r) ==
    /\ req[r] # Idle /\ req' = [req EXCEPT ![r] = Idle]
    /\ UNCHANGED <<daily_bonus_history, bonus_point, timezone, notification_time, last10min,
                   round, now, reqs, moves, told, mixed>>

patch_bonus_notification_settings(u, time) ==
    /\ moves < MaxMoves /\ moves' = moves + 1
    /\ notification_time' = [notification_time EXCEPT ![u] = time]
    /\ UNCHANGED <<daily_bonus_history, bonus_point, timezone, last10min, round, now, req,
                   reqs, told, mixed>>

patch_timezone(u, zone) ==
    /\ moves < MaxMoves /\ moves' = moves + 1
    /\ timezone' = [timezone EXCEPT ![u] = zone]
    /\ mixed' = mixed \union {u}
    /\ UNCHANGED <<daily_bonus_history, bonus_point, notification_time, last10min, round, now,
                   req, reqs, told>>

-----------------------------------------------------------------------------
\* The mutant: the minutes are added.
RecentlyAhead(u) == last10min[u] # -1 /\ last10min[u] >= now + Keep
Recently(u) == last10min[u] # -1 /\ last10min[u] >= now - Keep

\* Of those who set this time of the day: not the founder, whose userid is 0, and
\* not who has been reminded or has claimed. The next one is set to be in a map.
Select ==
    /\ round.pc = "rest"
    /\ round' = [pc |-> "send", sent |-> {u \in Users : Recently(u)},
                 todo |-> {u \in Users \ {Founder} :
                            /\ notification_time[u] = now % Day
                            /\ ~Recently(u) /\ DaysSince(u) # 0}]
    /\ UNCHANGED <<daily_bonus_history, bonus_point, timezone, notification_time, last10min,
                   now, req, reqs, moves, told, mixed>>

Remind(u) ==
    /\ round.pc = "send" /\ u \in round.todo
    /\ round' = [round EXCEPT !.todo = @ \ {u}, !.sent = @ \union {u}]
    /\ told' = [told EXCEPT ![u] = [at |-> now, times |-> IF @.at = now THEN @.times + 1 ELSE 1]]
    /\ UNCHANGED <<daily_bonus_history, bonus_point, timezone, notification_time, last10min,
                   now, req, reqs, moves, mixed>>

\* The map is written after the last reminder; old entries of Redis stay there.
Save ==
    /\ round.pc = "send" /\ round.todo = {}
    /\ last10min' = IF round.sent = {} THEN [u \in Users |-> -1]
                    ELSE [u \in Users |-> IF u \in round.sent
                                          THEN IF told[u].at > last10min[u] THEN told[u].at ELSE last10min[u]
                                          ELSE last10min[u]]
    /\ round' = Rest
    /\ UNCHANGED <<daily_bonus_history, bonus_point, timezone, notification_time, now, req,
                   reqs, moves, told, mixed>>

\* The process ends, and another takes the loop over.
Die ==
    /\ round.pc = "send" /\ moves < MaxMoves /\ moves' = moves + 1
    /\ round' = Rest
    /\ mixed' = mixed \union {u \in Users : told[u].at = now}
    /\ UNCHANGED <<daily_bonus_history, bonus_point, timezone, notification_time, last10min,
                   now, req, reqs, told>>

\* A round does not last for a part of a day.
Tick ==
    /\ now < MaxTime /\ now' = now + 1 /\ round.pc = "rest"
    /\ UNCHANGED <<daily_bonus_history, bonus_point, timezone, notification_time, last10min,
                   round, req, reqs, moves, told, mixed>>

Next ==
    \/ \E r \in Reqs : WriteClaim(r) \/ Cut(r) \/ \E u \in Users : post_bonus_claim(r, u)
    \/ \E u \in Users :
        \/ Remind(u)
        \/ \E time \in -1..(Day - 1) : patch_bonus_notification_settings(u, time)
        \/ \E zone \in Zones : patch_timezone(u, zone)
    \/ Select \/ Save \/ Die \/ Tick

Spec == Init /\ [][Next]_vars

-----------------------------------------------------------------------------
\* Every variable has its type.
TypeOK ==
    /\ daily_bonus_history \subseteq [user : Users, point : Nat, streak : Nat, at : 0..MaxTime]
    /\ bonus_point \in [Users -> Nat] /\ timezone \in [Users -> Zones]
    /\ notification_time \in [Users -> -1..(Day - 1)] /\ last10min \in [Users -> -1..MaxTime]
    /\ round.pc \in {"rest", "send"} /\ round.todo \union round.sent \subseteq Users
    /\ now \in 0..MaxTime /\ reqs \in 0..MaxReqs /\ moves \in 0..MaxMoves

\* Unless claims overlap, last over midnight, or the zone changes, one bonus is given
\* for a day, and its streak is the number of days in a row that were claimed before.
StreaksAreOfDays ==
    \A u \in Users \ mixed : \A c \in Claims(u) :
        LET claimed(day) == \E b \in Claims(u) : DateOf(u, b.at) = day
            day == DateOf(u, c.at)
        IN /\ \A d \in Claims(u) : DateOf(u, d.at) = day => d = c
           /\ \A k \in 1..c.streak : claimed(day - k)
           /\ ~ claimed(day - c.streak - 1)

\* Rounds within the same part of a day remind a member once, unless the process ends
\* before it has saved whom it reminded.
RemindedOnce == \A u \in Users \ mixed : told[u].times <= 1
=============================================================================
