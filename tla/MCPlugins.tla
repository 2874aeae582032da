----------------------------- MODULE MCPlugins -----------------------------
(***************************************************************************)
(* Small instances for TLC of the plugins, the daily bonus and the public  *)
(* ids of deliveries, which share neither rows nor locks: a behaviour is   *)
(* of the one that focus names, and the variables of the others are off.   *)
(* Where two questions about a module need different bounds it is          *)
(* instantiated twice.                                                     *)
(***************************************************************************)
EXTENDS Integers, Sequences, TLC

CONSTANTS Reqs

VARIABLES
    focus, req, reqs, now, mixed, told, bonus_point, round, moves,   \* of several
    event, voted, copied,                                   \* Events
    poll, poll_vote, cast, result,                          \* Polls
    task, copying, grant, odd, series, loose,           \* Tasks
    at, settings,                                           \* Reminders
    application, sent, crowded,                             \* Applications
    dlog, roles, division, twice,                           \* Divisions
    post, downloads_templink, followed,                     \* Posts
    economy_merch, economy_transaction, unwritten,          \* Merch
    daily_bonus_history, timezone, notification_time, last10min,     \* DailyBonus
    table, registry, tx, server, strict, migration, given, stopped   \* PublicIds

eventsVars == <<event, voted, copied>>
pollsVars == <<poll, poll_vote, cast, result>>
tasksVars == <<task, copying, grant, odd, series, loose>>
remindersVars == <<at, settings>>
applicationsVars == <<application, sent, crowded>>
divisionsVars == <<dlog, roles, division, twice>>
postsVars == <<post, downloads_templink, followed>>
merchVars == <<economy_merch, economy_transaction, unwritten>>
dailyBonusVars == <<daily_bonus_history, timezone, notification_time, last10min>>
pluginsVars == <<req, reqs, now, mixed, told, bonus_point, round, moves, eventsVars, pollsVars, tasksVars, remindersVars,
                 applicationsVars, divisionsVars, postsVars, merchVars, dailyBonusVars>>
idVars == <<table, registry, tx, server, strict, migration, given, stopped>>
vars == <<focus, pluginsVars, idVars>>

Symmetry == Permutations(Reqs)

-----------------------------------------------------------------------------
Events == INSTANCE Events WITH
    Drivers <- {1, 2}, Points <- {0, 2, 5}, Texts <- {"a"}, Remotes <- {7}, MaxEvents <- 2, MaxReqs <- 3

Ballots(n, modify, stats) ==
    [max_choice |-> n, allow_modify_vote |-> modify, show_stats |-> stats,
     show_stats_before_vote |-> FALSE, show_stats_when_ended |-> ~ stats]
Polls == INSTANCE Polls WITH
    Drivers <- {1, 2}, Options <- {1, 2}, Configs <- {Ballots(1, FALSE, FALSE), Ballots(2, TRUE, TRUE)},
    MaxPolls <- 2, MaxReqs <- 3, MaxTime <- 3

\* The digits of 12 are userids as well.
To(n) == [i \in {1, 2, 12} |-> IF i = n THEN 1 ELSE 0]
RolesOf == 1 :> {2} @@ 12 :> {1}
Confirmations == INSTANCE Tasks WITH
    Members <- {1, 12}, Staff <- {1}, Ids <- {1, 2, 12}, RolesOf <- RolesOf,
    Assignments <- {[mode |-> 1, to |-> To(12)], [mode |-> 2, to |-> To(2)]},
    Bonuses <- {5}, Dues <- {1}, Periods <- {0}, MaxPosts <- 1, MaxTasks <- 1, MaxReqs <- 4, MaxTime <- 2
Series == INSTANCE Tasks WITH
    Members <- {1, 12}, Staff <- {1}, Ids <- {1, 2, 12}, RolesOf <- RolesOf,
    Assignments <- {[mode |-> 1, to |-> To(12)]},
    Bonuses <- {5}, Dues <- {1}, Periods <- {0, 1}, MaxPosts <- 1, MaxTasks <- 3, MaxReqs <- 2, MaxTime <- 3

\* How far ahead of, or behind, its time a loop looks, and how long it remembers.
Around(ahead, behind, keep) == [ahead |-> ahead, behind |-> behind, keep |-> keep]
Window == [event |-> Around(2, 0, 2), poll |-> Around(0, 2, 2), task |-> Around(0, 1, 2)]
Reminders(loop) == INSTANCE Reminders WITH
    Loops <- {loop}, Window <- Window, Items <- {1}, MaxTime <- 6, MaxMoves <- 3

Applications == INSTANCE Applications WITH
    Users <- {1}, Types <- {1}, Multiple <- {}, Cooldown <- 1 :> 1,
    MaxApplications <- 2, MaxReqs <- 4, MaxTime <- 3

Divisions == INSTANCE Divisions WITH
    Drivers <- {1, 2}, Logs <- {1, 2}, Driver <- 1 :> 1 @@ 2 :> 2, Distance <- 1 :> 3 @@ 2 :> 7,
    Points <- 1 :> [mode |-> "static", value |-> 2] @@ 2 :> [mode |-> "ratio", value |-> 1],
    Admins <- {2}, DivisionIds <- {1, 2}, MaxRows <- 3, MaxReqs <- 3

TypesOf == 1 :> {1, 2} @@ 2 :> {2}
Links == INSTANCE Posts WITH
    Staff <- {2}, TypesOf <- TypesOf, Orders <- {0, 1}, Fresh <- 1,
    MaxPosts <- 1, MaxReqs <- 4, MaxLinks <- 2, MaxTime <- 2
Lists == INSTANCE Posts WITH
    Staff <- {2}, TypesOf <- TypesOf, Orders <- {0, 1}, Fresh <- 1,
    MaxPosts <- 3, MaxReqs <- 1, MaxLinks <- 1, MaxTime <- 1

Merch == INSTANCE Merch WITH
    Users <- {1, 2, 3}, Managers <- {3}, company <- 1000, BuyPrice <- 5, SellPrice <- 3,
    MaxItems <- 1, MaxReqs <- 4

Bonuses == INSTANCE DailyBonus WITH
    Users <- {2}, Founder <- 1, Day <- 3, Zones <- {0, 1}, Keep <- 1, Base <- 10, StreakValue <- 5,
    MaxReqs <- 3, MaxMoves <- 1, MaxTime <- 12
BonusReminders == INSTANCE DailyBonus WITH
    Users <- {2}, Founder <- 1, Day <- 3, Zones <- {0, 1}, Keep <- 1, Base <- 10, StreakValue <- 5,
    MaxReqs <- 1, MaxMoves <- 3, MaxTime <- 6

Loops == {"event", "poll", "task"}

\* Four symbols, one of them random, so that ids collide soon. A delivery of the last
\* month an id can name, and one whose month cannot be read, are older than the ids.
IdRound(h, i) == (3 * h + i) % 4
Ids == INSTANCE PublicIds WITH
    Writers <- Reqs, Logs <- {1, 2, 3, 4}, Old <- 1 :> 15 @@ 2 :> -1, Base <- 4, Width <- 1,
    Rounds <- 8, Round <- IdRound, Months <- {15}, MaxStops <- 1

-----------------------------------------------------------------------------
off == "off"
EventsOff == event = off /\ voted = off /\ copied = off
PollsOff == poll = off /\ poll_vote = off /\ cast = off /\ result = off
TasksOff ==
    /\ task = off /\ copying = off /\ grant = off /\ odd = off
    /\ series = off /\ loose = off
RemindersOff == at = off /\ settings = off
ApplicationsOff == application = off /\ sent = off /\ crowded = off
DivisionsOff == dlog = off /\ roles = off /\ division = off /\ twice = off
PostsOff == post = off /\ downloads_templink = off /\ followed = off
MerchOff == economy_merch = off /\ economy_transaction = off /\ unwritten = off
DailyBonusOff == daily_bonus_history = off /\ timezone = off /\ notification_time = off /\ last10min = off
IdsOff ==
    /\ table = off /\ registry = off /\ tx = off /\ server = off
    /\ strict = off /\ migration = off /\ given = off /\ stopped = off

PluginsInit ==
    \/ /\ focus = "events" /\ Events!Init
       /\ now = off /\ bonus_point = off /\ round = off /\ moves = off
       /\ PollsOff /\ TasksOff /\ RemindersOff /\ ApplicationsOff /\ DivisionsOff
       /\ PostsOff /\ MerchOff /\ DailyBonusOff
    \/ /\ focus = "polls" /\ Polls!Init
       /\ told = off /\ bonus_point = off /\ round = off /\ moves = off
       /\ EventsOff /\ TasksOff /\ RemindersOff /\ ApplicationsOff /\ DivisionsOff
       /\ PostsOff /\ MerchOff /\ DailyBonusOff
    \/ /\ \/ focus = "confirmations" /\ Confirmations!Init
          \/ focus = "series" /\ Series!Init
       /\ mixed = off /\ told = off /\ round = off /\ moves = off
       /\ EventsOff /\ PollsOff /\ RemindersOff /\ ApplicationsOff /\ DivisionsOff
       /\ PostsOff /\ MerchOff /\ DailyBonusOff
    \/ /\ \E loop \in Loops : focus = loop /\ Reminders(loop)!Init
       /\ req = off /\ reqs = off /\ mixed = off /\ bonus_point = off
       /\ EventsOff /\ PollsOff /\ TasksOff /\ ApplicationsOff /\ DivisionsOff
       /\ PostsOff /\ MerchOff /\ DailyBonusOff
    \/ /\ focus = "applications" /\ Applications!Init
       /\ told = off /\ bonus_point = off /\ round = off /\ moves = off
       /\ EventsOff /\ PollsOff /\ TasksOff /\ RemindersOff /\ DivisionsOff
       /\ PostsOff /\ MerchOff /\ DailyBonusOff
    \/ /\ focus = "divisions" /\ Divisions!Init
       /\ now = off /\ mixed = off /\ told = off /\ bonus_point = off /\ round = off /\ moves = off
       /\ EventsOff /\ PollsOff /\ TasksOff /\ RemindersOff /\ ApplicationsOff
       /\ PostsOff /\ MerchOff /\ DailyBonusOff
    \/ /\ \/ focus = "links" /\ Links!Init
          \/ focus = "lists" /\ Lists!Init
       /\ mixed = off /\ told = off /\ bonus_point = off /\ round = off /\ moves = off
       /\ EventsOff /\ PollsOff /\ TasksOff /\ RemindersOff /\ ApplicationsOff
       /\ DivisionsOff /\ MerchOff /\ DailyBonusOff
    \/ /\ focus = "merch" /\ Merch!Init
       /\ now = off /\ told = off /\ bonus_point = off /\ round = off /\ moves = off
       /\ EventsOff /\ PollsOff /\ TasksOff /\ RemindersOff /\ ApplicationsOff
       /\ DivisionsOff /\ PostsOff /\ DailyBonusOff
    \/ /\ \/ focus = "bonuses" /\ Bonuses!Init
          \/ focus = "bonus reminders" /\ BonusReminders!Init
       /\ EventsOff /\ PollsOff /\ TasksOff /\ RemindersOff /\ ApplicationsOff
       /\ DivisionsOff /\ PostsOff /\ MerchOff

Init ==
    \/ PluginsInit /\ IdsOff
    \/ /\ focus = "ids" /\ Ids!Init
       /\ req = off /\ reqs = off /\ now = off /\ mixed = off
       /\ told = off /\ bonus_point = off /\ round = off /\ moves = off
       /\ EventsOff /\ PollsOff /\ TasksOff /\ RemindersOff /\ ApplicationsOff
       /\ DivisionsOff /\ PostsOff /\ MerchOff /\ DailyBonusOff

EventsNext ==
    /\ focus = "events" /\ Events!Next
    /\ UNCHANGED <<focus, now, bonus_point, round, moves,
                   pollsVars, tasksVars, remindersVars, applicationsVars, divisionsVars, postsVars, merchVars, dailyBonusVars>>
PollsNext ==
    /\ focus = "polls" /\ Polls!Next
    /\ UNCHANGED <<focus, told, bonus_point, round, moves,
                   eventsVars, tasksVars, remindersVars, applicationsVars, divisionsVars, postsVars, merchVars, dailyBonusVars>>
TasksNext ==
    /\ \/ focus = "confirmations" /\ Confirmations!Next
       \/ focus = "series" /\ Series!Next
    /\ UNCHANGED <<focus, mixed, told, round, moves,
                   eventsVars, pollsVars, remindersVars, applicationsVars, divisionsVars, postsVars, merchVars, dailyBonusVars>>
RemindersNext(loop) ==
    /\ focus = loop /\ Reminders(loop)!Next
    /\ UNCHANGED <<focus, req, reqs, mixed, bonus_point,
                   eventsVars, pollsVars, tasksVars, applicationsVars, divisionsVars, postsVars, merchVars, dailyBonusVars>>
ApplicationsNext ==
    /\ focus = "applications" /\ Applications!Next
    /\ UNCHANGED <<focus, told, bonus_point, round, moves,
                   eventsVars, pollsVars, tasksVars, remindersVars, divisionsVars, postsVars, merchVars, dailyBonusVars>>
DivisionsNext ==
    /\ focus = "divisions" /\ Divisions!Next
    /\ UNCHANGED <<focus, now, mixed, told, bonus_point, round, moves,
                   eventsVars, pollsVars, tasksVars, remindersVars, applicationsVars, postsVars, merchVars, dailyBonusVars>>
PostsNext ==
    /\ \/ focus = "links" /\ Links!Next
       \/ focus = "lists" /\ Lists!Next
    /\ UNCHANGED <<focus, mixed, told, bonus_point, round, moves,
                   eventsVars, pollsVars, tasksVars, remindersVars, applicationsVars, divisionsVars, merchVars, dailyBonusVars>>
MerchNext ==
    /\ focus = "merch" /\ Merch!Next
    /\ UNCHANGED <<focus, now, told, bonus_point, round, moves,
                   eventsVars, pollsVars, tasksVars, remindersVars, applicationsVars, divisionsVars, postsVars, dailyBonusVars>>
DailyBonusNext ==
    /\ \/ focus = "bonuses" /\ Bonuses!Next
       \/ focus = "bonus reminders" /\ BonusReminders!Next
    /\ UNCHANGED <<focus,
                   eventsVars, pollsVars, tasksVars, remindersVars, applicationsVars, divisionsVars, postsVars, merchVars>>

PluginsNext ==
    \/ EventsNext \/ PollsNext \/ TasksNext \/ ApplicationsNext \/ DivisionsNext
    \/ PostsNext \/ MerchNext \/ DailyBonusNext
    \/ \E loop \in Loops : RemindersNext(loop)

Next ==
    \/ PluginsNext /\ UNCHANGED idVars
    \/ focus = "ids" /\ Ids!Next /\ UNCHANGED <<focus, pluginsVars>>

Spec == Init /\ [][Next]_vars

-----------------------------------------------------------------------------
\* Every variable of every part has its type.
TypeOK ==
    /\ focus = "events" => Events!TypeOK
    /\ focus = "polls" => Polls!TypeOK
    /\ focus = "confirmations" => Confirmations!TypeOK
    /\ focus = "series" => Series!TypeOK
    /\ focus = "applications" => Applications!TypeOK
    /\ focus = "divisions" => Divisions!TypeOK
    /\ focus = "links" => Links!TypeOK
    /\ focus = "lists" => Lists!TypeOK
    /\ focus = "merch" => Merch!TypeOK
    /\ focus = "bonuses" => Bonuses!TypeOK
    /\ focus = "bonus reminders" => BonusReminders!TypeOK
    /\ focus = "ids" => Ids!IdsTyped

\* What members said last is what is kept, unless two of their requests overlap:
\* votes for events, ballots, which are announced as they stay, and messages.
AnswersAreKept ==
    /\ focus = "events" => Events!VotesAreKept
    /\ focus = "polls" => Polls!BallotsAreKept /\ Polls!ResultsAreFinal
    /\ focus = "applications" => Applications!MessagesAreKept

\* Points and coins follow what staff decided and members own, after any number of
\* decisions that do not overlap: attendees were told what they have, a confirmed
\* task gave its points once and a rejected one none, a piece of merchandise is paid
\* back once and to its owner, clicks are counted while staff edit, and a day gives
\* one bonus with the streak it continues.
PointsFollowDecisions ==
    /\ focus = "events" => Events!ToldWhatTheyGot
    /\ focus = "confirmations" => Confirmations!PointsFollowConfirmation
    /\ focus = "links" => Links!ClicksAreCounted
    /\ focus = "merch" => Merch!RefundedToItsOwner /\ Merch!TheLedgerFollowsTheItem
    /\ focus = "bonuses" => Bonuses!StreaksAreOfDays


=============================================================================
