SPECIFICATION MCSpec
CONSTANTS
    Reqs = {r1, r2}
    MaxReqs = 5
    Users = {1, 2}
    Uids = {1, 2}
    MaxTime = 3
    Admins = {2}
    Types = {1, 2, 3}
    drivershub = 1
    discord = 2
    Reminders = {3}
    MaxNotices = 1
    Loop = loop
    Joined = {1}
    Accounts = {1, 2}
    Connected = {1}
    Addresses = {1}
    sync_discord_email = TRUE
    Long = 1
    Short = 1
    Roles = {1, 2, 3}
    administrator = 1
    driver = 2
    TruckyRoles = {3}
    Founder = 1
    Grace = 1
    MaxUserid = 3
SYMMETRY Symmetry
INVARIANTS AllTyped IdentitiesAreOfOne MembershipIsWhole SettingsAreKept
PROPERTIES NothingIsTakenInPassing
CHECK_DEADLOCK FALSE
