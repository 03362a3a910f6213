SPECIFICATION DevicesSpec
CONSTANTS
    MaxValue = 4
    MaxRestarts = 2
    NoEntry = NoEntry
    Chats = {"ann", "g1", "g2"}
    Groups = {"g1", "g2"}
    Roles = {"moderator", "visitor"}
    Moderator = "moderator"
    Lists <- SomeLists
    StoredBy = {2, 3, 9, 13}
    Devices = {"phone", "tablet", "laptop"}
    First = "phone"
    Legacy = {}
    MaxIndex = 1
    OnboardsAgain = FALSE
    DeviceActs = 3
    Recovers = FALSE
    Reopens = TRUE
    EntryActs = 6
    Digits = {0, 1}
    Length = 2
    Backspaces = FALSE
    MaxAttempts = 4
    Peers = 4
    Silent = {4}
    MaxBackups = 1
    Video <- OneVideo
    MaxSessions = 2
    PollsOverlap = FALSE
    RecoveryActs = 1
    Feds = {"f", "g"}
    Visits <- SomeVisits
    MaxDepth = 6
INVARIANTS
    StoredIsTrue
    EntryIsSound
    StackIsSound
PROPERTIES
    NothingIsTakenBack
    DevicesSettle
CHECK_DEADLOCK FALSE
