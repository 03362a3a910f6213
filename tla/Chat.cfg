SPECIFICATION ChatSpec
CONSTANTS
    Users = {"a", "b"}
    Payments = {"p"}
    NoUser = "nobody"
    NoNote <- Nobody
    Requester <- RequestedBy
    Pushers = {"a"}
    Requests = {"p"}
    MaxNotes = 2
    MaxEvents = 4
    MaxFailures = 1
    MaxRestarts = 1
    MaxReopens = 1
    Channel = "ordered"
    CallsInOrder = TRUE
    Refetchers = {}
    Unobserves = TRUE
    MaxVersion = 4
    MaxId = 3
    ChatRooms = {"lobby", "other"}
    Federations = {"f1"}
    PublicRooms = {"lobby", "other"}
    DefaultOf <- LobbyOf
    CallsFail = TRUE
    MaxRoomEvents = 4
    MaxCalls = 2
    Others = {"ann"}
    MyLevel = 100
    Slots = {1, 2}
    Lag = TRUE
    Fails = TRUE
    MaxActs = 2
    MaxForeign = 2
INVARIANTS
    ObserversAgree
    RoomsAreAsShown
    PaymentsAreSound
PROPERTIES
    ViewIsMirror
    EndedForGood
    ChatFollows
CHECK_DEADLOCK FALSE
