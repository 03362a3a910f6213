------------------------------- MODULE MCChat -------------------------------
(***************************************************************************)
(* The chat of the bridge and of the app, for TLC: MatrixPayments, which   *)
(* this module extends, and the instances of MatrixObservers, MatrixRooms, *)
(* MatrixPayments and RoomRoles that are checked, side by side. One of     *)
(* them runs, the one that which names; they share no state.               *)
(***************************************************************************)
EXTENDS MatrixPayments

CONSTANTS
    \* MatrixObservers: who observes, leaves and fetches again, over which channel
    Channel, CallsInOrder, Refetchers, Unobserves, MaxVersion, MaxId,
    \* MatrixRooms: rooms, of which some are public or of federations
    ChatRooms, Federations, PublicRooms, DefaultOf, CallsFail, MaxRoomEvents, MaxCalls,
    \* RoomRoles: the user's level, and who else changes the room
    Others, MyLevel, Slots, Lag, Fails, MaxActs, MaxForeign

VARIABLES
    which,   \* the system that runs
    \* MatrixObservers
    truth, cursor, nextId, calls, inbox, entry, handlers, view, waiting,
    \* MatrixRooms
    sdk, info, news, joins, entering, leaving, federations, previews,
    defaults, runs, looking, roomEvents,
    \* RoomRoles
    server, store, powers, members, roleCalls, due, overtaken, refused, idle,
    failed, acts, foreign

observersVars == <<truth, cursor, nextId, calls, inbox, entry, handlers, view,
                   waiting>>
roomsVars == <<sdk, info, news, joins, entering, leaving, federations,
               previews, defaults, runs, looking, roomEvents>>
rolesVars == <<server, store, powers, members, roleCalls, due, overtaken, refused,
               idle, failed, acts, foreign>>
all == <<which, vars, observersVars, roomsVars, rolesVars>>

-----------------------------------------------------------------------------
\* What a client observes, in the run a room whose timeline is looked at and left;
\* the list of rooms while it is fetched again, and a channel whose updates overtake
\* answers.
Room == INSTANCE MatrixObservers
Refetch == INSTANCE MatrixObservers WITH
    Channel <- "ordered", CallsInOrder <- FALSE, Refetchers <- {1},
    Unobserves <- FALSE, MaxVersion <- 4, MaxId <- 4
Overtaken == INSTANCE MatrixObservers WITH
    Channel <- "overtaking", CallsInOrder <- TRUE, Refetchers <- {},
    Unobserves <- TRUE, MaxVersion <- 3, MaxId <- 2

\* A room, whose calls the bridge serves in their order, or a list or an indicator
\* that one caller at a time fetches again: the cases in which the client awaits
\* what it has to.
OneAtATime ==
    /\ Channel = "ordered"
    /\ Unobserves => CallsInOrder /\ Refetchers = {}
    /\ \A c, d \in Refetchers : c = d

-----------------------------------------------------------------------------
\* Rooms of which some are default groups of federations, in the run two public
\* ones whose calls may fail; and one default group and a private room, with the
\* fairness of the bridge.
LobbyOf == [r \in {"lobby", "other"} |-> IF r = "lobby" THEN {"f1"} ELSE {}]
Previews == INSTANCE MatrixRooms WITH
    Rooms <- ChatRooms, MaxEvents <- MaxRoomEvents, events <- roomEvents
List == INSTANCE MatrixRooms WITH
    Rooms <- {"lobby", "other"}, Federations <- {"f1"},
    PublicRooms <- {"lobby"}, DefaultOf <- LobbyOf, CallsFail <- FALSE,
    MaxEvents <- 3, MaxCalls <- 2, events <- roomEvents

-----------------------------------------------------------------------------
\* A pushed payment without failures, with the fairness of the bridge.  (As this module
\* extends it a may push a payment to b, or b request it, with failures and restarts.)
RequestedBy == [p \in {"p"} |-> "b"]
Nobody == -1
Claimed == INSTANCE MatrixPayments WITH
    Users <- {"a", "b"}, Payments <- {"p"}, NoUser <- "nobody",
    NoNote <- Nobody, Requester <- RequestedBy, Pushers <- {"a"}, Requests <- {},
    MaxNotes <- 1, MaxEvents <- 4, MaxFailures <- 0, MaxRestarts <- 0,
    MaxReopens <- 1

-----------------------------------------------------------------------------
\* The roles in a room, in the run two calls at once, which may fail, while the store
\* lags and another admin acts; and the calls of the only admin, one after the other and
\* answered from what the server has.
Roles == INSTANCE RoomRoles WITH calls <- roleCalls
Alone == INSTANCE RoomRoles WITH
    Others <- {"ann", "bob"}, MyLevel <- 100, Slots <- {1}, Lag <- FALSE,
    Fails <- FALSE, MaxActs <- 4, MaxForeign <- 0, calls <- roleCalls

-----------------------------------------------------------------------------
ASSUME ConstantsAssumption ==
    /\ Room!ChannelAssumption /\ Room!FlagAssumption /\ Room!BoundAssumption
    /\ Overtaken!ChannelAssumption
    /\ List!RoomAssumption /\ Previews!RoomAssumption
    /\ UserAssumption /\ NullAssumption
    /\ Claimed!UserAssumption /\ Claimed!NullAssumption
    /\ Roles!RoomRolesAssumption /\ Alone!RoomRolesAssumption

\* A system that does not run stays in the one initial state given here.
ChatInit ==
    /\ which \in {"room", "refetch", "overtaken", "list", "previews",
                  "payments", "claimed", "roles", "alone"}
    /\ Room!Init
    /\ which = "list" => List!Init
    /\ which # "list" => Previews!Init
    /\ which = "claimed" => Claimed!Init
    /\ which # "claimed" => Init
    /\ which \notin {"payments", "claimed"} => joined = Users
    /\ which = "alone" => Alone!Init
    /\ which # "alone" => Roles!Init

ObserversStep ==
    /\ \/ which = "room" /\ Room!Next
       \/ which = "refetch" /\ Refetch!Next
       \/ which = "overtaken" /\ Overtaken!Next
    /\ UNCHANGED <<which, roomsVars, vars, rolesVars>>

RoomsStep ==
    /\ \/ which = "list" /\ List!Next
       \/ which = "previews" /\ Previews!Next
    /\ UNCHANGED <<which, observersVars, vars, rolesVars>>

PaymentsStep ==
    /\ \/ which = "payments" /\ Next
       \/ which = "claimed" /\ Claimed!Next
    /\ UNCHANGED <<which, observersVars, roomsVars, rolesVars>>

RolesStep ==
    /\ \/ which = "roles" /\ Roles!Next
       \/ which = "alone" /\ Alone!Next
    /\ UNCHANGED <<which, observersVars, roomsVars, vars>>

ChatNext == ObserversStep \/ RoomsStep \/ PaymentsStep \/ RolesStep

\* The system that runs is fair as its module says.
ChatFairness ==
    /\ WF_observersVars(which = "refetch" /\ Refetch!Forward)
    /\ WF_observersVars(which = "refetch" /\ Refetch!Serve)
    /\ WF_observersVars(which = "refetch" /\ Refetch!Receive)
    /\ \A r \in {"lobby", "other"} :
          /\ WF_roomsVars(which = "list" /\ List!RoomInfo(r))
          /\ WF_roomsVars(which = "list" /\ List!Join(r))
          /\ WF_roomsVars(which = "list" /\ List!JoinPublic(r))
          /\ WF_roomsVars(which = "list" /\ List!Leave(r))
          /\ WF_roomsVars(which = "list" /\ List!GotPreview(r))
    /\ \A fs \in SUBSET {"f1"} : WF_roomsVars(which = "list" /\ List!Previewed(fs))
    /\ WF_vars(which = "claimed" /\ Claimed!ThunkStep)
    /\ \A u \in {"a", "b"} : WF_vars(which = "claimed" /\ Claimed!Deliver(u))
    /\ WF_vars(which = "claimed" /\ \E n \in DOMAIN notes : Claimed!Settle(n))

ChatSpec == ChatInit /\ [][ChatNext]_all /\ ChatFairness

-----------------------------------------------------------------------------
\* No sequence of observing, cancelling and updating leaves a list in a
\* state the bridge never had (applyObservableUpdate works on indexes).
NeverGarbled == which = "room" /\ OneAtATime => Room!NeverGarbled

\* With nothing under way, an observed value is the bridge's current value.
QuietViewIsCurrent == which = "room" /\ OneAtATime => Room!QuietViewIsCurrent

\* With nothing under way, the bridge runs no observable the client has
\* given up (observable.rs).
NoLeakedObservable == which = "room" /\ OneAtATime => Room!NoLeakedObservable

\* One handler applies the updates of what is observed
\* (MatrixChatClient.refetchRoomList).
ObservedOnce == which = "room" /\ OneAtATime => Room!ObservedOnce

\* The view of an observed room implements Mirror: it moves forward only,
\* and through versions the bridge had.
ViewIsMirror ==
    /\ Room!MirrorOfTruth!Init
    /\ [][which = "room" /\ OneAtATime => Room!MirrorOfTruth!Next]_<<truth, view>>

\* A list that is fetched again is, in the end, the bridge's list for good.
EventuallyCurrent == which = "refetch" => Refetch!EventuallyCurrent

\* An invitation is accepted without the user's help
\* (client.on('roomInfo')).
InvitesAreJoined == which = "list" => List!InvitesAreJoined

\* Whatever way a room was joined, and however often it was left before, the
\* list of chats comes to show it, and to forget it when it is left.
ListFollows == which = "list" => List!ListFollows

\* A group opened from a link is never listed as if the user had joined it,
\* whatever previews are being fetched (selectMatrixChatsList).
OnlyDefaultsPreviewed == which = "previews" => Previews!OnlyDefaultsPreviewed

\* However calls overlap, fail and read what is stale, and whatever another admin
\* does: nobody who was removed is brought back by a call about something else, and a
\* role or a setting is undone only by a call that had read the levels before it was
\* accepted, or before it had arrived (setRoomPowerLevels writes all of them back).
ChangesAreKept == which = "roles" => Roles!ChangesAreKept

\* With one call at a time, of the only admin: what was accepted stays until it is
\* changed, redux shows the room as it is when nothing is in flight, and the server
\* refuses nothing that the overlay offers (roomPowerLevels, getRoleDisabled).
AloneAgrees ==
    which = "alone" =>
        Alone!EveryChangeIsKept /\ Alone!ShownIsCurrent /\ Alone!OfferedIsAccepted

-----------------------------------------------------------------------------
\* An observer holds what the bridge held: never a value that never was, the
\* current one when nothing is under way, through one observable and handler.
ObserversAgree ==
    /\ which = "room" => Room!TypeOK
    /\ NeverGarbled
    /\ QuietViewIsCurrent
    /\ NoLeakedObservable
    /\ ObservedOnce

\* A group opened from a link is not listed as joined, whatever previews are fetched;
\* and however calls about roles and members overlap, only one that has not read a role
\* or a setting undoes it, and none brings back who was removed.
RoomsAreAsShown ==
    /\ which = "previews" => Previews!TypeOK
    /\ which = "roles" => Roles!TypeOK
    /\ OnlyDefaultsPreviewed
    /\ ChangesAreKept

\* An observer of a list that is fetched again, of updates that overtake answers and of
\* a private room, and an admin whose calls do not overlap, see what is so.
OthersAgree ==
    /\ which = "refetch" => Refetch!ObservedOnce
    /\ which = "overtaken" => Overtaken!NoLeakedObservable
    /\ which = "list" => List!OnlyDefaultsPreviewed
    /\ AloneAgrees

\* What happens elsewhere arrives: a list fetched again, an invitation, a room
\* joined or left, and, when no call fails and nobody restarts, a pushed payment.
ChatFollows ==
    /\ []OthersAgree
    /\ EventuallyCurrent
    /\ InvitesAreJoined
    /\ ListFollows
    /\ which = "claimed" => Claimed!PushedIsClaimed

=============================================================================
