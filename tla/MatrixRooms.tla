----------------------------- MODULE MatrixRooms -----------------------------
(***************************************************************************)
(* The rooms a user sees in the list of chats: the invitations that are    *)
(* accepted by themselves, the public groups joined from a link, the rooms *)
(* left, and the previews of the federations' default groups that are      *)
(* listed as if they had been joined.                                      *)
(*                                                                         *)
(* sdk is the state of a room in the matrix sdk of the bridge; info is     *)
(* what redux holds of it (roomInfo), which follows through the room's     *)
(* info observable (module MatrixObservers: a view lags, and is then       *)
(* brought up to date).  Calls of the bridge are in flight while the user  *)
(* and the other members go on.                                            *)
(***************************************************************************)
EXTENDS Naturals, FiniteSets

CONSTANTS
    Rooms, Federations,
    PublicRooms,            \* rooms anybody may join
    DefaultOf,              \* [Rooms -> SUBSET Federations]: whose default group
    CallsFail,              \* BOOLEAN: calls of the bridge may fail
    MaxEvents, MaxCalls     \* bounds: acts of users; calls for a room at once

RoomAssumption ==
    /\ PublicRooms \subseteq Rooms
    /\ DefaultOf \in [Rooms -> SUBSET Federations]
    /\ \A r \in Rooms : DefaultOf[r] # {} => r \in PublicRooms
    /\ CallsFail \in BOOLEAN
    /\ MaxEvents \in Nat /\ MaxCalls \in Nat

VARIABLES
    sdk,        \* [Rooms -> RoomStates]
    info,       \* [Rooms -> RoomStates]: redux; "None" when it holds none
    news,       \* rooms whose info observable has an update on its way
    joins,      \* [Rooms -> Nat]: calls of matrixRoomJoin in flight
    entering,   \* rooms with a call of matrixRoomJoinPublic in flight
    leaving,    \* rooms with a call of matrixRoomLeave in flight
    federations,\* redux: federations joined
    previews,   \* rooms with a preview in redux
    defaults,   \* those of them with isDefaultGroup
    runs,       \* calls of previewDefaultGroupChats: the federations each looks at
    looking,    \* rooms with a call of getMatrixRoomPreview in flight
    events

vars == <<sdk, info, news, joins, entering, leaving,
          federations, previews, defaults, runs, looking, events>>
roomVars == <<sdk, info, news, joins, entering, leaving>>
previewVars == <<federations, previews, defaults, runs, looking>>

RoomStates == {"None", "Invited", "Joined", "Left"}

TypeOK ==
    /\ sdk \in [Rooms -> RoomStates] /\ info \in [Rooms -> RoomStates]
    /\ {news, entering, leaving} \subseteq SUBSET Rooms
    /\ joins \in [Rooms -> 0 .. MaxCalls]
    /\ \A r \in Rooms : joins[r] > 0 => sdk[r] # "None"
    /\ federations \subseteq Federations /\ runs \subseteq SUBSET Federations
    /\ defaults \subseteq previews /\ previews \subseteq PublicRooms

Init ==
    /\ sdk = [r \in Rooms |-> "None"] /\ info = sdk
    /\ news = {} /\ entering = {} /\ leaving = {}
    /\ joins = [r \in Rooms |-> 0]
    /\ federations = {} /\ previews = {} /\ defaults = {}
    /\ runs = {} /\ looking = {} /\ events = 0

\* selectMatrixChatsList.  selectMatrixRooms has every room of the sdk's list
\* with an info, whatever its state.
Listed == {r \in Rooms : info[r] = "Joined"}
Known == {r \in Rooms : info[r] # "None"}
ListedPreviews == defaults \ Known

Event == events < MaxEvents /\ events' = events + 1

\* The sdk's state of a room changes and its info observable is told.
Becomes(r, s) == sdk' = [sdk EXCEPT ![r] = s] /\ news' = news \cup {r}

-----------------------------------------------------------------------------
\* Other members, and the server.
Invited(r) ==
    /\ Event /\ sdk[r] \in {"None", "Left"} /\ Becomes(r, "Invited")
    /\ UNCHANGED <<info, joins, entering, leaving, previewVars>>

Renamed(r) ==
    /\ Event /\ sdk[r] # "None" /\ news' = news \cup {r}
    /\ UNCHANGED <<sdk, info, joins, entering, leaving, previewVars>>

Kicked(r) ==
    /\ Event /\ sdk[r] = "Joined" /\ Becomes(r, "Left")
    /\ UNCHANGED <<info, joins, entering, leaving, previewVars>>

\* The listener of startMatrixClient for 'roomInfo': every update of a room one
\* is invited to starts a call.  Whether the list keeps a room that was left is
\* up to the sliding sync server.
Joining(r) == sdk[r] = "Invited" /\ joins[r] < MaxCalls
InList(s) == IF s = "Left" THEN {"Left", "None"} ELSE {s}
\* Mutant: an info is kept after the room was left.
RoomInfoOnce(r) ==
    /\ r \in news /\ news' = news \ {r}
    /\ info' = [info EXCEPT ![r] = IF @ \in {"None", "Invited"} THEN sdk[r] ELSE @]
    /\ joins' = [joins EXCEPT ![r] = IF Joining(r) THEN @ + 1 ELSE @]
    /\ UNCHANGED <<sdk, entering, leaving, previewVars, events>>

RoomInfo(r) ==
    /\ r \in news /\ news' = news \ {r}
    /\ \E s \in InList(sdk[r]) : info' = [info EXCEPT ![r] = s]
    /\ joins' = [joins EXCEPT ![r] = IF Joining(r) THEN @ + 1 ELSE @]
    /\ UNCHANGED <<sdk, entering, leaving, previewVars, events>>

\* A call reaches the server, which lets in who is invited, and anybody into a
\* public room.
MayEnter(r) == sdk[r] = "Invited" \/ (r \in PublicRooms /\ sdk[r] # "Joined")
Enter(r) == IF MayEnter(r) THEN Becomes(r, "Joined") ELSE UNCHANGED <<sdk, news>>

Answered(r) == joins' = [joins EXCEPT ![r] = @ - 1]

Join(r) ==
    /\ joins[r] > 0 /\ Answered(r) /\ Enter(r)
    /\ UNCHANGED <<info, entering, leaving, previewVars, events>>

JoinFails(r) ==
    /\ CallsFail /\ joins[r] > 0 /\ Answered(r)
    /\ UNCHANGED <<sdk, info, news, entering, leaving, previewVars, events>>

\* handleJoinGroup of ConfirmJoinPublicGroup: the button is loading meanwhile.
JoinPublicGroup(r) ==
    /\ Event /\ r \in PublicRooms \ entering /\ entering' = entering \cup {r}
    /\ UNCHANGED <<sdk, info, news, joins, leaving, previewVars>>

JoinPublic(r) ==
    /\ r \in entering /\ entering' = entering \ {r}
    /\ Enter(r) \/ (CallsFail /\ UNCHANGED <<sdk, news>>)
    /\ UNCHANGED <<info, joins, leaving, previewVars, events>>

\* leaveChat of RoomSettings, which is left before the call.
LeaveChat(r) ==
    /\ Event /\ r \in Listed \ leaving /\ leaving' = leaving \cup {r}
    /\ UNCHANGED <<sdk, info, news, joins, entering, previewVars>>

Leave(r) ==
    /\ r \in leaving /\ leaving' = leaving \ {r}
    /\ \/ sdk[r] = "Joined" /\ Becomes(r, "Left")
       \/ (sdk[r] # "Joined" \/ CallsFail) /\ UNCHANGED <<sdk, news>>
    /\ UNCHANGED <<info, joins, entering, previewVars, events>>

-----------------------------------------------------------------------------
\* previewDefaultGroupChats looks at the federations of the moment it starts;
\* the previews it could fetch replace all that redux holds.
StartRun(fs) == runs' = runs \cup {fs}

Preview ==
    /\ Event /\ StartRun(federations)
    /\ UNCHANGED <<roomVars, federations, previews, defaults, looking>>

JoinFederation(f) ==
    /\ Event /\ f \notin federations
    /\ federations' = federations \cup {f} /\ StartRun(federations')
    /\ UNCHANGED <<roomVars, previews, defaults, looking>>

DefaultGroups(fs) == {r \in Rooms : DefaultOf[r] \cap fs # {}}

Replaced(fetched) == previews' = fetched /\ defaults' = fetched
Previewed(fs) ==
    /\ fs \in runs /\ runs' = runs \ {fs}
    /\ \E fetched \in SUBSET DefaultGroups(fs) :
          (CallsFail \/ fetched = DefaultGroups(fs)) /\ Replaced(fetched)
    /\ UNCHANGED <<roomVars, federations, looking, events>>

\* getMatrixRoomPreview, of a link that was opened or a preview that is read: it
\* is merged into what redux holds of that room.
OpenLink(r) ==
    /\ Event /\ r \in PublicRooms \ looking /\ looking' = looking \cup {r}
    /\ UNCHANGED <<roomVars, federations, previews, defaults, runs>>

\* A preview opened from a link is kept without the flag of a default group.
Merged(r) == previews' = previews \cup {r} /\ UNCHANGED defaults
GotPreview(r) ==
    /\ r \in looking /\ looking' = looking \ {r}
    /\ Merged(r) \/ (CallsFail /\ UNCHANGED <<previews, defaults>>)
    /\ UNCHANGED <<roomVars, federations, runs, events>>

Next ==
    \/ \E r \in Rooms :
          \/ Invited(r) \/ Renamed(r) \/ Kicked(r) \/ RoomInfo(r)
          \/ Join(r) \/ JoinFails(r) \/ JoinPublicGroup(r) \/ JoinPublic(r)
          \/ LeaveChat(r) \/ Leave(r) \/ OpenLink(r) \/ GotPreview(r)
    \/ Preview
    \/ \E f \in Federations : JoinFederation(f)
    \/ \E fs \in SUBSET Federations : Previewed(fs)

\* Updates are delivered and calls of the bridge return.
Fairness ==
    /\ \A r \in Rooms :
          WF_vars(RoomInfo(r)) /\ WF_vars(Join(r)) /\ WF_vars(JoinPublic(r))
          /\ WF_vars(Leave(r)) /\ WF_vars(GotPreview(r))
    /\ \A fs \in SUBSET Federations : WF_vars(Previewed(fs))

Spec == Init /\ [][Next]_vars /\ Fairness

-----------------------------------------------------------------------------
\* An invitation is accepted without the user's help (client.on('roomInfo')).
InvitesAreJoined ==
    \A r \in Rooms : sdk[r] = "Invited" ~> sdk[r] # "Invited"

\* Whatever way a room was joined, and however often it was left before, the
\* list comes to show it, and comes to forget it when it is left.
ListFollows ==
    \A r \in Rooms :
        /\ sdk[r] = "Joined" ~> (r \in Listed \/ sdk[r] # "Joined")
        /\ sdk[r] # "Joined" ~> (r \notin Listed \/ sdk[r] = "Joined")

\* A group opened from a link is never listed as if the user had joined it: not
\* even when previews of default groups are fetched at the same time
\* ("don't include previews unless they are default groups").
OnlyDefaultsPreviewed == defaults \subseteq DefaultGroups(federations)

\* "don't include previews for rooms we are already joined to": so, when nothing
\* is on its way, a preview is left out only for that.
HiddenOnlyIfJoined ==
    \A r \in defaults \ ListedPreviews :
        r \notin news /\ joins[r] = 0 => sdk[r] = "Joined"

\* "Previews default chats for each federation": when every call has returned,
\* and none has failed, they are there.
AllPreviewed == runs = {} => defaults = DefaultGroups(federations)

\* RoomSettings takes care that nothing "may attempt to re-join the group right
\* after we leave it": who left by choice is back only if invited again or after
\* joining again.
NeverRejoins ==
    [][\A r \in Rooms :
          sdk[r] = "Left" /\ sdk'[r] = "Joined" => r \in entering]_vars

=============================================================================
