------------------------------ MODULE RoomRoles ------------------------------
(***************************************************************************)
(* The roles and the members of a chat room, as a moderator changes them:  *)
(* roles and the broadcast setting by reading the room's power levels and  *)
(* writing the whole content back, members by removing or banning them and *)
(* fetching the list again.  Nothing observes either: redux holds what the *)
(* last call left there.                                                   *)
(*                                                                         *)
(* server is the room on the homeserver, store what the bridge's matrix    *)
(* sdk has synchronised of it, from which it answers reads.  The overlay   *)
(* of a member can be dismissed while its call is in flight, so that calls *)
(* overlap.                                                                *)
(***************************************************************************)
EXTENDS Naturals, FiniteSets

CONSTANTS
    Others,         \* the members other than the user
    MyLevel,        \* the user's role
    Slots,          \* bound: calls in flight at once
    Lag,            \* BOOLEAN: the store follows the server a sync later
    Fails,          \* BOOLEAN: calls of the bridge may fail
    MaxActs,        \* bound: what the user does
    MaxForeign      \* bound: what another admin does meanwhile

Member == 0
Moderator == 50
Admin == 100
Levels == {Member, Moderator, Admin}

RoomRolesAssumption ==
    /\ MyLevel \in Levels /\ Lag \in BOOLEAN /\ Fails \in BOOLEAN
    /\ MaxActs \in Nat /\ MaxForeign \in Nat

VARIABLES
    server, store,  \* [users, default, membership]
    powers,         \* redux roomPowerLevels: [users, default]
    members,        \* redux roomMembers: [Others -> [level, membership]]
    calls,          \* [Slots -> calls in flight or Idle]
    due,            \* history: accepted changes nobody has changed since
    overtaken,      \* history: those of due that a call has not read before it writes
    refused,        \* history: the user was offered what the server refuses
    idle,           \* history: the user was offered the role the member has
    failed,         \* history: removals made that the user was told had failed
    acts, foreign

vars == <<server, store, powers, members, calls, due, overtaken, refused, idle,
          failed, acts, foreign>>

Idle == [act |-> "none"]
Powers(room) == [users |-> room.users, default |-> room.default]
MembersOf(room) ==
    [u \in Others |-> [level |-> room.users[u], membership |-> room.membership[u]]]

TypeOK ==
    LET PowerLevels == [users : [Others -> Levels], default : {Member, Moderator}]
        MemberLists == [Others -> [level : Levels,
                                   membership : {"join", "leave", "ban"}]]
        Rooms == [users : [Others -> Levels], default : {Member, Moderator},
                  membership : [Others -> {"join", "leave", "ban"}]]
    IN  /\ server \in Rooms /\ store \in Rooms
        /\ powers \in PowerLevels /\ members \in MemberLists
        /\ \A i \in Slots :
              \/ calls[i] = Idle
              \/ calls[i].step \in {"read", "send", "fetch"}
              \/ calls[i].step = "write" /\ calls[i].read \in PowerLevels
              \/ calls[i].step = "answered" /\ calls[i].read \in PowerLevels
              \/ calls[i].step = "deliver" /\ calls[i].read \in MemberLists

Init ==
    /\ server = [users |-> [u \in Others |-> Member], default |-> Member,
                 membership |-> [u \in Others |-> "join"]]
    /\ store = server
    /\ powers = Powers(server) /\ members = MembersOf(server)
    /\ calls = [i \in Slots |-> Idle]
    /\ due = {} /\ overtaken = {} /\ failed = {} /\ refused = FALSE /\ idle = FALSE
    /\ acts = 0 /\ foreign = 0

-----------------------------------------------------------------------------
(* What the homeserver accepts. *)
AcceptsLevels(new) ==
    /\ MyLevel = Admin
    /\ \A u \in Others : new.users[u] # server.users[u] => server.users[u] < MyLevel
AcceptsRemoval(u, how) ==
    /\ MyLevel >= Moderator /\ server.users[u] < MyLevel
    /\ how = "leave" => server.membership[u] # "leave"

Same(c, d) == c.of = d.of /\ c.user = d.user
Holds(c, room) ==
    /\ c.of = "role" => room.users[c.user] = c.value
    /\ c.of = "default" => room.default = c.value
    /\ c.of = "member" => room.membership[c.user] = c.value

(* The room changes on the server, for change, which replaces what was     *)
(* done to the same thing before.  A call that is about to write what it   *)
(* read, and that is not the one (by) which makes the change, overtakes it. *)
Writing == {i \in Slots : calls[i] # Idle /\ calls[i].step = "write"}
Change(room, change, by) ==
    /\ server' = room
    /\ store' = IF Lag THEN store ELSE room
    /\ due' = {c \in due : ~ Same(c, change)} \cup {change}
    /\ overtaken' = {c \in overtaken : ~ Same(c, change)} \cup
                     (IF Writing \subseteq by THEN {} ELSE {change})

Sync ==
    /\ store # server
    /\ store' = server
    /\ UNCHANGED <<server, powers, members, calls, due, overtaken, refused, idle,
                   failed, acts, foreign>>

(* Another admin changes a role, the setting, or who is there. *)
Foreign ==
    /\ foreign < MaxForeign
    /\ foreign' = foreign + 1
    /\ \/ \E u \in Others, l \in Levels \ {Admin} :
            /\ l # server.users[u]
            /\ Change([server EXCEPT !.users[u] = l],
                      [of |-> "role", user |-> u, value |-> l], {})
       \/ \E u \in Others, m \in {"join", "leave"} :
            /\ m # server.membership[u]
            /\ Change([server EXCEPT !.membership[u] = m],
                      [of |-> "member", user |-> u, value |-> m], {})
    /\ UNCHANGED <<powers, members, calls, refused, idle, failed, acts>>

-----------------------------------------------------------------------------
(* The overlay of a member opens in the list and from the timeline, where  *)
(* banned members are still seen.                                          *)
Opens(u) == MyLevel >= Moderator /\ members[u].membership # "leave"

(* getRoleDisabled.  A level of 0 is not looked at: `powerLevel &&`. *)
Enabled(u) == MyLevel > members[u].level
RoleEnabled(u, level) ==
    /\ Enabled(u)
    /\ level # Member => MyLevel >= level /\ members[u].level # level

Start(i, call) ==
    /\ calls[i] = Idle
    /\ acts < MaxActs
    /\ acts' = acts + 1
    /\ calls' = [calls EXCEPT ![i] = call]
    /\ UNCHANGED <<server, store, powers, members, due, overtaken, refused, failed,
                   foreign>>

ChangeRole(i) ==
    \E u \in Others, level \in Levels :
        /\ Opens(u) /\ RoleEnabled(u, level)
        /\ idle' = (idle \/ members[u].level = level)
        /\ Start(i, [act |-> "role", user |-> u, value |-> level, step |-> "read"])

(* handleRemoveUser and handleBanUser. *)
RemoveUser(i) ==
    \E u \in Others, how \in {"leave", "ban"} :
        /\ Opens(u) /\ Enabled(u)
        /\ UNCHANGED idle
        /\ Start(i, [act |-> "member", user |-> u, value |-> how, step |-> "send"])

(* The broadcast setting of the room, for admins; one toggle at a time. *)
ToggleBroadcastOnly(i) ==
    /\ MyLevel >= Admin
    /\ \A j \in Slots : calls[j].act # "default"
    /\ UNCHANGED idle
    /\ Start(i, [act |-> "default", user |-> "room", step |-> "read",
                 value |-> IF powers.default >= Moderator THEN Member ELSE Moderator])

(* The list is pulled down. *)
Refresh(i) ==
    /\ UNCHANGED idle
    /\ Start(i, [act |-> "refresh", step |-> "fetch"])

-----------------------------------------------------------------------------
Goes(i, call) == calls[i] # Idle /\ calls' = [calls EXCEPT ![i] = call]

\* Mutant: what was read is not spread below the new value of the setting.
ReadAnew(i) ==
    /\ calls[i] # Idle /\ calls[i].step = "read"
    /\ LET c == calls[i]
           old == [Powers(store) EXCEPT !.default = Member]
           new == IF c.act = "role" THEN [old EXCEPT !.users[c.user] = c.value]
                                    ELSE [old EXCEPT !.default = c.value]
       IN  Goes(i, [act |-> c.act, user |-> c.user, value |-> c.value,
                    step |-> "write", read |-> new])
    /\ overtaken' = overtaken \cup {c \in due : ~ Holds(c, store)}
    /\ UNCHANGED <<server, store, powers, members, due, refused, idle, failed, acts,
                   foreign>>

(* matrixRoomGetPowerLevels, from the store.  A change that the store does  *)
(* not hold yet is overtaken.                                              *)
Read(i) ==
    /\ calls[i] # Idle /\ calls[i].step = "read"
    /\ LET c == calls[i]
           old == Powers(store)
           new == IF c.act = "role" THEN [old EXCEPT !.users[c.user] = c.value]
                                    ELSE [old EXCEPT !.default = c.value]
       IN  Goes(i, [act |-> c.act, user |-> c.user, value |-> c.value,
                    step |-> "write", read |-> new])
    /\ overtaken' = overtaken \cup {c \in due : ~ Holds(c, store)}
    /\ UNCHANGED <<server, store, powers, members, due, refused, idle, failed, acts,
                   foreign>>

(* matrixRoomSetPowerLevels: the whole content. *)
Write(i) ==
    /\ calls[i] # Idle /\ calls[i].step = "write"
    /\ LET c == calls[i]
       IN  \/ /\ AcceptsLevels(c.read)
              /\ Change([users |-> c.read.users, default |-> c.read.default,
                         membership |-> server.membership],
                        [of |-> c.act, user |-> c.user, value |-> c.value], {i})
              /\ Goes(i, [c EXCEPT !.step = "answered"])
              /\ UNCHANGED refused
           \/ /\ ~ AcceptsLevels(c.read)
              /\ Goes(i, Idle)
              /\ refused' = TRUE
              /\ UNCHANGED <<server, store, due, overtaken>>
    /\ UNCHANGED <<powers, members, idle, failed, acts, foreign>>

(* setMatrixRoomMemberPowerLevel.fulfilled, setMatrixRoomBroadcastOnly.fulfilled *)
Fulfilled(i) ==
    /\ calls[i] # Idle /\ calls[i].step = "answered"
    /\ powers' = calls[i].read
    /\ members' = IF calls[i].act = "role"
                  THEN [members EXCEPT ![calls[i].user].level = calls[i].value]
                  ELSE members
    /\ Goes(i, Idle)
    /\ UNCHANGED <<server, store, due, overtaken, refused, idle, failed, acts, foreign>>

(* matrixRoomKickUser and matrixRoomBanUser; then the members are fetched. *)
Send(i) ==
    /\ calls[i] # Idle /\ calls[i].step = "send"
    /\ LET c == calls[i]
       IN  \/ /\ AcceptsRemoval(c.user, c.value)
              /\ Change([server EXCEPT !.membership[c.user] = c.value],
                        [of |-> c.act, user |-> c.user, value |-> c.value], {i})
              /\ Goes(i, [c EXCEPT !.step = "fetch"])
              /\ UNCHANGED refused
           \/ /\ ~ AcceptsRemoval(c.user, c.value)
              /\ Goes(i, Idle)
              /\ refused' = TRUE
              /\ UNCHANGED <<server, store, due, overtaken>>
    /\ UNCHANGED <<powers, members, idle, failed, acts, foreign>>

(* matrixRoomGetMembers, from the store; the answers may change places. *)
Fetch(i) ==
    /\ calls[i] # Idle /\ calls[i].step = "fetch"
    /\ Goes(i, [act |-> calls[i].act, step |-> "deliver", read |-> MembersOf(store)])
    /\ UNCHANGED <<server, store, powers, members, due, overtaken, refused, idle,
                   failed, acts, foreign>>
Deliver(i) ==
    /\ calls[i] # Idle /\ calls[i].step = "deliver"
    /\ members' = calls[i].read
    /\ Goes(i, Idle)
    /\ UNCHANGED <<server, store, powers, due, overtaken, refused, idle, failed, acts,
                   foreign>>

(* A request does not get through: the user is told that it failed. *)
Fail(i) ==
    /\ Fails /\ calls[i] # Idle /\ calls[i].step \in {"read", "write", "send", "fetch"}
    /\ failed' = IF calls[i].step = "fetch" /\ calls[i].act = "member"
                 THEN failed \cup {calls[i].user} ELSE failed
    /\ Goes(i, Idle)
    /\ UNCHANGED <<server, store, powers, members, due, overtaken, refused, idle, acts,
                   foreign>>

Next ==
    \/ Sync \/ Foreign
    \/ \E i \in Slots :
          \/ ChangeRole(i) \/ RemoveUser(i) \/ ToggleBroadcastOnly(i) \/ Refresh(i)
          \/ Read(i) \/ Write(i) \/ Fulfilled(i) \/ Send(i) \/ Fetch(i)
          \/ Deliver(i) \/ Fail(i)

Spec == Init /\ [][Next]_vars
-----------------------------------------------------------------------------
(* A role, a setting or a removal that the server has accepted stays until *)
(* somebody changes that very thing: writing the whole content back does   *)
(* not undo it (setRoomPowerLevels, setRoomMemberPowerLevel).              *)
EveryChangeIsKept == \A c \in due : Holds(c, server)

(* However calls overlap, fail and read what is stale, and whatever another *)
(* admin does: nobody who was removed is brought back by a call about      *)
(* something else, and a role or a setting is undone only by a call that   *)
(* had read the levels before it was accepted, or before it had arrived.   *)
ChangesAreKept ==
    \A c \in due : c.of = "member" \/ c \notin overtaken => Holds(c, server)

(* When nothing is in flight and only the user has changed the room, redux *)
(* shows it as it is, in both of its places (roomPowerLevels, roomMembers).*)
Quiet == store = server /\ \A i \in Slots : calls[i] = Idle
ShownIsCurrent ==
    (Quiet /\ foreign = 0) =>
        powers = Powers(server) /\ members = MembersOf(server)

(* A member who has been removed is no longer shown as one when the call   *)
(* is over (roomKickUser: "Refetch room members").                         *)
RemovedIsGone ==
    \A u \in Others :
        (Quiet /\ [of |-> "member", user |-> u, value |-> "leave"] \in due /\ foreign = 0)
            => members[u].membership # "join"

(* The server does not refuse what the overlay offers (getRoleDisabled). *)
OfferedIsAccepted == ~ refused

(* No role is offered to a member who has it (getRoleDisabled). *)
OtherRolesOnly == ~ idle

(* A removal reported as failed has not been made (handleRemoveUser). *)
FailureRemovesNobody == failed = {}
=============================================================================
