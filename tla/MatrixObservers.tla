-------------------------- MODULE MatrixObservers --------------------------
(***************************************************************************)
(* One observable of the Matrix bridge and the chat client that mirrors it *)
(* (ui/common/utils/MatrixChatClient.ts, bridge/fedi-ffi/src/matrix.rs):   *)
(* the timeline of a room, the list of rooms, or the sync indicator.  The  *)
(* client asks for the observable, gets an identifier and an initial value *)
(* and from then on applies the updates the bridge sends.                  *)
(*                                                                         *)
(* A value is abstracted to its version number.  An update carries the     *)
(* difference between two versions; applied to any other version it leaves *)
(* a list that never existed, Garbled.  (The sync indicator is sent whole, *)
(* so that for it Garbled stands for any stale value.)                     *)
(*                                                                         *)
(* Calls to the bridge run as tasks of their own; their answers and the    *)
(* updates come back through inbox.  Channel says in what order.           *)
(***************************************************************************)
EXTENDS Integers, Sequences, SequencesExt, FiniteSets

CONSTANTS
    Channel,       \* "ordered", "overtaking" (an update may pass an answer) or
                   \* "reordering" (an update may pass another one)
    CallsInOrder,  \* the bridge serves the calls in the order they were made
    Refetchers,    \* concurrent callers of refetchRoomList / refreshSyncStatus
    Unobserves,    \* the client stops observing (rooms only)
    MaxVersion, MaxId  \* bounds: versions of the source, observables created

ChannelAssumption == Channel \in {"ordered", "overtaking", "reordering"}
FlagAssumption == {CallsInOrder, Unobserves} \subseteq BOOLEAN
BoundAssumption == MaxVersion \in Nat /\ MaxId \in Nat \ {0}

VARIABLES
    truth,    \* the version of the value the bridge holds
    cursor,   \* observables: id -> version up to which its updates were sent
    nextId,   \* OBSERVABLE_ID
    calls,    \* calls the bridge has not served
    inbox,    \* answers and updates on their way to the client
    entry,    \* roomObserverMap[room].timeline, or clientObserverMap[key]
    handlers, \* the ids in observers
    view,     \* what the reducers made of it, state.matrix
    waiting   \* the refetchers that wait for their cancellation

bridgeVars == <<truth, cursor, nextId>>
clientVars == <<entry, handlers, view, waiting>>
vars == <<truth, cursor, nextId, calls, inbox, entry, handlers, view, waiting>>

Missing == -1
Garbled == -2
Undefined == -1     \* no key in the map
Pending == -2       \* Number.MAX_SAFE_INTEGER
Ids == 0 .. MaxId - 1
Versions == 0 .. MaxVersion

ObserveCall == [type : {"observe"}]
CancelCall == [type : {"cancel"}, id : Ids, by : Refetchers \cup {Undefined}]
Observed == [type : {"observed"}, id : Ids, initial : Versions]
Canceled == [type : {"canceled"}, id : Ids, ok : BOOLEAN, by : Refetchers \cup {Undefined}]
Update == [type : {"update"}, id : Ids, from : Versions, to : Versions]

\* The types of the state: every answer and update names an observable that was
\* created, and the map holds nothing, the fake id or a real one.
TypeOK ==
    /\ truth \in Versions
    /\ DOMAIN cursor \subseteq Ids /\ \A id \in DOMAIN cursor : cursor[id] \in Versions
    /\ nextId \in 0 .. MaxId
    /\ calls \in Seq(ObserveCall \cup CancelCall)
    /\ inbox \in Seq(Observed \cup Canceled \cup Update)
    /\ entry \in Ids \cup {Undefined, Pending}
    /\ handlers \subseteq Ids
    /\ view \in Versions \cup {Missing, Garbled}
    /\ waiting \subseteq Refetchers

Init ==
    /\ truth = 0 /\ cursor = <<>> /\ nextId = 0
    /\ calls = <<>> /\ inbox = <<>>
    /\ entry = Undefined /\ handlers = {} /\ view = Missing /\ waiting = {}

-----------------------------------------------------------------------------
(* The bridge.                                                             *)

\* The room, the list or the indicator changes.
Change ==
    /\ truth < MaxVersion
    /\ truth' = truth + 1
    /\ UNCHANGED <<cursor, nextId, calls, inbox, clientVars>>

\* The task of an observable sends all that its stream has, as one update.
SendUpdate(id) ==
    /\ cursor[id] < truth
    /\ inbox' = Append(inbox, [type |-> "update", id |-> id, from |-> cursor[id], to |-> truth])
    /\ cursor' = [cursor EXCEPT ![id] = truth]
    /\ UNCHANGED <<truth, nextId, calls, clientVars>>

\* make_observable: a new identifier, a subscription at the current value.
ServeObserve(i) ==
    /\ calls[i].type = "observe"
    /\ nextId < MaxId
    /\ nextId' = nextId + 1
    /\ cursor' = [id \in DOMAIN cursor \cup {nextId} |-> IF id = nextId THEN truth ELSE cursor[id]]
    /\ inbox' = Append(inbox, [type |-> "observed", id |-> nextId, initial |-> truth])
    /\ calls' = RemoveAt(calls, i)
    /\ UNCHANGED <<truth, clientVars>>

\* observable_cancel: the task ends; an unknown id is an error.
ServeCancel(i) ==
    /\ calls[i].type = "cancel"
    /\ LET id == calls[i].id
       IN /\ inbox' = Append(inbox, [type |-> "canceled", id |-> id,
                                     ok |-> id \in DOMAIN cursor, by |-> calls[i].by])
          /\ cursor' = [k \in DOMAIN cursor \ {id} |-> cursor[k]]
    /\ calls' = RemoveAt(calls, i)
    /\ UNCHANGED <<truth, nextId, clientVars>>

Serve ==
    \E i \in DOMAIN calls :
        /\ CallsInOrder => i = 1
        /\ ServeObserve(i) \/ ServeCancel(i)

-----------------------------------------------------------------------------
(* The client.                                                             *)

\* The map holds an id the bridge gave, not the fake one.
HasRealId == entry \in Ids

\* unobserve: the call that cancels an observable.
Cancelling(id, by) == Append(calls, [type |-> "cancel", id |-> id, by |-> by])

\* observeRoomTimeline, observeRoomList, observeSyncStatus: once only, with a
\* fake id in the map until the bridge answers.
Observe ==
    /\ entry = Undefined
    /\ entry' = Pending
    /\ calls' = Append(calls, [type |-> "observe"])
    /\ UNCHANGED <<bridgeVars, inbox, handlers, view, waiting>>

\* unobserveRoom: the key goes at once, the cancellation is not awaited, and an
\* observation that is still pending is left alone.
Unobserve ==
    /\ Unobserves
    /\ HasRealId
    /\ entry' = Undefined
    /\ calls' = Cancelling(entry, Undefined)
    /\ UNCHANGED <<bridgeVars, inbox, handlers, view, waiting>>

\* refetchRoomList, refreshSyncStatus up to their await: with no real id in the
\* map they go straight to Observe, which does nothing while one is pending.
Refetch(c) ==
    /\ c \notin waiting
    /\ HasRealId
    /\ waiting' = waiting \cup {c}
    /\ calls' = Cancelling(entry, c)
    /\ UNCHANGED <<bridgeVars, inbox, entry, handlers, view>>

\* makeInitialResetUpdate: the initial value replaces what was there.
ResetOnce(m) == IF view = Missing THEN m.initial ELSE view  \* mutant: only if empty
Reset(m) == m.initial

\* observe: the handler that receives the updates from now on.
Registered(m) == handlers \cup {m.id}

\* The answer to an observation: the real id, a reset of the list, a handler.
OnObserved(m) ==
    /\ entry' = m.id
    /\ view' = Reset(m)
    /\ handlers' = Registered(m)
    /\ UNCHANGED <<calls, waiting>>

\* The handler goes with its observable, not when the cancellation failed.
Unregistered(m) == IF m.ok THEN handlers \ {m.id} ELSE handlers

\* The answer to a cancellation.  A failed one keeps its handler.  A refetcher
\* goes on in both cases: it deletes the key, whatever it holds by now, and
\* observes again.
OnCanceled(m) ==
    /\ handlers' = Unregistered(m)
    /\ IF m.by \in Refetchers
       THEN /\ entry' = Pending
            /\ calls' = Append(calls, [type |-> "observe"])
            /\ waiting' = waiting \ {m.by}
       ELSE UNCHANGED <<entry, calls, waiting>>
    /\ UNCHANGED view

\* applyObservableUpdates on the version it was made for, or on another one.
Apply(v, m) == IF v = m.from THEN m.to ELSE Garbled

\* handleObservableUpdate: an update without a handler cancels its observable.
OnUpdate(m) ==
    /\ IF m.id \in handlers
       THEN view' = Apply(view, m) /\ UNCHANGED calls
       ELSE calls' = Cancelling(m.id, Undefined) /\ UNCHANGED view
    /\ UNCHANGED <<entry, handlers, waiting>>

\* May message m be delivered before the earlier message e?
MayPass(m, e) ==
    CASE Channel = "ordered"    -> FALSE
      [] Channel = "overtaking" -> m.type = "update" /\ e.type # "update"
      [] Channel = "reordering" -> m.type = "update" /\ e.type = "update"

Receive ==
    \E i \in DOMAIN inbox :
        LET m == inbox[i]
        IN /\ \A j \in 1 .. i - 1 : MayPass(m, inbox[j])
           /\ inbox' = RemoveAt(inbox, i)
           /\ \/ m.type = "observed" /\ OnObserved(m)
              \/ m.type = "canceled" /\ OnCanceled(m)
              \/ m.type = "update" /\ OnUpdate(m)
           /\ UNCHANGED bridgeVars

-----------------------------------------------------------------------------
Forward == \E id \in DOMAIN cursor : SendUpdate(id)

Next ==
    \/ Change
    \/ Forward
    \/ Serve
    \/ Receive
    \/ Observe
    \/ Unobserve
    \/ \E c \in Refetchers : Refetch(c)

\* The tasks of the bridge run, and what they send arrives.  Nothing makes the
\* value change or the user look.
Fairness == WF_vars(Forward) /\ WF_vars(Serve) /\ WF_vars(Receive)

Spec == Init /\ [][Next]_vars
FairSpec == Spec /\ Fairness

-----------------------------------------------------------------------------
(* Properties.                                                             *)

\* Nothing is under way: all calls are answered, all messages delivered, and
\* every subscription has sent what it had.
Quiet ==
    /\ calls = <<>> /\ inbox = <<>>
    /\ \A id \in DOMAIN cursor : cursor[id] = truth

\* No sequence of observing, cancelling and updating leaves the list in a state
\* the bridge never had (applyObservableUpdate works on indexes).
NeverGarbled == view # Garbled

\* With nothing under way, an observed value is the bridge's current value.
QuietViewIsCurrent == Quiet /\ entry \in Ids => view = truth

\* With nothing under way, the bridge runs no observable the client has given
\* up ("The frontend must call `cancelObservable` to free up the resources",
\* bridge/fedi-ffi/src/observable.rs).
NoLeakedObservable == Quiet => DOMAIN cursor \subseteq {entry}

\* An observable the client still waits for or holds is one of the bridge's: it
\* is not cancelled by an update that comes before the answer.
HeldIsLive == Quiet /\ entry \in Ids => entry \in DOMAIN cursor

\* One handler applies the updates of a list ("Only observe the roomList once,
\* subsequent calls are no-ops.", ui/common/utils/MatrixChatClient.ts).
ObservedOnce == Quiet => Cardinality(handlers) <= 1

\* What is observed to the end is, in the end, the bridge's value for good.
EventuallyCurrent == <>[](entry \in Ids => view = truth)

\* The client's copy is a mirror: it moves forward, through versions the bridge had.
MirrorOfTruth == INSTANCE Mirror WITH source <- truth, replica <- view
=============================================================================
