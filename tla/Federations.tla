----------------------------- MODULE Federations -----------------------------
(***************************************************************************)
(* The federations of a user, kept twice: by the bridge, in its saved      *)
(* state and as running clients (Bridge::join_federation,                  *)
(* leave_federation), and by redux, which replaces its list with answers   *)
(* of the bridge it awaited and updates it on events (redux/federation,    *)
(* redux/index).  Refreshes, joins and leaves overlap; the app may be      *)
(* restarted at any time.                                                  *)
(***************************************************************************)
EXTENDS Naturals, Sequences, SequencesExt

CONSTANTS
    Feds,           \* the federations
    Joiners,        \* calls of the thunk joinFederation that may overlap
    Refreshers,     \* calls of the thunk refreshFederations that may overlap
    JoinsOverlap,   \* BOOLEAN: one federation may be joined by two calls at once
    MaxPrefix,      \* bound: databases that are ever made
    MaxActs         \* bound: receiving, leaving, restarting

FederationsAssumption ==
    /\ Joiners \cap Refreshers = {} /\ JoinsOverlap \in BOOLEAN
    /\ MaxPrefix \in Nat /\ MaxActs \in Nat

VARIABLES
    prefix,     \* bridge: the last database prefix handed out
    saved,      \* AppState joined_federations: the federation's database, or 0
    running,    \* Bridge.federations: the database of the running client, or 0
    money,      \* the balance in each database
    leaving,    \* federations whose client has been told to stop, not yet removed
    join,       \* each join: what it does, for which federation and database
    snap,       \* each refresh or join: the list the bridge answered
    events,     \* balance events on their way to redux
    list,       \* redux: the balance of every federation it lists
    active,     \* redux: activeFederationId, of a federation or "none"
    mods,       \* redux, saved: federations with an entry in customFediMods
    fetching,   \* federations whose metadata is being fetched
    acts

bridge == <<prefix, saved, running, money, leaving>>
redux == <<list, active, mods>>
vars == <<bridge, join, snap, events, redux, fetching, acts>>

Databases == 1 .. MaxPrefix
Idle == [at |-> "idle"]
NoList == [f \in {} |-> 0]
Lists == UNION {[S -> 0 .. MaxActs] : S \in SUBSET Feds}
Tasks == Joiners \cup Refreshers

TypeOK ==
    /\ prefix \in 0 .. MaxPrefix
    /\ {saved, running} \subseteq [Feds -> 0 .. prefix]
    /\ money \in [Databases -> 0 .. MaxActs] /\ leaving \subseteq Feds
    /\ \A j \in Joiners :
        join[j] = Idle
        \/ join[j] \in [at : {"joining", "joined"}, fed : Feds, db : 1 .. prefix]
    /\ \A t \in Tasks : snap[t] \in [open : BOOLEAN, of : Lists]
    /\ events \in Seq([fed : Feds, balance : 0 .. MaxActs])
    /\ list \in Lists /\ active \in Feds \cup {"none"} /\ mods \subseteq Feds
    /\ acts \in 0 .. MaxActs

Asked == [open |-> FALSE, of |-> NoList]

Init ==
    /\ prefix = 0 /\ saved = [f \in Feds |-> 0] /\ running = saved
    /\ money = [p \in Databases |-> 0] /\ leaving = {}
    /\ join = [j \in Joiners |-> Idle] /\ snap = [t \in Tasks |-> Asked]
    /\ events = <<>> /\ list = NoList /\ active = "none" /\ mods = {}
    /\ fetching = {} /\ acts = 0

Act == acts < MaxActs /\ acts' = acts + 1

-----------------------------------------------------------------------------
\* join_federation_inner up to the first contact with the federation: whether it
\* has been joined is checked before a new database is made.
NotJoined(f) ==
    /\ running[f] = 0
    /\ JoinsOverlap \/ \A j \in Joiners : join[j] # Idle => join[j].fed # f

Join(j, f) ==
    /\ join[j] = Idle /\ NotJoined(f) /\ prefix < MaxPrefix
    /\ prefix' = prefix + 1
    /\ join' = [join EXCEPT ![j] = [at |-> "joining", fed |-> f, db |-> prefix']]
    /\ UNCHANGED <<saved, running, money, leaving, snap, events, redux, fetching, acts>>

JoinFails(j) ==
    /\ join[j].at = "joining" /\ join' = [join EXCEPT ![j] = Idle]
    /\ UNCHANGED <<bridge, snap, events, redux, fetching, acts>>

\* Mutant: the saved state is left to be written later.
InsertUnsaved(j, f, p) ==
    /\ running' = [running EXCEPT ![f] = IF @ = 0 THEN p ELSE @] /\ UNCHANGED saved

\* with_write_lock, then or_insert_with, under the lock of Bridge.federations.
Insert(j, f, p) ==
    /\ saved' = [saved EXCEPT ![f] = p]
    /\ running' = [running EXCEPT ![f] = IF @ = 0 THEN p ELSE @]

Joined(j) ==
    /\ join[j].at = "joining"
    /\ Insert(j, join[j].fed, join[j].db)
    /\ join' = [join EXCEPT ![j].at = "joined"]
    /\ UNCHANGED <<prefix, money, leaving, snap, events, redux, fetching, acts>>

\* leave_federation, of a federation the user sees: the saved state first, the
\* running client after that.
Forget(f) ==
    /\ f \in DOMAIN list /\ running[f] # 0 /\ f \notin leaving /\ saved[f] # 0 /\ Act
    /\ saved' = [saved EXCEPT ![f] = 0] /\ leaving' = leaving \cup {f}
    /\ UNCHANGED <<prefix, running, money, join, snap, events, redux, fetching>>

\* The client is removed and the thunk leaveFederation is fulfilled.
Leave(f) ==
    /\ f \in leaving /\ leaving' = leaving \ {f}
    /\ running' = [running EXCEPT ![f] = 0]
    /\ list' = [g \in DOMAIN list \ {f} |-> list[g]]
    /\ IF DOMAIN list' = {} THEN active' = "none"
       ELSE IF active = f THEN active' \in DOMAIN list' ELSE UNCHANGED active
    /\ mods' = mods \ {f}
    /\ UNCHANGED <<prefix, saved, money, join, snap, events, fetching, acts>>

\* A payment is received, and send_balance_event.
Receive(f) ==
    /\ running[f] # 0 /\ Act
    /\ money' = [money EXCEPT ![running[f]] = @ + 1]
    /\ events' = Append(events, [fed |-> f, balance |-> money'[running[f]]])
    /\ UNCHANGED <<prefix, saved, running, leaving, join, snap, redux, fetching>>

-----------------------------------------------------------------------------
\* The reducer updateFederationBalance.
UpdateBalance ==
    /\ events # <<>> /\ events' = Tail(events)
    /\ LET e == Head(events) IN
       list' = [g \in DOMAIN list |-> IF g = e.fed THEN e.balance ELSE list[g]]
    /\ UNCHANGED <<bridge, join, snap, active, mods, fetching, acts>>

\* refreshFederations, by the user's return to the app or within a join: the
\* bridge is asked, then metadata is fetched, for up to two seconds.
Running == {f \in Feds : running[f] # 0}

Refresh(t) ==
    /\ ~snap[t].open
    /\ t \in Joiners => join[t].at = "joined"
    /\ snap' = [snap EXCEPT ![t] =
                    [open |-> TRUE, of |-> [f \in Running |-> money[running[f]]]]]
    /\ fetching' = fetching \cup Running
    /\ UNCHANGED <<bridge, join, events, redux, acts>>

\* Mutant: the answer is merged into the list.
Merged(s) == [f \in DOMAIN list \cup DOMAIN s |-> IF f \in DOMAIN s THEN s[f] ELSE list[f]]
Listed(s) == s

\* setFederations; within a join, setActiveFederationId after that.
Refreshed(t) ==
    /\ snap[t].open /\ list' = Listed(snap[t].of)
    /\ snap' = [snap EXCEPT ![t] = Asked]
    /\ IF t \in Joiners
       THEN active' = join[t].fed /\ join' = [join EXCEPT ![t] = Idle]
       ELSE UNCHANGED <<active, join>>
    /\ UNCHANGED <<bridge, events, mods, fetching, acts>>

\* The callback of fetchFederationsExternalMetadata, also of a retry in the
\* background: setFederationCustomFediMods.
MetadataArrives(f) ==
    /\ f \in fetching /\ fetching' = fetching \ {f}
    /\ mods' = mods \cup {f}
    /\ UNCHANGED <<bridge, join, snap, events, list, active, acts>>

\* The user switches to a listed federation.
Switch(f) ==
    /\ f \in DOMAIN list /\ active # f /\ active' = f
    /\ UNCHANGED <<bridge, join, snap, events, list, mods, fetching, acts>>

\* The bridge and redux start anew from what they have saved; the first refresh
\* is awaited before anything is shown.
Restart ==
    /\ Act
    /\ running' = saved /\ leaving' = {}
    /\ join' = [j \in Joiners |-> Idle] /\ snap' = [t \in Tasks |-> Asked]
    /\ events' = <<>>
    /\ list' = [f \in {g \in Feds : saved[g] # 0} |-> money[saved[f]]]
    /\ fetching' = DOMAIN list'
    /\ UNCHANGED <<prefix, saved, money, active, mods>>

Next ==
    \/ \E j \in Joiners : (\E f \in Feds : Join(j, f)) \/ JoinFails(j) \/ Joined(j)
    \/ \E f \in Feds : Forget(f) \/ Leave(f) \/ Receive(f) \/ MetadataArrives(f) \/ Switch(f)
    \/ \E t \in Tasks : Refresh(t) \/ Refreshed(t)
    \/ UpdateBalance \/ Restart

\* Calls end, events are delivered, and the user returns to the app again and again.
Fairness ==
    /\ \A j \in Joiners : WF_vars(Joined(j))
    /\ \A f \in Feds : WF_vars(Leave(f))
    /\ \A t \in Tasks : WF_vars(Refresh(t)) /\ WF_vars(Refreshed(t))
    /\ WF_vars(UpdateBalance)

Spec == Init /\ [][Next]_vars /\ Fairness

-----------------------------------------------------------------------------
\* The client that runs is the one the next start of the app will run: no money
\* is received into a database that is not opened again (join_federation_inner:
\* "Check if we've already joined this federation").
RunningIsSaved == \A f \in Feds \ leaving : saved[f] = running[f]

\* No database serves two federations, over joining, failing, leaving, restarting.
DatabasesAreApart ==
    \A f, g \in Feds : f # g => saved[f] = 0 \/ saved[f] \notin {saved[g], running[g]}

\* A join gives a federation a client of its own, which is the one that is saved.
JoinsAreSafe == RunningIsSaved /\ DatabasesAreApart

Quiet ==
    /\ events = <<>> /\ leaving = {}
    /\ \A t \in Tasks : ~snap[t].open
    /\ \A j \in Joiners : join[j] = Idle
Current == list = [f \in Running |-> money[running[f]]]

\* Once payments, joins and leaves have stopped and while the user keeps returning
\* to the app, its list and balances become those of the bridge, and stay.
EventuallyCurrent == <>[]Current

\* With nothing on its way, a listed federation is one of the bridge's, with its
\* balance: "Update balance on bridge events", "Remove from federations".
ListedIsCurrent ==
    Quiet => \A f \in DOMAIN list : f \in Running /\ list[f] = money[running[f]]

\* The federation that was joined or chosen last is the one that is shown: no
\* other wallet takes its place while it is still joined.
ActiveIsListed == Quiet /\ active # "none" /\ active \in Running => active \in DOMAIN list

\* Nothing of a federation is kept after it was left ("Clean up external meta entry").
NoModsOfLeft == Quiet /\ fetching = {} => mods \subseteq Running
=============================================================================
