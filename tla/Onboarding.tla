------------------------------ MODULE Onboarding ------------------------------
(***************************************************************************)
(* The first start of the app: the user chooses a display name, which      *)
(* registers a chat account derived from the device's new seed, or enters  *)
(* the words of another seed first (hooks/chat useDisplayNameForm,         *)
(* hooks/recovery usePersonalRecovery, redux startMatrixClient,            *)
(* MatrixChatClient.start, the bridge's matrixInit).  Calls fail when the  *)
(* device is offline, and the app may be closed at any time.               *)
(*                                                                         *)
(* The chat account, its session and the key of its local store are all    *)
(* derived from the seed of the moment.                                    *)
(***************************************************************************)
EXTENDS Naturals

CONSTANTS
    Recovers,       \* BOOLEAN: the user may enter the words of another seed
    Reopens,        \* BOOLEAN: the user reopens the app when the chat did not start
    MaxActs         \* bound: failures of the network, closing the app

OnboardingAssumption ==
    MaxActs \in Nat /\ {Recovers, Reopens} \subseteq BOOLEAN

VARIABLES
    seed,       \* bridge: the root mnemonic, "own" or "words"
    store,      \* the seed whose key the local chat store has, or "none"
    session,    \* bridge: the seed whose account is logged in, or "none"
    cached,     \* bridge: matrix_display_name is known
    named,      \* chat server: the accounts that have a display name
    live,       \* bridge: matrixInit has succeeded since the app was opened
    client,     \* MatrixChatClient: "new", "starting", "started" or "failed"
    status,     \* redux matrix.status
    auth,       \* redux matrix.auth: "none", "unnamed" or "named"
    screen,     \* "closed", "opening", "splash" (and the onboarding) or "in"
    task,       \* what the user waits for: "none", "name" or "words"
    online, acts

vars == <<seed, store, session, cached, named, live, client, status, auth,
          screen, task, online, acts>>
bridge == <<seed, store, session, cached, live>>
redux == <<client, status, auth>>

Seeds == {"own", "words"}

TypeOK ==
    /\ seed \in Seeds /\ {store, session} \subseteq Seeds \cup {"none"}
    /\ cached \in BOOLEAN /\ named \subseteq Seeds
    /\ client \in {"new", "starting", "started", "failed"}
    /\ live => client # "new" /\ session # "none" /\ store # "none"
    /\ status \in {"uninitialized", "initialSync", "synced", "stopped"}
    /\ auth # "none" => client = "started" /\ live
    /\ screen = "closed" => client = "new" /\ task = "none"

Init ==
    /\ seed = "own" /\ store = "none" /\ session = "none" /\ cached = FALSE
    /\ named \in {{}, {"words"}}
    /\ live = FALSE /\ client = "new" /\ status = "uninitialized" /\ auth = "none"
    /\ screen = "closed" /\ task = "none" /\ online = TRUE /\ acts = 0

Act == acts < MaxActs /\ acts' = acts + 1

\* The thunk startMatrixClient, up to its first await: a client that was started
\* before, whatever became of it, is not started again.
StartClient ==
    IF client = "new"
    THEN client' = "starting" /\ status' = "initialSync" /\ UNCHANGED auth
    ELSE status' = "stopped" /\ UNCHANGED <<client, auth>>

-----------------------------------------------------------------------------
\* FediBridgeInitializer: the client is started when there is a session, and the
\* app is shown when that has ended.
Open ==
    /\ screen = "closed" /\ screen' = "opening"
    /\ IF session # "none" THEN StartClient ELSE UNCHANGED redux
    /\ UNCHANGED <<bridge, named, task, online, acts>>

\* Initializing, with selectHasSetMatrixDisplayName.
Show ==
    /\ screen = "opening" /\ client # "starting"
    /\ screen' = IF auth = "named" THEN "in" ELSE "splash"
    /\ UNCHANGED <<bridge, named, redux, task, online, acts>>

\* matrixInit: the store is opened, or made, before the account is logged in.
CanOpen == store \in {"none", seed}
CanLogIn == session # "none" \/ online
\* getInitialAuth.
CanFetch == cached \/ online

Initialize ==
    /\ client = "starting" /\ CanOpen /\ CanLogIn
    /\ store' = seed /\ live' = TRUE
    /\ session' = IF session = "none" THEN seed ELSE session
    /\ IF CanFetch
       THEN /\ client' = "started" /\ UNCHANGED status
            /\ cached' = (cached \/ session' \in named)
            /\ auth' = IF cached' THEN "named" ELSE "unnamed"
       ELSE client' = "failed" /\ status' = "stopped" /\ UNCHANGED <<cached, auth>>
    /\ UNCHANGED <<seed, named, screen, task, online, acts>>

InitializeFails ==
    /\ client = "starting" /\ ~(CanOpen /\ CanLogIn)
    /\ store' = IF store = "none" THEN seed ELSE store
    /\ client' = "failed" /\ status' = "stopped"
    /\ UNCHANGED <<seed, session, cached, live, named, auth, screen, task, online, acts>>

\* observeRoomList, then observeSyncStatus.
Sync ==
    /\ client = "started" /\ status # "synced" /\ online /\ status' = "synced"
    /\ UNCHANGED <<bridge, named, client, auth, screen, task, online, acts>>

-----------------------------------------------------------------------------

\* handleSubmitDisplayName: the client is started when redux has no account yet,
\* and whether that succeeded is not looked at.
SubmitName ==
    /\ screen = "splash" /\ task = "none" /\ task' = "name"
    /\ IF auth = "none" THEN StartClient ELSE UNCHANGED redux
    /\ UNCHANGED <<bridge, named, screen, online, acts>>

CanName == live /\ online
\* Mutant: the result of setMatrixDisplayName is not unwrapped.
SetNameUnchecked ==
    /\ task = "name" /\ client # "starting" /\ task' = "none" /\ screen' = "in"
    /\ named' = IF CanName THEN named \cup {session} ELSE named
    /\ UNCHANGED <<bridge, redux, online, acts>>

SetName ==
    /\ task = "name" /\ client # "starting" /\ task' = "none"
    /\ IF CanName
       THEN /\ named' = named \cup {session} /\ cached' = TRUE /\ screen' = "in"
            /\ auth' = IF auth = "none" THEN auth ELSE "named"
       ELSE UNCHANGED <<named, cached, screen, auth>>
    /\ UNCHANGED <<seed, store, session, live, client, status, online, acts>>

\* attemptRecovery: the seed is changed, then the client is started.  The devices
\* of the seed are fetched in between: offline, that fails.
EnterWords ==
    /\ Recovers /\ screen = "splash" /\ task = "none"
    /\ seed' = "words"
    /\ IF online THEN task' = "words" /\ StartClient
                 ELSE UNCHANGED <<task, redux>>
    /\ UNCHANGED <<store, session, cached, live, named, screen, online, acts>>

\* After the device has got its index, the user is asked for a name only if the
\* account has none.
Recovered ==
    /\ task = "words" /\ client # "starting" /\ task' = "none"
    /\ screen' = IF status # "stopped" /\ auth = "named" THEN "in" ELSE "splash"
    /\ UNCHANGED <<bridge, named, redux, online, acts>>

-----------------------------------------------------------------------------
Closed ==
    /\ screen' = "closed" /\ task' = "none" /\ live' = FALSE
    /\ client' = "new" /\ status' = "uninitialized" /\ auth' = "none"
    /\ UNCHANGED <<seed, store, session, cached, named, online>>

Close == screen \notin {"closed"} /\ Act /\ Closed

Reopen == Reopens /\ screen = "splash" /\ task = "none" /\ client = "failed"
          /\ Closed /\ UNCHANGED acts

GoOffline ==
    /\ online /\ Act /\ online' = FALSE
    /\ UNCHANGED <<bridge, named, redux, screen, task>>

GoOnline ==
    /\ ~online /\ online' = TRUE
    /\ UNCHANGED <<bridge, named, redux, screen, task, acts>>

Next ==
    \/ Open \/ Show \/ Initialize \/ InitializeFails \/ Sync
    \/ SubmitName \/ SetName \/ EnterWords \/ Recovered
    \/ Close \/ Reopen \/ GoOffline \/ GoOnline

\* The network comes back, the user opens the app, keeps submitting a name and,
\* with Reopens, closes the app when that does not work.
Fairness ==
    /\ WF_vars(GoOnline) /\ WF_vars(Open) /\ WF_vars(Show)
    /\ WF_vars(Initialize) /\ WF_vars(InitializeFails) /\ WF_vars(Sync)
    /\ SF_vars(SubmitName) /\ WF_vars(SetName) /\ WF_vars(Recovered)
    /\ SF_vars(Reopen)

Spec == Init /\ [][Next]_vars /\ Fairness

-----------------------------------------------------------------------------
\* Who is in the app has a display name on the chat server, however the attempts
\* to set one and to start the client have failed and been repeated before.
InIsNamed == screen = "in" => session \in named

\* The list of chats is not left loading.
SyncSettles == status = "initialSync" ~> status # "initialSync"

\* Who keeps trying, and stays at it, gets into the app.  Without reopening it:
\* handleSubmitDisplayName is where one "must [be] provided during onboarding to
\* start the matrix client for the first time".
GetsIn == <>(screen = "in")

\* "for an initial registration if this is the 1st time using global chat": after
\* a recovery the chat account is the one of the recovered seed.
ChatIsOfTheSeed == screen = "in" => session = seed
=============================================================================
