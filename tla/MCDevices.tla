----------------------------- MODULE MCDevices ------------------------------
(***************************************************************************)
(* What a device keeps, how it is set up and what it shows, for TLC:       *)
(* StoredState, which this module extends, and the instances of            *)
(* StorageMigrations, DeviceRegistration, Onboarding, Pin, SocialRecovery  *)
(* and Navigation that are checked side by side. One of them runs, the one *)
(* that which names; they share no state.                                  *)
(***************************************************************************)
EXTENDS StoredState, Sequences

CONSTANTS
    \* StorageMigrations: chats, and what versions of the app may have stored of them
    NoEntry,    \* a chat that has no entry
    Chats, Groups, Roles, Moderator, Lists, StoredBy,
    \* DeviceRegistration: devices of one seed
    Devices, First, Legacy, MaxIndex, OnboardsAgain, DeviceActs,
    \* Onboarding: whether the user enters other words, and reopens the app
    Recovers, Reopens, EntryActs,
    \* Pin: of digits that a user takes back or not
    Digits, Length, Backspaces, MaxAttempts,
    \* SocialRecovery: guardians, of whom some approve nothing
    Peers, Silent, MaxBackups, Video, MaxSessions, PollsOverlap, RecoveryActs,
    \* Navigation: what the user sets out to do, and what with
    Feds, Visits, MaxDepth

\* StoredState, once more with a smaller bound, for the liveness.
Saves == INSTANCE StoredState WITH MaxValue <- 3, MaxRestarts <- 1

VARIABLES
    which,   \* the system that runs
    \* StorageMigrations
    version, chat, stored,
    \* DeviceRegistration
    index, joined, service, call, owner, up, locked, known, transfers,
    deviceActs,
    \* Onboarding
    seed, store, session, cached, named, live, client, status, auth,
    onboardingScreen, task, online, acts,
    \* Pin
    keychain, loaded, protected, unlocked, screen, typed, confirm,
    reEntering, attempts, timeout, first,
    \* SocialRecovery
    backup, request, share, sent, upload, files, start, state, polls, fetching,
    loops, checked, qr, shown, stage, given, recoveryActs,
    \* Navigation
    visit, stack, calls, facts

migrationsVars == <<version, chat, stored>>
registrationVars == <<index, joined, service, call, owner, up, locked, known,
                      transfers, deviceActs>>
onboardingVars == <<seed, store, session, cached, named, live, client, status,
                    auth, onboardingScreen, task, online, acts>>
pinVars == <<keychain, loaded, protected, unlocked, screen, typed, confirm,
             reEntering, attempts, timeout, first>>
recoveryVars == <<backup, request, share, sent, upload, files, start, state, polls,
                  fetching, loops, checked, qr, shown, stage, given,
                  recoveryActs>>
screensVars == <<visit, stack, calls, facts>>
allDevices == <<which, vars, migrationsVars, registrationVars, onboardingVars,
                pinVars, recoveryVars, screensVars>>

-----------------------------------------------------------------------------
\* What versions of the app may have stored of chats and groups.
Migrations == INSTANCE StorageMigrations WITH None <- NoEntry

-----------------------------------------------------------------------------
\* The devices of one seed; and two of them, with the fairness of the renewal
\* task.
Registration == INSTANCE DeviceRegistration WITH
    MaxActs <- DeviceActs, acts <- deviceActs
Renewal == INSTANCE DeviceRegistration WITH
    Devices <- {"phone", "tablet"}, First <- "phone", Legacy <- {},
    MaxIndex <- 1, OnboardsAgain <- FALSE, MaxActs <- 5, acts <- deviceActs

-----------------------------------------------------------------------------
\* A user who gives a name and reopens the app when that does not work; and one
\* who may enter the words of another seed, and stays.
Entry == INSTANCE Onboarding WITH
    MaxActs <- EntryActs, screen <- onboardingScreen
Words == INSTANCE Onboarding WITH
    Recovers <- TRUE, Reopens <- FALSE, MaxActs <- 6,
    screen <- onboardingScreen

-----------------------------------------------------------------------------
\* PINs typed by a user who corrects nothing, with enough wrong ones for a growing
\* timeout; and by one who takes digits back.
Lock == INSTANCE Pin
Corrected == INSTANCE Pin WITH
    Digits <- {0, 1}, Length <- 2, Backspaces <- TRUE, MaxAttempts <- 2

-----------------------------------------------------------------------------
\* Guardians, of whom some approve nothing; and two, with a second backup that
\* shows the same video.
Recovery == INSTANCE SocialRecovery WITH
    MaxActs <- RecoveryActs, acts <- recoveryActs
BackedUp == INSTANCE SocialRecovery WITH
    Peers <- 2, Silent <- {}, MaxBackups <- 2, Video <- <<"v", "v">>,
    MaxSessions <- 2, PollsOverlap <- FALSE, MaxActs <- 1,
    acts <- recoveryActs

-----------------------------------------------------------------------------
\* The screens that a user goes through.
Screens == INSTANCE Navigation

-----------------------------------------------------------------------------
ASSUME DevicesConstantsAssumption ==
    /\ Migrations!ChatAssumption /\ Migrations!ListAssumption /\ Migrations!VersionAssumption
    /\ Registration!DeviceAssumption /\ Renewal!DeviceAssumption
    /\ Entry!OnboardingAssumption /\ Words!OnboardingAssumption
    /\ Lock!PinAssumption /\ Corrected!PinAssumption
    /\ Recovery!RecoveryAssumption /\ BackedUp!RecoveryAssumption
    /\ Screens!NavigationAssumption

\* A system that does not run stays in the one initial state given here.
DevicesInit ==
    /\ which \in {"storage", "saves", "migrations", "registration", "renewal",
                  "entry", "words", "pin", "backspaces", "recovery", "backedUp",
                  "screens"}
    /\ Init
    /\ which = "migrations" => Migrations!Init
    /\ which # "migrations" => version = 0 /\ chat = NoEntry /\ stored = NoEntry
    /\ which = "registration" => Registration!Init
    /\ which = "renewal" => Renewal!Init
    /\ which \notin {"registration", "renewal"} => Registration!Init
    /\ which = "entry" => Entry!Init
    /\ which = "words" => Words!Init
    /\ which \notin {"entry", "words"} => Entry!Init /\ named = {}
    /\ which = "pin" => Lock!Init
    /\ which = "backspaces" => Corrected!Init
    /\ which \notin {"pin", "backspaces"} => Lock!Init /\ keychain = Lock!NoPin
    /\ which = "backedUp" => BackedUp!Init
    /\ which # "backedUp" => Recovery!Init
    /\ Screens!Init
    /\ which # "screens" => visit = CHOOSE v \in Visits : TRUE

StorageStep ==
    /\ \/ which = "storage" /\ Next
       \/ which = "saves" /\ Saves!Next
    /\ UNCHANGED <<which, migrationsVars, registrationVars, onboardingVars,
                   pinVars, recoveryVars, screensVars>>

MigrationsStep ==
    /\ which = "migrations" /\ Migrations!Next
    /\ UNCHANGED <<which, vars, registrationVars, onboardingVars, pinVars,
                   recoveryVars, screensVars>>

RegistrationStep ==
    /\ \/ which = "registration" /\ Registration!Next
       \/ which = "renewal" /\ Renewal!Next
    /\ UNCHANGED <<which, vars, migrationsVars, onboardingVars, pinVars,
                   recoveryVars, screensVars>>

OnboardingStep ==
    /\ \/ which = "entry" /\ Entry!Next
       \/ which = "words" /\ Words!Next
    /\ UNCHANGED <<which, vars, migrationsVars, registrationVars, pinVars,
                   recoveryVars, screensVars>>

PinStep ==
    /\ \/ which = "pin" /\ Lock!Next
       \/ which = "backspaces" /\ Corrected!Next
    /\ UNCHANGED <<which, vars, migrationsVars, registrationVars,
                   onboardingVars, recoveryVars, screensVars>>

RecoveryStep ==
    /\ \/ which = "recovery" /\ Recovery!Next
       \/ which = "backedUp" /\ BackedUp!Next
    /\ UNCHANGED <<which, vars, migrationsVars, registrationVars,
                   onboardingVars, pinVars, screensVars>>

ScreensStep ==
    /\ which = "screens" /\ Screens!Next
    /\ UNCHANGED <<which, vars, migrationsVars, registrationVars,
                   onboardingVars, pinVars, recoveryVars>>

DevicesNext == StorageStep \/ MigrationsStep \/ RegistrationStep \/ OnboardingStep \/
               PinStep \/ RecoveryStep \/ ScreensStep

\* Each system is fair as its module says (its Fairness), while it is the one that
\* runs.
DevicesFairness ==
    /\ WF_vars(which = "saves" /\ Saves!Save)
    /\ WF_vars(which = "saves" /\ Saves!InitializeDeviceId)
    /\ \A d \in {"phone", "tablet"} :
        /\ WF_registrationVars(which = "renewal" /\ Renewal!Renew(d))
        /\ WF_registrationVars(which = "renewal" /\ Renewal!Sleep(d))
        /\ WF_registrationVars(which = "renewal" /\ Renewal!Launch(d))
    /\ WF_onboardingVars(which = "entry" /\ Entry!GoOnline)
    /\ WF_onboardingVars(which = "entry" /\ Entry!Open)
    /\ WF_onboardingVars(which = "entry" /\ Entry!Show)
    /\ WF_onboardingVars(which = "entry" /\ Entry!Initialize)
    /\ WF_onboardingVars(which = "entry" /\ Entry!InitializeFails)
    /\ WF_onboardingVars(which = "entry" /\ Entry!Sync)
    /\ SF_onboardingVars(which = "entry" /\ Entry!SubmitName)
    /\ WF_onboardingVars(which = "entry" /\ Entry!SetName)
    /\ WF_onboardingVars(which = "entry" /\ Entry!Recovered)
    /\ SF_onboardingVars(which = "entry" /\ Entry!Reopen)
    /\ WF_onboardingVars(which = "words" /\ Words!GoOnline)
    /\ WF_onboardingVars(which = "words" /\ Words!Open)
    /\ WF_onboardingVars(which = "words" /\ Words!Show)
    /\ WF_onboardingVars(which = "words" /\ Words!Initialize)
    /\ WF_onboardingVars(which = "words" /\ Words!InitializeFails)
    /\ WF_onboardingVars(which = "words" /\ Words!Sync)
    /\ SF_onboardingVars(which = "words" /\ Words!SubmitName)
    /\ WF_onboardingVars(which = "words" /\ Words!SetName)
    /\ WF_onboardingVars(which = "words" /\ Words!Recovered)
    /\ SF_onboardingVars(which = "words" /\ Words!Reopen)
    /\ WF_pinVars(which = "pin" /\ Lock!Tick)
    /\ WF_recoveryVars(which = "recovery" /\ Recovery!Started)
    /\ WF_recoveryVars(which = "recovery" /\ Recovery!Fetch)
    /\ WF_recoveryVars(which = "recovery" /\ Recovery!Poll)
    /\ WF_recoveryVars(which = "recovery" /\ Recovery!Approvals)
    /\ \A g \in Recovery!Guardians \ Silent :
        WF_recoveryVars(which = "recovery" /\ Recovery!ApproveRecovery(g))
    /\ WF_recoveryVars(which = "backedUp" /\ BackedUp!Started)
    /\ WF_recoveryVars(which = "backedUp" /\ BackedUp!Fetch)
    /\ WF_recoveryVars(which = "backedUp" /\ BackedUp!Poll)
    /\ WF_recoveryVars(which = "backedUp" /\ BackedUp!Approvals)
    /\ \A g \in BackedUp!Guardians :
        WF_recoveryVars(which = "backedUp" /\ BackedUp!ApproveRecovery(g))

DevicesSpec == DevicesInit /\ [][DevicesNext]_allDevices /\ DevicesFairness

-----------------------------------------------------------------------------
\* What the user changed is stored, unless the app is closed or it changes
\* again (saveToStorage).
StoredInTheEnd == which = "saves" => Saves!SettingsAreSaved

\* What a message waited for before the migrations of the stored state, it
\* waits for afterwards: nothing unread is taken for read.
NothingReadUnread == which = "migrations" => Migrations!NothingReadUnread

\* An index is taken from a device only by a transfer: neither a renewal nor
\* the registration of a new device takes over what another owns.
OnlyTransfersTakeOver ==
    [][which = "registration" => Registration!LeavesOwners]_<<which, registrationVars>>

\* A device whose index was given to another comes to be locked, however
\* often it is restarted and its answers are lost, or gets another index.
LosersAreLocked == which = "renewal" => Renewal!LosersAreLocked

\* Who is in the app has a display name on the chat server, however attempts
\* have failed and been repeated before.
InIsNamed == which = "entry" => Entry!InIsNamed

\* Who keeps trying, and reopens the app when that does not help, gets in.
GetsIn == which = "entry" => Entry!GetsIn

\* The list of chats is not left loading.
SyncSettles == which = "words" => Words!SyncSettles

\* Nobody is asked for a PIN that does not exist any more: after ResetPin
\* PinContext still checks the old one.
NoLockWithoutPin == which = "pin" => Lock!NoLockWithoutPin

\* The PIN that is stored was typed twice (SetPin, when no digit is taken
\* back).
PinIsTypedTwice ==
    [][which = "pin" /\ ~Backspaces /\ keychain' # keychain /\ keychain' # Lock!NoPin
       => keychain' = first]_<<which, pinVars>>

\* However often the PIN was wrong, the lock screen takes digits again.
NumpadReturns == which = "pin" => Lock!NumpadReturns

\* A recovery file that was written is that of the backup at every guardian, as
\* long as no other backup has been begun, even if requests arrive late.
FilesAreBackedUp == which = "recovery" => Recovery!FilesAreBackedUp

\* Who waits for approvals waits for those that the guardians can give.
GuardiansAreAsked == which = "recovery" /\ ~PollsOverlap => Recovery!GuardiansAreAsked

\* Who is told that no approval remains can complete the recovery.
NoneRemains == which = "recovery" /\ ~PollsOverlap => Recovery!NoneRemains

\* A recovery that was cancelled, or completed and cleared, does not come back.
EndedForGood == [][~PollsOverlap /\ state = Recovery!None /\ state' # Recovery!None
                     => start # Recovery!Idle /\ start' = Recovery!Idle]_recoveryVars

\* Who waits with the file of the last backup comes to be able to complete.
ApprovedInTheEnd ==
    /\ which = "recovery" => Recovery!ApprovedInTheEnd
    /\ which = "backedUp" => BackedUp!ApprovedInTheEnd

-----------------------------------------------------------------------------
\* What was stored stays true: nothing unread is taken for read, whichever
\* version stored it, and a recovery file is of the backup that is stored.
StoredIsTrue ==
    /\ which = "storage" => TypeOK
    /\ which = "migrations" => Migrations!TypeOK
    /\ which = "recovery" => Recovery!TypeOK
    /\ NothingReadUnread
    /\ FilesAreBackedUp

\* Who is in has a name, nobody is kept out by a PIN that is gone, and a recovery
\* waits for approvals that can be given and completes when it says so.
EntryIsSound ==
    /\ which = "entry" => Entry!TypeOK
    /\ which = "pin" => Lock!TypeOK
    /\ InIsNamed
    /\ NoLockWithoutPin
    /\ GuardiansAreAsked
    /\ NoneRemains

\* All this with other words, with digits taken back and with a second backup.
OthersAreSound ==
    /\ which = "words" => Words!TypeOK /\ Words!InIsNamed
    /\ which = "backspaces" => Corrected!NoLockWithoutPin
    /\ which = "backedUp" =>
        /\ BackedUp!TypeOK /\ BackedUp!FilesAreBackedUp
        /\ BackedUp!GuardiansAreAsked /\ BackedUp!NoneRemains

\* A device settles: its settings are stored, it is locked if another took its
\* index over, which only a transfer does, its user gets in and back in, with a
\* PIN that was typed twice or the approvals of guardians, and a recovery that has
\* ended stays so.
DevicesSettle ==
    /\ []OthersAreSound
    /\ StoredInTheEnd
    /\ LosersAreLocked
    /\ OnlyTransfersTakeOver
    /\ GetsIn
    /\ SyncSettles
    /\ PinIsTypedTwice
    /\ NumpadReturns
    /\ EndedForGood
    /\ ApprovedInTheEnd

\* The stack of screens is sound: no confirmation is left behind, no PIN comes
\* without a backup, and a locked app shows nothing but its locks.
StackIsSound ==
    which = "screens" =>
        /\ Screens!TypeOK
        /\ Screens!PaidIsNotAsked
        /\ Screens!PinIsBackedUp
        /\ Screens!LockedIsShut

-----------------------------------------------------------------------------
\* What the constants stand for in the run: lists of up to three messages, with and
\* without payments; and what a user sets out to do, and what with.
Plain(c, t) == [chat |-> c, sentAt |-> t, payment |-> FALSE, updatedAt |-> 0]
Paying(c, t, u) == [chat |-> c, sentAt |-> t, payment |-> TRUE, updatedAt |-> u]
Messages == {Plain("ann", 1), Plain("g1", 2), Paying("ann", 2, 0), Paying("ann", 1, 3)}
SomeLists ==
    {<<>>} \cup {<<m>> : m \in Messages} \cup {<<Plain("ann", 1), m>> : m \in Messages}
    \cup {<<Plain("ann", 1), Paying("ann", 2, 4), Plain("g1", 3)>>}
OneVideo == <<"v">>

AllFeatures == {"app", "changePin", "nostrSettings"}
Member == [
    named |-> TRUE, joined |-> {"f"}, active |-> "f", stable |-> {},
    pin |-> FALSE, status |-> FALSE, protected |-> AllFeatures, unlocked |-> {},
    backedUp |-> FALSE, beforePin |-> FALSE, required |-> FALSE, indexed |-> TRUE,
    begun |-> FALSE, recovering |-> FALSE, lock |-> FALSE, leaving |-> "none",
    cancelled |-> FALSE, paid |-> {}]
Newcomer == [Member EXCEPT !.named = FALSE, !.joined = {}, !.active = "none"]
Session(seen, from) == [
    screens |-> seen \cup {"TabsNavigator"}, calls |-> 1, links |-> FALSE,
    ended |-> {}, taken |-> FALSE, restarts |-> FALSE, app |-> from]

Naming == {"Splash", "EnterDisplayName", "UploadAvatarImage", "FederationGreeting"}
Indexing == {"PersonalRecoverySuccess", "RecoveryWalletOptions", "RecoveryWalletTransfer",
    "RecoveryDeviceSelection", "RecoveryNewWallet", "LockedDevice"}
ByGuardians == {"Splash", "ChooseRecoveryMethod", "LocateSocialRecovery",
    "SelectRecoveryFileSuccess", "SelectRecoveryFileFailure", "CompleteSocialRecovery",
    "SocialRecoverySuccess", "SocialRecoveryFailure"}
JoinVisits == {
    Session(Naming \cup {"PublicFederations", "JoinFederation", "Eula"}, Newcomer),
    [Session(Naming \cup {"JoinFederation"}, Newcomer) EXCEPT !.links = TRUE, !.calls = 2]}
\* The last two left a recovery before it was over and set up a PIN.
RecoveryVisits == {
    [Session(Naming \cup Indexing \cup {"ChooseRecoveryMethod", "PersonalRecovery"}, Newcomer)
        EXCEPT !.restarts = TRUE, !.calls = 2, !.taken = TRUE],
    [Session(ByGuardians, Newcomer) EXCEPT !.restarts = TRUE, !.calls = 2],
    [Session(Indexing \cup {"LockScreen", "ResetPinStart"},
             [Member EXCEPT !.pin = TRUE, !.status = TRUE, !.backedUp = TRUE,
                            !.indexed = FALSE, !.required = TRUE])
        EXCEPT !.restarts = TRUE],
    [Session({"Splash", "Eula", "CompleteSocialRecovery", "SocialRecoverySuccess",
              "PersonalRecoverySuccess", "LockScreen", "ResetPinStart"},
             [Member EXCEPT !.pin = TRUE, !.status = TRUE, !.backedUp = TRUE,
                            !.begun = TRUE, !.recovering = TRUE])
        EXCEPT !.restarts = TRUE]}
PinVisits == {
    [Session({"Settings", "CreatePinInstructions", "ChooseBackupMethod", "StartPersonalBackup",
              "RecoveryWords", "SetPin", "CreatedPin", "PinAccess", "LockScreen",
              "ResetPinStart", "ResetPin", "NostrSettings"}, Member) EXCEPT !.restarts = TRUE],
    Session({"Settings", "StartSocialBackup", "RecordBackupVideo", "SocialBackupProcessing",
             "CompleteSocialBackup", "SocialBackupSuccess"}, Member)}
SettingsVisits == {
    [Session({"PopupFederationEnded", "Settings", "Splash", "JoinFederation"},
             [Member EXCEPT !.joined = {"f", "g"}, !.stable = {"g"}])
        EXCEPT !.ended = {"g"}, !.links = TRUE],
    Session({"Settings", "FediModSettings", "AddFediMod", "BugReport", "BugReportSuccess",
             "DeveloperSettings", "CreateGroup", "StartRecoveryAssist",
             "ConfirmRecoveryAssist", "ScanSocialRecoveryCode", "CompleteRecoveryAssist",
             "RecoveryAssistSuccess"}, Member)}
PaymentVisits == {
    [Session({"Send", "SendOfflineAmount", "ConfirmSendEcash", "SendOfflineQr",
              "SendSuccess"}, Member) EXCEPT !.calls = 2],
    Session({"Send", "SendOnChainAmount", "ConfirmSendOnChain", "ConfirmSendLightning",
             "SendSuccess"}, Member),
    Session({"ReceiveLightning", "BitcoinRequest", "ReceiveSuccess"}, Member),
    [Session({"ReceiveLightning", "ConfirmReceiveOffline", "ConfirmReceiveCashu",
              "ReceiveSuccess"}, Member) EXCEPT !.links = TRUE],
    Session({"StableBalanceIntro", "StabilityHome", "StabilityDeposit", "StabilityWithdraw",
             "StabilityConfirmDeposit", "StabilityConfirmWithdraw",
             "StabilityDepositInitiated", "StabilityWithdrawInitiated"}, Member)}
ChatVisits == {
    Session({"ChatRoomConversation", "NewMessage", "CreateGroup", "ChatUserConversation",
             "RoomSettings", "EditGroup", "ChatRoomMembers", "ChatRoomInvite",
             "ScanMemberCode"}, Member),
    Session({"ChatRoomConversation", "ChatWallet", "ConfirmSendChatPayment",
             "ConfirmJoinPublicGroup"}, Member)}
SomeVisits == JoinVisits \cup RecoveryVisits \cup PinVisits \cup SettingsVisits
              \cup PaymentVisits \cup ChatVisits

=============================================================================
