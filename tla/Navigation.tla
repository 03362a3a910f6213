----------------------------- MODULE Navigation -----------------------------
(***************************************************************************)
(* The screens of the native app: MainNavigator's stack, what the buttons  *)
(* of each screen do to it, and the calls that screens await.  A handler   *)
(* goes on when its screen has gone: what it then dispatches acts on the   *)
(* stack as it has become.  One action per screen, with its name; a visit  *)
(* is a session in which the user goes to some of the screens.             *)
(***************************************************************************)
EXTENDS Naturals, Sequences, FiniteSets, SequencesExt

CONSTANTS
    Feds,       \* the federations
    Visits,     \* the sessions: what they visit and start from, see Visit
    MaxDepth    \* bound: screens on the stack

VARIABLES
    visit,      \* the session
    stack,      \* the routes of MainNavigator, the focused one last
    calls,      \* calls that are awaited, by the names of their functions
    facts       \* what screens decide by, see Facts

vars == <<visit, stack, calls, facts>>

Features == {"app", "changePin", "nostrSettings"}
Confirmations == {"ConfirmSendLightning", "ConfirmSendOnChain", "ConfirmSendChatPayment",
    "StabilityConfirmDeposit", "StabilityConfirmWithdraw", "ConfirmReceiveCashu"}

\* redux, the keychain and the bridge, as far as a screen looks at them.
Facts == [
    named : BOOLEAN,            \* the matrix display name is set
    joined : SUBSET Feds,
    active : Feds \cup {"none"},
    stable : SUBSET Feds,       \* federations that hold a stable balance
    pin : BOOLEAN,              \* the keychain has a PIN
    status : BOOLEAN,           \* usePinContext().status is 'set'
    protected : SUBSET Features,
    unlocked : SUBSET Features,
    backedUp : BOOLEAN,         \* hasPerformedPersonalBackup
    beforePin : BOOLEAN,        \* isBackingUpBeforePin
    required : BOOLEAN,         \* deviceIndexRequired
    indexed : BOOLEAN,          \* the bridge has a device index
    begun : BOOLEAN,            \* the bridge has a social recovery
    recovering : BOOLEAN,       \* socialRecoveryState
    lock : BOOLEAN,             \* shouldLockDevice
    leaving : Feds \cup {"none"},   \* the argument of leaveFederation
    cancelled : BOOLEAN,        \* ghost: the recovery was, since the app started
    paid : SUBSET Confirmations]    \* ghost: those that were acted on

-----------------------------------------------------------------------------
\* The routes of the navigator.
Always == {"Splash", "JoinFederation", "PublicFederations", "Eula",
    "PersonalRecoverySuccess", "RecoveryWalletOptions", "RecoveryWalletTransfer",
    "RecoveryNewWallet", "RecoveryDeviceSelection", "LockedDevice",
    "CompleteSocialRecovery"}
HomeAndChat == {"TabsNavigator", "FediModBrowser", "EnterDisplayName",
    "UploadAvatarImage", "FederationGreeting", "NewMessage", "ScanMemberCode",
    "ChatRoomConversation", "ChatRoomMembers", "ChatRoomInvite",
    "ConfirmJoinPublicGroup", "ChatUserConversation", "CreateGroup", "EditGroup",
    "RoomSettings", "ChatWallet", "ConfirmSendChatPayment"}
Wallet == {"Send", "ConfirmSendLightning", "SendOnChainAmount",
    "ConfirmSendOnChain", "SendSuccess", "SendOfflineAmount", "ConfirmSendEcash",
    "SendOfflineQr", "Receive", "BitcoinRequest", "ReceiveLightning",
    "ConfirmReceiveOffline", "ConfirmReceiveCashu", "ReceiveSuccess",
    "Transactions", "FederationInvite"}
Backups == {"ChooseBackupMethod", "ChooseRecoveryMethod", "RecordBackupVideo",
    "StartSocialBackup", "SocialBackupProcessing", "CompleteSocialBackup",
    "SocialBackupSuccess", "LocateSocialRecovery", "SelectRecoveryFileSuccess",
    "SelectRecoveryFileFailure", "SocialRecoveryFailure", "SocialRecoverySuccess",
    "StartRecoveryAssist", "ConfirmRecoveryAssist", "ScanSocialRecoveryCode",
    "CompleteRecoveryAssist", "RecoveryAssistSuccess", "StartPersonalBackup",
    "RecoveryWords", "PersonalRecovery", "SocialRecoveryQrModal"}
SettingsAndPools == {"PopupFederationEnded", "Settings", "FediModSettings",
    "AddFediMod", "EditProfileSettings", "LanguageSettings", "CurrencySettings",
    "SetPin", "CreatedPin", "CreatePinInstructions", "PinAccess",
    "FederationDetails", "StabilityHome", "StabilityHistory", "StabilityDeposit",
    "StabilityWithdraw", "StabilityConfirmDeposit", "StabilityConfirmWithdraw",
    "StabilityDepositInitiated", "StabilityWithdrawInitiated",
    "StableBalanceIntro", "BugReport", "BugReportSuccess", "NostrSettings",
    "DeveloperSettings"}
Locking == {"LockScreen", "ResetPinStart", "ResetPin"}

\* useIsFeatureUnlocked, and the groups MainNavigator then has.
IsUnlocked(a, f) == ~a.status \/ f \notin a.protected \/ f \in a.unlocked
Routes(a) == Always \cup (IF IsUnlocked(a, "app")
                          THEN HomeAndChat \cup Wallet \cup Backups \cup SettingsAndPools
                          ELSE Locking)

-----------------------------------------------------------------------------
\* What React Navigation makes of its actions: one that names a route that is not
\* there is not handled, and none acts on the screen that dispatched it.
Focused == Last(stack)
Has(s) == s \in ToSet(stack)

NavigatedOn(st, a, s) ==
    IF s \notin Routes(a) THEN st
    ELSE IF s \in ToSet(st) THEN SubSeq(st, 1, SelectLastInSeq(st, LAMBDA t : t = s))
    ELSE Append(st, s)
Navigated(s) == NavigatedOn(stack, facts, s)
Pushed(s) == IF s \in Routes(facts) THEN Append(stack, s) ELSE stack
Replaced(s) == IF s \in Routes(facts) THEN Append(Front(stack), s) ELSE stack
WentBack == IF Len(stack) > 1 THEN Front(stack) ELSE stack
Reset(st) == IF ToSet(st) \subseteq Routes(facts) THEN st ELSE stack

\* Initializing, which replaces itself as soon as it is mounted.
Entry(a) ==
    IF ~IsUnlocked(a, "app") THEN "LockScreen"
    ELSE IF a.named THEN "TabsNavigator" ELSE "Splash"

\* Routes that are gone are dropped: none, all, or some of those on the stack.
Rerouted(a) ==
    IF ToSet(stack) \subseteq Routes(a) THEN stack
    ELSE IF ToSet(stack) \cap Routes(a) = {} THEN <<Entry(a)>>
    ELSE SelectSeq(stack, LAMBDA t : t \in Routes(a))

\* MainNavigator is mounted: its initial route, then its effects.
Launched(a) ==
    IF a.lock THEN <<"LockedDevice">>
    ELSE IF a.required THEN <<"PersonalRecoverySuccess">>
    ELSE IF a.recovering THEN <<"CompleteSocialRecovery">>
    ELSE <<Entry(a)>>

\* state/navigation.
Room == <<"TabsNavigator", "ChatRoomConversation">>
RoomSettingsOf == Append(Room, "RoomSettings")

-----------------------------------------------------------------------------
Fits(st) == Len(st) <= MaxDepth /\ ToSet(st) \subseteq visit.screens

\* The user presses a button of the focused screen.
At(s) == Focused = s
Show(st) == Fits(st) /\ stack' = st /\ UNCHANGED <<visit, calls, facts>>
ShowAs(st, a) == Fits(st) /\ stack' = st /\ facts' = a /\ UNCHANGED <<visit, calls>>
Leads(s, to) == At(s) /\ \E t \in to : t \in visit.screens /\ Show(Navigated(t))

\* A handler of the screen awaits a call, having seen whether there is a name and
\* which federation is active; the call ends, with what the handler does after it, or it fails, with a toast.  What
\* was mounted before the navigator was mounted anew has no stack to act on.
Await(c) ==
    calls' = calls \cup {[call |-> c, named |-> facts.named, active |-> facts.active, mounted |-> TRUE]}
MayCall(c) == Cardinality(calls) < visit.calls /\ \A k \in calls : k.call # c
Calls(s, c) == At(s) /\ MayCall(c) /\ Await(c) /\ UNCHANGED <<visit, stack, facts>>
EndsHavingSeen(seen, c, st, a) ==
    \E k \in calls :
        /\ k.call = c /\ k.named = seen /\ calls' = calls \ {k}
        /\ k.mounted => Fits(st)
        /\ stack' = IF k.mounted THEN st ELSE stack
        /\ facts' = a /\ UNCHANGED visit
EndsAs(c, st, a) == \E seen \in BOOLEAN : EndsHavingSeen(seen, c, st, a)
Ends(c, st) == EndsAs(c, st, facts)
Fails ==
    \E k \in calls :
        /\ calls' = calls \ {k}
        /\ facts' = [facts EXCEPT !.leaving = IF k.call = "leaveFederation" THEN "none" ELSE @]
        /\ UNCHANGED <<visit, stack>>

\* A payment that is confirmed by a call of what is mounted; a confirmation that is
\* opened for another one.
Confirmed(s, c) ==
    [facts EXCEPT !.paid = IF \E k \in calls : k.call = c /\ k.mounted THEN @ \cup {s} ELSE @]
Asked(s) == [facts EXCEPT !.paid = @ \ {s}]

-----------------------------------------------------------------------------
\* The header, the gesture and the hardware button; at the bottom of the stack
\* only a header's button does something.
BackButtonAtBottom == {"PinAccess", "RecoveryNewWallet"}
Back ==
    \/ Len(stack) > 1 /\ Show(WentBack)
    \/ Len(stack) = 1 /\ Focused \in BackButtonAtBottom /\ Show(Navigated("TabsNavigator"))

CloseButtons == {"RecoveryWords", "SocialBackupProcessing", "CompleteSocialBackup",
    "ScanSocialRecoveryCode", "ConfirmSendLightning", "SendOnChainAmount",
    "ConfirmSendOnChain", "SendOfflineAmount", "ConfirmSendEcash", "BitcoinRequest",
    "ConfirmReceiveOffline", "ConfirmReceiveCashu"}
HasCloseButton ==
    \/ Focused \in CloseButtons
    \/ At("ReceiveLightning") /\ (Len(stack) > 1 => Last(Front(stack)) # "TabsNavigator")
Close == HasCloseButton /\ Show(Reset(<<"TabsNavigator">>))

\* The component Success: "Done" resets.
Success(s, next) == At(s) /\ Show(Reset(<<next>>))
Done == \E s \in {"SendSuccess", "ReceiveSuccess", "SocialBackupSuccess",
                  "RecoveryAssistSuccess"} : Success(s, "TabsNavigator")

-----------------------------------------------------------------------------
\* Names and federations.
Splash == Leads("Splash", {"EnterDisplayName", "ChooseRecoveryMethod", "Eula"})

EnterDisplayName ==
    \/ Calls("EnterDisplayName", "setDisplayName")
    \/ EndsAs("setDisplayName", Reset(<<"UploadAvatarImage">>), [facts EXCEPT !.named = TRUE])
UploadAvatarImage == At("UploadAvatarImage") /\ Show(Reset(<<"FederationGreeting">>))
FederationGreeting == At("FederationGreeting") /\ Show(Replaced("TabsNavigator"))

PublicFederations == Leads("PublicFederations", {"JoinFederation"})

\* Whether there is a Matrix session decides where a join leads; a name needs one.
JoinFederation ==
    \/ Leads("JoinFederation", {"PublicFederations"})
    \/ Calls("JoinFederation", "joinFederation")
    \/ \E f \in Feds \ facts.joined, seen, session \in BOOLEAN :
        /\ seen => session
        /\ EndsHavingSeen(seen, "joinFederation",
                Replaced(IF session THEN "TabsNavigator" ELSE "EnterDisplayName"),
                [facts EXCEPT !.joined = @ \cup {f}, !.active = f])

\* leaveFederation: another one becomes active when the active one is left.
LeavesOf(f) ==
    LET rest == facts.joined \ {f} IN
    {[facts EXCEPT !.joined = rest, !.leaving = "none", !.active = g] :
        g \in IF facts.active # f THEN {facts.active}
              ELSE IF rest = {} THEN {"none"} ELSE rest}

\* confirmLeaveFederation; the stable balance is the one of the active federation.
MayLeave(f) == f \in facts.joined /\ facts.active \notin facts.stable

LeaveFederation ==
    \/ \E f \in Feds :
        /\ At("Settings") /\ MayLeave(f)
        /\ MayCall("leaveFederation") /\ Await("leaveFederation")
        /\ facts' = [facts EXCEPT !.leaving = f] /\ UNCHANGED <<visit, stack>>
    \/ \E a \in LeavesOf(facts.leaving) :
        EndsAs("leaveFederation", Replaced(Entry(a)), a)

\* The popup federation that is active has ended; its screen awaits the same call.
PopupFederationEnded ==
    \/ At("TabsNavigator") /\ facts.active \in visit.ended
       /\ Show(Navigated("PopupFederationEnded"))
    \/ Calls("PopupFederationEnded", "leaveEndedFederation")
    \/ \E a \in LeavesOf(facts.active) :
        EndsAs("leaveEndedFederation", Pushed(Entry(a)), a)

\* The drawer, which opens from the header of the tabs and, while the app is
\* unlocked, with a swipe from anywhere.  A federation that is chosen has the
\* navigator mounted anew.
Drawer ==
    /\ IsUnlocked(facts, "app") /\ (visit.links \/ At("TabsNavigator"))
    /\ \/ \E f \in facts.joined \ {facts.active} :
            LET a == [facts EXCEPT !.active = f] IN
            /\ facts.active # "none" /\ Fits(Launched(a))
            /\ stack' = Launched(a) /\ facts' = a /\ UNCHANGED visit
            /\ calls' = {[k EXCEPT !.mounted = FALSE] : k \in calls}
       \/ \E t \in {"JoinFederation", "FederationInvite"} :
            t \in visit.screens /\ Show(Navigated(t))

\* OmniLinkHandler, outside of the stack, and the confirmations it leads to.
LinkTargets == {"ConfirmSendLightning", "ReceiveLightning", "JoinFederation",
    "ConfirmReceiveCashu", "ConfirmReceiveOffline", "ChatUserConversation",
    "ConfirmJoinPublicGroup", "SendOnChainAmount"}
Link ==
    /\ IsUnlocked(facts, "app") /\ visit.links
    /\ \E t \in LinkTargets \cap visit.screens : ShowAs(Navigated(t), Asked(t))

\* OmniInput got what its screen does not expect.  OmniConfirmation replaces the
\* screen, where it is one of the stack, and then onUnexpectedSuccess goes back, on
\* some screens.
GoesBackAfter == {"NewMessage", "ScanMemberCode"}
Scan ==
    \E t \in (LinkTargets \ {Focused}) \cap visit.screens :
        \/ At("TabsNavigator") /\ ShowAs(Navigated(t), Asked(t))
        \/ Focused \in {"Send", "JoinFederation", "AddFediMod"} /\ ShowAs(Replaced(t), Asked(t))
        \/ Focused \in GoesBackAfter /\ Show(WentBack)

-----------------------------------------------------------------------------
\* Recovery of a seed.  PersonalRecovery unsets the PIN; the name is that of the seed.
ChooseRecoveryMethod ==
    Leads("ChooseRecoveryMethod", {"LocateSocialRecovery", "PersonalRecovery"})

Unpinned(a) == [a EXCEPT !.pin = FALSE, !.unlocked = @ \cup a.protected]

PersonalRecovery ==
    \/ Calls("PersonalRecovery", "recoverFromMnemonic")
    \/ \E b \in BOOLEAN :
        LET a == [facts EXCEPT !.named = b, !.indexed = FALSE] IN
        EndsAs("recoverFromMnemonic", Reset(<<"PersonalRecoverySuccess">>),
               IF facts.status THEN Unpinned(a) ELSE a)
PersonalRecoverySuccess ==
    \E s \in {"RecoveryWalletOptions", "RecoveryNewWallet"} :
        Success("PersonalRecoverySuccess", s)

RecoveryWalletOptions == Leads("RecoveryWalletOptions", {"RecoveryWalletTransfer"})
RecoveryWalletTransfer == Leads("RecoveryWalletTransfer", {"RecoveryDeviceSelection"})

\* useDeviceRegistration: the name is the one known when the call was made.
OnboardingEnds(c) ==
    \E seen \in BOOLEAN :
        EndsHavingSeen(seen, c, Navigated(IF seen THEN "TabsNavigator" ELSE "EnterDisplayName"),
                       [facts EXCEPT !.indexed = TRUE])
RecoveryDeviceSelection ==
    \/ Leads("RecoveryDeviceSelection", {"RecoveryNewWallet"})
    \/ Calls("RecoveryDeviceSelection", "transferExistingWallet")
    \/ OnboardingEnds("transferExistingWallet")
RecoveryNewWallet ==
    \/ Calls("RecoveryNewWallet", "createNewWallet")
    \/ OnboardingEnds("createNewWallet")

\* SelectRecoveryFileButton, on two screens.
SelectRecoveryFile ==
    \/ Calls("LocateSocialRecovery", "validateRecoveryFile")
    \/ Calls("SelectRecoveryFileFailure", "validateRecoveryFile")
    \/ EndsAs("validateRecoveryFile", Replaced("SelectRecoveryFileSuccess"),
              [facts EXCEPT !.begun = TRUE])
    \/ Ends("validateRecoveryFile", Replaced("SelectRecoveryFileFailure"))
SelectRecoveryFileSuccess == Success("SelectRecoveryFileSuccess", "CompleteSocialRecovery")
SelectRecoveryFileFailure ==
    At("SelectRecoveryFileFailure") /\ Show(Replaced("TabsNavigator"))

\* The QR code of the recovery fails to load; or all approvals are there.
CompleteSocialRecovery ==
    \/ Calls("CompleteSocialRecovery", "recoveryQr")
    \/ Ends("recoveryQr", Reset(<<"SocialRecoveryFailure">>))
    \/ Calls("CompleteSocialRecovery", "completeSocialRecovery")
    \/ EndsAs("completeSocialRecovery", Reset(<<"SocialRecoverySuccess">>),
              [facts EXCEPT !.begun = FALSE, !.recovering = FALSE, !.indexed = FALSE])
\* SocialRecoveryHeader: the bridge forgets the recovery, redux does not.
CancelSocialRecovery ==
    At("CompleteSocialRecovery")
    /\ ShowAs(Reset(<<"Splash">>), [facts EXCEPT !.begun = FALSE, !.cancelled = TRUE])
SocialRecoverySuccess == Success("SocialRecoverySuccess", Entry(facts))
SocialRecoveryFailure ==
    Leads("SocialRecoveryFailure", {"TabsNavigator", "LocateSocialRecovery"})

\* shouldLockDevice: the renewal of the registration found another device.
DeviceIsLocked ==
    /\ visit.taken /\ ~facts.lock /\ "LockedDevice" \in visit.screens
    /\ ShowAs(Reset(<<"LockedDevice">>), [facts EXCEPT !.lock = TRUE])

-----------------------------------------------------------------------------
\* The PIN.
EnterPin(f) == [facts EXCEPT !.unlocked = @ \cup {f}]

LockScreen ==
    \/ Leads("LockScreen", {"ResetPinStart"})
    \/ At("LockScreen") /\ facts.status
       /\ ShowAs(Rerouted(EnterPin("app")), EnterPin("app"))
ResetPinStart ==
    At("ResetPinStart") /\ ShowAs(Navigated("ResetPin"), [facts EXCEPT !.beforePin = TRUE])
\* The routes have changed when the handler goes on.
ResetPin ==
    \/ facts.status /\ Calls("ResetPin", "checkMnemonic")
    \/ LET a == Unpinned(facts) IN
       EndsAs("checkMnemonic", NavigatedOn(Rerouted(a), a, "SetPin"), a)

\* FeatureLockScreen takes the place of a screen while its feature is locked.
FeatureLockScreen ==
    \E f \in {"changePin", "nostrSettings"} :
        /\ At(IF f = "changePin" THEN "SetPin" ELSE "NostrSettings")
        /\ ~IsUnlocked(facts, f) /\ ShowAs(stack, EnterPin(f))
SetPin ==
    /\ At("SetPin") /\ IsUnlocked(facts, "changePin")
    /\ ShowAs(Navigated("CreatedPin"), [EnterPin("app") EXCEPT !.pin = TRUE])
CreatedPin == Success("CreatedPin", "PinAccess")
PinAccess ==
    \/ Leads("PinAccess", {"SetPin"})
    \/ \E f \in {"app", "nostrSettings"} :
        /\ At("PinAccess")
        /\ ShowAs(stack, [EnterPin(f) EXCEPT !.protected =
                              IF f \in @ THEN @ \ {f} ELSE @ \cup {f}])

\* A bug to catch: a PIN is set up without a backup.
CreateOrManagePinUnguarded == IF facts.status THEN "PinAccess" ELSE "SetPin"
CreateOrManagePin ==
    IF ~facts.backedUp THEN "CreatePinInstructions"
    ELSE IF facts.status THEN "PinAccess" ELSE "SetPin"
CreatePinInstructions ==
    At("CreatePinInstructions")
    /\ ShowAs(Navigated("ChooseBackupMethod"), [facts EXCEPT !.beforePin = TRUE])
ChooseBackupMethod ==
    Leads("ChooseBackupMethod",
          {"StartSocialBackup", IF facts.backedUp THEN "RecoveryWords" ELSE "StartPersonalBackup"})
StartPersonalBackup == Leads("StartPersonalBackup", {"RecoveryWords"})
RecoveryWords ==
    /\ At("RecoveryWords")
    /\ IF facts.backedUp THEN Show(Navigated("Settings"))
       ELSE IF facts.beforePin
       THEN ShowAs(Navigated("SetPin"), [facts EXCEPT !.backedUp = TRUE, !.beforePin = FALSE])
       ELSE ShowAs(Navigated("TabsNavigator"), [facts EXCEPT !.backedUp = TRUE])

-----------------------------------------------------------------------------
\* Settings, and what guardians and backups do from there.
Settings ==
    \/ Leads("Settings", {CreateOrManagePin})
    \/ Leads("Settings", {"StartSocialBackup", "FederationDetails", "FederationInvite",
             "DeveloperSettings", "EditProfileSettings", "FediModSettings",
             "LanguageSettings", "CurrencySettings", "StartPersonalBackup",
             "StartRecoveryAssist", "NostrSettings", "BugReport"})
DeveloperSettings == Leads("DeveloperSettings", {"CreateGroup"})
FediModSettings == Leads("FediModSettings", {"AddFediMod"})
AddFediMod == At("AddFediMod") /\ Show(WentBack)
BugReport ==
    \/ Calls("BugReport", "submitBugReport")
    \/ Ends("submitBugReport", Pushed("BugReportSuccess"))

\* ReviewVideo is a part of RecordBackupVideo; the progress of the upload is feigned.
StartSocialBackup == Leads("StartSocialBackup", {"RecordBackupVideo"})
RecordBackupVideo == Leads("RecordBackupVideo", {"SocialBackupProcessing"})
SocialBackupProcessing ==
    At("SocialBackupProcessing") /\ Show(Replaced("CompleteSocialBackup"))
CompleteSocialBackup == Leads("CompleteSocialBackup", {"SocialBackupSuccess"})

StartRecoveryAssist == Leads("StartRecoveryAssist", {"ConfirmRecoveryAssist"})
ConfirmRecoveryAssist ==
    At("ConfirmRecoveryAssist") /\ Show(Replaced("ScanSocialRecoveryCode"))
ScanSocialRecoveryCode ==
    \/ Calls("ScanSocialRecoveryCode", "socialRecoveryDownloadVerificationDoc")
    \/ Ends("socialRecoveryDownloadVerificationDoc", Navigated("CompleteRecoveryAssist"))
CompleteRecoveryAssist ==
    \/ At("CompleteRecoveryAssist") /\ Show(Replaced("RecoveryAssistSuccess"))
    \/ Calls("CompleteRecoveryAssist", "approveSocialRecoveryRequest")
    \/ Ends("approveSocialRecoveryRequest", Replaced("RecoveryAssistSuccess"))

-----------------------------------------------------------------------------
\* Payments.
Send ==
    \/ Leads("Send", {"SendOfflineAmount", "ChatWallet", "SendOnChainAmount"})
    \/ At("Send") /\ ShowAs(Navigated("ConfirmSendLightning"), Asked("ConfirmSendLightning"))
SendOfflineAmount == Leads("SendOfflineAmount", {"ConfirmSendEcash"})
ConfirmSendEcash ==
    \/ Calls("ConfirmSendEcash", "generateEcash")
    \/ Ends("generateEcash", Navigated("SendOfflineQr"))
SendOfflineQr == Leads("SendOfflineQr", {"SendSuccess"})
SendOnChainAmount ==
    \/ Calls("SendOnChainAmount", "previewPayAddress")
    \/ EndsAs("previewPayAddress", Pushed("ConfirmSendOnChain"), Asked("ConfirmSendOnChain"))

\* Mutant: the confirmation stays below its success.
ConfirmThenNavigate(s, c, next) ==
    \/ Calls(s, c)
    \/ EndsAs(c, Navigated(next), Confirmed(s, c))
Confirm(s, c, next) ==
    \/ Calls(s, c)
    \/ EndsAs(c, Replaced(next), Confirmed(s, c))
ConfirmSendOnChain == Confirm("ConfirmSendOnChain", "payAddress", "SendSuccess")
ConfirmSendLightning == Confirm("ConfirmSendLightning", "payInvoice", "SendSuccess")

\* The effect that shows the request belongs to the screen.
ReceiveLightning ==
    \/ Leads("ReceiveLightning", {"ReceiveSuccess"})
    \/ Calls("ReceiveLightning", "generateInvoice")
    \/ Has("ReceiveLightning") /\ Ends("generateInvoice", Navigated("BitcoinRequest"))
    \/ Calls("ReceiveLightning", "lnurlWithdraw")
    \/ Ends("lnurlWithdraw", Navigated("BitcoinRequest"))
BitcoinRequest == Leads("BitcoinRequest", {"ReceiveSuccess"})
ConfirmReceiveOffline ==
    \/ Calls("ConfirmReceiveOffline", "receiveEcash")
    \/ Ends("receiveEcash", Navigated("ReceiveSuccess"))
ConfirmReceiveCashu == Confirm("ConfirmReceiveCashu", "meltCashuTokens", "ReceiveSuccess")

-----------------------------------------------------------------------------
\* Stable balances.
StableBalanceIntro == Leads("StableBalanceIntro", {"StabilityHome"})
StabilityHome == Leads("StabilityHome", {"StabilityDeposit", "StabilityWithdraw", "StabilityHistory"})
StabilityDeposit ==
    /\ At("StabilityDeposit")
    /\ ShowAs(Navigated("StabilityConfirmDeposit"), Asked("StabilityConfirmDeposit"))
StabilityWithdraw ==
    /\ At("StabilityWithdraw") /\ facts.active \in facts.stable
    /\ ShowAs(Navigated("StabilityConfirmWithdraw"), Asked("StabilityConfirmWithdraw"))
\* The federation is the one that was active when the call was made.
Stabilized(s, c, held) == [Confirmed(s, c) EXCEPT !.stable = held]
ActiveAt(c) == {k.active : k \in {j \in calls : j.call = c}}
StabilityConfirmDeposit ==
    \/ Calls("StabilityConfirmDeposit", "increaseStableBalance")
    \/ LET c == "increaseStableBalance" IN
       /\ "none" \notin ActiveAt(c)
       /\ EndsAs(c, Replaced("StabilityDepositInitiated"),
                 Stabilized("StabilityConfirmDeposit", c, facts.stable \cup ActiveAt(c)))
StabilityConfirmWithdraw ==
    \/ Calls("StabilityConfirmWithdraw", "decreaseStableBalance")
    \/ LET c == "decreaseStableBalance" IN
       /\ "none" \notin ActiveAt(c)
       /\ EndsAs(c, Replaced("StabilityWithdrawInitiated"),
                 Stabilized("StabilityConfirmWithdraw", c, facts.stable \ ActiveAt(c)))
StabilityInitiated ==
    \/ Leads("StabilityDepositInitiated", {"StabilityHome"})
    \/ Leads("StabilityWithdrawInitiated", {"StabilityHome"})

-----------------------------------------------------------------------------
\* Chats.
\* A chat is opened, or its settings with a long press (ChatRoomActions).
ChatsList ==
    \/ Leads("TabsNavigator", {"ChatRoomConversation"})
    \/ At("TabsNavigator") /\ Show(Reset(RoomSettingsOf))
ChatScreen ==
    \/ Leads("TabsNavigator", {"NewMessage"})
    \/ At("TabsNavigator") /\ ~facts.named /\ Show(Pushed("EnterDisplayName"))
NewMessage ==
    \/ At("NewMessage") /\ Show(Replaced("ChatUserConversation"))
    \/ At("NewMessage") /\ Show(Pushed("CreateGroup"))
\* The group is shown when its room is there, by an effect of the screen.
CreateGroup ==
    \/ Calls("CreateGroup", "createMatrixRoom")
    \/ Has("CreateGroup") /\ Ends("createMatrixRoom", Replaced("ChatRoomConversation"))
\* A chat with oneself; a user there is a room with; the first message.
ChatUserConversation ==
    \/ \E s \in {"TabsNavigator", "ChatRoomConversation"} :
        At("ChatUserConversation") /\ Show(Replaced(s))
    \/ Calls("ChatUserConversation", "sendMatrixDirectMessage")
    \/ Ends("sendMatrixDirectMessage", Replaced("ChatRoomConversation"))

\* ChatConversationHeader, ChatWalletButton, ChatPaymentEvent, EmbeddedJoinGroupButton,
\* NoMembersNotice and ChatUserActions.
ChatRoomConversation ==
    \/ At("ChatRoomConversation") /\ Show(Reset(<<"TabsNavigator">>))
    \/ Leads("ChatRoomConversation", {"RoomSettings", "ChatWallet", "ConfirmJoinPublicGroup",
             "ChatRoomInvite", "ChatUserConversation"})
    \/ At("ChatRoomConversation")
       /\ ShowAs(Navigated("ConfirmSendChatPayment"), Asked("ConfirmSendChatPayment"))
ChatWallet ==
    \/ Calls("ChatWallet", "sendMatrixPaymentRequest")
    \/ Ends("sendMatrixPaymentRequest", Reset(Room))
    \/ At("ChatWallet")
       /\ ShowAs(Navigated("ConfirmSendChatPayment"), Asked("ConfirmSendChatPayment"))
ConfirmSendChatPayment ==
    \/ Calls("ConfirmSendChatPayment", "sendMatrixPaymentPush")
    \/ EndsAs("sendMatrixPaymentPush", Reset(Room), Confirmed("ConfirmSendChatPayment", "sendMatrixPaymentPush"))

\* leaveChat, ahead of the call to leave the room.
RoomSettings ==
    \/ Leads("RoomSettings", {"EditGroup", "ChatRoomMembers", "ChatRoomInvite"})
    \/ At("RoomSettings") /\ Show(Replaced("TabsNavigator"))
EditGroup ==
    \/ Calls("EditGroup", "setMatrixRoomName")
    \/ Ends("setMatrixRoomName", Reset(RoomSettingsOf))
ChatRoomMembers ==
    \/ At("ChatRoomMembers") /\ Show(Replaced("ChatRoomInvite"))
    \/ Leads("ChatRoomMembers", {"ChatUserConversation"})
ChatRoomInvite == Leads("ChatRoomInvite", {"ScanMemberCode"})
ScanMemberCode ==
    \/ At("ScanMemberCode") /\ Show(Replaced("ChatUserConversation"))
    \/ Calls("ScanMemberCode", "inviteUserToMatrixRoom")
    \/ Ends("inviteUserToMatrixRoom", IF Len(stack) > 1 THEN WentBack ELSE Replaced("TabsNavigator"))
ConfirmJoinPublicGroup ==
    \/ Calls("ConfirmJoinPublicGroup", "joinMatrixRoom")
    \/ Ends("joinMatrixRoom", Reset(Room))

\* HomeHeader, ShortcutsList, WalletButtons, WalletHeader, StabilityWallet, Mods.
TabsNavigator ==
    \/ Leads("TabsNavigator", {"Settings", "FediModBrowser", "AddFediMod"})
    \/ /\ facts.active # "none"
       /\ Leads("TabsNavigator", {"Send", "SendOfflineAmount", "ReceiveLightning",
                "Transactions", "StabilityHome", "StableBalanceIntro"})
    \/ /\ facts.joined = {}
       /\ Leads("TabsNavigator", {"JoinFederation", "FediModBrowser"})

-----------------------------------------------------------------------------
\* The app starts again: it knows what the keychain, the storage and the bridge keep.
Restarted ==
    [facts EXCEPT !.status = facts.pin, !.unlocked = {}, !.beforePin = FALSE,
                !.required = ~facts.indexed, !.recovering = facts.begun, !.lock = FALSE,
                !.leaving = "none", !.cancelled = FALSE, !.paid = {}]
Restart ==
    /\ visit.restarts /\ Fits(Launched(Restarted))
    /\ stack' = Launched(Restarted) /\ facts' = Restarted /\ calls' = {} /\ UNCHANGED visit

-----------------------------------------------------------------------------
\* A session: the screens that are gone to, the calls that are awaited at once,
\* whether links and the drawer are used anywhere, the popup federations that have
\* ended, whether another device takes over or the app is started again, and what
\* it starts from.
Visit(v) ==
    /\ DOMAIN v = {"screens", "calls", "links", "ended", "taken", "restarts", "app"}
    /\ v.screens \subseteq UNION {Always, HomeAndChat, Wallet, Backups, SettingsAndPools, Locking}
    /\ v.calls \in Nat /\ v.ended \subseteq Feds
    /\ {v.links, v.taken, v.restarts} \subseteq BOOLEAN
    /\ v.app \in Facts /\ v.app.paid = {}
    /\ v.app.pin \/ v.app.status => v.app.backedUp
NavigationAssumption == MaxDepth \in Nat \ {0} /\ \A v \in Visits : Visit(v)

Init ==
    /\ visit \in Visits /\ facts = visit.app
    /\ stack = Launched(facts) /\ calls = {}

Next ==
    \/ Back \/ Close \/ Done \/ Fails \/ Drawer \/ Link \/ Scan \/ Restart
    \/ Splash \/ EnterDisplayName \/ UploadAvatarImage \/ FederationGreeting
    \/ PublicFederations \/ JoinFederation \/ LeaveFederation \/ PopupFederationEnded
    \/ ChooseRecoveryMethod \/ PersonalRecovery \/ PersonalRecoverySuccess
    \/ RecoveryWalletOptions \/ RecoveryWalletTransfer \/ RecoveryDeviceSelection
    \/ RecoveryNewWallet \/ SelectRecoveryFile \/ SelectRecoveryFileSuccess
    \/ SelectRecoveryFileFailure \/ CompleteSocialRecovery \/ CancelSocialRecovery
    \/ SocialRecoverySuccess \/ SocialRecoveryFailure \/ DeviceIsLocked
    \/ LockScreen \/ ResetPinStart \/ ResetPin \/ FeatureLockScreen \/ SetPin
    \/ CreatedPin \/ PinAccess \/ CreatePinInstructions \/ ChooseBackupMethod
    \/ StartPersonalBackup \/ RecoveryWords \/ Settings \/ DeveloperSettings
    \/ FediModSettings \/ AddFediMod \/ BugReport \/ StartSocialBackup
    \/ RecordBackupVideo \/ SocialBackupProcessing \/ CompleteSocialBackup
    \/ StartRecoveryAssist \/ ConfirmRecoveryAssist \/ ScanSocialRecoveryCode
    \/ CompleteRecoveryAssist \/ Send \/ SendOfflineAmount \/ ConfirmSendEcash
    \/ SendOfflineQr \/ SendOnChainAmount \/ ConfirmSendOnChain \/ ConfirmSendLightning
    \/ ReceiveLightning \/ BitcoinRequest \/ ConfirmReceiveOffline
    \/ ConfirmReceiveCashu \/ StableBalanceIntro \/ StabilityHome \/ StabilityDeposit
    \/ StabilityWithdraw \/ StabilityConfirmDeposit \/ StabilityConfirmWithdraw
    \/ StabilityInitiated \/ ChatsList \/ ChatScreen \/ NewMessage \/ CreateGroup
    \/ ChatUserConversation \/ ChatRoomConversation \/ ChatWallet
    \/ ConfirmSendChatPayment \/ RoomSettings \/ EditGroup \/ ChatRoomMembers
    \/ ChatRoomInvite \/ ScanMemberCode \/ ConfirmJoinPublicGroup \/ TabsNavigator

Spec == Init /\ [][Next]_vars

-----------------------------------------------------------------------------
TypeOK ==
    /\ visit \in Visits /\ facts \in Facts
    /\ stack \in Seq(Routes(facts)) /\ stack # <<>>
    /\ \A k \in calls : {k.named, k.mounted} \subseteq BOOLEAN /\ k.active \in Feds \cup {"none"}

\* What was paid or deposited is not asked for again: its confirmation is not left
\* below what came after it, where "back" would show it.  It is, if something else
\* was opened while the payment was awaited (a link, another call): replace takes
\* the place of whatever is focused.
PaidIsNotAsked ==
    ~visit.links /\ visit.calls = 1 /\ visit.ended = {} => facts.paid \cap ToSet(stack) = {}

\* No PIN without a backup of the seed, by which alone it can be reset: through
\* settings, backups, resets of the PIN and restarts in any order.
PinIsBackedUp == facts.pin \/ Has("SetPin") => facts.backedUp

\* While the app is locked the stack has nothing but the ways to unlock it, the
\* lock of the device and the recovery that was left off.
LockedIsShut ==
    ~IsUnlocked(facts, "app") =>
        ToSet(stack) \subseteq Locking \cup {"LockedDevice", "PersonalRecoverySuccess",
                                           "RecoveryWalletOptions", "RecoveryWalletTransfer",
                                           "RecoveryDeviceSelection", "RecoveryNewWallet",
                                           "CompleteSocialRecovery"}
                            \cup (IF facts.cancelled THEN {"Splash", "Eula"} ELSE {})

=============================================================================
