------------------------------ MODULE WebPages ------------------------------
(***************************************************************************)
(* The pages of the web app: the router, the gates that redirect, and the  *)
(* component each page shows, with the local state that is lost when       *)
(* another component takes its place.  React commits the tree as a whole:  *)
(* a step is what a handler does to the state, and then the effects of the *)
(* commit.  Handlers go on after what they await whether their component   *)
(* is still there or not: what they push, they push.  One action per       *)
(* component, with its name; a visit is a session on some of the pages.    *)
(***************************************************************************)
EXTENDS Naturals, FiniteSets

CONSTANTS
    Feds,       \* the federations
    Payments,   \* invoices that are paid
    Visits      \* the sessions: what they visit and start from, see Visit

VARIABLES
    visit,      \* the session
    app         \* the page, the tree below it, what it decides by, see App

vars == <<visit, app>>

None == "none"
Home == {"/", "/send", "/request"}
Onboardings == {"/onboarding", "/onboarding/welcome", "/onboarding/join",
    "/onboarding/recover", "/onboarding/recover/personal",
    "/onboarding/recover/social", "/onboarding/username", "/onboarding/image",
    "/onboarding/complete"}
Chats == {"/chat", "/chat/new", "/chat/new/room", "/chat/user", "/chat/room"}
Backups == {"/settings/backup", "/settings/backup/personal", "/settings/backup/social"}
Others == {"/transactions", "/bug-report", "/settings", "/settings/language",
    "/settings/currency", "/settings/edit-profile", "/settings/developer",
    "/settings/recover", "/settings/recover/personal"}
Pages == Home \cup Onboardings \cup Chats \cup Backups \cup Others

\* redux and the bridge, as far as pages look at them; the last are ghosts.
Facts == [
    named : BOOLEAN,            \* selectHasSetMatrixDisplayName
    legacy : BOOLEAN,           \* there is an authenticatedMember of the old chat
    recovering : BOOLEAN,       \* socialRecoveryQr
    joined : SUBSET Feds,
    active : Feds \cup {None},
    ended : SUBSET Feds,        \* popup federations that have ended
    balance : [Feds -> {"none", "little", "much"}],    \* below 1, 100 sats, or not
    room : BOOLEAN,             \* there is a direct room with the user of /chat/user
    backedUp : BOOLEAN,         \* hasPerformedPersonalBackup
    backup : [of : Feds \cup {None}, video : Feds \cup {None}],    \* the recovery file
    panicked : BOOLEAN,
    paid : SUBSET Payments,     \* invoices that were paid
    agreed : BOOLEAN,           \* to leave, when warned
    lost : BOOLEAN,             \* ecash went from the screen before it was said to be sent
    offered : BOOLEAN,          \* an image was offered since the name was submitted
    misled : BOOLEAN,           \* "you have already joined" was said of a first join
    forfeited : BOOLEAN]        \* a federation with money was left from the settings

\* What the component shown remembers: the step it is at, what it is about, a file it
\* has, whether it awaits something, and whether that is done, failed, or locks it.
Local == [
    stage : {"start", "confirm", "pay", "offline", "generating", "shown", "ticked",
             "preview", "terms", "leaving", "words", "record", "upload", "download",
             "settings", "members", "invite"},
    about : Feds \cup Payments \cup {None, "withdraw", "room"},
    file : Feds \cup {None},
    busy : BOOLEAN, done : BOOLEAN, failed : BOOLEAN, locked : BOOLEAN]
Fresh == [stage |-> "start", about |-> None, file |-> None,
          busy |-> FALSE, done |-> FALSE, failed |-> FALSE, locked |-> FALSE]

NotGiven == [to |-> None, what |-> None]

-----------------------------------------------------------------------------
\* What is shown.  The gates of FediBridgeInitializer come first, then Template's.
FediBridgeInitializer(a, otherwise) ==
    IF a.facts.panicked THEN "error"
    ELSE IF a.facts.recovering /\ a.page # "/onboarding/recover/social" THEN "toRecovery"
    ELSE IF ~a.facts.named /\ ~a.facts.legacy /\ a.page \notin Onboardings THEN "toOnboarding"
    ELSE otherwise
Template(a, page) == IF a.facts.active \in a.facts.ended THEN "PopupFederationOver" ELSE page

HomePage(a) == IF a.facts.joined = {} THEN "PublicFederations" ELSE "BitcoinWallet"
ChatPage(a) ==
    IF a.facts.named THEN a.page
    ELSE IF a.facts.legacy THEN "UpgradeChat" ELSE "ChatNeedRegistration"
Onboarding(a) == IF a.page = "/onboarding/welcome" THEN "/onboarding" ELSE a.page

Shown(a) ==
    FediBridgeInitializer(a, Template(a,
        CASE a.page \in Home -> HomePage(a)
          [] a.page \in Chats -> ChatPage(a)
          [] a.page \in Onboardings -> Onboarding(a)
          [] OTHER -> a.page))

\* useNavVisibility: where there are the links of Navigation and FederationSelector;
\* a dialog is modal.
DesktopOnly == Backups \cup (Chats \ {"/chat", "/chat/user"}) \cup
    {"/bug-report", "/transactions", "/settings/language", "/settings/currency"}
Modal(a) ==
    \/ Shown(a) = "BitcoinWallet" /\ a.page # "/"
    \/ a.local.stage \in {"leaving", "settings", "members", "invite"}
HasNavigation(a) ==
    /\ ~Modal(a)
    /\ Shown(a) \notin {"error", "toRecovery", "toOnboarding"} /\ a.page \notin Onboardings
    /\ a.page \in DesktopOnly => visit.desktop /\ Shown(a) # "PopupFederationOver"

\* The router's pathname: one page serves all of onboarding, one all chats.
Pathname(page) ==
    CASE page \in Onboardings -> "/onboarding/[[...step]]"
      [] page \in Chats -> "/chat/[[...path]]"
      [] OTHER -> page

\* Where what is shown replaces the page by: Redirect, and effects that do so.
RedirectOf(a) ==
    CASE Shown(a) = "toRecovery" -> "/onboarding/recover/social"
      [] Shown(a) = "toOnboarding" -> "/onboarding"
      [] /\ Shown(a) = "/onboarding/username"
         /\ a.facts.named /\ ~a.local.busy /\ ~a.local.done ->
            "/onboarding/complete"
      [] Shown(a) = "/settings/edit-profile" /\ ~a.facts.named -> "/onboarding/username"
      [] Shown(a) = "/chat/user" /\ a.facts.room -> "/chat/room"
      [] OTHER -> None

\* Nothing else is asked before ecash is lost: it is being generated, or is shown and
\* not yet said to be sent (useWarnBeforeUnload of SendOffline).
\* Mutant: only once it is shown.
WarnedWhenShown(a) == Shown(a) = "BitcoinWallet" /\ a.page = "/send" /\ a.local.stage = "shown"
Warned(a) ==
    /\ Shown(a) = "BitcoinWallet" /\ a.page = "/send"
    /\ a.local.stage \in {"generating", "shown"}

-----------------------------------------------------------------------------
App == [
    page : Pages,
    going : Pages \cup {None},      \* the route change that is in flight
    given : [to : {None, "/send", "/request", "/onboarding/join"},    \* routeState, and
             what : Feds \cup Payments \cup {None, "withdraw"}],      \* for which route
    local : Local,
    calls : SUBSET [call : STRING, about : Feds \cup Payments \cup {None, "room"},
                    file : Feds \cup {None}, joined : SUBSET Feds, named : BOOLEAN,
                    mounted : {"self", "parent", "none"}],
    camera : {"off", "on", "leaked"},
    facts : Facts]

\* A call of the component shown, which closes over what is seen when it is made.
Call(a, c, about) ==
    [call |-> c, about |-> about, file |-> a.local.file, joined |-> a.facts.joined,
     named |-> a.facts.named, mounted |-> "self"]

\* Router.push and replace: the latest one wins, unless the user, who is warned,
\* refuses it, which cancels the one before as well.
Pushes(a, to) ==
    LET pushed == [a EXCEPT !.going = to] IN
    IF Warned(a) /\ a.page # to
    THEN {[a EXCEPT !.going = None]} \cup
         (IF visit.agrees THEN {[pushed EXCEPT !.facts.agreed = TRUE]} ELSE {})
    ELSE {pushed}

\* RouteStateContext: the state is there at once, the page comes later.
PushWithState(a, to, what) ==
    {[b EXCEPT !.given = [to |-> to, what |-> what]] : b \in Pushes(a, to)}
MayPush(to) == to \in visit.pages

-----------------------------------------------------------------------------
\* The commit of t, where was is the app before it.  Another component begins afresh,
\* and so does the dialog of SendPaymentDialog that is closed and the backup of
\* another federation; what ends there stops its camera and forgets its ecash.
Changed(was, t) == Shown(t) # Shown(was)
DialogCloses(was, t) == Shown(t) = "BitcoinWallet" /\ was.page = "/send" /\ t.page # "/send"
FederationChanges(was, t) ==
    Shown(t) = "/settings/backup/social" /\ t.facts.active # was.facts.active
Reset(was, t) == Changed(was, t) \/ DialogCloses(was, t) \/ FederationChanges(was, t)

\* Whether what made a call is still there, or what it is a part of.
PartIsGone(was, t, c) ==
    \/ /\ c.call = "generateEcash"
       /\ DialogCloses(was, t) \/ t.local.stage = "pay"
    \/ /\ Shown(t) = "/settings/backup/social" /\ c \in was.calls
       /\ FederationChanges(was, t) \/ t.local.stage # was.local.stage
       /\ c.call \in {"getUserMedia", "uploadBackupFile", "readBridgeFile"}
Mounted(was, t, c) ==
    IF Changed(was, t) /\ c \in was.calls THEN "none"
    ELSE IF PartIsGone(was, t, c) /\ c.mounted = "self" THEN "parent" ELSE c.mounted

Settled(was, t) ==
    [t EXCEPT
        !.local = IF Reset(was, t) THEN Fresh ELSE @,
        !.calls = {[c EXCEPT !.mounted = Mounted(was, t, c)] : c \in @},
        !.camera = IF @ = "on" /\ was.local.stage = "record"
                      /\ (Reset(was, t) \/ t.local.stage # "record") THEN "off" ELSE @,
        !.facts.lost = @ \/ (was.local.stage = "shown" /\ (Reset(was, t) \/ t.local.stage = "pay")),
        !.facts.offered = @ \/ Shown(t) = "/onboarding/image"]

\* The effects that call: an invite that was given is previewed, also when the list of
\* federations changes; a payment that was given is decoded; the video is uploaded
\* to the federation that becomes active.
PreviewsGiven(was, t) ==
    /\ Shown(t) = "/onboarding/join" /\ t.given.to = "/onboarding/join"
    /\ Changed(was, t) \/ t.facts.joined # was.facts.joined
DecodesGiven(was, t) ==
    /\ Shown(t) = "BitcoinWallet" /\ t.page = "/send" /\ t.given.to = "/send"
    /\ \/ Changed(was, t) \/ was.page # "/send"
       \/ was.given # t.given \/ was.facts.active # t.facts.active
UploadsAgain(was, t) ==
    /\ FederationChanges(was, t) /\ ~Changed(was, t) /\ t.facts.active # None
    /\ was.local.stage = "upload" /\ ~was.local.failed

When(condition, calls) == IF condition THEN calls ELSE {}
Effects(was, t) ==
    When(PreviewsGiven(was, t), {Call(t, "previewInvite", t.given.what)}) \cup
    When(DecodesGiven(was, t), {Call(t, "decodeInvoice", t.given.what)}) \cup
    When(UploadsAgain(was, t),
         {[Call(t, "uploadBackupFile", t.facts.active) EXCEPT !.file = was.local.file,
                                                             !.mounted = "none"]})

\* RouteStateContext: what was given goes with the first other pathname that is not the
\* one it was given for (a page of onboarding is never "/onboarding/join").
\* Mutant: it stays.
GivenStays(was, t) == t.given
GivenAt(was, t) ==
    IF Pathname(t.page) # Pathname(was.page) /\ t.given.to # Pathname(t.page)
    THEN NotGiven ELSE t.given

Redirects(was, t) ==
    LET to == RedirectOf(t) IN
    IF /\ to # None
       /\ Changed(was, t) \/ to # RedirectOf(was) \/ Pathname(t.page) # Pathname(was.page)
    THEN to ELSE t.going

Committed(was, t) ==
    LET s == Settled(was, t) IN
    [s EXCEPT !.calls = @ \cup Effects(was, t),
              !.local.busy = @ \/ PreviewsGiven(was, t), !.given = GivenAt(was, t),
              !.going = Redirects(was, s)]

Step(ts) == \E t \in ts : app' = Committed(app, t) /\ UNCHANGED visit

-----------------------------------------------------------------------------
\* What the user does, on the component that is shown; a call of it, and what its
\* handler does after the call, or when it fails.
MayAct ==
    /\ visit.user \in {"patient", "busy"} => app.going = None
    /\ visit.user = "patient" => app.calls = {}
At(shown) == MayAct /\ Shown(app) = shown
On(shown, stage) == At(shown) /\ app.local.stage = stage

Goes(to) == Step(UNION {Pushes(app, p) : p \in to \cap visit.pages})
Links(shown, to) == At(shown) /\ Goes(to)
Remembers(local) == Step({[app EXCEPT !.local = local]})
TurnsTo(stage) == Remembers([app.local EXCEPT !.stage = stage])

MayCall(c) == \A k \in app.calls : k.mounted = "self" => k.call # c
Calling(a, c, about) == [a EXCEPT !.calls = @ \cup {Call(a, c, about)}]
Awaits(c, about, local) ==
    /\ MayCall(c) /\ Cardinality(app.calls) < visit.calls
    /\ Step({[Calling(app, c, about) EXCEPT !.local = local]})
Busy == [app.local EXCEPT !.busy = TRUE]

Ends(c, After(_, _)) ==
    \E k \in app.calls : k.call = c /\ Step(After(k, [app EXCEPT !.calls = @ \ {k}]))
Recalls(k, t, local) == IF k.mounted = "self" THEN [t EXCEPT !.local = local] ELSE t
Unbusy(k, t) == Recalls(k, t, [t.local EXCEPT !.busy = FALSE])
ThenPushes(c, to) == Ends(c, LAMBDA k, t : Pushes(Unbusy(k, t), to))

\* Calls that fail say so in a toast, or where their component has a place for it.
Fails ==
    \E k \in {c \in app.calls : c.call # "setTimeout"} :
        Step({Recalls(k, [app EXCEPT !.calls = @ \ {k}],
                [app.local EXCEPT
                    !.busy = FALSE,
                    !.stage = CASE k.call = "generateEcash" -> "offline"
                                [] k.call = "leaveFederation" -> "start"
                                [] OTHER -> @,
                    !.failed = @ \/ k.call \in {"handleOmniSend", "uploadBackupFile",
                                                "readBridgeFile", "getUserMedia"}])})

-----------------------------------------------------------------------------
\* Around the pages: links, the federation that is active, the browser's history.
Arrive ==
    /\ app.going # None
    /\ Step({[app EXCEPT !.page = app.going, !.going = None]})
Back == MayAct /\ Step(UNION {Pushes(app, p) : p \in visit.history})
Navigation == MayAct /\ HasNavigation(app) /\ Goes({"/", "/chat", "/settings"})
FederationSelector ==
    /\ MayAct /\ HasNavigation(app) /\ app.facts.active # None
    /\ \/ \E f \in app.facts.joined : Step({[app EXCEPT !.facts.active = f]})
       \/ Goes({"/onboarding/join"})

\* leaveFederation: another federation becomes active in place of the one that is left.
Left(a, f) ==
    LET rest == a.facts.joined \ {f} IN
    {[a EXCEPT !.facts.joined = rest, !.facts.balance[f] = "none", !.facts.active = g] :
        g \in CASE a.facts.active # f -> {a.facts.active}
               [] rest = {} -> {None}
               [] OTHER -> rest}

\* A popup federation ends, whatever is shown; all that is left is to leave it.
PopupEnds ==
    \E f \in visit.popups \ app.facts.ended :
        Step({[app EXCEPT !.facts.ended = @ \cup {f}]})
PopupFederationOver ==
    /\ At("PopupFederationOver") /\ ~app.local.busy
    /\ Awaits("leaveEndedFederation", app.facts.active, Busy)
PopupFederationIsLeft ==
    Ends("leaveEndedFederation", LAMBDA k, t : Left(Unbusy(k, t), k.about))

Receives ==
    /\ visit.receives /\ app.facts.active # None
    /\ app.facts.balance[app.facts.active] # "much"
    /\ Step({[app EXCEPT !.facts.balance[app.facts.active] = "much"]})
Panic == visit.panics /\ ~app.facts.panicked /\ Step({[app EXCEPT !.facts.panicked = TRUE]})

-----------------------------------------------------------------------------
\* The home page.
PublicFederations ==
    /\ At("PublicFederations")
    /\ \/ Goes({"/onboarding/join"})
       \/ /\ MayPush("/onboarding/join")
          /\ \E f \in Feds : Step(PushWithState(app, "/onboarding/join", f))

BitcoinWallet ==
    /\ At("BitcoinWallet") /\ app.page = "/"
    /\ Goes(IF app.facts.balance[app.facts.active] = "none" THEN {"/request", "/transactions"}
            ELSE {"/request", "/transactions", "/send"})
Dialog ==
    /\ At("BitcoinWallet") /\ app.page # "/" /\ ~app.local.locked
    /\ Step(Pushes(app, "/"))

\* OmniInput of the dialog that sends and of the page that joins: what is read is what
\* they expect, or it is something else, which OmniConfirmation asks about.
OffersTo(d) ==
    CASE d \in Payments -> "/send" [] d = "withdraw" -> "/request"
      [] d = "room" -> "/chat/room" [] OTHER -> "/onboarding/join"
Unexpected(d) ==
    MayPush(OffersTo(d)) /\ Remembers([app.local EXCEPT !.stage = "confirm", !.about = d])
OmniInput ==
    \/ /\ On("BitcoinWallet", "start") /\ app.page = "/send"
       /\ \/ \E p \in visit.payments : Awaits("decodeInvoice", p, app.local)
          \/ \E d \in Feds \cup {"withdraw", "room"} : Unexpected(d)
    \/ /\ On("/onboarding/join", "start") /\ ~app.local.busy
       /\ \E d \in visit.payments \cup {"withdraw", "room"} : Unexpected(d)
DecodesInvoice ==
    Ends("decodeInvoice", LAMBDA k, t :
        {Recalls(k, t, [t.local EXCEPT !.stage = "pay", !.about = k.about])})
\* Without a federation there is nothing to go on to but an invite or a room.
OmniConfirmation ==
    \/ /\ On("BitcoinWallet", "confirm") \/ On("/onboarding/join", "confirm")
       /\ ~app.local.busy
       /\ \/ Remembers([app.local EXCEPT !.stage = "start", !.about = None])
          \/ /\ app.local.about \in Feds \/ app.facts.active # None
             /\ app.local.about # "room"
             /\ Step(PushWithState(app, OffersTo(app.local.about), app.local.about))
          \/ app.local.about = "room" /\ Awaits("joinPublicGroup", "room", Busy)
    \/ ThenPushes("joinPublicGroup", "/chat/room")

\* handleOmniSend: a state that says the payment is done, and closes after a while.
SendPaymentDialog ==
    \/ /\ On("BitcoinWallet", "pay") /\ app.page = "/send"
       /\ ~app.local.busy /\ ~app.local.done /\ ~app.local.failed
       /\ Awaits("handleOmniSend", app.local.about, Busy)
    \/ Ends("handleOmniSend", LAMBDA k, t :
        {Calling([Recalls(k, t, [t.local EXCEPT !.busy = FALSE, !.done = TRUE])
                    EXCEPT !.facts.paid = @ \cup {k.about}], "setTimeout", None)})
Timeout == Ends("setTimeout", LAMBDA k, t : Pushes(t, "/"))

\* Ecash is generated, shown, said to be sent.  onEcashGenerated locks the dialog,
\* which is still there when what shows the ecash has gone.
SendOffline ==
    \/ /\ On("BitcoinWallet", "start") /\ app.page = "/send" /\ TurnsTo("offline")
    \/ /\ On("BitcoinWallet", "offline")
       /\ Awaits("generateEcash", None, [app.local EXCEPT !.stage = "generating"])
    \/ On("BitcoinWallet", "shown") /\ TurnsTo("ticked")
    \/ On("BitcoinWallet", "ticked") /\ Step(Pushes(app, "/"))
    \/ Ends("generateEcash", LAMBDA k, t :
        {IF k.mounted = "self"
         THEN [t EXCEPT !.local.stage = "shown", !.local.locked = TRUE]
         ELSE [t EXCEPT !.local.locked = @ \/ k.mounted = "parent", !.facts.lost = TRUE]})

-----------------------------------------------------------------------------
\* Onboarding.
OnboardingHome == Links("/onboarding", {"/onboarding/username", "/onboarding/recover"})
WalletRecovery ==
    Links("/onboarding/recover", {"/onboarding/welcome", "/onboarding/recover/personal",
                                  "/onboarding/recover/social"})
OnboardingComplete == Links("/onboarding/complete", {"/chat"})

\* The name is submitted; hasSubmitted keeps the redirect from overriding the push.
EnterDisplayName ==
    \/ /\ At("/onboarding/username") /\ ~app.local.busy
       /\ ~app.facts.named \/ app.local.done
       /\ Awaits("setMatrixDisplayName", None, [Busy EXCEPT !.done = TRUE])
    \/ Ends("setMatrixDisplayName", LAMBDA k, t :
        Pushes([Unbusy(k, t) EXCEPT !.facts.named = TRUE, !.facts.offered = FALSE],
               "/onboarding/image"))
UploadAvatarImage ==
    \/ /\ At("/onboarding/image") /\ ~app.local.busy /\ ~app.local.done
       /\ Awaits("uploadAndSetMatrixAvatarUrl", None, Busy)
    \/ Ends("uploadAndSetMatrixAvatarUrl", LAMBDA k, t :
        {Recalls(k, t, [t.local EXCEPT !.busy = FALSE, !.done = TRUE])})
    \/ At("/onboarding/image") /\ ~app.local.busy /\ Step(Pushes(app, "/onboarding/complete"))

\* JoinFederation: previewInvite, then what the preview allows.
Joins(local) ==
    Awaits("joinFederation", app.local.about, [local EXCEPT !.busy = TRUE])
JoinFederation ==
    \/ ~visit.desktop /\ Links("/onboarding/join", {"/onboarding/welcome"})
    \/ /\ On("/onboarding/join", "start") /\ ~app.local.busy
       /\ \E f \in Feds : Awaits("previewInvite", f, Busy)
    \/ /\ On("/onboarding/join", "preview") /\ ~app.local.busy
       /\ CASE app.local.about \in visit.unsupported \cup app.facts.ended -> Remembers(Fresh)
            [] app.local.about \in visit.terms -> TurnsTo("terms")
            [] OTHER -> Joins(app.local)
PreviewsInvite ==
    Ends("previewInvite", LAMBDA k, t :
        IF k.about \notin k.joined
        THEN {Recalls(k, t, [t.local EXCEPT !.busy = FALSE, !.stage = "preview",
                                            !.about = k.about])}
        ELSE Pushes([Unbusy(k, t) EXCEPT !.facts.active = k.about,
                        !.facts.misled = @ \/ t.given.what = k.about], "/"))
Joined ==
    Ends("joinFederation", LAMBDA k, t :
        Pushes([Recalls(k, t, [t.local EXCEPT !.busy = t.local.stage = "preview"])
                    EXCEPT !.facts.joined = @ \cup {k.about}, !.facts.active = k.about],
               IF k.named THEN "/onboarding/complete" ELSE "/onboarding/username"))

\* The terms are loaded, or said to fail to; then they are accepted or declined.
FederationTermsPreview ==
    /\ Shown(app) = "/onboarding/join" /\ app.local.stage = "terms" /\ ~app.local.done
    /\ Remembers([app.local EXCEPT !.done = TRUE])
TermsOfService ==
    /\ On("/onboarding/join", "terms") /\ app.local.done /\ ~app.local.busy
    /\ Joins(app.local) \/ Goes({"/onboarding/welcome"})

\* Recovery from words, in onboarding and in settings; the name is not looked up.
PersonalRecovery ==
    \/ Links("/onboarding/recover/personal", {"/onboarding/recover"})
    \/ /\ At("/onboarding/recover/personal") /\ ~app.local.busy
       /\ Awaits("recoverFromMnemonic", None, Busy)
    \/ ThenPushes("recoverFromMnemonic", "/")
PersonalRecoverPage ==
    /\ At("/settings/recover/personal") /\ Awaits("recoverFromMnemonic", None, Busy)

SocialRecovery ==
    \/ Links("/onboarding/recover/social", {"/onboarding/recover"})
    \/ /\ At("/onboarding/recover/social") /\ ~app.local.busy
       /\ IF ~app.facts.recovering THEN Awaits("validateRecoveryFile", None, Busy)
          ELSE Awaits("completeSocialRecovery", None, Busy)
               \/ Awaits("cancelSocialRecovery", None, app.local)
    \/ Ends("validateRecoveryFile", LAMBDA k, t :
        {[Unbusy(k, t) EXCEPT !.facts.recovering = TRUE]})
    \/ Ends("completeSocialRecovery", LAMBDA k, t :
        Pushes([Unbusy(k, t) EXCEPT !.facts.recovering = FALSE], "/"))
    \/ Ends("cancelSocialRecovery", LAMBDA k, t :
        Pushes([t EXCEPT !.facts.recovering = FALSE], "/onboarding"))

-----------------------------------------------------------------------------
\* Settings.  What is left is looked at when the dialog opens and when it is confirmed.
AdminPage ==
    \/ Links("/settings", {"/settings/language", "/settings/currency", "/bug-report",
                           "/settings/backup/personal"})
    \/ app.facts.named /\ Links("/settings", {"/settings/edit-profile"})
    \/ /\ At("/settings") /\ ~Modal(app) /\ "/settings/backup/social" \in visit.pages
       /\ \E f \in app.facts.joined :
            Step(Pushes([app EXCEPT !.facts.active = f], "/settings/backup/social"))
    \/ /\ At("/settings") /\ ~Modal(app)
       /\ \E f \in app.facts.joined :
            Remembers([app.local EXCEPT !.stage = "leaving", !.about = f])
\* Mutant: what may be left was decided when the dialog opened, with a warning alone.
CanLeaveUnchecked(a) == a.local.about # None
CanLeave(a) == a.facts.balance[a.local.about] # "much"
LeaveFederation ==
    \/ /\ On("/settings", "leaving") /\ ~app.local.busy
       /\ \/ Remembers(Fresh)
          \/ ~CanLeave(app) /\ Remembers(Fresh)
          \/ CanLeave(app) /\ MayCall("leaveFederation") /\ Cardinality(app.calls) < visit.calls
             /\ Step({[Calling(app, "leaveFederation", app.local.about)
                         EXCEPT !.local = Busy, !.facts.forfeited =
                             @ \/ app.facts.balance[app.local.about] = "much"]})
    \/ Ends("leaveFederation", LAMBDA k, t : Left(Recalls(k, t, Fresh), k.about))

EditProfile ==
    \/ Links("/settings/edit-profile", {"/settings"})
    \/ At("/settings/edit-profile") /\ ~app.local.busy /\ Awaits("handleDisplayNameChange", None, Busy)
    \/ Ends("handleDisplayNameChange", LAMBDA k, t : {Unbusy(k, t)})
LanguageSettings == Links("/settings/language", {"/settings"})
AppSettings == Links("/settings/currency", {"/settings"})
TransactionsPage == Links("/transactions", {"/"})
RecoverPage == Links("/settings/recover", {"/settings/recover/personal"})

BugReport ==
    \/ Links("/bug-report", {"/"})
    \/ /\ At("/bug-report") /\ ~app.local.busy /\ ~app.local.done
       /\ Awaits("submitBugReport", None, Busy)
    \/ Ends("submitBugReport", LAMBDA k, t :
        {Calling(Recalls(k, t, [t.local EXCEPT !.done = TRUE]), "setTimeout", None)})

\* Backups: of the words, and of the file and video of the federation that is active.
BackupPage ==
    Links("/settings/backup", {"/settings", "/settings/backup/personal",
                              "/settings/backup/social"})
PersonalBackupPage ==
    \/ Links("/settings/backup/personal", {"/settings/backup"})
    \/ On("/settings/backup/personal", "start") /\ ~app.facts.backedUp /\ TurnsTo("words")
    \/ /\ At("/settings/backup/personal")
       /\ app.facts.backedUp \/ app.local.stage = "words"
       /\ Step(Pushes([app EXCEPT !.facts.backedUp = TRUE], "/"))

SocialBackup == "/settings/backup/social"
SocialBackupIntro ==
    \/ Links(SocialBackup, {"/settings/backup"}) /\ app.local.stage = "start"
    \/ On(SocialBackup, "start")
       /\ Awaits("getUserMedia", None, [app.local EXCEPT !.stage = "record"])
\* The camera comes, the video is recorded, recorded again or confirmed.
SocialBackupRecord ==
    \/ Ends("getUserMedia", LAMBDA k, t :
        {[t EXCEPT !.camera = IF k.mounted = "self" /\ @ # "leaked" THEN "on" ELSE "leaked"]})
    \/ /\ On(SocialBackup, "record") /\ app.camera # "off" /\ app.local.file = None
       /\ app.facts.active # None
       /\ Remembers([app.local EXCEPT !.file = app.facts.active])
    \/ /\ On(SocialBackup, "record") /\ app.local.file # None
       /\ \/ Awaits("getUserMedia", None, [app.local EXCEPT !.file = None])
          \/ Step({Calling([app EXCEPT !.local.stage = "upload"],
                           "uploadBackupFile", app.facts.active)})
\* The bridge makes a file of the video, which is then read.
SocialBackupUpload ==
    \/ Ends("uploadBackupFile", LAMBDA k, t :
        LET u == [t EXCEPT !.facts.backup = [of |-> k.about, video |-> k.file]] IN
        {[u EXCEPT !.calls = @ \cup {[k EXCEPT !.call = "readBridgeFile"]}]})
    \/ Ends("readBridgeFile", LAMBDA k, t :
        {Recalls(k, t, [t.local EXCEPT !.stage = "download",
                            !.about = t.facts.backup.of, !.file = t.facts.backup.video])})
    \/ /\ On(SocialBackup, "upload") /\ app.local.failed
       /\ Awaits("uploadBackupFile", app.facts.active, [app.local EXCEPT !.failed = FALSE])
SocialBackupDownload == On(SocialBackup, "download") /\ Step(Pushes(app, "/"))

-----------------------------------------------------------------------------
\* Chats.
ChatNeedRegistration ==
    \/ Links("ChatNeedRegistration", {"/onboarding/username"})
    \/ Links("UpgradeChat", {"/onboarding/username"})
ChatBlock ==
    /\ Shown(app) = "/chat" \/ (Shown(app) \in Chats /\ visit.desktop)
    /\ MayAct /\ ~Modal(app) /\ Goes({"/chat/room", "/chat/new"})
ChatUserSearch == Links("/chat/new", {"/chat/user", "/chat/room", "/chat/new/room"})
ChatCreateRoom ==
    \/ Links("/chat/new/room", {"/chat/new"})
    \/ At("/chat/new/room") /\ ~app.local.busy /\ Awaits("createMatrixRoom", None, Busy)
    \/ ThenPushes("createMatrixRoom", "/chat/room")
\* The first message makes the room, which is when the page redirects to it as well.
ChatUserConversation ==
    \/ /\ At("/chat/user") /\ ~app.local.busy
       /\ Awaits("sendMatrixDirectMessage", None, Busy)
    \/ Ends("sendMatrixDirectMessage", LAMBDA k, t :
        Pushes([Unbusy(k, t) EXCEPT !.facts.room = TRUE], "/chat/room"))
ChatRoomConversation ==
    /\ At("/chat/room") /\ app.local.stage = "start"
    /\ \/ TurnsTo("settings")
       \/ ~app.local.busy /\ Awaits("sendMatrixMessage", None, Busy)
SendsMessage == Ends("sendMatrixMessage", LAMBDA k, t : {Unbusy(k, t)})
\* The pages of the dialog; the room is left, renamed, its members are shown, invited.
ChatRoomSettingsDialog ==
    /\ At("/chat/room")
    /\ \/ app.local.stage \in {"settings", "members", "invite"} /\ TurnsTo("start")
       \/ /\ app.local.stage = "settings"
          /\ \/ TurnsTo("members") \/ TurnsTo("invite")
             \/ Awaits("leaveMatrixRoom", None, app.local)
             \/ Awaits("setMatrixRoomName", None, app.local)
ChatRoomMembersList == On("/chat/room", "members") /\ Goes({"/chat/user"})
ChatRoomInviteUser ==
    \/ On("/chat/room", "invite") /\ Awaits("inviteUserToMatrixRoom", None, app.local)
    \/ Ends("inviteUserToMatrixRoom", LAMBDA k, t : {t})
RoomIsLeft == ThenPushes("leaveMatrixRoom", "/chat")
RoomIsRenamed ==
    Ends("setMatrixRoomName", LAMBDA k, t : {Recalls(k, t, [t.local EXCEPT !.stage = "start"])})

-----------------------------------------------------------------------------
\* A session: the pages whose links are followed, those of the browser's history,
\* whether the user waits for calls and pages, leaves when warned, on which screen,
\* what federations are like, what happens meanwhile, how many calls are awaited at
\* once, what may be paid, and what it starts from.
Visit(v) ==
    /\ DOMAIN v = {"pages", "history", "user", "agrees", "desktop", "unsupported", "terms",
                   "popups", "receives", "panics", "calls", "payments", "page", "facts"}
    /\ v.pages \cup v.history \cup {v.page} \subseteq Pages
    /\ v.user \in {"patient", "busy", "hurried"}
    /\ {v.agrees, v.desktop, v.receives, v.panics} \subseteq BOOLEAN
    /\ v.unsupported \cup v.terms \cup v.popups \subseteq Feds
    /\ v.calls \in Nat /\ v.payments \subseteq Payments /\ v.facts \in Facts
WebPagesAssumption == \A v \in Visits : Visit(v)

Init ==
    /\ visit \in Visits
    /\ LET loading == [page |-> visit.page, going |-> None, given |-> NotGiven, local |-> Fresh,
                       calls |-> {}, camera |-> "off",
                       facts |-> [visit.facts EXCEPT !.panicked = TRUE]] IN
       app = Committed(loading, [loading EXCEPT !.facts = visit.facts])

Next ==
    \/ Arrive \/ Back \/ Fails \/ Navigation \/ FederationSelector \/ PopupEnds
    \/ PopupFederationOver \/ PopupFederationIsLeft \/ Receives \/ Panic
    \/ PublicFederations \/ BitcoinWallet \/ Dialog \/ OmniInput \/ DecodesInvoice
    \/ OmniConfirmation \/ SendPaymentDialog \/ Timeout \/ SendOffline
    \/ OnboardingHome \/ WalletRecovery \/ OnboardingComplete \/ EnterDisplayName
    \/ UploadAvatarImage \/ JoinFederation \/ PreviewsInvite \/ Joined
    \/ FederationTermsPreview \/ TermsOfService \/ PersonalRecovery
    \/ PersonalRecoverPage \/ SocialRecovery \/ AdminPage \/ LeaveFederation
    \/ EditProfile \/ LanguageSettings \/ AppSettings \/ TransactionsPage
    \/ RecoverPage \/ BugReport \/ BackupPage \/ PersonalBackupPage
    \/ SocialBackupIntro \/ SocialBackupRecord \/ SocialBackupUpload
    \/ SocialBackupDownload \/ ChatNeedRegistration \/ ChatBlock \/ ChatUserSearch
    \/ ChatCreateRoom \/ ChatUserConversation \/ ChatRoomConversation
    \/ SendsMessage \/ ChatRoomSettingsDialog \/ ChatRoomMembersList
    \/ ChatRoomInviteUser \/ RoomIsLeft \/ RoomIsRenamed

Spec == Init /\ [][Next]_vars

-----------------------------------------------------------------------------
TypeOK == visit \in Visits /\ app \in App

\* A user who waits for what is called and for the page that comes.
Patient == visit.user = "patient"

\* A user who waits is told of the payment that was made: what is said to be sent was.
\* One who closes the dialog while it pays is not (SendPaymentDialog resets only when
\* it closes).
SaysWhatWasSent ==
    Patient /\ app.page = "/send" /\ app.local.stage = "pay" /\ app.local.done =>
        app.local.about \in app.facts.paid

\* Ecash that is made does not go from the screen before it is said to be sent, unless
\* the user, who is warned, agrees, or the whole app has something else to show.  (An
\* invoice that is still read when the ecash is asked for takes its place.)
EcashStaysShown ==
    visit.user # "hurried" /\ visit.calls = 1 /\ app.facts.lost =>
        app.facts.agreed \/ app.facts.panicked \/ app.facts.ended # {}

\* A join is not taken for a second one, which would take the user out of onboarding:
\* what was given to the page is not there any more when the list of federations changes.
JoinIsNotUndone == Patient => ~app.facts.misled

\* The file that is offered as the backup is that of the federation that is active, with
\* the video made for it.
DownloadIsOfActive ==
    Patient /\ Shown(app) = SocialBackup /\ app.local.stage = "download" =>
        app.local.about = app.facts.active /\ app.local.file = app.facts.active

\* What is left from the settings holds less than is allowed when it is confirmed.
LeavesNoMoney == ~app.facts.forfeited

\* The camera is on only while a video is recorded, unless the page is taken away from a
\* user who waits for it (then the stream that comes is never stopped).
CameraIsOff ==
    Patient /\ app.camera # "off" =>
        \/ Shown(app) = SocialBackup /\ app.local.stage = "record"
        \/ app.facts.panicked \/ app.facts.ended # {}

\* Who gives a name is offered an image before onboarding is complete.
ImageIsOffered ==
    app.page = "/onboarding/complete" => app.facts.offered

\* Redirects come to an end, and no gate is left that still redirects: there is no page
\* that shows nothing and goes nowhere.
RedirectsSettle == app.going = None /\ Patient => RedirectOf(app) = None
PagesAreSound ==
    /\ TypeOK /\ SaysWhatWasSent /\ EcashStaysShown /\ JoinIsNotUndone
    /\ DownloadIsOfActive /\ LeavesNoMoney /\ CameraIsOff /\ ImageIsOffered
    /\ RedirectsSettle

=============================================================================
