----------------------------- MODULE MCPayments -----------------------------
(***************************************************************************)
(* The forms and dialogs by which money is sent and received, for TLC: the *)
(* instances of AmountForm, OmniPayments, LightningRequests,               *)
(* RequestDialog, CashuMelts and ModRequests that are checked, side by     *)
(* side. One of them runs, the one that which names; they share no state.  *)
(***************************************************************************)
EXTENDS Integers, Sequences

CONSTANTS
    \* AmountForm: a screen that confirms and an overlay, of several wallets
    Active, FormWallets, Balances, Limits, Rates, OverlayRates, Unit, Group,
    SameLocale, Digits, MaxTyped, FormChanges,
    \* OmniPayments: what is asked for, and typed, in each way of paying
    PayingWallets, Balance, Asked, Typed, WalletChanges,
    \* LightningRequests and RequestDialog
    Requestable, Lnurl, OnChain, MaxInvoices,
    DialogWallets, Reopens, SlowFailures, ServicePaysEarly, MaxMade, MaxOpened,
    \* CashuMelts: a token that is decoded as a whole
    Sats, OldToken, Fees, MaxTries,
    \* ModRequests: calls made one after the other
    Invoices, ModPayments, Signatures, Links, MaxOutages

VARIABLES
    which,   \* the system that runs
    \* AmountForm
    open, limit, amount, satsShown, fiatShown, isFiat, sent, rate, balance,
    paying, changes, handledAnew,
    \* OmniPayments
    wallet, omniChanges, screen, calls, isReady, input, fees, omniPaying,
    omniSent, said, astray,
    \* LightningRequests
    requestsAmount, isLightning, generating, jobs, address, addressing,
    withdrawal, given, top, shown, made, paid,
    \* RequestDialog
    dialogOpen, opened, dialogAmount, dialogWallet, wants,
    dialogIsLightning, invoice, dialogAddress, job, cancelled, withdrawing,
    dialogGiven, received, timers, dialogMade, dialogPaid,
    \* CashuMelts
    step, quotes, fee, melted, tries, cashuShown, failed, spent, owing,
    cashuReceived,
    \* ModRequests
    at, answer, ref, modsShown, form, loading, tasks, done, gateway,
    reachable, outages

formVars == <<open, limit, amount, satsShown, fiatShown, isFiat, sent, rate,
              balance, paying, changes, handledAnew>>
omniVars == <<wallet, omniChanges, screen, calls, isReady, input, fees,
              omniPaying, omniSent, said, astray>>
requestsVars == <<requestsAmount, isLightning, generating, jobs, address,
                  addressing, withdrawal, given, top, shown, made, paid>>
dialogVars == <<dialogOpen, opened, dialogAmount, dialogWallet, wants,
                dialogIsLightning, invoice, dialogAddress, job, cancelled,
                withdrawing, dialogGiven, received, timers, dialogMade,
                dialogPaid>>
cashuVars == <<step, quotes, fee, melted, tries, cashuShown, failed, spent,
               owing, cashuReceived>>
modsVars == <<at, answer, ref, modsShown, form, loading, tasks, done, gateway,
              reachable, outages>>
all == <<which, formVars, omniVars, requestsVars, dialogVars, cashuVars,
         modsVars>>

-----------------------------------------------------------------------------
\* ConfirmSendLightning, and SendPaymentOverlay, which bounds an amount by the active
\* wallet; of several wallets.
Confirm == INSTANCE AmountForm WITH
    Screen <- "confirm", Wallets <- FormWallets, MaxChanges <- FormChanges
Overlay == INSTANCE AmountForm WITH
    Screen <- "overlay", Wallets <- FormWallets, Rates <- OverlayRates,
    MaxChanges <- FormChanges

-----------------------------------------------------------------------------
\* The input of the app: an LNURL payment, an invoice and a payment on
\* chain, of services that send the invoice they were asked for.
Flows == {"lnurl", "bolt11", "onchain"}
Pay(flow) == INSTANCE OmniPayments WITH
    Flow <- flow, Wallets <- PayingWallets, Asked <- Asked[flow],
    Amounts <- Typed[flow], OtherInvoices <- FALSE, MaxChanges <- WalletChanges,
    changes <- omniChanges, paying <- omniPaying, sent <- omniSent

-----------------------------------------------------------------------------
\* Requests of the native app, with addresses; and its LNURL withdrawals,
\* with the fairness of the bridge.
Requests == INSTANCE LightningRequests WITH
    Amounts <- Requestable, MaxMade <- MaxInvoices, amount <- requestsAmount
Withdrawal == INSTANCE LightningRequests WITH
    Amounts <- Requestable, Lnurl <- TRUE, OnChain <- FALSE, MaxMade <- MaxInvoices,
    amount <- requestsAmount

-----------------------------------------------------------------------------
\* The dialog of the web: for invoices and addresses in two wallets; opened
\* again, with late failures; for a withdrawal.
Dialog == INSTANCE RequestDialog WITH
    Amounts <- Requestable, Wallets <- DialogWallets, open <- dialogOpen,
    amount <- dialogAmount,
    wallet <- dialogWallet, isLightning <- dialogIsLightning, address <- dialogAddress,
    given <- dialogGiven, made <- dialogMade, paid <- dialogPaid
Again == INSTANCE RequestDialog WITH
    Amounts <- Requestable, Wallets <- {"first"}, Lnurl <- FALSE,
    OnChain <- FALSE, Reopens <- TRUE, SlowFailures <- TRUE,
    ServicePaysEarly <- FALSE, MaxMade <- 2, MaxOpened <- 2,
    open <- dialogOpen, amount <- dialogAmount, wallet <- dialogWallet,
    isLightning <- dialogIsLightning, address <- dialogAddress,
    given <- dialogGiven, made <- dialogMade, paid <- dialogPaid
Withdraw == INSTANCE RequestDialog WITH
    Amounts <- {1}, Wallets <- {"first"}, Lnurl <- TRUE, OnChain <- FALSE,
    Reopens <- FALSE, SlowFailures <- FALSE, ServicePaysEarly <- FALSE,
    MaxMade <- 3, MaxOpened <- 2, open <- dialogOpen,
    amount <- dialogAmount, wallet <- dialogWallet,
    isLightning <- dialogIsLightning, address <- dialogAddress,
    given <- dialogGiven, made <- dialogMade, paid <- dialogPaid

-----------------------------------------------------------------------------
\* A token, melted by the native app and by the web. One of today's format is decoded
\* as a whole, an older one only if it is of one mint.
Melt(web) == INSTANCE CashuMelts WITH
    Web <- web, Legacy <- OldToken, shown <- cashuShown, received <- cashuReceived
TokenIsDecoded == OldToken => Len(Sats) = 1

-----------------------------------------------------------------------------
\* Calls of a mod made one after the other; and calls that overlap, with an
\* overlay that is pressed away while it is busy.
Mods == INSTANCE ModRequests WITH
    Payments <- ModPayments, Overlaps <- FALSE, DismissesBusy <- FALSE, shown <- modsShown
Overlapping == INSTANCE ModRequests WITH
    Invoices <- {}, Payments <- {"a", "b"}, Overlaps <- TRUE, DismissesBusy <- TRUE,
    MaxOutages <- 0, shown <- modsShown

-----------------------------------------------------------------------------
ASSUME ConstantsAssumption ==
    /\ Confirm!AmountFormAssumption /\ Overlay!AmountFormAssumption
    /\ \A flow \in Flows : Pay(flow)!OmniPaymentsAssumption
    /\ Requests!LightningRequestsAssumption /\ Withdrawal!LightningRequestsAssumption
    /\ Dialog!RequestDialogAssumption /\ Withdraw!RequestDialogAssumption
    /\ \A web \in BOOLEAN : Melt(web)!CashuMeltsAssumption
    /\ TokenIsDecoded
    /\ Mods!ModRequestsAssumption /\ Overlapping!ModRequestsAssumption

\* A system that does not run stays in the one initial state given here.
Any(S) == CHOOSE x \in S : TRUE
AForm == Any(Limits \X Rates \X [FormWallets -> Balances])
Init ==
    /\ which \in {"confirm", "overlay", "requests", "withdrawal", "dialog", "again",
                  "withdraw", "native", "web", "mods", "overlapping"} \cup Flows
    /\ which = "confirm" => Confirm!Init
    /\ which = "overlay" => Overlay!Init
    /\ which \notin {"confirm", "overlay"} => Confirm!Init /\ <<limit, rate, balance>> = AForm
    /\ \A flow \in Flows : which = flow => Pay(flow)!Init
    /\ which \notin Flows => Pay("lnurl")!Init /\ wallet = Any(PayingWallets)
    /\ which = "requests" => Requests!Init
    /\ which = "withdrawal" => Withdrawal!Init
    /\ which \notin {"requests", "withdrawal"} => Requests!Init /\ requestsAmount = Any(Requestable)
    /\ which = "dialog" => Dialog!Init
    /\ which = "again" => Again!Init
    /\ which = "withdraw" => Withdraw!Init
    /\ which \notin {"dialog", "again", "withdraw"} => Dialog!Init /\ <<dialogAmount, dialogWallet>> = Any(Requestable \X DialogWallets)
    /\ Melt(FALSE)!Init
    /\ which = "mods" => Mods!Init
    /\ which = "overlapping" => Overlapping!Init
    /\ which \notin {"mods", "overlapping"} => Mods!Init /\ reachable

FormStep ==
    /\ \/ which = "confirm" /\ Confirm!Next
       \/ which = "overlay" /\ Overlay!Next
    /\ UNCHANGED <<which, omniVars, requestsVars, dialogVars, cashuVars,
                   modsVars>>

OmniStep ==
    /\ \E flow \in Flows : which = flow /\ Pay(flow)!Next
    /\ UNCHANGED <<which, formVars, requestsVars, dialogVars, cashuVars,
                   modsVars>>

RequestsStep ==
    /\ \/ which = "requests" /\ Requests!Next
       \/ which = "withdrawal" /\ Withdrawal!Next
    /\ UNCHANGED <<which, formVars, omniVars, dialogVars, cashuVars,
                   modsVars>>

DialogStep ==
    /\ \/ which = "dialog" /\ Dialog!Next
       \/ which = "again" /\ Again!Next
       \/ which = "withdraw" /\ Withdraw!Next
    /\ UNCHANGED <<which, formVars, omniVars, requestsVars, cashuVars,
                   modsVars>>

CashuStep ==
    /\ \/ which = "native" /\ Melt(FALSE)!Next
       \/ which = "web" /\ Melt(TRUE)!Next
    /\ UNCHANGED <<which, formVars, omniVars, requestsVars, dialogVars,
                   modsVars>>

ModsStep ==
    /\ \/ which = "mods" /\ Mods!Next
       \/ which = "overlapping" /\ Overlapping!Next
    /\ UNCHANGED <<which, formVars, omniVars, requestsVars, dialogVars,
                   cashuVars>>

Next == FormStep \/ OmniStep \/ RequestsStep \/ DialogStep \/ CashuStep \/ ModsStep

\* Each system is fair as its module says.
Fairness ==
    \/ which = "withdrawal" /\ Withdrawal!Fairness
    \/ which = "dialog" /\ Dialog!Fairness
    \/ which = "withdraw" /\ Withdraw!Fairness
    \/ which = "web" /\ Melt(TRUE)!Fairness
    \/ which = "mods" /\ Mods!Fairness
    \/ which \notin {"withdrawal", "dialog", "withdraw", "web", "mods"}

Spec == Init /\ [][Next]_all /\ Fairness

-----------------------------------------------------------------------------
\* What the form shows is what it sends, whichever way the amount came to
\* be.
ShownIsSent ==
    /\ which = "confirm" => Confirm!ShownIsSent
    /\ which = "overlay" => Overlay!ShownIsSent

\* What is sent is what the service takes (AmountInput checks it against
\* useMinMaxSendAmount).
SentIsTaken == Confirm!SentIsTaken

\* What is sent is covered by the wallet that pays it, when that is the
\* wallet that bounds it.
SentIsCovered == [][which = "confirm" => Confirm!SendIsCovered]_<<which, formVars>>

\* The fiat amount a bound is shown as can be typed and sent.
ShownBoundIsAccepted == [][which = "confirm" => Confirm!BoundIsAccepted]_<<which, formVars>>

\* Nobody is asked to pay more than the wallet has that pays it: of an invoice or an
\* LNURL whichever is chosen meanwhile, on chain if the amount was previewed for that
\* wallet (ConfirmSendLightning, SendOnChainAmount).
WithinBalance == \A flow \in Flows : which = flow => Pay(flow)!WithinBalance

\* What is said to be sent was sent, by a service that sends the invoice it
\* was asked for.
SaidIsSent == \A flow \in Flows : which = flow => Pay(flow)!SaidIsSent

\* Once nothing is asked for, the fees shown are those of the wallet and the amount
\* shown; of an invoice unless the answer for another wallet came last, or that for
\* the chosen one failed.
FeesAreOfThePayment == \A flow \in Flows : which = flow => Pay(flow)!FeesAreOfThePayment

\* An invoice is shown with the amount that the form has: nobody changed it
\* between the press and the answer.
ShownAmount == which = "requests" /\ ~Lnurl => Requests!ShownAmount

\* The screen of success is shown for a payment that was made.
SuccessIsPaid == which = "requests" => Requests!SuccessIsPaid

\* A withdrawal that was begun comes to an end, and the form can be used
\* again.
WithdrawalEnds == which = "withdrawal" => Withdrawal!WithdrawalEnds

\* What the dialog shows asks for the amount of the form, in the active
\* federation.
ShownIsOfTheForm == which = "dialog" => Dialog!ShownIsOfTheForm

\* The dialog stops to want an invoice only when the user closes it, or when
\* making what it waits for fails.
WantsUntilFailed == [][which = "dialog" => Dialog!StopsWantingRightly]_<<which, dialogVars>>

\* What is wanted comes: it is shown, or it fails, or it is given up.
WantedIsShown == which = "dialog" => Dialog!WantedIsShown

\* A payment of what the dialog shows is noticed, when it was opened again
\* and late failures arrive.
ShownPaymentIsNoticed == [][which = "again" => Again!PaymentIsNoticed]_<<which, dialogVars>>

\* A withdrawal that was paid does not leave the dialog waiting for it.
WithdrawalIsNoticed == which = "withdraw" => Withdraw!WithdrawalIsNoticed

\* After a success the mints have taken the whole token, if it was decoded as a
\* whole, however often parts of it have failed (executeMelts).
SuccessIsWhole == which = "native" => Melt(FALSE)!SuccessIsWhole

\* What the web says was received is what the wallet got for this token.
SuccessIsReceived == which = "web" => Melt(TRUE)!SuccessIsReceived

\* No wait for a mint is for ever.
WaitEnds == which = "web" => Melt(TRUE)!WaitEnds

\* A call of a mod is answered with the result of what it asked for.
AnsweredWithOwn == which = "mods" => Mods!AnsweredWithOwn

\* What the mod is told was rejected has not been done.
RejectedIsNotDone == which = "mods" => Mods!RejectedIsNotDone

\* What is done has the amount of its own request.
FormIsOfTheRequest == which = "mods" => Mods!FormIsOfTheRequest

\* Every call of a mod is answered.
EveryCallIsAnswered == which = "mods" => Mods!EveryCallIsAnswered

\* Nothing is paid or signed twice, however calls, links, failures and the user's
\* answers overlap.
DoneOnce == which = "overlapping" => Overlapping!DoneOnce

-----------------------------------------------------------------------------
\* What the constants stand for in the run: bounds that services name (0 says that
\* one names none), a wallet with much and one with little, two mints.
SomeLimits == {<<0, 0>>, <<5000, 20000>>, <<11000, 11000>>}
RichAndPoor == [w \in {"rich", "poor"} |-> IF w = "rich" THEN 5 ELSE 2]
AskedFor == [flow \in Flows |-> CASE flow = "lnurl" -> 1 [] flow = "bolt11" -> 3 [] OTHER -> 0]
TypedIn == [flow \in Flows |-> IF flow = "lnurl" THEN {1, 2, 3, 4, 6} ELSE {1, 3}]
TwoMints == <<4, 3>>

-----------------------------------------------------------------------------
\* What the user sees is what is sent: the amount, unless the choice of another wallet
\* set it anew; within the balance of the wallet that pays, which on chain is the one it
\* was previewed for; at the fees of that wallet, when its answer was taken last.
SentAsShown ==
    /\ \A flow \in Flows : which = flow => Pay(flow)!TypeOK
    /\ ShownIsSent
    /\ WithinBalance
    /\ SaidIsSent
    /\ FeesAreOfThePayment

\* What the screen that confirms sends is within the limits of the service and covered by
\* the wallet that is chosen; a bound that is typed in fiat as it is shown is accepted.
SentIsAccepted ==
    /\ [](which = "confirm" => Confirm!TypeOK)
    /\ SentIsTaken
    /\ SentIsCovered
    /\ ShownBoundIsAccepted

\* What is shown to be paid asks for what the form says, when it is not a withdrawal of
\* the native app; what is shown as received has been, of a token that is decoded as a
\* whole.
RequestsAreTrue ==
    /\ which = "requests" => Requests!TypeOK
    /\ which = "dialog" => Dialog!TypeOK
    /\ which = "native" => Melt(FALSE)!TypeOK
    /\ ShownAmount
    /\ ShownIsOfTheForm
    /\ SuccessIsPaid
    /\ SuccessIsWhole
    /\ SuccessIsReceived

\* A call of a mod does what it asked for, once, and is told so, when the mod makes one
\* call after the other.
AnswersAreOwn ==
    /\ which = "mods" => Mods!TypeOK /\ Mods!DoneOnce
    /\ AnsweredWithOwn
    /\ RejectedIsNotDone
    /\ FormIsOfTheRequest

\* The waits that end: a withdrawal begun in the native form, the dialog of the web for
\* what it wants, for the payment of what it shows and for its withdrawal, the web for
\* the mints, and a mod for its answer when no other call is made; the dialog gives none
\* up early, and nothing is done twice while calls overlap.
WaitsEnd ==
    /\ []DoneOnce
    /\ WithdrawalEnds
    /\ WantsUntilFailed
    /\ WantedIsShown
    /\ ShownPaymentIsNoticed
    /\ WithdrawalIsNoticed
    /\ WaitEnds
    /\ EveryCallIsAnswered

=============================================================================
