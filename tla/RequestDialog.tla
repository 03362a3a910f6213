----------------------------- MODULE RequestDialog -----------------------------
(***************************************************************************)
(* The dialog of the web that asks for a payment (RequestPaymentDialog):   *)
(* an invoice or an address for the amount and the federation chosen, or   *)
(* a withdrawal from an LNURL service, and the payment that then arrives.  *)
(*                                                                         *)
(* Effects run anew when what they depend on has changed, and cancel what  *)
(* they began before.                                                      *)
(***************************************************************************)
EXTENDS Naturals, FiniteSets

CONSTANTS
    Amounts, Wallets,
    Lnurl,       \* BOOLEAN: the dialog is opened for a withdrawal
    OnChain,     \* BOOLEAN: addresses are offered
    Reopens,     \* BOOLEAN: the dialog is opened again while a timer runs
    SlowFailures,\* BOOLEAN: a request that was cancelled may fail later
    ServicePaysEarly,   \* BOOLEAN: the service pays before it answers
    MaxMade,     \* bound: invoices and addresses made
    MaxOpened    \* bound: openings of the dialog

RequestDialogAssumption ==
    /\ {Lnurl, OnChain, Reopens, SlowFailures, ServicePaysEarly} \subseteq BOOLEAN
    /\ Amounts # {} /\ MaxMade \in Nat /\ MaxOpened \in Nat

VARIABLES
    open, opened,       \* whether, and how often, the dialog was opened
    amount, wallet,     \* the form's amount, the active federation
    wants,              \* wantsInvoice
    isLightning,
    invoice, address,   \* lightningInvoice, bitcoinUrl: what they ask for, or none
    job,                \* what the last effect waits for, or none
    cancelled,          \* what earlier effects waited for
    withdrawing,        \* isWithdrawing
    given,              \* the invoice given to the service that has not answered
    received,           \* receivedTransaction
    timers,             \* openings whose payment will close the dialog
    made, paid          \* all that was made and, of it, paid

vars == <<open, opened, amount, wallet, wants, isLightning, invoice, address, job,
          cancelled, withdrawing, given, received, timers, made, paid>>
form == <<open, opened, amount, wallet, wants, isLightning>>
shown == <<invoice, address, job, cancelled>>
service == <<withdrawing, given>>
payments == <<received, timers, made, paid>>

None == [id |-> 0]
Requests == [id : 1 .. MaxMade, lightning : BOOLEAN, amount : Amounts, wallet : Wallets]
NoJob == {}
Jobs == [lightning : BOOLEAN, amount : Amounts, wallet : Wallets]

TypeOK ==
    /\ open \in BOOLEAN /\ opened \in 0 .. MaxOpened /\ amount \in Amounts /\ wallet \in Wallets
    /\ wants \in BOOLEAN /\ isLightning \in BOOLEAN
    /\ invoice \in Requests \cup {None} /\ (invoice # None => invoice.lightning)
    /\ address \in Requests \cup {None} /\ (address # None => ~address.lightning)
    /\ job \subseteq Jobs /\ Cardinality(job) <= 1 /\ cancelled \subseteq Jobs
    /\ withdrawing \in BOOLEAN /\ given \in Requests \cup {None}
    /\ received \in BOOLEAN /\ timers \subseteq 1 .. opened
    /\ made \subseteq Requests /\ paid \subseteq made

Init ==
    /\ open = FALSE /\ opened = 0 /\ amount \in Amounts /\ wallet \in Wallets
    /\ wants = FALSE /\ isLightning = TRUE /\ invoice = None /\ address = None
    /\ job = NoJob /\ cancelled = {} /\ withdrawing = FALSE /\ given = None
    /\ received = FALSE /\ timers = {} /\ made = {} /\ paid = {}

New(r) == [id |-> Cardinality(made) + 1, lightning |-> r.lightning,
           amount |-> r.amount, wallet |-> r.wallet]

-----------------------------------------------------------------------------

\* "Generate fresh invoice / address on any change to it": after the first primes.
Effect ==
    /\ job' = IF wants' /\ (IF isLightning' THEN invoice' ELSE address') = None
              THEN {[lightning |-> isLightning', amount |-> amount', wallet |-> wallet']}
              ELSE NoJob
    /\ cancelled' = IF SlowFailures THEN cancelled \cup job ELSE {}

\* "Reset invoices on federation change, amount change, or note change"
Drop == invoice' = None /\ address' = None

Open ==
    /\ ~open /\ open' = TRUE /\ opened < MaxOpened /\ opened' = opened + 1
    /\ Reopens \/ timers = {}
    /\ UNCHANGED <<amount, wallet, wants, isLightning, shown, service, payments>>

Reset ==
    /\ open' = FALSE /\ amount' = CHOOSE a \in Amounts : TRUE
    /\ wants' = FALSE /\ isLightning' = TRUE /\ withdrawing' = FALSE /\ received' = FALSE
    /\ Drop /\ UNCHANGED <<opened, wallet, given, made, paid>> /\ Effect

Close == open /\ Reset /\ UNCHANGED timers

\* The note changes with the amount, as far as this is concerned.
Edit(a) ==
    /\ open /\ ~wants /\ a # amount /\ amount' = a
    /\ Drop /\ UNCHANGED <<open, opened, wallet, wants, isLightning, service, payments>> /\ Effect

\* Mutant: the shown invoice is left when the federation changes.
SwitchKeepingInvoice(w) ==
    /\ w # wallet /\ wallet' = w
    /\ UNCHANGED <<open, opened, amount, wants, isLightning, invoice, address, service, payments>>
    /\ Effect

SwitchWallet(w) ==
    /\ w # wallet /\ wallet' = w
    /\ Drop /\ UNCHANGED <<open, opened, amount, wants, isLightning, service, payments>> /\ Effect

Toggle ==
    /\ open /\ OnChain /\ isLightning' = ~isLightning
    /\ UNCHANGED <<open, opened, amount, wallet, wants, invoice, address, service, payments>>
    /\ Effect

Submit ==
    /\ open /\ ~wants /\ ~Lnurl /\ wants' = TRUE
    /\ UNCHANGED <<open, opened, amount, wallet, isLightning, invoice, address, service, payments>>
    /\ Effect

\* generateInvoice, generateAddress.
Made(j) ==
    /\ j \in job /\ Cardinality(made) < MaxMade
    /\ made' = made \cup {New(j)}
    /\ IF j.lightning THEN invoice' = New(j) /\ UNCHANGED address
                      ELSE address' = New(j) /\ UNCHANGED invoice
    /\ UNCHANGED <<form, service, received, timers, paid>> /\ Effect

\* The failure of an effect that was cancelled is handled like that of the last.
Fails(j) ==
    /\ j \in job \cup cancelled /\ wants' = FALSE
    /\ job' = NoJob /\ cancelled' = (cancelled \cup (IF SlowFailures THEN job ELSE {})) \ {j}
    /\ UNCHANGED <<open, opened, amount, wallet, isLightning, invoice, address, service,
                   payments>>

-----------------------------------------------------------------------------
\* handleLnurlWithdraw: an invoice is made and given to the service, which answers.
\* Bound: the service has one at a time.
Withdraw ==
    LET r == New([lightning |-> TRUE, amount |-> amount, wallet |-> wallet]) IN
    /\ open /\ Lnurl /\ ~withdrawing /\ given = None /\ Cardinality(made) < MaxMade
    /\ withdrawing' = TRUE /\ made' = made \cup {r} /\ given' = r
    /\ UNCHANGED <<form, shown, received, timers, paid>>

\* Mutant: the invoice that was given is forgotten.
AnsweredForgetting ==
    /\ given # None /\ given' = None /\ UNCHANGED invoice
    /\ UNCHANGED <<form, address, withdrawing, payments>> /\ Effect

Answered ==
    /\ given # None /\ given' = None /\ invoice' = given
    /\ UNCHANGED <<form, address, withdrawing, payments>> /\ Effect

AnsweredNo ==
    /\ given # None /\ given \notin paid /\ given' = None /\ withdrawing' = FALSE
    /\ UNCHANGED <<form, shown, payments>>

\* "Watch for incoming payments when we're rendering a lightning invoice"
Watches(r) == invoice # None /\ r \in {invoice, address}

Pay(r) ==
    /\ r \in made \ paid /\ (ServicePaysEarly \/ r # given) /\ paid' = paid \cup {r}
    /\ IF Watches(r)
       THEN withdrawing' = FALSE /\ received' = TRUE /\ timers' = timers \cup {opened}
       ELSE UNCHANGED <<withdrawing, received, timers>>
    /\ UNCHANGED <<form, shown, given, made>>

\* Three seconds later.
TimerFires(o) ==
    /\ o \in timers /\ timers' = timers \ {o}
    /\ IF open THEN Reset ELSE UNCHANGED <<form, shown, service, received, made, paid>>

Next ==
    \/ Open \/ Close \/ Toggle \/ Submit \/ Withdraw \/ Answered \/ AnsweredNo
    \/ \E a \in Amounts : Edit(a)
    \/ \E w \in Wallets : SwitchWallet(w)
    \/ \E j \in job \cup cancelled : Made(j) \/ Fails(j)
    \/ \E r \in made : Pay(r)
    \/ \E o \in timers : TimerFires(o)

\* Calls of the bridge end, the service answers, timers fire.
Fairness ==
    /\ WF_vars(\E j \in job : Made(j)) /\ WF_vars(Answered)
    /\ WF_vars(\E o \in timers : TimerFires(o))

Spec == Init /\ [][Next]_vars /\ Fairness

-----------------------------------------------------------------------------
Visible(r) == open /\ wants /\ r = IF isLightning THEN invoice ELSE address

\* What is shown asks for the amount of the form, in the active federation.
ShownIsOfTheForm ==
    \A r \in made : Visible(r) => r.amount = amount /\ r.wallet = wallet

\* A payment of what is shown is noticed.
PaymentIsNoticed == \A r \in made : Visible(r) /\ Pay(r) => received'
ShownPaymentIsNoticed == [][PaymentIsNoticed]_vars

\* A payment received in one opening does not close a later one.
TimersAreOfTheOpening == open => timers \subseteq {opened}

\* The dialog stops to want an invoice only when the user closes it, or when making
\* what it waits for fails.
StopsWantingRightly ==
    wants /\ open /\ ~wants' => ~open' \/ \E j \in job : Fails(j)
WantsUntilFailed == [][StopsWantingRightly]_vars

\* What is wanted comes: it is shown, or it fails, or it is given up.
WantedIsShown ==
    wants /\ opened = MaxOpened ~> (~wants \/ (IF isLightning THEN invoice ELSE address) # None
                                    \/ Cardinality(made) = MaxMade)

\* A withdrawal that was paid does not leave the dialog waiting for it.
WithdrawalIsNoticed ==
    withdrawing /\ (\E r \in paid : r.id = Cardinality(made)) ~> ~withdrawing
=============================================================================
