--------------------------- MODULE LightningRequests ---------------------------
(***************************************************************************)
(* The screen of the native app that asks for a payment (ReceiveLightning) *)
(* and the one that shows what to pay (BitcoinRequest, ReceiveQr): an      *)
(* invoice for the amount typed, a withdrawal from an LNURL service, or an *)
(* address. The address that BitcoinRequest offers too is left out.        *)
(*                                                                         *)
(* An effect asks for an invoice whenever generatingInvoice becomes true,  *)
(* whoever made it so, and nothing cancels what an effect has begun.       *)
(***************************************************************************)
EXTENDS Naturals, FiniteSets

CONSTANTS
    Amounts,
    Lnurl,      \* BOOLEAN: the screen is opened for a withdrawal
    OnChain,    \* BOOLEAN: addresses are offered
    MaxMade     \* bound: invoices and addresses made; of one amount, one effect at a
                \* time, one withdrawal and two calls for an address

LightningRequestsAssumption ==
    Lnurl \in BOOLEAN /\ OnChain \in BOOLEAN /\ Amounts # {} /\ MaxMade \in Nat

VARIABLES
    amount, isLightning,    \* the form
    generating,             \* generatingInvoice
    jobs,       \* amounts that effects ask an invoice for
    address,    \* onchainAddress, or 0
    addressing, \* calls of generateAddress that have not returned
    withdrawal, \* handleLnurlWithdraw: where it waits, its amount and invoice
    given,      \* the invoice the service has accepted, or 0
    top, shown, \* the screen, and the invoice that BitcoinRequest shows
    made,       \* what was made: the amount of each invoice, 0 for an address
    paid

vars == <<amount, isLightning, generating, jobs, address, addressing, withdrawal,
          given, top, shown, made, paid>>
chain == <<isLightning, address, addressing>>
service == <<withdrawal, given>>

NotWaiting == [at |-> "none", amount |-> 0, invoice |-> 0]
Ids == 1 .. Cardinality(DOMAIN made)
New == Cardinality(DOMAIN made) + 1
Room == Cardinality(DOMAIN made) < MaxMade
Made(a) == made' = [i \in 1 .. New |-> IF i = New THEN a ELSE made[i]]

TypeOK ==
    /\ amount \in Amounts /\ isLightning \in BOOLEAN /\ generating \in BOOLEAN
    /\ jobs \subseteq Amounts /\ address \in 0 .. MaxMade /\ addressing \in 0 .. 2
    /\ withdrawal.at \in {"none", "invoice", "callback"}
    /\ withdrawal.at = "callback" <=> withdrawal.invoice \in Ids
    /\ given \in 0 .. MaxMade /\ shown \in 0 .. MaxMade
    /\ top \in {"form", "request", "success"} /\ (top # "form" => shown \in Ids)
    /\ \A i \in Ids : made[i] \in Amounts \cup {0}
    /\ paid \subseteq Ids

Init ==
    /\ amount \in Amounts /\ isLightning = TRUE /\ generating = FALSE
    /\ jobs = {} /\ address = 0 /\ addressing = 0
    /\ withdrawal = NotWaiting /\ given = 0 /\ top = "form" /\ shown = 0
    /\ made = [i \in {} |-> 0] /\ paid = {}

\* The effect on generatingInvoice.
Effect == jobs' = IF generating' THEN jobs \cup {amount} ELSE jobs

\* navigate('BitcoinRequest'): returns to it, with another invoice, if it is open.
ShowRequest(i) == top' = "request" /\ shown' = i

\* AmountScreen, unless an address is shown in its place.
FormShown == top = "form" /\ ~(~isLightning /\ address # 0)

-----------------------------------------------------------------------------

Type(a) ==
    /\ FormShown /\ ~generating /\ a # amount /\ amount' = a
    /\ UNCHANGED <<generating, jobs, chain, service, top, shown, made, paid>>

\* handleSubmit, within the limits; handleLnurlWithdraw up to its first await.
Request ==
    /\ FormShown /\ ~generating /\ Room /\ amount \notin jobs /\ withdrawal = NotWaiting
    /\ generating' = TRUE /\ Effect
    /\ withdrawal' = IF Lnurl THEN [at |-> "invoice", amount |-> amount, invoice |-> 0]
                      ELSE withdrawal
    /\ UNCHANGED <<amount, chain, given, top, shown, made, paid>>

\* createNewInvoice returns; the effect on the invoice ends the wait and shows it.
EffectMade(a) ==
    /\ a \in jobs /\ Room
    /\ Made(a) /\ jobs' = jobs \ {a}
    /\ generating' = FALSE /\ ShowRequest(New)
    /\ UNCHANGED <<amount, chain, service, paid>>

\* It fails: a toast, and generatingInvoice stays as it is.
EffectFails(a) ==
    /\ a \in jobs /\ jobs' = jobs \ {a}
    /\ UNCHANGED <<amount, generating, chain, service, top, shown, made, paid>>

\* lnurlWithdraw has its invoice and calls the service.
WithdrawalMade ==
    /\ withdrawal.at = "invoice" /\ Room
    /\ Made(withdrawal.amount)
    /\ withdrawal' = [withdrawal EXCEPT !.at = "callback", !.invoice = New]
    /\ UNCHANGED <<amount, generating, jobs, chain, given, top, shown, paid>>

\* No invoice, no answer, or a refusal: a toast.
WithdrawalFails ==
    /\ withdrawal.at # "none" /\ withdrawal' = NotWaiting /\ generating' = FALSE
    /\ UNCHANGED <<amount, jobs, chain, given, top, shown, made, paid>>

\* The service accepts: the invoice is shown "in case the payment doesn't go through".
WithdrawalAccepted ==
    /\ withdrawal.at = "callback"
    /\ given' = withdrawal.invoice /\ withdrawal' = NotWaiting /\ generating' = FALSE
    /\ ShowRequest(withdrawal.invoice)
    /\ UNCHANGED <<amount, jobs, chain, made, paid>>

\* RequestTypeSwitcher, and the effect that makes an address "if needed".
Switch ==
    /\ OnChain /\ top = "form"
    /\ isLightning' = ~isLightning
    /\ addressing' = addressing + (IF isLightning /\ address = 0 THEN 1 ELSE 0)
    /\ addressing' <= 2 /\ (isLightning => Room)
    /\ UNCHANGED <<amount, generating, jobs, address, service, top, shown, made, paid>>

\* The effect runs again for the address it made, when there is none yet: never.
AddressMade ==
    /\ addressing > 0 /\ Room
    /\ address' = New /\ Made(0) /\ addressing' = addressing - 1
    /\ UNCHANGED <<amount, isLightning, generating, jobs, service, top, shown, paid>>

AddressFails ==
    /\ addressing > 0 /\ addressing' = addressing - 1
    /\ UNCHANGED <<amount, isLightning, generating, jobs, address, service, top, shown,
                   made, paid>>

\* What ReceiveQr shows, if it is mounted: its listener outlives a screen above it.
Listens(i) ==
    \/ top # "form" /\ shown = i
    \/ ~isLightning /\ address = i

\* An invoice or address is paid, and the bridge tells of the transaction.
Pay(i) ==
    /\ i \in Ids \ paid /\ paid' = paid \cup {i}
    /\ IF Listens(i) THEN top' = "success" /\ shown' = i ELSE UNCHANGED <<top, shown>>
    /\ UNCHANGED <<amount, generating, jobs, chain, service, made>>

\* Back from the request to the form.
Back ==
    /\ top = "request" /\ top' = "form" /\ shown' = 0
    /\ UNCHANGED <<amount, generating, jobs, chain, service, made, paid>>

Answers ==
    \/ \E a \in Amounts : EffectMade(a) \/ EffectFails(a)
    \/ WithdrawalMade \/ WithdrawalFails \/ WithdrawalAccepted
    \/ AddressMade \/ AddressFails

Next ==
    \/ \E a \in Amounts : Type(a)
    \/ Request \/ Answers \/ Switch \/ Back
    \/ \E i \in Ids : Pay(i)

Spec == Init /\ [][Next]_vars
\* Every call of the bridge and of the service returns or fails.
Fairness == WF_vars(Answers) /\ WF_vars(WithdrawalFails \/ WithdrawalAccepted)
FairSpec == Spec /\ Fairness

-----------------------------------------------------------------------------
\* An invoice is shown with the amount that the form has: nobody changed it
\* between the press and the answer.
ShownAmount == top = "request" /\ made[shown] # 0 => made[shown] = amount

\* The screen of success is shown for a payment that was made.
SuccessIsPaid == top = "success" => shown \in paid

\* A withdrawal that was begun comes to an end, and the form can be used again.
WithdrawalEnds == generating ~> ~generating

\* "We want to show them the QR code in case the payment doesn't go through":
\* what is shown at last is the invoice that the service was given.
ShownIsGiven ==
    jobs = {} /\ withdrawal = NotWaiting /\ given # 0 /\ top = "request" => shown = given

\* "Generate onchain address if needed": one is made while there is none.
AddressIfNeeded == [][address # 0 => address' = address]_vars
=============================================================================
