----------------------------- MODULE OmniPayments -----------------------------
(***************************************************************************)
(* Paying what was scanned (native): useOmniPaymentState in the screens    *)
(* ConfirmSendLightning, SendOnChainAmount and ConfirmSendOnChain.         *)
(*                                                                         *)
(* The hook asks the bridge anew whenever the wallet that pays is another  *)
(* one. Nothing cancels what was asked for before; answers arrive in any   *)
(* order. How amounts are typed and bounded is in AmountForm.              *)
(***************************************************************************)
EXTENDS Naturals, FiniteSets

CONSTANTS
    Flow,       \* "bolt11", "lnurl" or "onchain"
    Wallets,
    Balance,    \* [Wallets -> Nat], in sats
    Asked,      \* the amount of the invoice, or 0 if it has none; of an LNURL, the least
    Amounts,    \* amounts that are typed
    OtherInvoices,  \* BOOLEAN: an LNURL service may send an invoice of another amount
    MaxChanges  \* bound: changes of the wallet

OmniPaymentsAssumption ==
    /\ Flow \in {"bolt11", "lnurl", "onchain"} /\ Balance \in [Wallets -> Nat]
    /\ Asked \in Nat /\ Amounts \subseteq Nat /\ OtherInvoices \in BOOLEAN
    /\ MaxChanges \in Nat

VARIABLES
    wallet, changes,    \* selectPaymentFederation, which the user may change
    screen,     \* "closed", "form", "confirm" (of a payment on chain) or "success"
    calls,      \* what the bridge was asked and has not answered
    isReady,    \* isReadyToPay of the form
    input,      \* inputAmount of the screen shown
    fees,       \* feeDetails of the screen shown: for which wallet and amount
    paying,     \* the payment under way
    sent,       \* the amount that was paid
    said,       \* the amount that SendSuccess says
    astray      \* history: the last answer taken was for another wallet than the chosen
                \* one, or its own failed

vars == <<wallet, changes, screen, calls, isReady, input, fees, paying, sent, said, astray>>

None == [wallet |-> "none", amount |-> 0]
Payments == [wallet : Wallets, amount : Amounts \cup {Asked}]
Calls == [what : {"decode", "continue", "fees"}, wallet : Wallets, amount : Amounts \cup {Asked}]

TypeOK ==
    /\ wallet \in Wallets /\ changes \in 0 .. MaxChanges
    /\ screen \in {"closed", "form", "confirm", "success"}
    /\ calls \subseteq Calls /\ isReady \in BOOLEAN
    /\ input \in Amounts \cup {0, Asked} /\ fees \in Payments \cup {None}
    /\ paying \in Payments \cup {None} /\ sent \in Nat /\ said \in Nat
    /\ astray \in BOOLEAN
    /\ screen = "confirm" => Flow = "onchain"
    /\ said # 0 => screen = "success"

Init ==
    /\ wallet \in Wallets /\ changes = 0 /\ screen = "closed" /\ calls = {}
    /\ isReady = FALSE /\ input = 0 /\ fees = None /\ paying = None /\ sent = 0 /\ said = 0
    /\ astray = FALSE

\* useMinMaxSendAmount
InBounds ==
    /\ input >= (IF Flow = "onchain" THEN 1 ELSE Asked)
    /\ input <= Balance[wallet] /\ Balance[wallet] > 0

-----------------------------------------------------------------------------
\* handleOmniInput, for the wallet as it then is: an invoice is decoded by the
\* bridge, an LNURL sets the least it takes, an address nothing.
Handle(w) ==
    /\ calls' = IF Flow = "bolt11" THEN calls \cup {[what |-> "decode", wallet |-> w, amount |-> Asked]}
                ELSE calls
    /\ isReady' = (isReady \/ Flow # "bolt11")
    /\ input' = IF Flow = "lnurl" THEN Asked ELSE input

Open ==
    /\ screen = "closed" /\ screen' = "form" /\ Handle(wallet)
    /\ UNCHANGED <<wallet, changes, fees, paying, sent, said, astray>>

\* FederationWalletSelector, also while something is paid; the effect runs again.
Select(w) ==
    /\ screen = "form" /\ w # wallet /\ changes < MaxChanges
    /\ wallet' = w /\ changes' = changes + 1 /\ Handle(w)
    /\ UNCHANGED <<screen, fees, paying, sent, said, astray>>

\* decodeInvoice returns: the amount, and the fees of the wallet it was asked for.
Decoded(c) ==
    /\ c.what = "decode" /\ c \in calls /\ Asked # 0 /\ calls' = calls \ {c}
    /\ isReady' = TRUE
    /\ IF screen = "form" THEN input' = Asked /\ fees' = [wallet |-> c.wallet, amount |-> Asked]
       ELSE UNCHANGED <<input, fees>>
    /\ astray' = (c.wallet # wallet)
    /\ UNCHANGED <<wallet, changes, screen, paying, sent, said>>

\* It fails, always so without an amount: nobody handles the rejection.
DecodeFails(c) ==
    /\ c.what = "decode" /\ c \in calls /\ calls' = calls \ {c}
    /\ astray' = (astray \/ c.wallet = wallet)
    /\ UNCHANGED <<wallet, changes, screen, isReady, input, fees, paying, sent, said>>

Type(a) ==
    /\ screen = "form" /\ isReady /\ Flow # "bolt11" /\ paying = None
    /\ input' = a /\ a # input
    /\ UNCHANGED <<wallet, changes, screen, calls, isReady, fees, paying, sent, said, astray>>

\* handleContinue of SendOnChainAmount, up to previewPayAddress. It is not disabled meanwhile.
Continue ==
    /\ Flow = "onchain" /\ screen = "form" /\ InBounds
    /\ calls' = calls \cup {[what |-> "continue", wallet |-> wallet, amount |-> input]}
    /\ UNCHANGED <<wallet, changes, screen, isReady, input, fees, paying, sent, said, astray>>

\* The preview succeeds: ConfirmSendOnChain is pushed for the amount previewed,
\* with a hook of its own for the wallet as it is now.
Previewed(c) ==
    /\ c.what = "continue" /\ c \in calls /\ c.amount <= Balance[c.wallet]
    /\ screen \in {"form", "confirm"} /\ paying = None
    /\ screen' = "confirm" /\ input' = c.amount /\ fees' = None
    /\ calls' = {k \in calls \ {c} : k.what = "continue"}
                \cup {[what |-> "fees", wallet |-> wallet, amount |-> c.amount]}
    /\ astray' = (c.wallet # wallet)
    /\ UNCHANGED <<wallet, changes, isReady, paying, sent, said>>

PreviewFails(c) ==
    /\ c.what = "continue" /\ c \in calls /\ calls' = calls \ {c}
    /\ UNCHANGED <<wallet, changes, screen, isReady, input, fees, paying, sent, said, astray>>

\* The effect of the hook: the fees of a payment on chain, or none if it fails.
FeesKnown(c) ==
    /\ c.what = "fees" /\ c \in calls /\ calls' = calls \ {c}
    /\ fees' \in {None} \cup (IF c.amount <= Balance[c.wallet]
                              THEN {[wallet |-> c.wallet, amount |-> c.amount]} ELSE {})
    /\ UNCHANGED <<wallet, changes, screen, isReady, input, paying, sent, said, astray>>

\* handleSend of ConfirmSendLightning: the button of an invoice needs its fees.
Send ==
    /\ screen = "form" /\ Flow # "onchain" /\ isReady /\ paying = None
    /\ Flow = "bolt11" => fees # None
    /\ InBounds
    /\ paying' = [wallet |-> wallet, amount |-> input]
    /\ UNCHANGED <<wallet, changes, screen, calls, isReady, input, fees, sent, said, astray>>

\* handleSend of ConfirmSendOnChain, without bounds.
SendOnChain ==
    /\ screen = "confirm" /\ paying = None
    /\ paying' = [wallet |-> wallet, amount |-> input]
    /\ UNCHANGED <<wallet, changes, screen, calls, isReady, input, fees, sent, said, astray>>

\* handleOmniSend succeeds: payInvoice, payAddress, or lnurlPay, which pays the
\* invoice that the service sends for the amount.
Paid ==
    /\ paying # None /\ paying.amount <= Balance[paying.wallet]
    /\ sent' \in {paying.amount} \cup (IF OtherInvoices THEN {paying.amount + 1} ELSE {})
    /\ paying' = None /\ screen' = "success" /\ said' = paying.amount
    /\ UNCHANGED <<wallet, changes, calls, isReady, input, fees, astray>>

\* It fails: a toast.
PayFails ==
    /\ paying # None /\ paying' = None
    /\ UNCHANGED <<wallet, changes, screen, calls, isReady, input, fees, sent, said, astray>>

Next ==
    \/ Open \/ Continue \/ Send \/ SendOnChain \/ Paid \/ PayFails
    \/ \E w \in Wallets : Select(w)
    \/ \E a \in Amounts : Type(a)
    \/ \E c \in calls : Decoded(c) \/ DecodeFails(c) \/ Previewed(c) \/ PreviewFails(c)
                        \/ FeesKnown(c)

Spec == Init /\ [][Next]_vars
\* The bridge answers.
FairSpec == Spec /\ WF_vars(\E c \in calls : Decoded(c) \/ DecodeFails(c))

-----------------------------------------------------------------------------
\* "The maximum amount that can be sent": nobody is asked to pay more than the
\* wallet has that pays it. On chain the bounds are looked at, and the bridge asked,
\* before the screen that confirms: for the wallet that then pays, unless the answer
\* is for another one.
WithinBalance == paying # None /\ (Flow = "onchain" => ~astray) => paying.amount <= Balance[paying.wallet]

\* "The fees associated with the payment": once nothing is asked for, they are
\* those of the wallet and the amount shown; of an invoice, unless the answer that
\* came last was for another wallet, or that for the chosen one failed.
FeesAreOfThePayment ==
    calls = {} /\ (Flow = "bolt11" => ~astray) /\ screen \in {"form", "confirm"} /\ fees # None
        => fees = [wallet |-> wallet, amount |-> input]

\* "Given ... an amount, pay an invoice": what is said to be sent was sent.
SaidIsSent == said = sent

\* "for inputting the amount for invoices ... that have ambiguous amounts": what
\* was scanned becomes something that can be paid.
GetsReady == (screen = "form") ~> isReady
=============================================================================
