------------------------------ MODULE CashuMelts ------------------------------
(***************************************************************************)
(* Receiving a cashu token: the mint pays an invoice of the wallet with    *)
(* it. utils/cashu.ts asks for the quotes and executes them, one for each  *)
(* part of the token; ConfirmReceiveCashu (native) asks in between, and    *)
(* ReceiveOffline (web) does both at once and takes ecash of the           *)
(* federation too.                                                         *)
(*                                                                         *)
(* The mint decides what an invoice costs it, whether it can be paid, and  *)
(* whether its answer arrives.                                             *)
(***************************************************************************)
EXTENDS Msats, Sequences

CONSTANTS
    Web,        \* BOOLEAN: ReceiveOffline, else ConfirmReceiveCashu
    Legacy,     \* BOOLEAN: a token "cashuA" of several mints, else a "cashuB"
    Sats,       \* what each part of the token is worth
    Fees,       \* what mints answer as fee_reserve
    MaxTries    \* bound: the opening and presses of the button, or texts put into
                \* the input, until one is received

CashuMeltsAssumption ==
    /\ Web \in BOOLEAN /\ Legacy \in BOOLEAN /\ MaxTries \in Nat \ {0}
    /\ Sats \in Seq(Nat \ {0}) /\ Sats # <<>>
    /\ \A f \in Fees : f \in Nat /\ \A i \in DOMAIN Sats : f < Sats[i]

VARIABLES
    step,       \* what is awaited: "none", "fee", "quote" or "melt"
    quotes,     \* the quotes made, of the parts of the token in order
    fee,        \* the fee_reserve of the first quote of a part
    melted,     \* the quotes executed by executeMelts
    tries,
    shown,      \* the amount that was received, as it is said; or 0
    failed,     \* a failure was said: a toast, or redeemError
    spent, owing,   \* parts the mint has taken; what it has yet to pay for them
    received    \* sats the wallet got

vars == <<step, quotes, fee, melted, tries, shown, failed, spent, owing, received>>
mint == <<spent, owing, received>>

Parts == DOMAIN Sats

TypeOK ==
    /\ step \in {"none", "fee", "quote", "melt"}
    /\ Len(quotes) <= Len(Sats) /\ melted \in 0 .. Len(quotes)
    /\ \A i \in DOMAIN quotes : quotes[i].amount \in 1 .. Sats[i] /\ quotes[i].fee \in Fees
    /\ fee \in Fees \cup {0} /\ tries \in 0 .. MaxTries
    /\ shown \in Nat /\ failed \in BOOLEAN
    /\ spent \subseteq Parts /\ \A o \in owing : o.part \in spent
    /\ received \in 0 .. Total(Sats)
    /\ step = "melt" => melted < Len(quotes)

\* decodeCashuTokens: of an old token, the first entry and its mint.
Decoded == IF Legacy THEN <<Sats[1]>> ELSE Sats

Init ==
    /\ step = "none" /\ quotes = <<>> /\ fee = 0 /\ melted = 0 /\ tries = 0
    /\ shown = 0 /\ failed = FALSE /\ spent = {} /\ owing = {} /\ received = 0

-----------------------------------------------------------------------------
\* The screen of the native app appears: handleOmniInput.
Open ==
    /\ ~Web /\ tries = 0 /\ tries' = 1 /\ step' = "fee"
    /\ UNCHANGED <<quotes, fee, melted, shown, failed, mint>>

\* A text that is no code, or not yet all of it, is put into the input of the web.
EnterOther ==
    /\ Web /\ step = "none" /\ shown = 0 /\ tries < MaxTries /\ tries' = tries + 1
    /\ failed' = TRUE
    /\ UNCHANGED <<step, quotes, fee, melted, shown, mint>>

\* The token is put into it: handleRedeem.
Enter ==
    /\ Web /\ step = "none" /\ shown = 0 /\ tries < MaxTries /\ tries' = tries + 1
    /\ step' = "fee" /\ quotes' = <<>> /\ melted' = 0 /\ fee' = 0
    /\ UNCHANGED <<shown, failed, mint>>

\* getInvoiceFee: an invoice for all of the part, only to learn the fee.
FeeKnown(f) ==
    /\ step = "fee" /\ fee' = f /\ step' = "quote"
    /\ UNCHANGED <<quotes, melted, tries, shown, failed, mint>>

\* getUpdatedMeltQuote: an invoice for what is left, and its quote; then the
\* next part, the button (native) or executeMelts (web).
Quoted(f) ==
    /\ step = "quote" /\ fee' = 0
    /\ quotes' = Append(quotes, [amount |-> Sats[Len(quotes) + 1] - fee, fee |-> f])
    /\ step' = IF Len(quotes') < Len(Decoded) THEN "fee" ELSE IF Web THEN "melt" ELSE "none"
    /\ UNCHANGED <<melted, tries, shown, failed, mint>>

\* No invoice or no answer. ConfirmReceiveCashu waits on: nobody awaits
\* handleOmniInput, so that its catch is never reached.
QuoteFails ==
    /\ step \in {"fee", "quote"} /\ step' = "none" /\ quotes' = <<>> /\ fee' = 0
    /\ failed' = (failed \/ Web)
    /\ UNCHANGED <<melted, tries, shown, mint>>

\* handleSend of ConfirmReceiveCashu, with the quotes that it has.
Send ==
    /\ ~Web /\ step = "none" /\ quotes # <<>> /\ shown = 0
    /\ tries < MaxTries /\ tries' = tries + 1
    /\ step' = "melt" /\ melted' = 0
    /\ UNCHANGED <<quotes, fee, shown, failed, mint>>

Part == melted + 1
Covered == quotes[Part].amount + quotes[Part].fee <= Sats[Part]
Takes == step = "melt" /\ Part \notin spent /\ Covered

\* One melt was paid: the next one, or the screen of success.
Continue ==
    /\ melted' = Part
    /\ IF Part = Len(quotes) THEN step' = "none" /\ shown' = Sum(quotes)
       ELSE UNCHANGED <<step, shown>>
    /\ UNCHANGED <<quotes, fee, tries, failed>>

\* 'Payment failed', or fetch throws: what was melted stays so.
BreakOff ==
    /\ step' = "none" /\ failed' = TRUE
    /\ UNCHANGED <<quotes, fee, melted, tries, shown>>

\* The mint pays the invoice, and its answer arrives or is lost.
MeltPaid ==
    /\ Takes
    /\ spent' = spent \cup {Part} /\ received' = received + quotes[Part].amount
    /\ UNCHANGED owing
    /\ Continue \/ BreakOff

\* The mint's payment is under way: it says that it has not paid.
MeltPending ==
    /\ Takes
    /\ spent' = spent \cup {Part}
    /\ owing' = owing \cup {[part |-> Part, amount |-> quotes[Part].amount]} /\ UNCHANGED received
    /\ BreakOff

\* No route, inputs spent or too small, no answer.
MeltUnpaid == step = "melt" /\ BreakOff /\ UNCHANGED mint

\* A payment of the mint that was under way arrives, or comes back.
Settle(o) ==
    /\ o \in owing /\ owing' = owing \ {o}
    /\ \/ received' = received + o.amount /\ UNCHANGED spent
       \/ spent' = spent \ {o.part} /\ UNCHANGED received
    /\ UNCHANGED <<step, quotes, fee, melted, tries, shown, failed>>

Answer ==
    \/ \E f \in Fees : FeeKnown(f) \/ Quoted(f)
    \/ QuoteFails \/ MeltPaid \/ MeltPending \/ MeltUnpaid

Next ==
    \/ Open \/ Enter \/ EnterOther \/ Send \/ Answer
    \/ \E o \in owing : Settle(o)

Spec == Init /\ [][Next]_vars
\* Every request is answered, or fetch gives up.
Fairness == WF_vars(Answer)
FairSpec == Spec /\ Fairness

-----------------------------------------------------------------------------
\* What is said to be received is what the wallet got for this token.
SuccessIsReceived == shown # 0 => shown <= received

\* "we melt for each mint": after a success the mints have taken the whole token.
SuccessIsWhole == shown # 0 => spent = Parts

\* "otherwise it makes another invoice using the new fees": what is melted is
\* worth the invoice and the fees that the mint then asks for it.
MeltIsCovered == step = "melt" => Covered

\* No wait is for ever.
WaitEnds == (step # "none") ~> (step = "none")

\* "Delay reporting until the message has shown for a bit": the dialog of the
\* web shows a success, whatever was entered before it.
SuccessIsShown == Web /\ shown # 0 => ~failed
=============================================================================
