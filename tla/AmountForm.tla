------------------------------ MODULE AmountForm ------------------------------
(***************************************************************************)
(* A form in which an amount is typed in sats or in fiat and sent from the *)
(* wallet of a federation: useAmountInput, useSendForm, useMinMaxSendAmount *)
(* and the screens that join them.                                         *)
(*                                                                         *)
(* The screen holds the amount it will send. The input holds, apart from   *)
(* it, the two texts it shows. Fiat is counted in hundredths of the        *)
(* currency, the rate in hundredths for 100 sats.                          *)
(***************************************************************************)
EXTENDS Integers

CONSTANTS
    Screen,      \* "confirm" (ConfirmSendLightning), "overlay" (SendPaymentOverlay),
                 \* "ecash" (GenerateEcashOverlay) or "dialog" (web)
    Wallets, Active,
    Balances,    \* msats
    Limits,      \* what services take: <<least, most>>, in msats
    Rates,
    Unit,        \* hundredths in the least amount of fiat shown: 1 or 100
    Group,       \* 10^n: digits are shown in groups of n
    SameLocale,  \* BOOLEAN: sats are shown and read with the same separator
    Digits, MaxTyped,       \* bounds of what is typed
    MaxChanges   \* bound: changes of rates, balances and wallets

AmountFormAssumption ==
    /\ Screen \in {"confirm", "overlay", "ecash", "dialog"} /\ Active \in Wallets
    /\ Balances \subseteq Nat /\ Rates \subseteq Nat \ {0} /\ Digits \subseteq 0 .. 9
    /\ \A l \in Limits : l[1] \in Nat /\ l[2] \in Nat /\ l[1] <= l[2]
    /\ Unit \in {1, 100} /\ Group \in Nat \ {0, 1} /\ SameLocale \in BOOLEAN
    /\ MaxTyped \in Nat /\ MaxChanges \in Nat

VARIABLES
    open,       \* the form is shown
    limit,      \* the limits of the service it pays
    amount,     \* inputAmount
    satsShown, fiatShown,   \* satsValue, and fiatValue in shown units
    isFiat,
    sent,       \* the last amount sent and the limits it was sent under
    rate, balance, paying,  \* of redux: the rate, balances, payFromFederationId
    changes,
    handledAnew \* history: the amount was set by what was scanned, handled anew for
                \* another wallet, since the texts were last set

vars == <<open, limit, amount, satsShown, fiatShown, isFiat, sent, rate, balance,
          paying, changes, handledAnew>>
store == <<rate, balance, paying, changes>>

Smaller(a, b) == IF a < b THEN a ELSE b
Larger(a, b) == IF a > b THEN a ELSE b
\* Math.round and toFixed of a quotient.
Rounded(a, b) == (2 * a + b) \div (2 * b)
\* msatToSat
Sat(msats) == msats \div 1000

\* satToFiat, and as it is shown.
Hundredths(sats) == Rounded(sats * rate, 100)
Units(sats) == Rounded(sats * rate, 100 * Unit)

\* What bounds the amount and what pays it.
BoundedBy == IF Screen \in {"overlay", "dialog"} THEN Active ELSE paying
PaidBy == IF Screen \in {"ecash", "dialog"} THEN Active ELSE paying

\* useMinMaxSendAmount; the least of a request for ecash is that of useRequestForm.
Bounds ==
    IF Screen = "ecash" THEN [min |-> Larger(1, Sat(limit[1])),
                              max |-> Sat(balance[BoundedBy])]
    ELSE IF balance[BoundedBy] < 1000 THEN [min |-> 0, max |-> 0]
    ELSE [min |-> IF limit[1] # 0 THEN Sat(limit[1]) ELSE 1,
          max |-> IF limit[2] # 0 THEN Smaller(Sat(limit[2]), Sat(balance[BoundedBy]))
                                  ELSE Sat(balance[BoundedBy])]
First == CASE Screen = "overlay" -> Bounds.min
            [] Screen = "ecash" -> 0
            [] OTHER -> Sat(limit[1])
InBounds(s) == s >= Bounds.min /\ s <= Bounds.max

TypeOK ==
    /\ open \in BOOLEAN /\ limit \in Limits /\ isFiat \in BOOLEAN
    /\ amount \in Nat /\ satsShown \in Nat /\ fiatShown \in Nat
    /\ sent.amount \in Nat \cup {-1} /\ sent.limit \in Limits
    /\ rate \in Rates /\ balance \in [Wallets -> Balances] /\ paying \in Wallets
    /\ changes \in 0 .. MaxChanges /\ handledAnew \in BOOLEAN

-----------------------------------------------------------------------------
Show(sats, units) ==
    /\ amount' = sats /\ satsShown' = sats /\ fiatShown' = units
    /\ handledAnew' = FALSE
    /\ UNCHANGED <<open, limit, isFiat, sent, store>>

Init ==
    /\ open = FALSE /\ limit \in Limits
    /\ amount = 0 /\ satsShown = 0 /\ fiatShown = 0 /\ isFiat \in BOOLEAN
    /\ sent = [amount |-> -1, limit |-> limit]
    /\ rate \in Rates /\ balance \in [Wallets -> Balances] /\ paying = Active
    /\ changes = 0 /\ handledAnew = FALSE

\* The form appears: reset() and a new key for the input, or a new screen.
Appear(l) ==
    /\ ~open /\ open' = TRUE /\ limit' = l /\ handledAnew' = FALSE
    /\ UNCHANGED <<isFiat, sent, store>>
    /\ amount' = First' /\ satsShown' = amount' /\ fiatShown' = Units(amount')

\* The group of digits a reader stops at that does not know the separator.
Leading[n \in Nat] == IF n < Group THEN n ELSE Leading[n \div Group]

\* handleChangeSats, of the text shown and one more digit, or one less.
TypedSats(n) == IF SameLocale \/ satsShown < Group THEN n ELSE Leading[satsShown]

PressSats(d) ==
    /\ open /\ ~isFiat /\ 10 * satsShown + d <= MaxTyped
    /\ LET s == TypedSats(10 * satsShown + d) IN Show(s, Units(s))

BackspaceSats ==
    /\ open /\ ~isFiat
    /\ LET s == satsShown \div 10 IN Show(s, Units(s))

\* handleChangeFiat: an amount of fiat that is a bound's stands for the bound.
SatsOfFiat(units) ==
    LET f == units * Unit
        Is(bound) == f > 0 /\ Hundredths(bound) = f
    IN  IF Is(Bounds.max) THEN Bounds.max
        ELSE IF Is(Bounds.min) THEN Bounds.min
        ELSE Rounded(f * 100, rate)

PressFiat(d) ==
    /\ open /\ isFiat /\ 10 * fiatShown + d <= MaxTyped
    /\ LET u == 10 * fiatShown + d IN Show(SatsOfFiat(u), u)

BackspaceFiat ==
    /\ open /\ isFiat
    /\ LET u == fiatShown \div 10 IN Show(SatsOfFiat(u), u)

\* Mutant: the suggestion only changes the amount.
SuggestAmount ==
    /\ open /\ ~InBounds(amount)
    /\ amount' = IF amount > Bounds.max THEN Bounds.max ELSE Bounds.min
    /\ UNCHANGED <<open, limit, satsShown, fiatShown, isFiat, sent, store, handledAnew>>

\* handlePressSuggestion of what validation says.
Suggest ==
    /\ open /\ ~InBounds(amount)
    /\ LET s == IF amount > Bounds.max THEN Bounds.max ELSE Bounds.min
       IN  Show(s, Units(s))

Switch ==
    /\ open /\ isFiat' = ~isFiat
    /\ UNCHANGED <<open, limit, amount, satsShown, fiatShown, sent, store, handledAnew>>

-----------------------------------------------------------------------------
\* Mutant: the bounds are not looked at.
SendAnyway ==
    /\ open /\ open' = FALSE
    /\ sent' = [amount |-> amount, limit |-> limit]
    /\ UNCHANGED <<limit, amount, satsShown, fiatShown, isFiat, store, handledAnew>>

\* handleSend, handleAccept. The dialog of the web does not look at the bounds.
Send ==
    /\ open /\ (InBounds(amount) \/ Screen = "dialog") /\ open' = FALSE
    /\ sent' = [amount |-> amount, limit |-> limit]
    /\ UNCHANGED <<limit, amount, satsShown, fiatShown, isFiat, store, handledAnew>>

Change == changes < MaxChanges /\ changes' = changes + 1

RateChanges ==
    /\ Change /\ rate' \in Rates \ {rate}
    /\ UNCHANGED <<open, limit, amount, satsShown, fiatShown, isFiat, sent, balance, paying,
                   handledAnew>>

BalanceChanges(w) ==
    /\ Change /\ \E b \in Balances : balance' = [balance EXCEPT ![w] = b]
    /\ UNCHANGED <<open, limit, amount, satsShown, fiatShown, isFiat, sent, rate, paying,
                   handledAnew>>

\* FederationWalletSelector. The screen that confirms handles its input anew, which
\* sets the amount to the least the service takes.
ChooseWallet(w) ==
    /\ Change /\ open /\ Screen # "dialog" /\ w # paying /\ paying' = w
    /\ LET sets == Screen = "confirm" /\ limit[1] # 0
       IN  /\ amount' = IF sets THEN Sat(limit[1]) ELSE amount
           /\ handledAnew' = (handledAnew \/ sets)
    /\ UNCHANGED <<open, limit, satsShown, fiatShown, isFiat, sent, rate, balance>>

Next ==
    \/ \E l \in Limits : Appear(l)
    \/ \E d \in Digits : PressSats(d) \/ PressFiat(d)
    \/ BackspaceSats \/ BackspaceFiat \/ Suggest \/ Switch \/ Send
    \/ RateChanges \/ \E w \in Wallets : BalanceChanges(w) \/ ChooseWallet(w)

Spec == Init /\ [][Next]_vars

-----------------------------------------------------------------------------
\* What the form shows is what it sends, whichever way the amount came to be, unless
\* another wallet was chosen since and set the amount under the texts.
ShownIsSent == open /\ ~handledAnew => satsShown = amount

Sends == sent' # sent

\* What is sent is what the service takes.
SentIsTaken ==
    [][Sends => sent'.amount * 1000 >= limit[1]
                /\ (limit[2] # 0 => sent'.amount * 1000 <= limit[2])]_vars

\* What is sent is covered by the wallet that pays it.
SendIsCovered == Sends => sent'.amount * 1000 <= balance[PaidBy]
SentIsCovered == [][SendIsCovered]_vars

\* A wallet with less than one sat sends nothing ("don't allow send at all").
EmptySendsNothing == [][Sends => balance[PaidBy] >= 1000]_vars

\* The fiat amount a bound is shown as can be typed and sent ("the entered amount
\* is exactly equal to the min/max amount").
BoundIsAccepted ==
    (isFiat /\ open /\ open' /\ fiatShown' # fiatShown /\ fiatShown' > 0
     /\ Bounds.min <= Bounds.max
     /\ fiatShown' \in {Units(Bounds.min), Units(Bounds.max)})
    => InBounds(amount')
ShownBoundIsAccepted == [][BoundIsAccepted]_vars

\* A digit typed after the shown ones is read after them ("can be 1,000 or 1.000
\* or 1 000").
TypedIsRead ==
    [][\A d \in Digits : PressSats(d) => amount' = 10 * satsShown + d]_vars
=============================================================================
