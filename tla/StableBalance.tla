----------------------------- MODULE StableBalance -----------------------------
(***************************************************************************)
(* The wallet's view of its stable balance (redux/wallet.ts), the forms    *)
(* that deposit to it and withdraw from it, and what they ask of the       *)
(* bridge. Balances are kept in three units: the pool locks cents, stages  *)
(* msats, and the forms are in sats; each conversion rounds, at the rate   *)
(* of the moment.                                                          *)
(*                                                                         *)
(* The pool is external here: StabilityPool has it. It is one account's    *)
(* share of it, with fees and changes of price left out.                   *)
(***************************************************************************)
EXTENDS Integers

CONSTANTS
    Rates,        \* sats a cent is worth, in 1/Parts
    Parts,        \* a rate may be a fraction of a sat
    MsatsPerSat,
    Locked,       \* locked balances to begin with, in cents
    Ecash,        \* ecash balances to begin with, in msats
    Typed,        \* amounts typed, besides the bounds
    MinBps,       \* min_allowed_cancellation_bps
    MaxStable,    \* max_stable_balance_msats in sats, or 0
    FeeRate,      \* max_allowed_provide_fee_rate_ppb in 1/1000
    FediFee,      \* what the bridge takes of a deposit, in 1/1000
    Fresh,        \* BOOLEAN: nothing moves under an open form, which shows the pool as it is
    MaxCalls      \* bound: deposits and withdrawals

StableBalanceAssumption ==
    /\ Rates \subseteq Nat \ {0} /\ Parts \in Nat \ {0} /\ MsatsPerSat \in Nat \ {0}
    /\ Locked \subseteq Nat /\ Ecash \subseteq Nat /\ Typed \subseteq Nat
    /\ MinBps \in 0 .. 10000 /\ {MaxStable, FeeRate, FediFee, MaxCalls} \subseteq Nat
    /\ Fresh \in BOOLEAN

VARIABLES
    rate,      \* btcUsdRate
    ecash,     \* the federation's balance
    pool,      \* the account in the pool: staged (msats), locked (cents), cancelled (bps)
    info,      \* stabilityPoolAccountInfo
    screen, amount,
    call,      \* the last call of the bridge: what it was for, its arguments, the balance it
               \* found, its outcome
    calls

vars == <<rate, ecash, pool, info, screen, amount, call, calls>>

Bps == 10000
NoCall == [kind |-> "none", wanted |-> 0, unlocked |-> 0, bps |-> 0,
           held |-> 0, ok |-> TRUE]
NotANumber == -1
Accounts == [staged : Nat, locked : Nat, cancelled : 0 .. Bps]

TypeOK ==
    /\ rate \in Rates /\ ecash \in Nat /\ pool \in Accounts /\ info \in Accounts
    /\ screen \in {"home", "deposit", "withdraw"} /\ amount \in Nat
    /\ call.kind \in {"none", "deposit", "withdraw"}
    /\ call.bps \in Nat \cup {NotANumber} /\ call.unlocked \in Nat /\ call.held \in Nat
    /\ call.ok \in BOOLEAN /\ calls \in 0 .. MaxCalls

Init ==
    /\ rate \in Rates /\ ecash \in Ecash
    /\ \E l \in Locked : pool = [staged |-> 0, locked |-> l, cancelled |-> 0]
    /\ info = pool /\ screen = "home" /\ amount = 0 /\ call = NoCall /\ calls = 0

-----------------------------------------------------------------------------
\* toFixed: to the nearest, and a half up.
Round(n, d) == (2 * n + d) \div (2 * d)
Least(a, b) == IF a < b THEN a ELSE b
Most(a, b) == IF a > b THEN a ELSE b

\* msatToSat, satToMsat, fiatToSat and msatToFiat.
Sat(msats) == msats \div MsatsPerSat
Msats(sats) == sats * MsatsPerSat
SatsOf(hundredths) == Round(hundredths * rate, 100 * Parts)
CentsOf(msats) == Round(Sat(msats) * Parts, rate)

\* selectStableBalanceCents and selectStableBalancePendingCents, in hundredths of a cent.
Stable == info.locked * 100 - (info.locked * info.cancelled * 100) \div Bps
Pending == CentsOf(info.staged) * 100 - Round(info.locked * info.cancelled * 100, Bps)

LeastWithdrawn == IF Pending > 0 THEN 0 ELSE SatsOf(Round(Stable * MinBps, Bps))

MostWithdrawn == SatsOf(Stable + Pending)

MostDeposited ==
    IF MaxStable = 0 THEN Sat(ecash)
    ELSE Least(Sat(ecash), Most(0, MaxStable - SatsOf(Stable)))

-----------------------------------------------------------------------------
Shown == Fresh => info = pool
Still == Fresh => screen = "home"

\* The buttons of the home screen.
OpenDeposit ==
    /\ screen = "home" /\ Shown /\ ecash > 0 /\ Pending >= 0 /\ calls < MaxCalls
    /\ MaxStable > 0 => SatsOf(Stable) <= MaxStable
    /\ \E a \in Typed \cup {MostDeposited} :
         a \in 1 .. MostDeposited /\ amount' = a
    /\ screen' = "deposit"
    /\ UNCHANGED <<rate, ecash, pool, info, call, calls>>

OpenWithdraw ==
    /\ screen = "home" /\ Shown /\ calls < MaxCalls
    /\ Stable # 0 \/ Pending # 0
    /\ Pending >= 0
    /\ \E a \in Typed \cup {LeastWithdrawn, MostWithdrawn} :
         a \in 1 .. MostWithdrawn /\ a >= LeastWithdrawn /\ amount' = a
    /\ screen' = "withdraw"
    /\ UNCHANGED <<rate, ecash, pool, info, call, calls>>

Back ==
    /\ screen # "home" /\ screen' = "home" /\ amount' = 0
    /\ UNCHANGED <<rate, ecash, pool, info, call, calls>>

\* Mutant: the padding may go beyond the balance.
PaddedOver(asked) == asked + Most(MsatsPerSat, 10 * Round(asked * FeeRate, 1000))

\* increaseStableBalance adds the fees of ten cycles, at least a sat.
Padded(asked) == Least(ecash, asked + Most(MsatsPerSat, 10 * Round(asked * FeeRate, 1000)))

\* What the bridge adds to a deposit.
FeeOf(paid) == (paid * FediFee + 999) \div 1000

\* stability_pool_deposit_to_seek
Deposit ==
    LET asked == Msats(amount)
        paid  == Padded(asked)
        fee   == FeeOf(paid)
        ok    == paid + fee <= ecash /\ pool.cancelled = 0
    IN  /\ screen = "deposit" /\ screen' = "home" /\ amount' = 0 /\ calls' = calls + 1
        /\ call' = [kind |-> "deposit", wanted |-> asked, unlocked |-> paid, bps |-> 0,
                    held |-> ecash, ok |-> ok]
        /\ IF ok THEN ecash' = ecash - paid - fee /\ pool' = [pool EXCEPT !.staged = @ + paid]
                 ELSE UNCHANGED <<ecash, pool>>
        /\ UNCHANGED <<rate, info>>

\* Mutant: a withdrawal takes all that is staged.
UnlockedAll(asked) == info.staged

\* The two parts of a withdrawal: msats of what is staged, basis points of what is locked.
Unlocked(asked) ==
    IF asked <= info.staged
    THEN IF info.staged - asked < MsatsPerSat THEN info.staged ELSE asked
    ELSE info.staged

LockedBps(asked) ==
    IF asked <= info.staged THEN 0
    ELSE IF info.locked = 0 THEN NotANumber
    ELSE Round(CentsOf(asked - info.staged) * Bps, info.locked)

\* Whether the pool takes a cancellation: CancelRenewal.
Cancels(bps, staged) ==
    bps \in MinBps .. Bps /\ staged = 0 /\ pool.cancelled = 0 /\ pool.locked > 0

\* decreaseStableBalance. The unlocked part is withdrawn before the cancellation is tried.
Withdraw ==
    LET asked == Msats(amount)
        unlocked == Unlocked(asked)
        bps   == LockedBps(asked)
        first == bps # NotANumber /\ unlocked <= pool.staged /\ (unlocked > 0 \/ bps > 0)
        ok    == first /\ (bps = 0 \/ Cancels(bps, pool.staged - unlocked))
    IN  /\ screen = "withdraw" /\ screen' = "home" /\ amount' = 0 /\ calls' = calls + 1
        /\ call' = [kind |-> "withdraw", wanted |-> asked, unlocked |-> unlocked, bps |-> bps,
                    held |-> ecash, ok |-> ok]
        /\ pool' = [staged |-> IF first THEN pool.staged - unlocked ELSE pool.staged,
                    locked |-> pool.locked,
                    cancelled |-> IF ok /\ bps > 0 THEN bps ELSE pool.cancelled]
        /\ ecash' = IF first THEN ecash + unlocked ELSE ecash
        /\ UNCHANGED <<rate, info>>

-----------------------------------------------------------------------------
\* fetchStabilityPoolAccountInfo: every minute, and after each operation.
Refresh ==
    /\ Still /\ info # pool /\ info' = pool
    /\ UNCHANGED <<rate, ecash, pool, screen, amount, call, calls>>

\* fetchCurrencyPrices
RateMoves(r) ==
    /\ Still /\ r # rate /\ rate' = r
    /\ UNCHANGED <<ecash, pool, info, screen, amount, call, calls>>

\* External: the pool turns over; what was cancelled comes back as ecash.
TurnOver ==
    LET freed == (pool.locked * pool.cancelled + Bps - 1) \div Bps
        filled == (Sat(pool.staged) * Parts) \div rate
    IN  /\ Still /\ pool.staged + pool.cancelled > 0
        /\ pool' = [staged |-> 0, locked |-> pool.locked - freed + filled, cancelled |-> 0]
        /\ ecash' = ecash + Msats(SatsOf(freed * 100))
        /\ UNCHANGED <<rate, info, screen, amount, call, calls>>

\* External: a payment is made elsewhere.
Spend ==
    /\ Still /\ ecash > 0 /\ ecash' = ecash \div 2
    /\ UNCHANGED <<rate, pool, info, screen, amount, call, calls>>

Next ==
    \/ OpenDeposit \/ OpenWithdraw \/ Back \/ Deposit \/ Withdraw
    \/ Refresh \/ (\E r \in Rates : RateMoves(r)) \/ TurnOver \/ Spend

Spec == Init /\ [][Next]_vars

-----------------------------------------------------------------------------
Called(kind) == call.kind = kind

\* What a withdrawal cancels is not less than the pool allows, and not more than all.
CancellationIsAllowed ==
    Called("withdraw") => call.bps \in {0, NotANumber} \cup MinBps .. Bps

\* What a withdrawal asks of the bridge is a number.
AsksForANumber == call.bps # NotANumber

\* A withdrawal takes what was confirmed, to a cent.
WithdrawalIsExact ==
    Withdraw /\ call'.ok =>
        LET taken == CentsOf(call'.unlocked) + Round(call'.bps * info.locked, Bps)
        IN  CentsOf(call'.wanted) - taken \in -1 .. 1
TakesWhatWasConfirmed == [][WithdrawalIsExact]_vars

\* A withdrawal is never taken in part only.
FailureTakesNothing == Withdraw /\ ~call'.ok => pool' = pool
AllOrNothing == [][FailureTakesNothing]_vars

\* A deposit that the form allows is covered by the balance and taken by the pool: it is
\* refused only if the balance has nothing left for the fee that the bridge adds.
DepositIsTaken ==
    Called("deposit") /\ ~call.ok =>
        call.unlocked <= call.held /\ call.unlocked + FeeOf(call.unlocked) > call.held

\* A deposit is not less than what was confirmed.
DepositsWhatWasConfirmed == Called("deposit") => call.unlocked >= call.wanted

\* The stable balance, with what is about to be locked and but for the padding, stays
\* below the maximum.
Within == SatsOf(pool.locked * 100) + Sat(pool'.staged - call'.unlocked + call'.wanted) <= MaxStable

StaysBelowMaximum == [][Deposit /\ call'.ok /\ MaxStable > 0 => Within]_vars

\* It does when nothing was pending before.
FirstIsWithin == Deposit /\ call'.ok /\ MaxStable > 0 /\ pool.staged = 0 => Within
FirstStaysBelowMaximum == [][FirstIsWithin]_vars
=============================================================================
