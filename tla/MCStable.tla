------------------------------ MODULE MCStable ------------------------------
(***************************************************************************)
(* Stable balances, for TLC: the loops of the server that match seeks and  *)
(* provides, the forms of deposits and withdrawals, and the operations     *)
(* that carry them out: LockMatchingLoops, which this module extends, and  *)
(* instances of StableBalance and StabilityOperations, side by side.       *)
(* One of them runs, the one that which names; they share no state.        *)
(***************************************************************************)
EXTENDS LockMatchingLoops

CONSTANTS
    \* StableBalance: deposits
    Rates, Parts, MsatsPerSat, Locked, Ecash, Typed, MinBps, MaxStable, FeeRate,
    FediFee, Fresh, MaxCalls,
    \* StabilityOperations: what the user asks for on the screen
    AllMoney, Actors, UserDeposits, EventsEarly, OutputsFail, CallsFail

VARIABLES
    which,   \* the system that runs
    \* StableBalance
    stableRate, ecash, pool, info, stableScreen, stableAmount, stableCall, stableCalls,
    \* StabilityOperations
    held, idle, freshStaged, oldStaged, lockedSum, cancelledSum, recorded, op,
    told, sweeping, read, promise

balanceVars == <<stableRate, ecash, pool, info, stableScreen, stableAmount,
                 stableCall, stableCalls>>
operationsVars == <<held, idle, freshStaged, oldStaged, lockedSum, cancelledSum,
                    recorded, op, told, sweeping, read, promise>>
allStable == <<which, vars, balanceVars, operationsVars>>

-----------------------------------------------------------------------------
\* Deposits, up to a maximum and with a fee for the locks; and withdrawals of all
\* and of part at two rates.
Depositing == INSTANCE StableBalance WITH
    rate <- stableRate, screen <- stableScreen, amount <- stableAmount, call <- stableCall,
    calls <- stableCalls
Withdrawing == INSTANCE StableBalance WITH
    Rates <- {6, 10}, Parts <- 2, MsatsPerSat <- 2, Locked <- {70},
    Ecash <- {30}, Typed <- {4, 10}, MinBps <- 0, MaxStable <- 0,
    FeeRate <- 0, FediFee <- 0, Fresh <- TRUE, MaxCalls <- 2,
    rate <- stableRate, screen <- stableScreen, amount <- stableAmount, call <- stableCall,
    calls <- stableCalls

-----------------------------------------------------------------------------
\* What the user asks for on the screen; the sweeper and the hook that moves
\* the idle balance; and the hook when outputs and calls fail.
User == INSTANCE StabilityOperations WITH
    Deposits <- UserDeposits, ecash <- held, fresh <- freshStaged,
    old <- oldStaged, locked <- lockedSum, cancelled <- cancelledSum,
    info <- told
Swept == INSTANCE StabilityOperations WITH
    AllMoney <- 5, Actors <- {"sweeper", "monitor"}, Deposits <- FALSE,
    EventsEarly <- FALSE, OutputsFail <- FALSE, CallsFail <- FALSE,
    ecash <- held, fresh <- freshStaged, old <- oldStaged,
    locked <- lockedSum, cancelled <- cancelledSum, info <- told
Failing == INSTANCE StabilityOperations WITH
    AllMoney <- 5, Actors <- {"sweeper", "monitor"}, Deposits <- FALSE,
    EventsEarly <- FALSE, OutputsFail <- TRUE, CallsFail <- TRUE,
    ecash <- held, fresh <- freshStaged, old <- oldStaged,
    locked <- lockedSum, cancelled <- cancelledSum, info <- told

-----------------------------------------------------------------------------
ASSUME StableConstantsAssumption ==
    /\ Withdrawing!StableBalanceAssumption /\ Depositing!StableBalanceAssumption
    /\ User!StabilityOperationsAssumption /\ Swept!StabilityOperationsAssumption
    /\ Failing!StabilityOperationsAssumption

\* A system that does not run stays in the one initial state given here.
StableInit ==
    /\ which \in {"loops", "withdrawing", "depositing", "user", "swept",
                  "failing"}
    /\ Init
    /\ which # "loops" => DOMAIN seeks0 = {} /\ DOMAIN provides0 = {}
    /\ which = "withdrawing" => Withdrawing!Init
    /\ which = "depositing" => Depositing!Init
    /\ which \notin {"withdrawing", "depositing"} => Withdrawing!Init /\ stableRate = 6
    /\ which = "user" => User!Init
    /\ which = "swept" => Swept!Init
    /\ which = "failing" => Failing!Init
    /\ which \notin {"user", "swept", "failing"} => User!Init /\ idle = 3

LoopsStep ==
    /\ which = "loops" /\ Next
    /\ UNCHANGED <<which, balanceVars, operationsVars>>

BalanceStep ==
    /\ \/ which = "withdrawing" /\ Withdrawing!Next
       \/ which = "depositing" /\ Depositing!Next
    /\ UNCHANGED <<which, vars, operationsVars>>

OperationsStep ==
    /\ \/ which = "user" /\ User!Next
       \/ which = "swept" /\ Swept!Next
       \/ which = "failing" /\ Failing!Next
    /\ UNCHANGED <<which, vars, balanceVars>>

StableNext == LoopsStep \/ BalanceStep \/ OperationsStep

\* Each system is fair as its module says.
StableFairness ==
    \/ which = "loops" /\ Fairness
    \/ which = "user" /\ User!Fairness
    \/ which = "swept" /\ Swept!Fairness
    \/ which \notin {"loops", "user", "swept"}

StableSpec == StableInit /\ [][StableNext]_allStable /\ StableFairness

-----------------------------------------------------------------------------
\* The loops end: an item of amount zero does not hold them up.
LoopsEnd == which = "loops" => Terminates

\* What a withdrawal cancels is not less than the pool allows, and not more
\* than all (useStabilityPool).
CancellationIsAllowed == which = "withdrawing" => Withdrawing!CancellationIsAllowed

\* A withdrawal takes what was confirmed, to a cent.
TakesWhatWasConfirmed ==
    [][which = "withdrawing" => Withdrawing!WithdrawalIsExact]_<<which, balanceVars>>

\* A withdrawal is never taken in part only, at a rate that does not move
\* under the form.
AllOrNothing ==
    [][which = "withdrawing" => Withdrawing!FailureTakesNothing]_<<which, balanceVars>>

\* A deposit that the form allows is covered by the balance and taken by the pool, when
\* nothing moves under the form; it is refused only for the fee that the bridge adds.
DepositIsTaken == which = "depositing" /\ Fresh => Depositing!DepositIsTaken

\* A deposit is not less than what was confirmed, when nothing moves under the form.
DepositsWhatWasConfirmed ==
    which = "depositing" /\ Fresh => Depositing!DepositsWhatWasConfirmed

\* The stable balance stays below the maximum when nothing was pending
\* before.
FirstStaysBelowMaximum ==
    [][which = "depositing" => Depositing!FirstIsWithin]_<<which, balanceVars>>

\* A withdrawal of the user that has begun ends.
WithdrawalEnds == which = "user" => User!WithdrawalEnds

\* The screen hears of its operation.
ScreenReturns == which = "user" => User!ScreenReturns

\* A withdrawal that succeeds has paid what it asked for, of what was
\* cancelled at least, when no sweep comes in between.
SuccessIsPaid == which = "user" /\ Actors \subseteq {"ui"} => User!SuccessIsPaid

\* What becomes idle is not left there, by the sweeper and the hook
\* together.
IdleIsSwept == which = "swept" => Swept!IdleIsSwept

\* The hook takes what is idle and never what is staged.
SweepsIdleOnly ==
    [][which = "failing" => Failing!TakesIdleOnly]_<<which, operationsVars>>

-----------------------------------------------------------------------------
\* When nothing moves under an open form, the pool takes what is deposited, not less than
\* what was confirmed, unless the balance has nothing left for the fee that the bridge
\* adds. A withdrawal told to have succeeded has paid what it asked for, when only the
\* thunks of the user withdraw.
AskedIsTaken ==
    /\ which = "depositing" => Depositing!TypeOK
    /\ which = "user" => User!TypeOK
    /\ DepositIsTaken
    /\ DepositsWhatWasConfirmed
    /\ SuccessIsPaid

\* What was confirmed is done: exactly, all of it or nothing, and within the
\* maximum and what the pool allows.
ConfirmedIsDone ==
    /\ [](which = "withdrawing" => Withdrawing!TypeOK)
    /\ []CancellationIsAllowed
    /\ TakesWhatWasConfirmed
    /\ AllOrNothing
    /\ FirstStaysBelowMaximum

\* Loops, withdrawals, screens and sweeps come to an end, and a sweep takes no
\* more than what was idle.
OperationsEnd ==
    /\ LoopsEnd
    /\ WithdrawalEnds
    /\ ScreenReturns
    /\ IdleIsSwept
    /\ SweepsIdleOnly

=============================================================================
