-------------------------- MODULE StabilityOperations --------------------------
(***************************************************************************)
(* One account of the stability pool and all that withdraws from it: the   *)
(* user, the bridge's sweeper of unfilled deposits, and the hook of the    *)
(* user interface that sweeps the idle balance. Each starts an operation   *)
(* of the client, whose state machines submit transactions, wait for       *)
(* turnovers and tell how it goes.                                         *)
(*                                                                         *)
(* The pool is external here, prices and fees left out. Amounts are small; *)
(* each actor has one operation at a time.                                 *)
(***************************************************************************)
EXTENDS Naturals

CONSTANTS
    AllMoney,      \* all there is
    Actors,        \* those of "ui", "sweeper", "monitor" that act
    Deposits,      \* BOOLEAN: the user deposits
    EventsEarly,   \* BOOLEAN: events may come before the screen listens
    OutputsFail,   \* BOOLEAN: the mint's outputs of a transaction may fail
    CallsFail      \* BOOLEAN: calls of the bridge may fail

StabilityOperationsAssumption ==
    /\ AllMoney \in Nat \ {0} /\ Actors \subseteq {"ui", "sweeper", "monitor"}
    /\ {Deposits, EventsEarly, OutputsFail, CallsFail} \subseteq BOOLEAN

VARIABLES
    ecash,
    idle, fresh, old, locked, cancelled,  \* the account: idle, staged, locked, to be cancelled
    recorded,   \* whether the last deposit is of the running cycle, as the bridge wrote it
    op,         \* the operation of each party; those that do not act have none
    info,       \* stabilityPoolAccountInfo
    sweeping,   \* isSweepingIdleBalanceRef
    read,       \* what the sweeper read, or 0
    promise     \* what the screen waits for

vars == <<ecash, idle, fresh, old, locked, cancelled, recorded, op, info, sweeping, read, promise>>
account == <<idle, fresh, old, locked, cancelled>>

Staged == fresh + old
Parties == {"ui", "sweeper", "monitor"}
NoOp == [st |-> "none", ask |-> 0, cancel |-> 0, got |-> 0, base |-> 0]
Ended == {"none", "success", "deposited", "txRejected", "outputError", "cancelFailed"}
Began == {"deposit", "unlock", "cancel", "accepted", "watching", "claim", "paying"}

TypeOK ==
    /\ {ecash, idle, fresh, old, locked, cancelled, read} \subseteq 0 .. AllMoney /\ cancelled <= locked
    /\ recorded \in BOOLEAN /\ sweeping \in BOOLEAN
    /\ \A a \in Actors : /\ op[a].st \in Ended \cup Began
                         /\ {op[a].ask, op[a].cancel, op[a].got, op[a].base} \subseteq 0 .. AllMoney
    /\ {info.idle, info.staged, info.locked, info.cancelled} \subseteq 0 .. AllMoney
    /\ promise \in {"none", "called", "listening", "resolved", "rejected"}

Init ==
    /\ ecash = 0 /\ fresh = 0 /\ cancelled = 0
    /\ idle \in 0 .. AllMoney /\ old \in 0 .. AllMoney - idle /\ locked = AllMoney - idle - old
    /\ recorded = FALSE
    /\ op = [a \in Parties |-> NoOp]
    /\ info = [idle |-> idle, staged |-> old, locked |-> locked, cancelled |-> 0]
    /\ sweeping = FALSE /\ read = 0 /\ promise = "none"

-----------------------------------------------------------------------------
\* External: process_cycle_turnover. Staged seeks are locked, or stay when there are no
\* provides; what was cancelled becomes idle.
TurnOver ==
    /\ \E filled \in {0, Staged} :
         /\ locked' = locked - cancelled + filled /\ old' = Staged - filled
    /\ fresh' = 0 /\ idle' = idle + cancelled /\ cancelled' = 0 /\ recorded' = FALSE
    /\ UNCHANGED <<ecash, op, info, sweeping, read, promise>>

\* External: process_input drains what is idle, then the newest seeks.
CanTake(n) == n <= idle + Staged

Take(n) ==
    LET fromIdle == IF n < idle THEN n ELSE idle
        fromFresh == IF n - fromIdle < fresh THEN n - fromIdle ELSE fresh
    IN  /\ idle' = idle - fromIdle /\ fresh' = fresh - fromFresh
        /\ old' = old - (n - fromIdle - fromFresh)

CanCancel == cancelled = 0 /\ Staged = 0 /\ locked > 0

-----------------------------------------------------------------------------
Screens == {"called", "listening"}

\* What the screen makes of a state that is told. increaseStableBalance and
\* decreaseStableBalance listen for some of them only.
Outcome(st) ==
    IF st \in {"success", "deposited", "accepted"} THEN "resolved"
    ELSE IF st \in {"txRejected", "cancelFailed"} THEN "rejected" ELSE promise

Hears(a, st) == promise' = IF a = "ui" /\ promise = "listening" THEN Outcome(st) ELSE promise

Told(a, st) == op' = [op EXCEPT ![a].st = st] /\ Hears(a, st)

\* The state machines do not move before the screen listens, unless EventsEarly.
Runs(a) == a = "ui" /\ ~EventsEarly => promise # "called"

\* claim_input and the first transaction of withdraw: the pool takes them or not.
Unlocked(a) ==
    /\ op[a].st = "unlock" /\ Runs(a)
    /\ IF CanTake(op[a].ask)
       THEN /\ Take(op[a].ask)
            /\ op' = [op EXCEPT ![a].st = IF op[a].cancel > 0 THEN "cancel" ELSE "paying",
                                ![a].got = IF op[a].cancel > 0 THEN op[a].ask ELSE 0]
            /\ ecash' = IF op[a].cancel > 0 THEN ecash + op[a].ask ELSE ecash
            /\ UNCHANGED promise
       ELSE Told(a, "txRejected") /\ UNCHANGED <<ecash, idle, fresh, old>>
    /\ UNCHANGED <<locked, cancelled, recorded, info, sweeping, read>>

\* maybe_fund_cancellation_output, and the cancellation alone: all basis points of what
\* is locked by then.
Cancelled(a) ==
    /\ op[a].st = "cancel" /\ Runs(a)
    /\ IF CanCancel
       THEN /\ cancelled' = locked /\ Hears(a, "accepted")
            /\ op' = [op EXCEPT ![a].st = "accepted", ![a].cancel = locked]
       ELSE UNCHANGED cancelled /\ Told(a, "cancelFailed")
    /\ UNCHANGED <<ecash, idle, fresh, old, locked, recorded, info, sweeping, read>>

\* Mutant: a cancellation that was processed before it was asked about is not taken up.
WatchPending(a) ==
    /\ op[a].st = "accepted" /\ cancelled > 0
    /\ op' = [op EXCEPT ![a].st = "watching", ![a].base = idle]
    /\ UNCHANGED <<ecash, account, recorded, info, sweeping, read, promise>>

\* await_cancellation_processed asks the pool, every ten seconds when it fails.
Watch(a) ==
    /\ op[a].st = "accepted"
    /\ \/ cancelled > 0 /\ op' = [op EXCEPT ![a].st = "watching", ![a].base = idle]
       \/ cancelled = 0 /\ idle > 0 /\ op' = [op EXCEPT ![a].st = "claim", ![a].ask = idle]
    /\ UNCHANGED <<ecash, account, recorded, info, sweeping, read, promise>>

\* wait_cancellation_processed: the idle balance has grown.
Processed(a) ==
    /\ op[a].st = "watching" /\ idle > op[a].base
    /\ op' = [op EXCEPT ![a].st = "claim", ![a].ask = idle]
    /\ UNCHANGED <<ecash, account, recorded, info, sweeping, read, promise>>

\* claim_idle_balance_input
Claimed(a) ==
    /\ op[a].st = "claim"
    /\ IF CanTake(op[a].ask)
       THEN Take(op[a].ask) /\ op' = [op EXCEPT ![a].st = "paying"] /\ UNCHANGED promise
       ELSE Told(a, "txRejected") /\ UNCHANGED <<idle, fresh, old>>
    /\ UNCHANGED <<ecash, locked, cancelled, recorded, info, sweeping, read>>

\* await_primary_module_outputs
Paid(a) ==
    /\ op[a].st = "paying" /\ Runs(a)
    /\ \/ /\ op' = [op EXCEPT ![a].st = "success", ![a].got = @ + op[a].ask]
          /\ ecash' = ecash + op[a].ask /\ Hears(a, "success")
       \/ OutputsFail /\ Told(a, "outputError") /\ UNCHANGED ecash
    /\ UNCHANGED <<account, recorded, info, sweeping, read>>

-----------------------------------------------------------------------------
Start(a, ask, cancel) ==
    /\ a \in Actors /\ op[a].st \in Ended
    /\ op' = [op EXCEPT ![a] = [NoOp EXCEPT !.st = IF ask > 0 THEN "unlock" ELSE "cancel",
                                            !.ask = ask, !.cancel = cancel]]

\* handleSubmit of the screens. The user sees the balance as the wallet knows it.
Withdraw ==
    /\ "ui" \in Actors /\ promise \notin Screens /\ info.cancelled = 0
    /\ \E ask \in {0, info.staged}, cancel \in {0, info.locked} :
         /\ ask + cancel > 0 /\ (cancel > 0 => ask = info.staged)
         /\ Start("ui", ask, cancel)
    /\ promise' = "called"
    /\ UNCHANGED <<ecash, account, recorded, info, sweeping, read>>

Deposit ==
    /\ "ui" \in Actors /\ Deposits /\ promise \notin Screens /\ op["ui"].st \in Ended
    /\ info.cancelled = 0 /\ ecash > 0
    /\ op' = [op EXCEPT !["ui"] = [NoOp EXCEPT !.st = "deposit", !.ask = 1]]
    /\ promise' = "called"
    /\ UNCHANGED <<ecash, account, recorded, info, sweeping, read>>

\* subscribe_deposit_operation
Deposited ==
    /\ "ui" \in Actors /\ op["ui"].st = "deposit" /\ Runs("ui")
    /\ IF cancelled = 0 /\ ecash >= op["ui"].ask
       THEN /\ ecash' = ecash - op["ui"].ask /\ fresh' = fresh + op["ui"].ask
            /\ Told("ui", "deposited") /\ UNCHANGED <<idle, old, locked, cancelled>>
       ELSE Told("ui", "txRejected") /\ UNCHANGED <<ecash, account>>
    /\ UNCHANGED <<recorded, info, sweeping, read>>

\* LastStabilityPoolDepositCycleKey is written after the transaction was submitted.
Record ==
    /\ "ui" \in Actors /\ op["ui"].st \in {"deposit", "deposited"} /\ ~recorded
    /\ recorded' = TRUE
    /\ UNCHANGED <<ecash, account, op, info, sweeping, read, promise>>

Listen ==
    /\ promise = "called" /\ promise' = "listening"
    /\ UNCHANGED <<ecash, account, recorded, op, info, sweeping, read>>

\* sweep_stability_pool_inner
SweeperReads ==
    /\ "sweeper" \in Actors /\ op["sweeper"].st \in Ended /\ read = 0
    /\ ~recorded /\ Staged > 0 /\ read' = Staged + idle
    /\ UNCHANGED <<ecash, account, recorded, op, info, sweeping, promise>>

SweeperWithdraws ==
    /\ read > 0 /\ Start("sweeper", read, 0) /\ read' = 0
    /\ UNCHANGED <<ecash, account, recorded, info, sweeping, promise>>

\* The effect of useMonitorStabilityPool resets its mark when nothing is idle.
Forgets(i) == sweeping' = (sweeping /\ ~(i.idle = 0 /\ i.cancelled <= i.staged))

\* refreshActiveStabilityPool: each minute and after most events.
Refresh ==
    LET i == [idle |-> idle, staged |-> Staged, locked |-> locked, cancelled |-> cancelled] IN
    /\ i # info /\ info' = i /\ Forgets(i)
    /\ UNCHANGED <<ecash, account, recorded, op, read, promise>>

\* The same effect, which runs when the idle balance that is known has changed.
Sweep ==
    /\ "monitor" \in Actors /\ info.idle > 0 /\ info.cancelled <= info.staged /\ ~sweeping
    /\ sweeping' = TRUE
    /\ \/ Start("monitor", info.idle, 0)
       \/ CallsFail /\ UNCHANGED op
    /\ UNCHANGED <<ecash, account, recorded, info, read, promise>>

-----------------------------------------------------------------------------
Progress(a) == Unlocked(a) \/ Cancelled(a) \/ Watch(a) \/ Processed(a) \/ Claimed(a) \/ Paid(a)

Next ==
    \/ TurnOver \/ Withdraw \/ Deposit \/ Deposited \/ Record \/ Listen
    \/ SweeperReads \/ SweeperWithdraws \/ Refresh \/ Sweep
    \/ \E a \in Actors : Progress(a)

\* Cycles turn over (whether provides fill the seeks or not), state machines run, the hook
\* refreshes and the screen listens.
Fairness ==
    /\ WF_vars(TurnOver /\ cancelled > 0) /\ WF_vars(Listen) /\ WF_vars(Deposited)
    /\ SF_vars(Refresh) /\ WF_vars(Sweep) /\ WF_vars(SweeperWithdraws)
    /\ \A a \in Actors : SF_vars(Progress(a))

Spec == Init /\ [][Next]_vars /\ Fairness

-----------------------------------------------------------------------------
\* A withdrawal that has begun ends: "the overall operation only completes when both
\* parts have completed".
WithdrawalEnds == "ui" \in Actors /\ op["ui"].st \notin Ended ~> op["ui"].st \in Ended

\* The screen hears of its operation.
ScreenReturns == promise \in Screens ~> promise \notin Screens

\* What is told to have been rejected has not been paid.
RejectedIsNotPaid == \A a \in Actors : op[a].st \in {"txRejected", "cancelFailed"} => op[a].got = 0

\* A withdrawal that succeeds has paid what it asked for, of what was cancelled at least.
SuccessIsPaid == \A a \in Actors : op[a].st = "success" => op[a].got >= op[a].cancel

\* What becomes idle is not left there.
IdleIsSwept == idle > 0 ~> idle = 0

\* The hook takes what is idle and never what is staged.
TakesIdleOnly == \A a \in Actors \cap {"monitor"} : Unlocked(a) => Staged' = Staged
SweepsIdleOnly == [][TakesIdleOnly]_vars

\* What was deposited since the last turnover is withdrawn by the user only.
FreshDepositsStay == [][fresh' < fresh => Unlocked("ui") \/ Claimed("ui") \/ TurnOver]_vars
=============================================================================
