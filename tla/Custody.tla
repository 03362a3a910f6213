------------------------------- MODULE Custody -------------------------------
(***************************************************************************)
(* What the stability pool promises as a custodian, without queues, fees,  *)
(* prices or collateral.  An account has a balance, part of which is free. *)
(* It adds to it and takes from the free part when it likes; everything    *)
(* else the pool does moves msats between accounts and between free and    *)
(* committed, and keeps the sum.  An account that is not exposed (has no   *)
(* lock) before nor after such a move has exactly what it had, all of it   *)
(* free.                                                                   *)
(***************************************************************************)
EXTENDS Msats

CONSTANTS Account, Deposits, Withdrawals

VARIABLES balance, free, exposed

Init ==
    /\ balance = [a \in Account |-> 0]
    /\ free = [a \in Account |-> 0]
    /\ exposed = {}

Deposit(a, amount) ==
    /\ balance' = [balance EXCEPT ![a] = @ + amount]
    /\ free' = [free EXCEPT ![a] = @ + amount]
    /\ UNCHANGED exposed

Withdraw(a, amount) ==
    /\ amount <= free[a]
    /\ balance' = [balance EXCEPT ![a] = @ - amount]
    /\ free' = [free EXCEPT ![a] = @ - amount]
    /\ UNCHANGED exposed

Rebalance ==
    /\ balance' \in [Account -> 0 .. Total(balance)]
    /\ free' \in [Account -> 0 .. Total(balance)]
    /\ exposed' \in SUBSET Account
    /\ Total(balance') = Total(balance)
    /\ \A a \in Account :
         /\ free'[a] <= balance'[a]
         /\ a \notin exposed' => free'[a] = balance'[a]
         /\ a \notin exposed \cup exposed' => balance'[a] = balance[a]

Next ==
    \/ \E a \in Account, amount \in Deposits : Deposit(a, amount)
    \/ \E a \in Account, amount \in Withdrawals : Withdraw(a, amount)
    \/ Rebalance

Spec == Init /\ [][Next]_<<balance, free, exposed>>

=============================================================================
