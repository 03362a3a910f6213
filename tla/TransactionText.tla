--------------------------- MODULE TransactionText ----------------------------
(***************************************************************************)
(* What the history says of one operation: the operation moves through its *)
(* states, the bridge keeps those it hears of and makes a transaction of   *)
(* them (list_transactions), and the texts of utils/wallet.ts say how it   *)
(* went, with its amount and fees.                                         *)
(*                                                                         *)
(* A text is abstracted to what it says; amounts to their parts.           *)
(***************************************************************************)
EXTENDS Naturals, FiniteSets

CONSTANTS
    Kinds,      \* the kinds of operations
    Crashes     \* BOOLEAN: the bridge may miss states

Net == 10       \* what the other side gets or gives
FediFee == 2
NetworkFee == 1

\* External: the states of the client's operations, by their successors.
Successors ==
    [lnSend       |-> [created |-> {"funded", "canceled"}, funded |-> {"success", "waitingForRefund"},
                       waitingForRefund |-> {"refunded"}, success |-> {}, refunded |-> {}, canceled |-> {}],
     lnReceive    |-> [created |-> {"waitingForPayment"}, waitingForPayment |-> {"funded", "canceled"},
                       funded |-> {"awaitingFunds"}, awaitingFunds |-> {"claimed"}, claimed |-> {},
                       canceled |-> {}],
     ecashSend    |-> [created |-> {"success"}, success |-> {}],
     ecashReceive |-> [created |-> {"issuing"}, issuing |-> {"done"}, done |-> {}],
     pegIn        |-> [waitingForTransaction |-> {"waitingForConfirmation"},
                       waitingForConfirmation |-> {"claimed"}, claimed |-> {}],
     spDeposit    |-> [created |-> {"accepted"}, accepted |-> {"locked"}, locked |-> {}],
     spWithdrawal |-> [created |-> {"accepted"}, accepted |-> {"success"}, success |-> {}]]

TransactionTextAssumption == Kinds \subseteq DOMAIN Successors /\ Crashes \in BOOLEAN

VARIABLES
    kind, st,  \* the operation
    saved,     \* the state that the bridge has of it, or "none"
    fee,       \* OperationFediFeeStatusKey
    fiat       \* showFiatTxnAmounts

vars == <<kind, st, saved, fee, fiat>>

Sends == {"lnSend", "ecashSend", "spDeposit"}
First(k) == IF k = "pegIn" THEN "waitingForTransaction" ELSE "created"

TypeOK ==
    /\ kind \in Kinds /\ st \in DOMAIN Successors[kind] /\ saved \in {"none"} \cup DOMAIN Successors[kind]
    /\ fee \in {"pendingSend", "pendingReceive", "success", "failedSend", "failedReceive"}
    /\ fiat \in BOOLEAN

Init ==
    /\ kind \in Kinds /\ st = First(kind) /\ saved = "none" /\ fiat \in BOOLEAN
    /\ fee = IF kind \in Sends THEN "pendingSend" ELSE "pendingReceive"

\* Whether the balance is by now what the operation makes of it.
Moved ==
    CASE kind \in Sends -> st \notin {"canceled", "waitingForRefund", "refunded"}
      [] OTHER -> st \in {"claimed", "done", "success"}

Final(k, s) == Successors[k][s] = {}

-----------------------------------------------------------------------------

\* The fee is settled when the operation is.
Settled(s) ==
    IF s \in {"success", "claimed", "done", "locked"} THEN "success"
    ELSE IF s \in {"refunded", "canceled"}
         THEN IF kind \in Sends THEN "failedSend" ELSE "failedReceive"
    ELSE fee

\* The operation goes on; update_operation_state and the fee follow, unless missed.
Advance ==
    \E s \in Successors[kind][st] :
      /\ st' = s
      /\ \/ saved' = s /\ fee' = Settled(s)
         \/ Crashes /\ UNCHANGED <<saved, fee>>
      /\ UNCHANGED <<kind, fiat>>

\* subscribe_to_all_operations after a restart.
Resubscribe ==
    /\ saved # st /\ saved' = st /\ fee' = Settled(st) /\ UNCHANGED <<kind, st, fiat>>

ToggleFiat == fiat' = ~fiat /\ UNCHANGED <<kind, st, saved, fee>>

Next == Advance \/ Resubscribe \/ ToggleFiat

\* The bridge subscribes to unfinished operations again.
Fairness == WF_vars(Resubscribe)
Spec == Init /\ [][Next]_vars /\ Fairness

-----------------------------------------------------------------------------
\* list_transactions. Of a receipt over Lightning only the outcome is kept; of a deposit
\* into the stability pool the account is asked.
Known == IF kind = "lnReceive" /\ saved # "none" /\ ~Final(kind, saved) THEN "none" ELSE saved
Direction == IF kind \in Sends THEN "send" ELSE "receive"
HasFee(f) == f \in {"pendingSend", "success"}
FeeIn == IF HasFee(fee) THEN FediFee ELSE 0
Amount ==
    IF kind = "lnSend" THEN Net + FeeIn + NetworkFee
    ELSE IF kind \in Sends THEN Net + FeeIn
    ELSE IF kind = "pegIn" /\ Known \notin {"waitingForConfirmation", "claimed"} THEN 0
    ELSE IF kind = "spWithdrawal" /\ Known = "none" THEN 0 ELSE Net
PoolState ==
    IF kind = "spDeposit" THEN IF st = "locked" THEN "completeDeposit" ELSE "pendingDeposit"
    ELSE IF kind = "spWithdrawal" /\ Known # "none"
         THEN IF Known = "success" THEN "completeWithdrawal" ELSE "pendingWithdrawal"
    ELSE "none"

\* makeTxnStatusText
Status ==
    IF Direction = "send"
    THEN IF kind = "lnSend" /\ Known \in {"waitingForRefund", "refunded", "canceled"} THEN Known ELSE "sent"
    ELSE IF kind \in {"lnReceive", "pegIn"}
         THEN IF Known = "claimed" THEN "received"
              ELSE IF kind = "lnReceive" /\ Known = "canceled" THEN "canceled" ELSE "pending"
    ELSE IF PoolState = "pendingWithdrawal" THEN "pending" ELSE "received"

\* makeTxnDetailStatusText
DetailStatus ==
    IF Direction = "send"
    THEN IF kind = "lnSend" /\ Known \in {"waitingForRefund", "refunded", "canceled"} THEN Known
         ELSE IF kind = "spDeposit" THEN IF PoolState = "completeDeposit" THEN "complete" ELSE "pending"
         ELSE "sent"
    ELSE IF kind = "lnReceive"
         THEN IF Known = "claimed" THEN "complete" ELSE IF Known = "canceled" THEN "canceled" ELSE "pending"
    ELSE IF kind = "pegIn"
         THEN IF Known = "claimed" THEN "complete"
              ELSE IF Known = "waitingForConfirmation" THEN "seen" ELSE "pending"
    ELSE IF kind = "spWithdrawal"
         THEN IF PoolState = "completeWithdrawal" THEN "complete"
              ELSE IF PoolState = "pendingWithdrawal" THEN "pending" ELSE ""
    ELSE "received"

\* makeTxnDetailTitleText
Title ==
    IF Direction = "send" THEN "sent"
    ELSE IF kind = "lnReceive"
         THEN IF Known = "claimed" THEN "received" ELSE IF Known = "canceled" THEN "canceled" ELSE "pending"
    ELSE "received"

\* makeTxnAmountText: the sign, or none.
Sign ==
    IF kind \in {"lnSend", "lnReceive"} /\ Known = "canceled" THEN ""
    ELSE IF kind = "pegIn" /\ Known = "waitingForTransaction" THEN "~"
    ELSE IF Direction = "receive" THEN "+" ELSE "-"

\* makeStabilityTxnStatusSubtext, makeStabilityTxnAmountText
PoolStatus ==
    IF PoolState \in {"completeDeposit", "completeWithdrawal"} THEN "complete"
    ELSE IF PoolState \in {"pendingDeposit", "pendingWithdrawal"} THEN "pending" ELSE ""

\* makeTxnFeeDetails: the total.
Fees == (IF HasFee(fee) THEN FediFee ELSE 0) + IF kind = "lnSend" THEN NetworkFee ELSE 0

-----------------------------------------------------------------------------
Said == {"sent", "received", "complete"}
Unsaid == {"refunded", "canceled", "waitingForRefund"}

\* What is said to have been sent or received has been, and what is said to have been
\* refunded has not: as soon as the bridge knows.
SaidIsSo ==
    saved = st => /\ Status \in Said => Moved
                  /\ Status \in Unsaid => ~Moved

\* The row and its detail do not contradict each other.
DetailAgrees ==
    /\ Status \in Unsaid \/ DetailStatus \in Unsaid => Status = DetailStatus
    /\ Direction = "receive" => /\ Status \in Said <=> DetailStatus \in Said
                                /\ Title = "canceled" <=> Status = "canceled"
    /\ Sign = "" <=> Status = "canceled"
    /\ PoolStatus # "" => PoolStatus = DetailStatus

\* The amount of a send is what the other side gets and the fees that are shown.
AmountCoversFees == Direction = "send" => Amount = Net + Fees

\* What has come to an end is shown as that, in the end.
EndIsSaid ==
    /\ st \in {"success", "claimed", "done"} ~> Status \in Said
    /\ st \in {"refunded", "canceled"} ~> Status = st
=============================================================================
