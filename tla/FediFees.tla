------------------------------ MODULE FediFees ------------------------------
(***************************************************************************)
(* The Fedi fees of one federation.  A send reserves its fee in a pending  *)
(* counter; when the payment ends the fee moves to the outstanding counter *)
(* of its direction or goes back to the user.  A receive adds its fee when *)
(* the ecash has arrived.  Outstanding fees above a threshold are remitted *)
(* by a Lightning payment of the same client.  The user sees a virtual     *)
(* balance: the ecash less both counters.                                  *)
(*                                                                         *)
(* The client's database keeps ecash, op, status, pending, outstanding and *)
(* the payments of remittances; the tasks (calls, watching, checks and the *)
(* steps of remittances) end with the app.                                 *)
(***************************************************************************)
EXTENDS Msats, FiniteSetsExt

CONSTANTS
    MILLION,
    Sends, Receives,    \* operations
    Amount, OperationFee,   \* [operations -> Nat]
    Ecash,              \* at first
    Threshold,          \* of remittance
    Base, Rate,         \* fees of the gateway
    Timeouts,           \* BOOLEAN: a payment may take longer than its caller waits
    MaxRemits, MaxCrashes

Operations == Sends \cup Receives

FediFeesAssumption ==
    /\ MILLION \in Nat \ {0}
    /\ Sends \cap Receives = {} /\ IsFiniteSet(Operations)
    /\ Amount \in [Operations -> Nat \ {0}]
    /\ OperationFee \in [Operations -> Nat]
    /\ Ecash \in Nat /\ Threshold \in Nat /\ Base \in 0 .. Threshold /\ Rate \in Nat
    /\ MaxRemits \in Nat

VARIABLES
    ecash,
    op,             \* [Operations -> the client's state machines]
    status,         \* [Operations -> OperationFediFeeStatus]
    pending,        \* fees of sends under way
    outstanding,    \* [Directions -> fees to be remitted]
    calls,          \* [Operations -> the step of the call that began it]
    watching,       \* operations with a subscription
    checks,         \* directions whose threshold is about to be checked
    remits,         \* [1 .. MaxRemits -> Remittances]
    crashes

vars == <<ecash, op, status, pending, outstanding, calls, watching, checks, remits, crashes>>

Directions == {"send", "receive"}
DirectionOf(o) == IF o \in Sends THEN "send" ELSE "receive"
NoRemit == [of |-> "send", fees |-> 0, step |-> "off", payment |-> "none"]

TypeOK ==
    /\ ecash \in Nat /\ pending \in Nat /\ outstanding \in [Directions -> Nat]
    /\ op \in [Operations -> {"none", "active", "success", "failed"}]
    /\ status \in [Operations -> {"none", "pending", "success", "failed"}]
    /\ calls \in [Operations -> {"none", "checked", "funded"}]
    /\ watching \subseteq Operations /\ checks \subseteq Directions
    /\ \A r \in 1 .. MaxRemits :
          remits[r] \in [of : Directions, fees : Nat,
                         step : {"off", "begun", "paid", "waiting", "refunding"},
                         payment : {"none", "active", "success", "failed"}]

Init ==
    /\ ecash = Ecash /\ pending = 0 /\ outstanding = [d \in Directions |-> 0]
    /\ op = [o \in Operations |-> "none"] /\ status = op /\ calls = op
    /\ watching = {} /\ checks = {}
    /\ remits = [r \in 1 .. MaxRemits |-> NoRemit] /\ crashes = 0

\* get_balance
VirtualBalance == ecash - (outstanding["send"] + outstanding["receive"] + pending)

-----------------------------------------------------------------------------
(* A send: pay_invoice, generate_ecash, stability_pool_deposit_to_seek.    *)

\* Mutant: the fees reserved and outstanding are not taken off.
CheckEcash(o) ==
    /\ o \in Sends /\ op[o] = "none"
    /\ \A s \in Sends : calls[s] = "none"
    /\ Amount[o] + OperationFee[o] <= ecash
    /\ calls' = [calls EXCEPT ![o] = "checked"]
    /\ UNCHANGED <<ecash, op, status, pending, outstanding, watching, checks, remits, crashes>>

\* The balance is checked under the spend guard, which is kept until the fee is written.
Check(o) ==
    /\ o \in Sends /\ op[o] = "none"
    /\ \A s \in Sends : calls[s] = "none"
    /\ Amount[o] + OperationFee[o] <= VirtualBalance
    /\ calls' = [calls EXCEPT ![o] = "checked"]
    /\ UNCHANGED <<ecash, op, status, pending, outstanding, watching, checks, remits, crashes>>

\* The client takes the ecash and begins the operation.  (It has it: what a remittance
\* takes since the check is not more than what was outstanding.)
Fund(o) ==
    /\ o \in Sends /\ calls[o] = "checked" /\ Amount[o] <= ecash
    /\ op' = [op EXCEPT ![o] = "active"] /\ ecash' = ecash - Amount[o]
    /\ calls' = [calls EXCEPT ![o] = "funded"]
    /\ UNCHANGED <<status, pending, outstanding, watching, checks, remits, crashes>>

\* Mutant: the fee of a receive is reserved, too.
ReservedOfAll(o) == OperationFee[o]
Reserved(o) == IF o \in Sends THEN OperationFee[o] ELSE 0

\* Mutant: nobody subscribes to the operation.
WritePendingOnly(o) ==
    /\ calls[o] = "funded"
    /\ status' = [status EXCEPT ![o] = "pending"]
    /\ pending' = pending + Reserved(o)
    /\ calls' = [calls EXCEPT ![o] = "none"] /\ watching' = watching
    /\ UNCHANGED <<ecash, op, outstanding, checks, remits, crashes>>

\* write_pending_send_fedi_fee, write_pending_receive_fedi_fee_ppm; then the subscription
WritePending(o) ==
    /\ calls[o] = "funded"
    /\ status' = [status EXCEPT ![o] = "pending"]
    /\ pending' = pending + Reserved(o)
    /\ calls' = [calls EXCEPT ![o] = "none"] /\ watching' = watching \cup {o}
    /\ UNCHANGED <<ecash, op, outstanding, checks, remits, crashes>>

\* generate_invoice, receive_ecash_with_meta: the operation is begun.
BeginReceive(o) ==
    /\ o \in Receives /\ op[o] = "none"
    /\ op' = [op EXCEPT ![o] = "active"]
    /\ calls' = [calls EXCEPT ![o] = "funded"]
    /\ UNCHANGED <<ecash, status, pending, outstanding, watching, checks, remits, crashes>>

\* External: the client's state machine ends; a failed send gives its ecash back.
Resolve(o) ==
    /\ op[o] = "active"
    /\ \E end \in {"success", "failed"} :
          /\ op' = [op EXCEPT ![o] = end]
          /\ ecash' = IF (end = "failed") <=> (o \in Sends) THEN ecash + Amount[o] ELSE ecash
    /\ UNCHANGED <<status, pending, outstanding, calls, watching, checks, remits, crashes>>

\* PAY_INVOICE_TIMEOUT: the call stops waiting, and its subscription goes with it.
TimeOut(o) ==
    /\ Timeouts /\ o \in Sends \cap watching /\ op[o] = "active"
    /\ watching' = watching \ {o}
    /\ UNCHANGED <<ecash, op, status, pending, outstanding, calls, checks, remits, crashes>>

Less(m, n) == IF m < n THEN 0 ELSE m - n    \* saturating_sub

\* write_success_... and write_failed_...: a status is left once
Observe(o) ==
    /\ o \in watching /\ op[o] \in {"success", "failed"}
    /\ watching' = watching \ {o}
    /\ status' = [status EXCEPT ![o] = IF @ = "pending" THEN op[o] ELSE @]
    /\ pending' = IF status[o] = "pending" THEN Less(pending, Reserved(o)) ELSE pending
    /\ IF status[o] = "pending" /\ op[o] = "success"
       THEN /\ outstanding' = [outstanding EXCEPT ![DirectionOf(o)] = @ + OperationFee[o]]
            /\ checks' = checks \cup {DirectionOf(o)}
       ELSE UNCHANGED <<outstanding, checks>>
    /\ UNCHANGED <<ecash, op, calls, remits, crashes>>
-----------------------------------------------------------------------------
(* The remittance of outstanding fees. *)

\* The amount of the invoice that remit_fedi_fee asks for, and what it takes
RemittanceAmount(fees) == (MILLION * (fees - Base)) \div (MILLION + Rate)

RemittanceCost(fees) ==
    LET amount == RemittanceAmount(fees)
    IN  amount + Base + CeilDiv(amount * Rate, MILLION)

Locked(d) == \E r \in 1 .. MaxRemits : remits[r].of = d /\ remits[r].step \in {"begun", "paid"}
Free == {r \in 1 .. MaxRemits : remits[r] = NoRemit}

\* Mutant: the lock is not tried.
CheckThresholdUnlocked(d) ==
    /\ d \in checks /\ checks' = checks \ {d}
    /\ IF outstanding[d] > 0 /\ outstanding[d] >= Threshold /\ Free # {}
       THEN remits' = [remits EXCEPT ![Min(Free)] =
                          [of |-> d, fees |-> outstanding[d], step |-> "begun", payment |-> "none"]]
       ELSE remits' = remits
    /\ UNCHANGED <<ecash, op, status, pending, outstanding, calls, watching, crashes>>

\* remit_fedi_fee_if_threshold_met (bound: when no slot is free, nothing is remitted)
CheckThreshold(d) ==
    /\ d \in checks /\ checks' = checks \ {d}
    /\ IF ~Locked(d) /\ outstanding[d] > 0 /\ outstanding[d] >= Threshold /\ Free # {}
       THEN remits' = [remits EXCEPT ![Min(Free)] =
                          [of |-> d, fees |-> outstanding[d], step |-> "begun", payment |-> "none"]]
       ELSE remits' = remits
    /\ UNCHANGED <<ecash, op, status, pending, outstanding, calls, watching, crashes>>

\* The invoice is fetched and paid, or one of the two fails.
PayRemittance(r) ==
    /\ remits[r].step = "begun"
    /\ \/ LET cost == RemittanceCost(remits[r].fees)
          IN  /\ cost <= ecash /\ ecash' = ecash - cost
              /\ remits' = [remits EXCEPT ![r].step = "paid", ![r].payment = "active"]
       \/ remits' = [remits EXCEPT ![r] = NoRemit] /\ ecash' = ecash
    /\ UNCHANGED <<op, status, pending, outstanding, calls, watching, checks, crashes>>

\* The fees remitted are taken off; the lock is released.
Settle(r) ==
    /\ remits[r].step = "paid"
    /\ outstanding' = [outstanding EXCEPT ![remits[r].of] = Less(@, remits[r].fees)]
    /\ remits' = [remits EXCEPT ![r].step = "waiting"]
    /\ UNCHANGED <<ecash, op, status, pending, calls, watching, checks, crashes>>

\* External: the payment ends.
ResolveRemittance(r) ==
    /\ remits[r].payment = "active"
    /\ \E end \in {"success", "failed"} :
          /\ remits' = [remits EXCEPT ![r].payment = end]
          /\ ecash' = IF end = "failed"
                      THEN ecash + RemittanceCost(remits[r].fees) ELSE ecash
    /\ UNCHANGED <<op, status, pending, outstanding, calls, watching, checks, crashes>>

\* subscribe_to_ln_pay returns; if it failed the fees are put back under the lock.
ObserveRemittance(r) ==
    /\ remits[r].step = "waiting" /\ remits[r].payment \in {"success", "failed"}
    /\ remits' = [remits EXCEPT ![r].step = IF remits[r].payment = "success" THEN "off"
                                           ELSE "refunding"]
    /\ UNCHANGED <<ecash, op, status, pending, outstanding, calls, watching, checks, crashes>>

PutBack(r) ==
    /\ remits[r].step = "refunding" /\ ~Locked(remits[r].of)
    /\ outstanding' = [outstanding EXCEPT ![remits[r].of] = @ + remits[r].fees]
    /\ remits' = [remits EXCEPT ![r] = NoRemit]
    /\ UNCHANGED <<ecash, op, status, pending, calls, watching, checks, crashes>>

\* The app ends and starts again: the active operations are subscribed to, and every
\* direction with outstanding fees is checked.
Restart ==
    /\ crashes < MaxCrashes /\ crashes' = crashes + 1
    /\ calls' = [o \in Operations |-> "none"]
    /\ watching' = {o \in Operations : op[o] = "active"}
    /\ checks' = {d \in Directions : outstanding[d] > 0}
    /\ remits' = [r \in 1 .. MaxRemits |->
                    IF remits[r].payment = "none" THEN NoRemit ELSE [remits[r] EXCEPT !.step = "off"]]
    /\ UNCHANGED <<ecash, op, status, pending, outstanding>>

OfOperation(o) == Check(o) \/ Fund(o) \/ WritePending(o) \/ BeginReceive(o)
                  \/ Resolve(o) \/ TimeOut(o) \/ Observe(o)
OfRemittance(r) == PayRemittance(r) \/ Settle(r) \/ ResolveRemittance(r)
                   \/ ObserveRemittance(r) \/ PutBack(r)

Next == \/ \E o \in Operations : OfOperation(o)
        \/ \E d \in Directions : CheckThreshold(d)
        \/ \E r \in 1 .. MaxRemits : OfRemittance(r)
        \/ Restart

Spec == Init /\ [][Next]_vars

\* Calls go on and subscriptions see how an operation ends.
Fairness == \A o \in Operations : WF_vars(Fund(o)) /\ WF_vars(WritePending(o))
                                  /\ WF_vars(Observe(o))
FairSpec == Spec /\ Fairness
-----------------------------------------------------------------------------
FeesOf(S) == Total([o \in S |-> OperationFee[o]])

\* The pending counter is the sum of the fees of the sends that have the status, however
\* they overlap and whenever the app ends.
PendingIsOfSends == pending = FeesOf({o \in Sends : status[o] = "pending"})

\* The virtual balance is not negative: the ecash covers the fees (get_balance subtracts
\* without a check).
NoOverdraft == VirtualBalance >= 0

\* Fees are charged once: what is outstanding, with what has been remitted and not given
\* back, is not more than the fees of the operations that succeeded, but for what has been
\* paid and is about to be taken off.
RemittedOf(S) == Total([r \in S |-> remits[r].fees])
Remitted(d) == {r \in 1 .. MaxRemits :
                  remits[r].of = d /\ remits[r].payment \in {"active", "success"}}
Paid(d) == {r \in 1 .. MaxRemits : remits[r].of = d /\ remits[r].step = "paid"}
Charged(d) == {o \in Operations : DirectionOf(o) = d /\ status[o] = "success"}
ChargedOnce ==
    \A d \in Directions :
        outstanding[d] + RemittedOf(Remitted(d)) <= FeesOf(Charged(d)) + RemittedOf(Paid(d))

\* The reservation of a fee ends with its operation.
FeesSettle == \A o \in Operations : op[o] \in {"success", "failed"} ~> status[o] # "pending"
=============================================================================
