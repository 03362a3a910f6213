----------------------------- MODULE SpendLimits -----------------------------
(***************************************************************************)
(* What a payment may spend: the balance less the fees, and the maximum a  *)
(* user is told of when it does not suffice (ErrorCode InsufficientBalance,*)
(* shown in sats).  The same check guards ecash, payments into the         *)
(* stability pool (no gateway: both of its fees are 0) and Lightning.      *)
(***************************************************************************)
EXTENDS Msats

CONSTANTS
    MILLION,
    FediPpms,       \* rates of the Fedi fee, in parts of MILLION
    Bases, Rates,   \* fees of gateways
    MsatsPerSat,
    MaxBalance      \* bound

ASSUME SpendLimitsAssumption ==
    /\ MILLION \in Nat \ {0}
    /\ FediPpms \subseteq Nat /\ Bases \subseteq Nat /\ Rates \subseteq Nat
    /\ MsatsPerSat \in Nat \ {0} /\ MaxBalance \in Nat

-----------------------------------------------------------------------------
(* Arithmetic, in msats.                                                   *)

FediFee(amount, ppm) == CeilDiv(amount * ppm, MILLION)
GatewayFee(amount, base, ppm) == base + CeilDiv(amount * ppm, MILLION)

\* What a payment takes from the balance
Cost(amount, feePpm, base, ppm) ==
    amount + FediFee(amount, feePpm) + GatewayFee(amount, base, ppm)

\* Mutant: the fees are taken off the whole balance.
MaxSpendableOff(all, feePpm, base, ppm) ==
    ((all - base) * (MILLION - feePpm - ppm)) \div MILLION

\* get_max_spendable_amount, computed backwards from the fees, for a balance of at
\* least base
MaxSpendable(all, feePpm, base, ppm) ==
    ((all - base) * MILLION) \div (MILLION + feePpm + ppm)

-----------------------------------------------------------------------------
VARIABLES
    balance,        \* the virtual balance
    fediPpm, gateway,
    told            \* sats the user was told can be sent; of this balance and fees

vars == <<balance, fediPpm, gateway, told>>

Nothing == -1
Overflow == -2      \* the subtraction of u64 fails: a panic, or what it wraps to

TypeOK ==
    /\ balance \in 0 .. MaxBalance /\ fediPpm \in FediPpms
    /\ gateway \in [base : Bases, ppm : Rates]
    /\ told \in {Nothing, Overflow} \cup 0 .. MaxBalance

Init ==
    /\ balance = MaxBalance /\ told = Nothing
    /\ fediPpm \in FediPpms /\ gateway \in [base : Bases, ppm : Rates]

CostOf(amount) == Cost(amount, fediPpm, gateway.base, gateway.ppm)

Pay(amount) ==
    /\ CostOf(amount) <= balance
    /\ balance' = balance - CostOf(amount) /\ told' = Nothing
    /\ UNCHANGED <<fediPpm, gateway>>

\* InsufficientBalance, formatted with msatToSat
Refuse(amount) ==
    /\ CostOf(amount) > balance
    /\ told' = IF balance < gateway.base THEN Overflow
               ELSE MaxSpendable(balance, fediPpm, gateway.base, gateway.ppm) \div MsatsPerSat
    /\ UNCHANGED <<balance, fediPpm, gateway>>

\* Ecash comes in, or another gateway is selected.
Other ==
    /\ \/ /\ balance' = MaxBalance /\ UNCHANGED gateway
       \/ /\ gateway' \in [base : Bases, ppm : Rates] /\ UNCHANGED balance
    /\ told' = Nothing /\ UNCHANGED fediPpm

Next == \/ \E amount \in 1 .. MaxBalance + 1 : Pay(amount) \/ Refuse(amount)
        \/ Other

Spec == Init /\ [][Next]_vars
-----------------------------------------------------------------------------
\* What the user is told can be sent is accepted, where no gateway takes a fee: of
\* ecash and of payments into the stability pool.
NoGateway == [base |-> 0, ppm |-> 0]
ToldIsAccepted ==
    told > 0 /\ gateway = NoGateway => CostOf(told * MsatsPerSat) <= balance

\* It is the most that is: a sat more is refused.
ToldIsTheMost == told >= 0 => CostOf((told + 1) * MsatsPerSat) > balance

\* What the user is told is the maximum, neither less nor more, and never above the
\* largest balance; and no payment takes the balance below zero.
ToldIsExact == TypeOK /\ ToldIsTheMost /\ ToldIsAccepted

\* The maximum can be computed whenever there is a reason to tell it.
ToldIsANumber == told # Overflow
=============================================================================
