---------------------------- MODULE LockMatching ----------------------------
(***************************************************************************)
(* The auction of a cycle turnover: which staged provides and seeks are    *)
(* locked, for how much, and at which fee rate.  Provides are taken from   *)
(* the cheapest on until they cover the seeks, the rate of the dearest one *)
(* taken is charged to every seek, and seeks are taken from the oldest on  *)
(* until they use up the collateral.                                       *)
(*                                                                         *)
(* The server computes this with two while loops over sorted queues        *)
(* (LockMatchingLoops models them step by step); here it is in closed      *)
(* form.                                                                   *)
(***************************************************************************)
EXTENDS Msats, FiniteSetsExt

CONSTANTS
    B,              \* the unit of fee rates, 1_000_000_000 in the code
    CollProvider,   \* the provider side of the collateral ratio
    CollSeeker      \* the seeker side of the collateral ratio

ASSUME MatchingAssumption ==
    /\ B \in Nat \ {0}
    /\ CollProvider \in Nat \ {0}
    /\ CollSeeker \in Nat \ {0}

\* A bug to catch: the newest seeks come first.
Younger(seeks) == [s \in DOMAIN seeks |-> {t \in DOMAIN seeks : t > s}]

Older(seeks) == [s \in DOMAIN seeks |-> {t \in DOMAIN seeks : t < s}]

Cheaper(provides) ==
    [p \in DOMAIN provides |->
        {q \in DOMAIN provides :
            \/ provides[q].minFeeRate < provides[p].minFeeRate
            \/ provides[q].minFeeRate = provides[p].minFeeRate /\ q < p}]

\* A bug to catch: the collateral is rounded down.
CollateralNeededFloor(seeksSum, feeRate) ==
    (seeksSum * (B - feeRate) * CollProvider) \div (B * CollSeeker)

CollateralNeeded(seeksSum, feeRate) ==
    CeilDiv(seeksSum * (B - feeRate) * CollProvider, B * CollSeeker)

Wanted(seeks, provides) ==
    [p \in DOMAIN provides |->
        CollateralNeeded(Sum(seeks), provides[p].minFeeRate)]

LockedProvides(seeks, provides) ==
    LET wanted == Wanted(seeks, provides)
        taken  == Taken(provides, Cheaper(provides), wanted)
    IN  [p \in Reached(provides, Cheaper(provides), wanted) |->
            [provides[p] EXCEPT !.amount = taken[p]]]

UnlockedProvides(seeks, provides) ==
    Left(provides, Cheaper(provides), Wanted(seeks, provides))

EffectiveFeeRate(lockedProvides) ==
    Max({lockedProvides[p].minFeeRate : p \in DOMAIN lockedProvides} \cup {0})

SeeksCovered(providesSum, feeRate) ==
    (providesSum * CollSeeker * B) \div ((B - feeRate) * CollProvider)

Covered(seeks, lockedProvides) ==
    [s \in DOMAIN seeks |->
        SeeksCovered(Sum(lockedProvides), EffectiveFeeRate(lockedProvides))]

\* A bug to catch: seeks are locked whatever the provides cover.
AllSeeksLocked(seeks, lockedProvides) == seeks

\* Locked seeks before the fee is taken from them.
GrossLockedSeeks(seeks, lockedProvides) ==
    LET covered == Covered(seeks, lockedProvides)
        taken   == Taken(seeks, Older(seeks), covered)
    IN  [s \in Reached(seeks, Older(seeks), covered) |->
            [seeks[s] EXCEPT !.amount = taken[s]]]

UnlockedSeeks(seeks, lockedProvides) ==
    Left(seeks, Older(seeks), Covered(seeks, lockedProvides))

\* A bug to catch: the fee is rounded down.
FeeFloor(amount, feeRate) == (amount * feeRate) \div B

Fee(amount, feeRate) == CeilDiv(amount * feeRate, B)

=============================================================================
