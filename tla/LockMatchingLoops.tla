-------------------------- MODULE LockMatchingLoops --------------------------
(***************************************************************************)
(* The two loops with which the server computes the locks of a new cycle   *)
(* (calculate_locked_provides_and_fee_rate, calculate_locked_seeks), one   *)
(* iteration per step, over every queue of staged items within the bounds. *)
(* The sorted VecDeque of the code is a function from sequence numbers; its *)
(* front is the item nothing comes before.                                 *)
(***************************************************************************)
EXTENDS LockMatching

CONSTANTS SeekSeqs, ProvideSeqs, AmountRange, FeeRange

ASSUME LoopsAssumption ==
    /\ SeekSeqs \subseteq Nat /\ IsFiniteSet(SeekSeqs)
    /\ ProvideSeqs \subseteq Nat /\ IsFiniteSet(ProvideSeqs)
    /\ AmountRange \subseteq Nat
    /\ FeeRange \subseteq 0 .. B

VARIABLES
    seeks0, provides0,      \* the queues the loops start from
    seeks, provides,        \* what is left of them
    feeRate,                \* fee_rate
    included,               \* included_provides_sum
    remaining,              \* remaining_coll_needed
    covered,                \* included_seeks_sum_before_fees
    lockedSeeks, lockedProvides,
    phase

vars == <<seeks0, provides0, seeks, provides, feeRate, included, remaining,
          covered, lockedSeeks, lockedProvides, phase>>

Items(seqs, T) == UNION {[S -> T] : S \in SUBSET seqs}

RemainingCollateralNeeded(seeksSum, rate, providesSum) ==
    LET term1 == seeksSum * (B - rate) * CollProvider
        term2 == providesSum * B * CollSeeker
    IN  IF term1 < term2 THEN 0 ELSE CeilDiv(term1 - term2, B * CollSeeker)

Init ==
    /\ seeks0 \in Items(SeekSeqs, [amount : AmountRange])
    /\ provides0 \in
         Items(ProvideSeqs, [amount : AmountRange, minFeeRate : FeeRange])
    /\ seeks = seeks0
    /\ provides = provides0
    /\ feeRate = 0
    /\ included = 0
    /\ remaining = RemainingCollateralNeeded(Sum(seeks0), 0, 0)
    /\ covered = 0
    /\ lockedSeeks = [s \in {} |-> 0]
    /\ lockedProvides = [p \in {} |-> 0]
    /\ phase = "provides"

Front(queue, before) == CHOOSE s \in DOMAIN queue : before[s] = {}

Put(queue, s, item) ==
    [t \in DOMAIN queue \cup {s} |-> IF t = s THEN item ELSE queue[t]]

\* What is left of the queue when "used" is taken from its item s.
Less(queue, s, used) ==
    IF used = queue[s].amount
    THEN Only(queue, DOMAIN queue \ {s})
    ELSE [queue EXCEPT ![s].amount = @ - used]

\* A bug to catch: what is included already is not counted at the new rate.
NeededAtForgetting(p) ==
    IF provides[p].minFeeRate > feeRate
    THEN RemainingCollateralNeeded(Sum(seeks), provides[p].minFeeRate, 0)
    ELSE remaining

\* The collateral still needed once p is next: a dearer provide raises the rate
\* and so lowers what is needed.
NeededAt(p) ==
    IF provides[p].minFeeRate > feeRate
    THEN RemainingCollateralNeeded(Sum(seeks), provides[p].minFeeRate, included)
    ELSE remaining

TakeProvide ==
    /\ phase = "provides" /\ remaining > 0 /\ DOMAIN provides # {}
    /\ LET p      == Front(provides, Cheaper(provides))
           needed == NeededAt(p)
           used   == Least(needed, provides[p].amount)
       IN  /\ needed > 0
           /\ feeRate' = IF provides[p].minFeeRate > feeRate
                         THEN provides[p].minFeeRate ELSE feeRate
           /\ included' = included + used
           /\ remaining' = needed - used
           /\ lockedProvides' =
                Put(lockedProvides, p, [provides[p] EXCEPT !.amount = used])
           /\ provides' = Less(provides, p, used)
    /\ UNCHANGED <<seeks0, provides0, seeks, covered, lockedSeeks, phase>>

EnoughProvides ==
    /\ phase = "provides"
    /\ remaining > 0 /\ DOMAIN provides # {} =>
         NeededAt(Front(provides, Cheaper(provides))) = 0
    /\ covered' = SeeksCovered(included, feeRate)
    /\ phase' = "seeks"
    /\ UNCHANGED <<seeks0, provides0, seeks, provides, feeRate, included,
                   remaining, lockedSeeks, lockedProvides>>

TakeSeek ==
    /\ phase = "seeks" /\ covered > 0 /\ DOMAIN seeks # {}
    /\ LET s    == Front(seeks, Older(seeks))
           used == Least(covered, seeks[s].amount)
       IN  /\ covered' = covered - used
           /\ lockedSeeks' =
                Put(lockedSeeks, s, [seeks[s] EXCEPT !.amount = used])
           /\ seeks' = Less(seeks, s, used)
    /\ UNCHANGED <<seeks0, provides0, provides, feeRate, included, remaining,
                   lockedProvides, phase>>

EnoughSeeks ==
    /\ phase = "seeks"
    /\ covered = 0 \/ DOMAIN seeks = {}
    /\ phase' = "done"
    /\ UNCHANGED <<seeks0, provides0, seeks, provides, feeRate, included,
                   remaining, covered, lockedSeeks, lockedProvides>>

Next == TakeProvide \/ EnoughProvides \/ TakeSeek \/ EnoughSeeks

\* The loops are code that runs: they take the next iteration.
Fairness == WF_vars(Next)
Spec == Init /\ [][Next]_vars /\ Fairness

-----------------------------------------------------------------------------
\* The loops compute what LockMatching says of the same queues: the locks, the
\* fee rate and what stays staged, item by item, zero amounts included.
AgreesWithClosedForm ==
    phase = "done" =>
        /\ lockedProvides = LockedProvides(seeks0, provides0)
        /\ provides = UnlockedProvides(seeks0, provides0)
        /\ feeRate = EffectiveFeeRate(lockedProvides)
        /\ lockedSeeks = GrossLockedSeeks(seeks0, lockedProvides)
        /\ seeks = UnlockedSeeks(seeks0, lockedProvides)

\* The running total of collateral is what has been locked so far, and with what
\* is still needed never less than the seeks need at the current rate.
RunningTotals ==
    /\ included = Sum(lockedProvides)
    /\ phase = "provides" =>
         included + remaining >= CollateralNeeded(Sum(seeks0), feeRate)

\* The loops and their closed form agree, at every iteration.
LoopsAgree == AgreesWithClosedForm /\ RunningTotals

\* The loops end: an item of amount zero does not hold them up.
Terminates == <>(phase = "done")

=============================================================================
