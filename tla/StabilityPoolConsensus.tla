----------------------- MODULE StabilityPoolConsensus -----------------------
(***************************************************************************)
(* How the guardians of a federation agree on when the next cycle of the   *)
(* stability pool begins and at which price: the prefetch task of          *)
(* StabilityPool::new, consensus_proposal and process_consensus_item.      *)
(*                                                                         *)
(* The federation's atomic broadcast is external: it gives every guardian  *)
(* the same items in the same order, each with its author, and may be late *)
(* with an item or lose it.  The tables the items change are therefore one *)
(* state for all, of which a guardian has seen the turnovers up to         *)
(* seen[g].  Its last proposal is in memory only and lost when it          *)
(* restarts.  Clocks run independently.                                    *)
(*                                                                         *)
(* The prefetch task replaces the price it keeps for proposals at any time *)
(* by another one or by None, which keeps the guardian from proposing: a   *)
(* proposal has any price, or is not made.                                 *)
(***************************************************************************)
EXTENDS Integers, FiniteSets, FiniteSetsExt, Sequences

CONSTANTS
    Guardian, Faulty,   \* all the guardians, and those that send anything
    Threshold,          \* consensus_threshold
    CycleDuration,      \* cycle_duration
    EnoughTime,         \* min(15 s, 5 % of the cycle duration)
    Prices,             \* prices the oracle may give
    FaultyPrices,       \* prices faulty guardians may vote for
    FaultyTimes,        \* times faulty guardians may vote for
    MaxTime,            \* bound on the clocks
    MaxCycles,          \* bound on the number of cycles
    MaxRestarts,        \* bound on the number of restarts
    MaxLosses           \* bound on the number of lost proposals

Honest == Guardian \ Faulty

ASSUME ConsensusAssumption ==
    /\ IsFiniteSet(Guardian)
    /\ Faulty \subseteq Guardian
    /\ 3 * Cardinality(Faulty) < Cardinality(Guardian)
    /\ 3 * Threshold > 2 * Cardinality(Guardian)
    /\ Threshold <= Cardinality(Honest)
    /\ Threshold \in Nat
    /\ CycleDuration \in Nat /\ EnoughTime \in Nat
    /\ Prices \subseteq Nat \ {0}
    /\ FaultyPrices \subseteq Nat /\ FaultyTimes \subseteq Int
    /\ MaxTime \in Nat \ {0} /\ MaxCycles \in Nat

None == [none |-> TRUE]

VARIABLES
    clock,              \* the guardians' system clocks
    lastProposal,       \* last_consensus_proposal
    seen,               \* how many turnovers a guardian has processed
    inFlight,           \* proposals submitted and not yet ordered
    votes,              \* CycleChangeVote for the next cycle: author -> vote
    cycles,             \* the cycles so far, the current one last
    restarts, losses    \* how many there have been

vars == <<clock, lastProposal, seen, inFlight, votes, cycles,
          restarts, losses>>

\* The first cycle has index 0: the next index is the number of cycles.
Init ==
    /\ clock \in [Honest -> 0 .. 1]
    /\ lastProposal = [g \in Honest |-> None]
    /\ seen = [g \in Honest |-> 0]
    /\ inFlight = {}
    /\ votes = [g \in {} |-> None]
    /\ cycles = <<>>
    /\ restarts = 0
    /\ losses = 0

-----------------------------------------------------------------------------
Tick(g) ==
    /\ clock[g] < MaxTime
    /\ clock' = [clock EXCEPT ![g] = @ + 1]
    /\ UNCHANGED <<lastProposal, seen, inFlight, votes, cycles,
                   restarts, losses>>

\* The guardian's process starts anew.
Restart(g) ==
    /\ restarts < MaxRestarts
    /\ restarts' = restarts + 1
    /\ lastProposal' = [lastProposal EXCEPT ![g] = None]
    /\ UNCHANGED <<clock, seen, inFlight, votes, cycles, losses>>

-----------------------------------------------------------------------------
(***************************************************************************)
(* consensus_proposal.                                                     *)
(***************************************************************************)
LongAgo(g, time, duration) == clock[g] - time > duration

\* A bug to catch: the guardian does not wait for the cycle to run out.
ShouldProposeAnyTime(g) ==
    lastProposal[g] # None => LongAgo(g, lastProposal[g].time, EnoughTime)

\* A bug to catch: a guardian that has proposed once never does again.
ShouldProposeOnce(g) ==
    /\ seen[g] > 0 => LongAgo(g, cycles[seen[g]].time, CycleDuration)
    /\ lastProposal[g] = None

ShouldPropose(g) ==
    /\ seen[g] > 0 => LongAgo(g, cycles[seen[g]].time, CycleDuration)
    /\ lastProposal[g] # None =>
         \/ seen[g] > 0 /\ lastProposal[g].index # seen[g]
         \/ LongAgo(g, lastProposal[g].time, EnoughTime)

Propose(g, price) ==
    /\ ShouldPropose(g)
    /\ lastProposal' =
         [lastProposal EXCEPT ![g] = [index |-> seen[g], time |-> clock[g]]]
    /\ inFlight' = inFlight \cup {[index |-> seen[g], time |-> clock[g],
                                  price |-> price, from |-> g]}
    /\ UNCHANGED <<clock, seen, votes, cycles, restarts, losses>>

-----------------------------------------------------------------------------
(***************************************************************************)
(* process_consensus_item.  An item that is not for the next cycle, or is  *)
(* its author's second one for it, is rejected.                            *)
(***************************************************************************)
Acceptable(item) ==
    /\ item.index = Len(cycles)
    /\ item.from \notin DOMAIN votes

\* A bug to catch: the last of the sorted values.
Highest(value) == Max({value[g] : g \in DOMAIN value})

\* The value at index len / 2 of the sorted values.
Median(value) ==
    LET half == Cardinality(DOMAIN value) \div 2
    IN  CHOOSE m \in {value[g] : g \in DOMAIN value} :
            /\ Cardinality({g \in DOMAIN value : value[g] < m}) <= half
            /\ Cardinality({g \in DOMAIN value : value[g] <= m}) > half

Quorum(ballot) == Cardinality(DOMAIN ballot) >= Threshold

Process(item) ==
    LET ballot == [g \in DOMAIN votes \cup {item.from} |->
                      IF g = item.from THEN item ELSE votes[g]]
    IN  IF Quorum(ballot)
        THEN /\ cycles' = Append(cycles,
                    [time  |-> Median([g \in DOMAIN ballot |-> ballot[g].time]),
                     price |-> Median([g \in DOMAIN ballot |-> ballot[g].price]),
                     ballot |-> ballot])
             /\ votes' = [g \in {} |-> None]
        ELSE /\ votes' = ballot
             /\ UNCHANGED cycles

Deliver(item) ==
    /\ Len(cycles) < MaxCycles
    /\ item \in inFlight
    /\ inFlight' = inFlight \ {item}
    /\ IF Acceptable(item) THEN Process(item) ELSE UNCHANGED <<votes, cycles>>
    /\ UNCHANGED <<clock, lastProposal, seen, restarts, losses>>

Lose(item) ==
    /\ losses < MaxLosses
    /\ losses' = losses + 1
    /\ item \in inFlight
    /\ inFlight' = inFlight \ {item}
    /\ UNCHANGED <<clock, lastProposal, seen, votes, cycles,
                   restarts>>

FaultyVote(item) ==
    /\ Len(cycles) < MaxCycles
    /\ Acceptable(item)
    /\ Process(item)
    /\ UNCHANGED <<clock, lastProposal, seen, inFlight, restarts, losses>>

CatchUp(g) ==
    /\ seen[g] < Len(cycles)
    /\ seen' = [seen EXCEPT ![g] = @ + 1]
    /\ UNCHANGED <<clock, lastProposal, inFlight, votes, cycles,
                   restarts, losses>>

FaultyItem == [index : 0 .. MaxCycles, time : FaultyTimes,
               price : FaultyPrices, from : Faulty]

Next ==
    \/ \E g \in Honest : Tick(g) \/ Restart(g) \/ CatchUp(g)
    \/ \E g \in Honest, price \in Prices : Propose(g, price)
    \/ \E item \in inFlight : Deliver(item) \/ Lose(item)
    \/ \E item \in FaultyItem : FaultyVote(item)

Spec == Init /\ [][Next]_vars

(***************************************************************************)
(* Fairness: fedimint asks every guardian's modules for proposals about    *)
(* once a second, and the oracle does not fail for ever; a guardian        *)
(* processes what has been ordered, and what honest guardians submit is    *)
(* ordered.                                                                *)
(***************************************************************************)
Proposes(g) == \E price \in Prices : Propose(g, price)

DeliverFrom(g) == \E item \in inFlight : item.from = g /\ Deliver(item)

Fairness ==
    \A g \in Honest :
        /\ WF_vars(Proposes(g))
        /\ WF_vars(DeliverFrom(g))
        /\ WF_vars(CatchUp(g))

FairSpec == Spec /\ Fairness

-----------------------------------------------------------------------------
(***************************************************************************)
(* Properties.                                                             *)
(***************************************************************************)
Vote == [index : Nat, time : Int, price : Int, from : Guardian]

\* Every table and memory cell holds values of its type, no guardian has seen a
\* turnover that did not happen, and a full ballot does not stay in the table.
TypeOK ==
    /\ clock \in [Honest -> 0 .. MaxTime]
    /\ \A g \in Honest :
         \/ lastProposal[g] = None
         \/ lastProposal[g] \in [index : Nat, time : Int]
    /\ DOMAIN lastProposal = Honest
    /\ seen \in [Honest -> 0 .. Len(cycles)]
    /\ inFlight \subseteq Vote
    /\ DOMAIN votes \subseteq Guardian
    /\ votes \in [DOMAIN votes -> Vote]
    /\ Cardinality(DOMAIN votes) < Threshold
    /\ Len(cycles) <= MaxCycles

Honestly(cycle) == DOMAIN cycle.ballot \cap Honest

\* What the medians are for: however the faulty guardians vote and whoever of
\* the honest ones is left out, a cycle's price and time lie between values that
\* honest guardians voted for.
MediansAreHonest ==
    \A i \in DOMAIN cycles :
        /\ \E g, h \in Honestly(cycles[i]) :
             /\ cycles[i].ballot[g].price <= cycles[i].price
             /\ cycles[i].price <= cycles[i].ballot[h].price
        /\ \E g, h \in Honestly(cycles[i]) :
             /\ cycles[i].ballot[g].time <= cycles[i].time
             /\ cycles[i].time <= cycles[i].ballot[h].time

\* Locked funds stay locked for the whole cycle: the next one starts more than
\* its duration later, with clocks that disagree, faulty votes, guardians that
\* lag behind and restarts that forget what was proposed.
CyclesLastTheirDuration ==
    \A i \in DOMAIN cycles :
        i > 1 => cycles[i].time - cycles[i - 1].time > CycleDuration

\* Cycles, votes and clocks are well formed, and no cycle is cut short.
CyclesAreSound == TypeOK /\ CyclesLastTheirDuration

\* Once the cycle has run out on the clocks of the honest guardians it is turned
\* over, even if the faulty ones never vote.
TurnsOver ==
    \A n \in 0 .. MaxCycles - 1 :
        (/\ Len(cycles) = n
         /\ \A g \in Honest :
              n > 0 => LongAgo(g, cycles[n].time, CycleDuration))
        ~> Len(cycles) > n

=============================================================================
