----------------------- MODULE MCStabilityPoolConsensus ----------------------
(***************************************************************************)
(* StabilityPoolConsensus for TLC: honest guardians are interchangeable.   *)
(* Two instances are checked side by side: the module as this one extends  *)
(* it, over several cycles, and Medians, over one cycle, with extreme      *)
(* votes and lost proposals.  One of them runs, the one that which names.  *)
(***************************************************************************)
EXTENDS StabilityPoolConsensus, TLC

Symmetry == Permutations(Honest)

VARIABLE which   \* the instance that runs

Medians == INSTANCE StabilityPoolConsensus WITH
    CycleDuration <- 0, EnoughTime <- 0, Prices <- {1, 2},
    FaultyPrices <- {0, 9}, FaultyTimes <- {0, 9}, MaxTime <- 1,
    MaxCycles <- 1, MaxRestarts <- 0, MaxLosses <- 1

ConsensusInit == which \in {"spacing", "medians"} /\ Init

ConsensusNext ==
    /\ \/ which = "spacing" /\ Next
       \/ which = "medians" /\ Medians!Next
    /\ UNCHANGED which

ConsensusSpec == ConsensusInit /\ [][ConsensusNext]_<<vars, which>>

=============================================================================
