--------------------- MODULE StabilityPoolConsensusProofs --------------------
(***************************************************************************)
(* What guardians agree on, for any number of them of which fewer than a   *)
(* third are faulty, any clocks, durations, prices and votes.              *)
(*                                                                         *)
(* A median of at least the threshold's number of votes has more votes on  *)
(* either side than there are faulty guardians, so one of an honest        *)
(* guardian is on either side.  That guardian has seen the cycle it votes  *)
(* to end and waited for its duration; so has the median, then.            *)
(***************************************************************************)
EXTENDS StabilityPoolConsensus, LockMatchingTheorems

-----------------------------------------------------------------------------
(***************************************************************************)
(* Medians.                                                                *)
(***************************************************************************)
\* Who votes for less than m, and who for m at most.
Below(value, m) == {g \in DOMAIN value : value[g] < m}

UpTo(value, m) == {g \in DOMAIN value : value[g] <= m}

\* What the code's choice of the value in the middle relies on.
IsMedian(value, m) ==
    LET half == Cardinality(DOMAIN value) \div 2
    IN  /\ m \in {value[g] : g \in DOMAIN value}
        /\ Cardinality(Below(value, m)) <= half
        /\ Cardinality(UpTo(value, m)) > half

\* Finitely many values have a median: the one with the fewest values up to it
\* among those that have more than half of them.
LEMMA MedianExists ==
    ASSUME NEW value, IsFiniteSet(DOMAIN value), DOMAIN value # {},
           \A g \in DOMAIN value : value[g] \in Int
    PROVE  \E m : IsMedian(value, m)
<1> DEFINE D        == DOMAIN value
           n        == Cardinality(D)
           half     == n \div 2
           count(g) == Cardinality(UpTo(value, value[g]))
           many     == {g \in D : count(g) > half}
           counts   == {count(g) : g \in many}
<1>1. n \in Nat \ {0} /\ half \in Nat /\ half < n
  <2>1. n \in Nat /\ n # 0
    BY FS_CardinalityType, FS_EmptySet
  <2> HIDE DEF n
  <2> QED
    BY <2>1
<1>2. \A S : S \subseteq D =>
        IsFiniteSet(S) /\ Cardinality(S) \in Nat /\ Cardinality(S) <= n
  BY FS_Subset, FS_CardinalityType
<1>3. \A g \in D : count(g) \in 0 .. n
  <2>1. \A g \in D : UpTo(value, value[g]) \subseteq D
    BY DEF UpTo
  <2> QED
    BY <1>1, <1>2, <2>1
<1>4. ASSUME NEW g \in D, NEW h \in D, value[g] < value[h]
      PROVE  count(g) < count(h)
  <2>1. /\ UpTo(value, value[g]) \subseteq UpTo(value, value[h])
        /\ h \in UpTo(value, value[h])
        /\ h \notin UpTo(value, value[g])
        /\ UpTo(value, value[h]) \subseteq D
    BY <1>4 DEF UpTo
  <2>2. UpTo(value, value[g]) # UpTo(value, value[h])
    BY <2>1
  <2> DEFINE S == UpTo(value, value[g])
             T == UpTo(value, value[h])
  <2>3. IsFiniteSet(T) /\ S \subseteq T /\ S # T
    BY <1>2, <2>1, <2>2
  <2> HIDE DEF S, T
  <2>4. Cardinality(S) < Cardinality(T)
    BY <2>3, FS_Subset, FS_CardinalityType
  <2> QED
    BY <2>4 DEF S, T
<1>5. many # {}
  <2> DEFINE all == {count(g) : g \in D}
  <2>1. all \subseteq 0 .. n /\ all # {} /\ n \in Nat
    BY <1>1, <1>3
  <2>2. PICK c \in all : \A d \in all : d <= c
    <3> HIDE DEF all
    <3> QED
      BY <2>1, GreatestNumber
  <2>3. PICK h \in D : c = count(h)
    BY <2>2
  <2>4. \A g \in D : value[g] <= value[h]
    <3> SUFFICES ASSUME NEW g \in D, ~(value[g] <= value[h]) PROVE FALSE
      OBVIOUS
    <3>1. value[h] < value[g]
      OBVIOUS
    <3>2. count(h) < count(g)
      BY <1>4, <3>1
    <3>3. count(g) <= count(h)
      BY <2>2, <2>3
    <3>4. count(g) \in Nat /\ count(h) \in Nat
      BY <1>1, <1>3
    <3> HIDE DEF count
    <3> QED
      BY <3>2, <3>3, <3>4
  <2>5. UpTo(value, value[h]) = D
    BY <2>4 DEF UpTo
  <2> QED
    BY <1>1, <2>5
<1>6. PICK g \in many : \A h \in many : count(g) <= count(h)
  <2>1. counts \in SUBSET Nat /\ counts # {}
    BY <1>1, <1>3, <1>5
  <2>2. PICK c \in counts : \A d \in counts : c <= d
    <3> HIDE DEF counts
    <3> QED
      BY <2>1, LeastNumber
  <2> QED
    BY <2>2
<1>7. g \in D /\ count(g) > half
  BY <1>6
<1> DEFINE m    == value[g]
           low  == Below(value, m)
<1>8. low \subseteq D /\ Cardinality(low) \in Nat
  <2>1. low \subseteq D
    BY DEF Below
  <2> HIDE DEF low
  <2> QED
    BY <1>2, <2>1
<1>9. Cardinality(low) <= half
  <2> SUFFICES ASSUME half < Cardinality(low) PROVE FALSE
    BY <1>1, <1>8
  <2> DEFINE lows == {count(h) : h \in low}
  <2>1. low # {}
    <3> HIDE DEF low
    <3> QED
      BY <1>1, FS_EmptySet
  <2>2. lows \subseteq 0 .. n /\ lows # {} /\ n \in Nat
    BY <1>1, <1>3, <1>8, <2>1
  <2>3. PICK c \in lows : \A d \in lows : d <= c
    <3> HIDE DEF lows
    <3> QED
      BY <2>2, GreatestNumber
  <2>4. PICK h \in low : c = count(h)
    BY <2>3
  <2>5. h \in D /\ value[h] < value[g]
    BY <2>4 DEF Below
  <2>6. low \subseteq UpTo(value, value[h])
    <3> SUFFICES ASSUME NEW x \in low, ~(value[x] <= value[h]) PROVE FALSE
      BY <1>8 DEF UpTo
    <3>1. value[h] < value[x] /\ x \in D
      BY <1>8, <2>5
    <3>2. count(h) < count(x)
      BY <1>4, <2>5, <3>1
    <3>3. count(x) <= count(h)
      BY <2>3, <2>4
    <3>4. count(x) \in Nat /\ count(h) \in Nat
      BY <1>1, <1>3, <2>5, <3>1
    <3> HIDE DEF count
    <3> QED
      BY <3>2, <3>3, <3>4
  <2>7. Cardinality(low) <= count(h)
    <3>1. UpTo(value, value[h]) \subseteq D
      BY DEF UpTo
    <3>2. IsFiniteSet(UpTo(value, value[h]))
      BY <1>2, <3>1
    <3> HIDE DEF low
    <3> QED
      BY <2>6, <3>2, FS_Subset
  <2>8. count(h) \in Nat /\ count(g) \in Nat
    BY <1>1, <1>3, <1>7, <2>5
  <2>9. count(h) < count(g)
    BY <1>4, <1>7, <2>5
  <2>10. count(h) > half
    <3> HIDE DEF low, count, half
    <3> QED
      BY <1>1, <1>8, <2>7, <2>8
  <2>11. count(g) <= count(h)
    <3>1. h \in many
      BY <2>5, <2>10
    <3> QED
      BY <1>6, <3>1
  <2> HIDE DEF count
  <2> QED
    BY <2>8, <2>9, <2>11
<1>10. IsMedian(value, m)
  <2>1. m \in {value[x] : x \in D}
    BY <1>7
  <2> QED
    BY <1>7, <1>9, <2>1 DEF IsMedian
<1> QED
  BY <1>10

\* The median of the code is one.
LEMMA MedianIsMedian ==
    ASSUME NEW value, IsFiniteSet(DOMAIN value), DOMAIN value # {},
           \A g \in DOMAIN value : value[g] \in Int
    PROVE  IsMedian(value, Median(value))
<1> DEFINE half == Cardinality(DOMAIN value) \div 2
<1>1. PICK m : IsMedian(value, m)
  BY MedianExists
<1>2. /\ m \in {value[g] : g \in DOMAIN value}
      /\ Cardinality({g \in DOMAIN value : value[g] < m}) <= half
      /\ Cardinality({g \in DOMAIN value : value[g] <= m}) > half
  BY <1>1 DEF IsMedian, Below, UpTo
<1> DEFINE c == Median(value)
<1>3. /\ c \in {value[g] : g \in DOMAIN value}
      /\ Cardinality({g \in DOMAIN value : value[g] < c}) <= half
      /\ Cardinality({g \in DOMAIN value : value[g] <= c}) > half
  BY <1>2 DEF Median
<1> QED
  BY <1>3 DEF IsMedian, Below, UpTo

\* More voters than there are faulty guardians: one is honest.
LEMMA OneIsHonest ==
    ASSUME NEW S, S \subseteq Guardian, Cardinality(S) > Cardinality(Faulty)
    PROVE  \E g \in S : g \in Honest
<1> SUFFICES ASSUME \A g \in S : g \notin Honest PROVE FALSE
  OBVIOUS
<1>1. S \subseteq Faulty
  BY DEF Honest
<1>2. IsFiniteSet(Faulty)
  BY ConsensusAssumption, FS_Subset
<1>3. Cardinality(S) <= Cardinality(Faulty)
      /\ Cardinality(S) \in Nat /\ Cardinality(Faulty) \in Nat
  BY <1>1, <1>2, FS_Subset, FS_CardinalityType
<1> QED
  BY <1>3

\* A median of a quorum has an honest vote on either side.
LEMMA MedianIsBetween ==
    ASSUME NEW value, DOMAIN value \subseteq Guardian,
           Cardinality(DOMAIN value) >= Threshold,
           \A g \in DOMAIN value : value[g] \in Int
    PROVE  /\ Median(value) \in Int
           /\ \E g, h \in DOMAIN value \cap Honest :
                value[g] <= Median(value) /\ Median(value) <= value[h]
<1> DEFINE D    == DOMAIN value
           n    == Cardinality(D)
           half == n \div 2
           m    == Median(value)
           low  == Below(value, m)
           high == D \ low
           F    == Cardinality(Faulty)
           N    == Cardinality(Guardian)
<1>1. IsFiniteSet(Guardian) /\ IsFiniteSet(D) /\ IsFiniteSet(Faulty)
  BY ConsensusAssumption, FS_Subset
<1>2. n \in Nat /\ F \in Nat /\ N \in Nat /\ Threshold \in Nat /\ half \in Nat
  BY <1>1, FS_CardinalityType, ConsensusAssumption
<1>3. 3 * F < N /\ 3 * n > 2 * N
  <2>1. 3 * F < N /\ 3 * Threshold > 2 * N /\ n >= Threshold
    BY ConsensusAssumption
  <2> HIDE DEF F, N, n
  <2> QED
    BY <1>2, <2>1
<1>4. half >= F /\ n - half > F /\ n > 0
  <2> HIDE DEF F, N, n
  <2> QED
    BY <1>2, <1>3
<1>5. IsMedian(value, m)
  <2>1. D # {}
    BY <1>4, FS_EmptySet
  <2> QED
    BY <1>1, <2>1, MedianIsMedian
<1>6. m \in Int /\ Cardinality(low) <= half
      /\ Cardinality(UpTo(value, m)) > half
  BY <1>5 DEF IsMedian
<1> HIDE DEF m
<1>7. PICK g \in UpTo(value, m) : g \in Honest
  <2>1. UpTo(value, m) \subseteq D
    BY DEF UpTo
  <2>2. Cardinality(UpTo(value, m)) \in Nat
    BY <1>1, <2>1, FS_Subset, FS_CardinalityType
  <2>3. Cardinality(UpTo(value, m)) > F
    <3> HIDE DEF half, F
    <3> QED
      BY <1>2, <1>4, <1>6, <2>2
  <2> QED
    BY <2>1, <2>3, OneIsHonest
<1>8. PICK h \in high : h \in Honest
  <2>1. low \subseteq D /\ high \subseteq D
    BY DEF Below
  <2>2. /\ IsFiniteSet(low) /\ Cardinality(low) \in Nat
        /\ Cardinality(high) = n - Cardinality(low)
    <3>1. IsFiniteSet(low)
      BY <1>1, <2>1, FS_Subset
    <3>2. D \cap low = low
      BY <2>1
    <3>3. Cardinality(D \ low) = Cardinality(D) - Cardinality(D \cap low)
      BY <1>1, <3>1, FS_Difference
    <3> QED
      BY <3>1, <3>2, <3>3, FS_CardinalityType
  <2>3. Cardinality(high) > F
    <3> HIDE DEF half, F, n, low, high
    <3> QED
      BY <1>2, <1>4, <1>6, <2>2
  <2> QED
    BY <2>1, <2>3, OneIsHonest
<1>9. g \in D /\ value[g] <= m
  BY <1>7 DEF UpTo
<1>10. h \in D /\ m <= value[h]
  BY <1>6, <1>8 DEF Below
<1>11. m \in Int /\ \E x, y \in D \cap Honest : value[x] <= m /\ m <= value[y]
  BY <1>6, <1>7, <1>8, <1>9, <1>10
<1> QED
  BY <1>11 DEF m

-----------------------------------------------------------------------------
(***************************************************************************)
(* Cycles.                                                                 *)
(***************************************************************************)
Ballot == UNION {[G -> Vote] : G \in SUBSET Guardian}

Cycle == [time : Int, price : Int, ballot : Ballot]

\* An honest guardian votes for a cycle no sooner than the last one it has seen
\* has run out, on its own clock.
Waited(time, n) == n > 0 => time - cycles[n].time > CycleDuration

\* Votes of honest guardians, on their way and in the table, have waited for the
\* cycle they vote to end.
HonestWaited ==
    /\ \A item \in inFlight :
         /\ item.from \in Honest
         /\ item.index <= Len(cycles)
         /\ Waited(item.time, item.index)
    /\ \A g \in DOMAIN votes \cap Honest : Waited(votes[g].time, Len(cycles))

\* The inductive invariant.
ConsensusInv ==
    /\ TypeOK
    /\ cycles \in Seq(Cycle)
    /\ MediansAreHonest
    /\ CyclesLastTheirDuration
    /\ HonestWaited

\* One more vote goes into the table, or makes the ballot full and the cycle
\* turn over to one with honest medians, no sooner than the last has run out.
LEMMA VoteIsCounted ==
    ASSUME ConsensusInv, Len(cycles) < MaxCycles,
           NEW item \in Vote, Acceptable(item), Process(item),
           item.from \in Honest => Waited(item.time, Len(cycles))
    PROVE  /\ DOMAIN votes' \subseteq Guardian
           /\ votes' \in [DOMAIN votes' -> Vote]
           /\ Cardinality(DOMAIN votes') < Threshold
           /\ cycles' \in Seq(Cycle)
           /\ Len(cycles') <= MaxCycles
           /\ Len(cycles) <= Len(cycles')
           /\ \A i \in 1 .. Len(cycles) : cycles'[i] = cycles[i]
           /\ MediansAreHonest'
           /\ CyclesLastTheirDuration'
           /\ \A g \in DOMAIN votes' \cap Honest :
                Waited(votes[g].time, Len(cycles))'
<1> USE DEF ConsensusInv
<1> DEFINE ballot == [g \in DOMAIN votes \cup {item.from} |->
                         IF g = item.from THEN item ELSE votes[g]]
<1>1. /\ DOMAIN votes \subseteq Guardian /\ votes \in [DOMAIN votes -> Vote]
      /\ cycles \in Seq(Cycle) /\ Len(cycles) \in Nat
      /\ item.from \in Guardian /\ MaxCycles \in Nat
      /\ CycleDuration \in Nat /\ Threshold \in Nat /\ Threshold > 0
  <2>1. /\ IsFiniteSet(Guardian) /\ Cardinality(Guardian) \in Nat
        /\ 3 * Threshold > 2 * Cardinality(Guardian)
    BY ConsensusAssumption, FS_CardinalityType
  <2> QED
    BY <2>1, ConsensusAssumption DEF TypeOK, Vote
<1>2. /\ DOMAIN ballot \subseteq Guardian
      /\ ballot \in [DOMAIN ballot -> Vote]
  BY <1>1
<1>3. \A g \in DOMAIN ballot \cap Honest : Waited(ballot[g].time, Len(cycles))
  <2>1. \A g \in DOMAIN votes \cap Honest : Waited(votes[g].time, Len(cycles))
    BY DEF HonestWaited
  <2> QED
    BY <2>1
<1>4. IsFiniteSet(DOMAIN ballot) /\ Cardinality(DOMAIN ballot) \in Nat
  BY <1>2, ConsensusAssumption, FS_Subset, FS_CardinalityType
<1>5. CASE ~Quorum(ballot)
  <2>1. votes' = ballot /\ cycles' = cycles
    BY <1>5 DEF Process
  <2>2. ~(Cardinality(DOMAIN ballot) >= Threshold)
    BY <1>5 DEF Quorum
  <2> HIDE DEF ballot
  <2>3. MediansAreHonest' /\ CyclesLastTheirDuration'
    BY <2>1 DEF MediansAreHonest, CyclesLastTheirDuration, Honestly
  <2>4. \A g \in DOMAIN votes' \cap Honest : Waited(votes[g].time, Len(cycles))'
    BY <1>3, <2>1 DEF Waited
  <2> QED
    BY <1>1, <1>2, <1>4, <2>1, <2>2, <2>3, <2>4
<1>6. CASE Quorum(ballot)
  <2> DEFINE time  == [g \in DOMAIN ballot |-> ballot[g].time]
             price == [g \in DOMAIN ballot |-> ballot[g].price]
             new   == [time |-> Median(time), price |-> Median(price),
                       ballot |-> ballot]
             n     == Len(cycles)
  <2>1. cycles' = Append(cycles, new) /\ votes' = [g \in {} |-> None]
    BY <1>6 DEF Process
  <2>2. Cardinality(DOMAIN ballot) >= Threshold
    BY <1>6 DEF Quorum
  <2> HIDE DEF ballot
  <2>3. /\ DOMAIN time = DOMAIN ballot /\ DOMAIN price = DOMAIN ballot
        /\ \A g \in DOMAIN ballot : time[g] \in Int /\ price[g] \in Int
        /\ \A g \in DOMAIN ballot :
             time[g] = ballot[g].time /\ price[g] = ballot[g].price
    BY <1>2 DEF Vote
  <2> HIDE DEF time, price
  <2>4. /\ Median(time) \in Int
        /\ \E g, h \in DOMAIN ballot \cap Honest :
             time[g] <= Median(time) /\ Median(time) <= time[h]
    BY <1>2, <2>2, <2>3, MedianIsBetween
  <2>5. /\ Median(price) \in Int
        /\ \E g, h \in DOMAIN ballot \cap Honest :
             price[g] <= Median(price) /\ Median(price) <= price[h]
    BY <1>2, <2>2, <2>3, MedianIsBetween
  <2>6. /\ new \in Cycle
        /\ new.time = Median(time) /\ new.price = Median(price)
        /\ new.ballot = ballot
    BY <1>2, <2>4, <2>5 DEF Cycle, Ballot
  <2> HIDE DEF new
  <2>7. /\ cycles' \in Seq(Cycle) /\ Len(cycles') = n + 1
        /\ DOMAIN cycles' = 1 .. n + 1 /\ DOMAIN cycles = 1 .. n
        /\ \A i \in 1 .. n : cycles'[i] = cycles[i]
        /\ cycles'[n + 1] = new
    BY <1>1, <2>1, <2>6
  <2>8. MediansAreHonest'
    <3>1. ASSUME NEW i \in 1 .. n
          PROVE  /\ \E g, h \in Honestly(cycles[i])' :
                      /\ cycles'[i].ballot[g].price <= cycles'[i].price
                      /\ cycles'[i].price <= cycles'[i].ballot[h].price
                 /\ \E g, h \in Honestly(cycles[i])' :
                      /\ cycles'[i].ballot[g].time <= cycles'[i].time
                      /\ cycles'[i].time <= cycles'[i].ballot[h].time
      BY <2>7 DEF MediansAreHonest, Honestly
    <3>2. /\ \E g, h \in Honestly(new) :
               /\ new.ballot[g].price <= new.price
               /\ new.price <= new.ballot[h].price
          /\ \E g, h \in Honestly(new) :
               /\ new.ballot[g].time <= new.time
               /\ new.time <= new.ballot[h].time
      BY <2>3, <2>4, <2>5, <2>6 DEF Honestly
    <3>3. \A i \in DOMAIN cycles' : i \in 1 .. n \/ i = n + 1
      BY <1>1, <2>7
    <3> HIDE DEF n
    <3> QED
      BY <2>7, <3>1, <3>2, <3>3 DEF MediansAreHonest, Honestly
  <2>9. CyclesLastTheirDuration'
    <3> SUFFICES ASSUME NEW i \in DOMAIN cycles', i > 1
                 PROVE  cycles'[i].time - cycles'[i - 1].time > CycleDuration
      BY DEF CyclesLastTheirDuration
    <3>1. CASE i # n + 1
      <4>1. i \in DOMAIN cycles /\ i \in 1 .. n /\ i - 1 \in 1 .. n
        BY <1>1, <2>7, <3>1
      <4> QED
        BY <2>7, <4>1 DEF CyclesLastTheirDuration
    <3>2. CASE i = n + 1
      <4>1. n > 0 /\ n \in 1 .. n /\ i - 1 = n
        BY <1>1, <3>2
      <4>2. PICK g \in DOMAIN ballot \cap Honest : time[g] <= Median(time)
        BY <2>4
      <4>3. time[g] - cycles[n].time > CycleDuration
        BY <1>3, <2>3, <4>1, <4>2 DEF Waited
      <4>4. cycles[n].time \in Int
        <5>1. cycles[n] \in Cycle
          BY <1>1, <4>1
        <5> QED
          BY <5>1 DEF Cycle
      <4>5. Median(time) - cycles[n].time > CycleDuration
        BY <1>1, <2>3, <2>4, <4>2, <4>3, <4>4
      <4> QED
        BY <2>6, <2>7, <3>2, <4>1, <4>5
    <3> QED
      BY <3>1, <3>2
  <2>10. DOMAIN votes' = {} /\ Cardinality(DOMAIN votes') = 0
    BY <2>1, FS_EmptySet
  <2> QED
    BY <1>1, <2>1, <2>7, <2>8, <2>9, <2>10
<1> QED
  BY <1>5, <1>6

\* Every other step leaves votes and cycles alone, loses a vote on its
\* way, or sends one that has waited.
LEMMA ConsensusStep == ConsensusInv /\ [Next]_vars => ConsensusInv'
<1> SUFFICES ASSUME ConsensusInv, [Next]_vars PROVE ConsensusInv'
  OBVIOUS
<1> USE DEF ConsensusInv
<1>1. /\ cycles \in Seq(Cycle) /\ Len(cycles) \in Nat
      /\ DOMAIN cycles = 1 .. Len(cycles)
      /\ MaxTime \in Nat /\ MaxCycles \in Nat /\ CycleDuration \in Nat
      /\ Honest \subseteq Guardian
  BY ConsensusAssumption DEF Honest
<1>2. ASSUME UNCHANGED <<votes, cycles>>, inFlight' \subseteq inFlight
      PROVE  /\ cycles' \in Seq(Cycle) /\ MediansAreHonest'
             /\ CyclesLastTheirDuration' /\ HonestWaited'
  BY <1>2
     DEF MediansAreHonest, CyclesLastTheirDuration, HonestWaited, Honestly,
         Waited
<1>3. ASSUME NEW g \in Honest, Tick(g) PROVE ConsensusInv'
  <2>1. clock' \in [Honest -> 0 .. MaxTime]
    BY <1>1, <1>3 DEF Tick, TypeOK
  <2>2. TypeOK'
    BY <1>3, <2>1 DEF Tick, TypeOK
  <2> QED
    BY <1>2, <1>3, <2>2 DEF Tick
<1>4. ASSUME NEW g \in Honest, Restart(g) PROVE ConsensusInv'
  <2>1. TypeOK'
    BY <1>4 DEF Restart, TypeOK
  <2> QED
    BY <1>2, <1>4, <2>1 DEF Restart
<1>5. ASSUME NEW g \in Honest, CatchUp(g) PROVE ConsensusInv'
  <2>1. seen' \in [Honest -> 0 .. Len(cycles)]
    BY <1>1, <1>5 DEF CatchUp, TypeOK
  <2>2. TypeOK'
    BY <1>5, <2>1 DEF CatchUp, TypeOK
  <2> QED
    BY <1>2, <1>5, <2>2 DEF CatchUp
<1>6. ASSUME NEW g \in Honest, NEW price \in Prices, Propose(g, price)
      PROVE  ConsensusInv'
  <2> DEFINE item == [index |-> seen[g], time |-> clock[g], price |-> price,
                      from |-> g]
             mine == [index |-> seen[g], time |-> clock[g]]
  <2>1. /\ seen[g] \in 0 .. Len(cycles) /\ clock[g] \in 0 .. MaxTime
        /\ price \in Int
    BY ConsensusAssumption DEF TypeOK
  <2>2. /\ seen[g] \in Nat /\ clock[g] \in Int /\ seen[g] <= Len(cycles)
    BY <1>1, <2>1
  <2>3. item \in Vote /\ mine \in [index : Nat, time : Int]
    BY <1>1, <2>1, <2>2 DEF Vote
  <2>4. /\ lastProposal' = [lastProposal EXCEPT ![g] = mine]
        /\ inFlight' = inFlight \cup {item}
        /\ UNCHANGED <<clock, seen, votes, cycles>>
    BY <1>6 DEF Propose
  <2>5. TypeOK'
    <3>1. /\ DOMAIN lastProposal' = Honest
          /\ \A h \in Honest : lastProposal'[h] = None
                               \/ lastProposal'[h] \in [index : Nat, time : Int]
      BY <2>3, <2>4 DEF TypeOK
    <3>2. inFlight' \subseteq Vote
      BY <2>3, <2>4 DEF TypeOK
    <3> QED
      BY <2>4, <3>1, <3>2 DEF TypeOK
  <2>6. Waited(item.time, item.index)
    BY <1>6 DEF Propose, ShouldPropose, LongAgo, Waited
  <2>7. item.from = g /\ item.index = seen[g]
    OBVIOUS
  <2> HIDE DEF item
  <2>8. HonestWaited'
    BY <2>2, <2>4, <2>6, <2>7 DEF HonestWaited, Waited
  <2>9. MediansAreHonest' /\ CyclesLastTheirDuration'
    BY <2>4 DEF MediansAreHonest, CyclesLastTheirDuration, Honestly
  <2> QED
    BY <1>1, <2>4, <2>5, <2>8, <2>9
<1>7. ASSUME NEW item \in inFlight, Lose(item) PROVE ConsensusInv'
  <2>1. inFlight' \subseteq inFlight
    BY <1>7 DEF Lose
  <2>2. TypeOK'
    BY <1>7, <2>1 DEF Lose, TypeOK
  <2> QED
    BY <1>2, <1>7, <2>1, <2>2 DEF Lose
<1>8. ASSUME NEW item \in Vote, Len(cycles) < MaxCycles,
             Acceptable(item), Process(item),
             item.from \in Honest => Waited(item.time, Len(cycles)),
             inFlight' \subseteq inFlight,
             UNCHANGED <<clock, lastProposal, seen>>
      PROVE  ConsensusInv'
  <2>1. /\ DOMAIN votes' \subseteq Guardian
        /\ votes' \in [DOMAIN votes' -> Vote]
        /\ Cardinality(DOMAIN votes') < Threshold
        /\ cycles' \in Seq(Cycle)
        /\ Len(cycles') <= MaxCycles
        /\ Len(cycles) <= Len(cycles')
        /\ \A i \in 1 .. Len(cycles) : cycles'[i] = cycles[i]
        /\ MediansAreHonest'
        /\ CyclesLastTheirDuration'
        /\ \A g \in DOMAIN votes' \cap Honest :
             Waited(votes[g].time, Len(cycles))'
    BY <1>8, VoteIsCounted
  <2>2. Len(cycles') \in Nat
    BY <2>1
  <2>3. seen' \in [Honest -> 0 .. Len(cycles')]
    BY <1>1, <1>8, <2>1, <2>2 DEF TypeOK
  <2>4. TypeOK'
    BY <1>8, <2>1, <2>3 DEF TypeOK
  <2>5. ASSUME NEW i \in inFlight'
        PROVE  /\ i.from \in Honest
               /\ i.index <= Len(cycles)'
               /\ Waited(i.time, i.index)'
    <3>1. /\ i \in Vote /\ i.from \in Honest
          /\ i.index <= Len(cycles) /\ Waited(i.time, i.index)
      BY <1>8, <2>5 DEF TypeOK, HonestWaited
    <3>2. i.index \in Nat
      BY <3>1 DEF Vote
    <3>3. Waited(i.time, i.index)' /\ i.index <= Len(cycles)'
      BY <1>1, <2>1, <2>2, <3>1, <3>2 DEF Waited
    <3> QED
      BY <3>1, <3>3
  <2>6. HonestWaited'
    BY <2>1, <2>5 DEF HonestWaited
  <2> QED
    BY <2>1, <2>4, <2>6
<1>9. ASSUME NEW item \in inFlight, Deliver(item) PROVE ConsensusInv'
  <2>1. inFlight' \subseteq inFlight /\ item \in Vote
    BY <1>9 DEF Deliver, TypeOK
  <2>2. CASE Acceptable(item)
    <3>1. Waited(item.time, Len(cycles))
      BY <2>2 DEF HonestWaited, Acceptable
    <3> QED
      BY <1>8, <1>9, <2>1, <2>2, <3>1 DEF Deliver
  <2>3. CASE ~Acceptable(item)
    <3>1. UNCHANGED <<votes, cycles, clock, lastProposal, seen>>
      BY <1>9, <2>3 DEF Deliver
    <3>2. TypeOK'
      BY <2>1, <3>1 DEF TypeOK
    <3> QED
      BY <1>2, <2>1, <3>1, <3>2
  <2> QED
    BY <2>2, <2>3
<1>10. ASSUME NEW item \in FaultyItem, FaultyVote(item) PROVE ConsensusInv'
  <2>1. /\ 0 .. MaxCycles \subseteq Nat /\ FaultyTimes \subseteq Int
        /\ FaultyPrices \subseteq Int /\ Faulty \subseteq Guardian
    BY <1>1, ConsensusAssumption
  <2>2. item \in Vote /\ item.from \notin Honest
    BY <2>1 DEF FaultyItem, Vote, Honest
  <2> QED
    BY <1>8, <1>10, <2>2 DEF FaultyVote
<1>11. CASE UNCHANGED vars
  <2>1. TypeOK'
    BY <1>11 DEF vars, TypeOK
  <2> QED
    BY <1>2, <1>11, <2>1 DEF vars
<1>12. CASE Next
  BY <1>3, <1>4, <1>5, <1>6, <1>7, <1>9, <1>10, <1>12 DEF Next
<1> QED
  BY <1>11, <1>12

\* No vote, no cycle: nothing to be wrong yet.
LEMMA ConsensusStart == Init => ConsensusInv
<1> SUFFICES ASSUME Init PROVE ConsensusInv
  OBVIOUS
<1>1. /\ IsFiniteSet(Guardian) /\ Cardinality(Guardian) \in Nat
      /\ 3 * Threshold > 2 * Cardinality(Guardian)
  BY ConsensusAssumption, FS_CardinalityType
<1>2. Threshold \in Nat /\ Threshold > 0
  BY <1>1, ConsensusAssumption
<1>3. /\ DOMAIN votes = {} /\ Cardinality(DOMAIN votes) = 0
      /\ DOMAIN cycles = {} /\ Len(cycles) = 0 /\ cycles \in Seq(Cycle)
  BY FS_EmptySet DEF Init
<1>4. clock \in [Honest -> 0 .. MaxTime]
  BY ConsensusAssumption DEF Init
<1>5. TypeOK
  BY <1>2, <1>3, <1>4, ConsensusAssumption DEF Init, TypeOK
<1>6. MediansAreHonest /\ CyclesLastTheirDuration
  BY <1>3 DEF MediansAreHonest, CyclesLastTheirDuration
<1>7. HonestWaited
  BY <1>3 DEF Init, HonestWaited
<1> QED
  BY <1>3, <1>5, <1>6, <1>7 DEF ConsensusInv

\* The price and the time of every cycle lie between values that honest
\* guardians voted for.
THEOREM MediansHonest == Spec => []MediansAreHonest
<1>1. ConsensusInv => MediansAreHonest
  BY DEF ConsensusInv
<1> QED
  BY <1>1, ConsensusStart, ConsensusStep, PTL DEF Spec

\* Tables are well typed, and no cycle is cut short: the next one starts more
\* than its duration later.
THEOREM CyclesLast == Spec => []CyclesAreSound
<1>1. ConsensusInv => CyclesAreSound
  BY DEF ConsensusInv, CyclesAreSound
<1> QED
  BY <1>1, ConsensusStart, ConsensusStep, PTL DEF Spec

=============================================================================
