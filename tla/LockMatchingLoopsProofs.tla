---------------------- MODULE LockMatchingLoopsProofs -----------------------
(***************************************************************************)
(* The two loops of the auction compute the locks that LockMatching gives  *)
(* in closed form, for all queues, amounts, fee rates and ratios.          *)
(*                                                                         *)
(* A walk has locked a front part of the queue, and each locked item with  *)
(* what the closed form takes of it. While a loop wants more, everything   *)
(* it has locked is emptied, so that what is ahead of the next item is     *)
(* what has been included; the loop stops where no item behind wants more  *)
(* than that, which is where the closed form ends. In the first loop an    *)
(* item behind is dearer, and at a dearer rate less is needed.             *)
(*                                                                         *)
(* Then the form that deposits to a stable balance (StableBalance), what   *)
(* withdraws from an account (StabilityOperations), and what MCStable says *)
(* of the three; they share no state.                                      *)
(***************************************************************************)
EXTENDS MCStable, LockMatchingTheorems

-----------------------------------------------------------------------------
(***************************************************************************)
(* What a walk over a queue has done while it is under way, and the        *)
(* invariant of the two loops.                                             *)
(***************************************************************************)
\* A walk that has locked some of the items and left the others as they were:
\* the locked ones are ahead of the others, and each was given what the closed
\* form says.
Walking(items, before, want, locked, left) ==
    LET taken == Taken(items, before, want)
    IN  /\ DOMAIN locked \subseteq Reached(items, before, want)
        /\ \A s \in DOMAIN locked :
             /\ locked[s] = [items[s] EXCEPT !.amount = taken[s]]
             /\ DOMAIN items \cap before[s] \subseteq DOMAIN locked
        /\ DOMAIN left =
             {s \in DOMAIN items :
                s \notin DOMAIN locked \/ taken[s] < items[s].amount}
        /\ \A s \in DOMAIN left :
             left[s] = IF s \in DOMAIN locked
                       THEN [items[s] EXCEPT !.amount = @ - taken[s]]
                       ELSE items[s]
        /\ locked = [s \in DOMAIN locked |-> locked[s]]
        /\ left = [s \in DOMAIN left |-> left[s]]

\* Everything locked has been emptied.
Emptied(locked, left) == DOMAIN locked \cap DOMAIN left = {}

\* The walk has emptied what it locked, and stands at s.
StandsAt(items, before, want, locked, left, s) ==
    /\ Walking(items, before, want, locked, left)
    /\ Emptied(locked, left)
    /\ s \in DOMAIN left /\ DOMAIN left \cap before[s] = {}

\* Subtraction that stops at zero.
Monus(m, n) == IF m <= n THEN 0 ELSE m - n

\* How far the two loops have got.
ProvidesWalk ==
    Walking(provides0, Cheaper(provides0), Wanted(seeks0, provides0),
            lockedProvides, provides)

SeeksWalk ==
    Walking(seeks0, Older(seeks0), Covered(seeks0, lockedProvides),
            lockedSeeks, seeks)

\* The inductive invariant: the two walks, and the totals the loops keep.
LoopsInv ==
    /\ seeks0 \in Items(SeekSeqs, [amount : AmountRange])
    /\ provides0 \in
         Items(ProvideSeqs, [amount : AmountRange, minFeeRate : FeeRange])
    /\ phase \in {"provides", "seeks", "done"}
    /\ ProvidesWalk
    /\ feeRate = EffectiveFeeRate(lockedProvides)
    /\ included = Sum(lockedProvides)
    /\ phase = "provides" =>
         /\ seeks = seeks0
         /\ lockedSeeks = [s \in {} |-> 0]
         /\ remaining = Monus(CollateralNeeded(Sum(seeks0), feeRate), included)
         /\ remaining > 0 => Emptied(lockedProvides, provides)
    /\ phase # "provides" =>
         /\ lockedProvides = LockedProvides(seeks0, provides0)
         /\ provides = UnlockedProvides(seeks0, provides0)
         /\ SeeksWalk
         /\ covered \in Nat
         /\ covered + Sum(lockedSeeks) = SeeksCovered(included, feeRate)
         /\ covered > 0 => Emptied(lockedSeeks, seeks)
    /\ phase = "done" =>
         /\ lockedSeeks = GrossLockedSeeks(seeks0, lockedProvides)
         /\ seeks = UnlockedSeeks(seeks0, lockedProvides)

-----------------------------------------------------------------------------
(***************************************************************************)
(* Where a walk stands, and what an iteration and the end of it do to a    *)
(* walk.                                                                   *)
(***************************************************************************)
\* What has been locked of a queue is a queue, and not more than the queue.
LEMMA WalkingType ==
    ASSUME NEW items, IsQueue(items), NEW before,
           NEW want, \A s \in DOMAIN items : want[s] \in Int,
           NEW locked, NEW left, Walking(items, before, want, locked, left)
    PROVE  /\ IsQueue(locked)
           /\ DOMAIN locked \subseteq DOMAIN items
           /\ DOMAIN left \subseteq DOMAIN items
           /\ IsFiniteSet(DOMAIN left)
           /\ DOMAIN items \ DOMAIN locked \subseteq DOMAIN left
           /\ \A s \in DOMAIN locked :
                /\ locked[s].amount = Taken(items, before, want)[s]
                /\ locked[s].amount <= items[s].amount
<1> DEFINE taken == Taken(items, before, want)
<1>1. \A s \in DOMAIN items : taken[s] \in Nat /\ taken[s] <= items[s].amount
  BY TakenType
<1>2. DOMAIN locked \subseteq DOMAIN items /\ DOMAIN left \subseteq DOMAIN items
  BY DEF Walking, Reached
<1>3. \A s \in DOMAIN locked : locked[s] = [items[s] EXCEPT !.amount = taken[s]]
  BY DEF Walking
<1>4. DOMAIN items \ DOMAIN locked \subseteq DOMAIN left
  BY DEF Walking
<1>5. IsFiniteSet(DOMAIN locked) /\ IsFiniteSet(DOMAIN left)
  BY <1>2, FS_Subset DEF IsQueue
<1> HIDE DEF taken
<1>6. \A s \in DOMAIN locked :
        "amount" \in DOMAIN locked[s] /\ locked[s].amount = taken[s]
  BY <1>2, <1>3 DEF IsQueue
<1> QED
  BY <1>1, <1>2, <1>4, <1>5, <1>6 DEF IsQueue, taken

\* What comes before s is what was locked, and all of it.
LockedAhead(items, before, want, locked, left, s) ==
    /\ s \in DOMAIN items /\ s \notin DOMAIN locked
    /\ DOMAIN left = DOMAIN items \ DOMAIN locked
    /\ DOMAIN items \cap before[s] = DOMAIN locked
    /\ Ahead(items, before, s) = Sum(locked)
    /\ \A t \in DOMAIN locked :
         Taken(items, before, want)[t] = items[t].amount

\* Where the walk stands, everything ahead has been locked.
LEMMA WalkingAhead ==
    ASSUME NEW items, IsQueue(items),
           NEW before, IsOrder(DOMAIN items, before),
           NEW want, \A s \in DOMAIN items : want[s] \in Int,
           NEW locked, NEW left, NEW s,
           StandsAt(items, before, want, locked, left, s)
    PROVE  LockedAhead(items, before, want, locked, left, s)
<1> DEFINE taken == Taken(items, before, want)
           front == Only(items, before[s])
<1>0. /\ Walking(items, before, want, locked, left)
      /\ Emptied(locked, left)
      /\ s \in DOMAIN left /\ DOMAIN left \cap before[s] = {}
  BY DEF StandsAt
<1>1. /\ s \in DOMAIN items /\ s \notin DOMAIN locked
      /\ DOMAIN left = DOMAIN items \ DOMAIN locked
  BY <1>0, WalkingType DEF Emptied
<1>2. ASSUME NEW t \in DOMAIN locked
      PROVE  taken[t] = items[t].amount
  <2>1. t \notin DOMAIN left /\ t \in DOMAIN items
    BY <1>0, <1>1, WalkingType
  <2>2. ~(taken[t] < items[t].amount)
    BY <1>0, <2>1 DEF Walking
  <2>3. taken[t] \in Nat /\ taken[t] <= items[t].amount
    BY <2>1, TakenType
  <2>4. items[t].amount \in Nat
    BY <2>1 DEF IsQueue
  <2> HIDE DEF taken
  <2> QED
    BY <2>2, <2>3, <2>4
<1>3. DOMAIN items \cap before[s] = DOMAIN locked
  <2>1. ASSUME NEW t \in DOMAIN locked PROVE t \in before[s]
    <3>1. t \in DOMAIN items /\ t # s
      BY <1>0, <1>1, WalkingType
    <3>2. s \notin before[t]
      BY <1>0, <1>1 DEF Walking
    <3> QED
      BY <1>1, <3>1, <3>2 DEF IsOrder
  <2>2. DOMAIN locked \subseteq DOMAIN items
    BY <1>0, WalkingType
  <2> QED
    BY <1>0, <1>1, <2>1, <2>2
<1>4. Amounts(front) = Amounts(locked)
  <2>1. DOMAIN front = DOMAIN locked
    BY <1>3 DEF Only
  <2>2. \A t \in DOMAIN locked : front[t].amount = locked[t].amount
    <3> SUFFICES ASSUME NEW t \in DOMAIN locked
                 PROVE  front[t].amount = locked[t].amount
      OBVIOUS
    <3>1. front[t] = items[t]
      BY <1>3 DEF Only
    <3>2. locked[t].amount = taken[t]
      BY <1>0, WalkingType
    <3> QED
      BY <1>2, <3>1, <3>2
  <2> QED
    BY <2>1, <2>2 DEF Amounts
<1> QED
  BY <1>1, <1>2, <1>3, <1>4 DEF Ahead, Sum, LockedAhead

\* One more item is added to a total.
LEMMA SumPut ==
    ASSUME NEW locked, IsQueue(locked), NEW s, s \notin DOMAIN locked,
           NEW item, "amount" \in DOMAIN item, item.amount \in Nat
    PROVE  Sum(Put(locked, s, item)) = Sum(locked) + item.amount
<1> DEFINE new == Put(locked, s, item)
           one == [x \in {s} |-> item.amount]
<1>1. IsAmounts(Amounts(locked)) /\ DOMAIN Amounts(locked) = DOMAIN locked
  BY SumType
<1>2. /\ DOMAIN new = DOMAIN locked \cup {s}
      /\ new[s] = item
      /\ \A x \in DOMAIN locked : new[x] = locked[x]
  BY DEF Put
<1>3. IsAmounts(one) /\ DOMAIN one = {s} /\ one[s] = item.amount
  BY FS_Singleton DEF IsAmounts
<1> HIDE DEF new, one
<1>4. /\ DOMAIN Amounts(new) = DOMAIN locked \cup {s}
      /\ Amounts(new)[s] = item.amount
      /\ \A x \in DOMAIN locked : Amounts(new)[x] = Amounts(locked)[x]
  BY <1>2 DEF Amounts
<1>5. IsAmounts(Amounts(new))
  <2>1. IsFiniteSet(DOMAIN Amounts(new))
    <3>1. IsFiniteSet(DOMAIN locked) /\ IsFiniteSet({s})
      BY <1>1, <1>3 DEF IsAmounts
    <3>2. IsFiniteSet(DOMAIN locked \cup {s})
      BY <3>1, FS_Union
    <3> QED
      BY <1>4, <3>2
  <2>2. \A x \in DOMAIN Amounts(new) : Amounts(new)[x] \in Nat
    BY <1>1, <1>4 DEF IsAmounts
  <2> QED
    BY <2>1, <2>2 DEF IsAmounts
<1>6. Total(Amounts(new)) = Total(Amounts(locked)) + Total(one)
  BY <1>1, <1>3, <1>4, <1>5, TotalSplit
<1>7. Total(one) = item.amount
  BY <1>3, TotalOne
<1> QED
  BY <1>6, <1>7 DEF Sum, new

\* An iteration takes from the front of the rest what the closed form says, and
\* stays a walk.
LEMMA WalkingTakes ==
    ASSUME NEW items, IsQueue(items),
           NEW before, IsOrder(DOMAIN items, before),
           NEW want, \A s \in DOMAIN items : want[s] \in Int,
           NEW locked, NEW left, NEW s,
           StandsAt(items, before, want, locked, left, s),
           Sum(locked) < want[s],
           NEW used, used = Least(want[s] - Sum(locked), items[s].amount)
    PROVE  LET item  == [items[s] EXCEPT !.amount = used]
               more  == Put(locked, s, item)
               rest  == Less(left, s, used)
           IN  /\ left[s] = items[s]
               /\ used \in Nat /\ used <= items[s].amount
               /\ Walking(items, before, want, more, rest)
               /\ Sum(more) = Sum(locked) + used
               /\ used = items[s].amount => Emptied(more, rest)
<1> DEFINE taken == Taken(items, before, want)
           item  == [items[s] EXCEPT !.amount = used]
           more  == Put(locked, s, item)
           rest  == Less(left, s, used)
<1>1. /\ s \notin DOMAIN locked /\ s \in DOMAIN items
      /\ DOMAIN left = DOMAIN items \ DOMAIN locked
      /\ DOMAIN items \cap before[s] = DOMAIN locked
      /\ Ahead(items, before, s) = Sum(locked)
      /\ \A t \in DOMAIN locked : taken[t] = items[t].amount
  <2>1. LockedAhead(items, before, want, locked, left, s)
    BY WalkingAhead
  <2> QED
    BY <2>1 DEF LockedAhead
<1>0. Walking(items, before, want, locked, left)
  BY DEF StandsAt
<1>2. /\ IsQueue(locked) /\ Sum(locked) \in Nat
      /\ "amount" \in DOMAIN items[s] /\ items[s].amount \in Nat
      /\ want[s] \in Int
  BY <1>0, <1>1, WalkingType, SumType DEF IsQueue
<1>3. s \in Reached(items, before, want) /\ taken[s] = used
  BY <1>1 DEF Reached, Taken
<1>4. used \in Nat /\ used <= items[s].amount
  BY <1>2 DEF Least
<1>5. left[s] = items[s]
  BY <1>0, <1>1 DEF Walking
<1> HIDE DEF taken
<1>6. "amount" \in DOMAIN item /\ item.amount = used
  BY <1>2
<1>7. /\ DOMAIN more = DOMAIN locked \cup {s}
      /\ more[s] = item
      /\ \A t \in DOMAIN locked : more[t] = locked[t]
      /\ more = [t \in DOMAIN more |-> more[t]]
  BY <1>1 DEF Put
<1>8. Sum(more) = Sum(locked) + used
  BY <1>1, <1>2, <1>4, <1>6, SumPut
<1>9. /\ used = items[s].amount => DOMAIN rest = DOMAIN left \ {s}
      /\ used # items[s].amount =>
           /\ DOMAIN rest = DOMAIN left
           /\ rest[s] = [items[s] EXCEPT !.amount = @ - used]
      /\ \A t \in DOMAIN rest \ {s} : rest[t] = left[t]
      /\ rest = [t \in DOMAIN rest |-> rest[t]]
  <2>1. CASE used = items[s].amount
    <3>1. rest = Only(left, DOMAIN left \ {s})
      BY <1>5, <2>1 DEF Less
    <3> QED
      BY <2>1, <3>1 DEF Only
  <2>2. CASE used # items[s].amount
    <3>1. rest = [left EXCEPT ![s].amount = @ - used]
      BY <1>5, <2>2 DEF Less
    <3>2. left = [t \in DOMAIN left |-> left[t]]
      BY <1>0 DEF Walking
    <3> HIDE DEF rest
    <3>3. s \in DOMAIN left
      BY DEF StandsAt
    <3>4. /\ DOMAIN rest = DOMAIN left
          /\ rest[s] = [left[s] EXCEPT !.amount = @ - used]
          /\ \A t \in DOMAIN left \ {s} : rest[t] = left[t]
      BY <3>1, <3>2, <3>3
    <3>5. rest = [t \in DOMAIN rest |-> rest[t]]
      BY <3>1, <3>2
    <3> QED
      BY <1>5, <2>2, <3>4, <3>5
  <2> QED
    BY <2>1, <2>2
<1> HIDE DEF item, more, rest
<1>10. DOMAIN more \subseteq Reached(items, before, want)
  BY <1>0, <1>3, <1>7 DEF Walking
<1>11. \A t \in DOMAIN more :
         /\ more[t] = [items[t] EXCEPT !.amount = taken[t]]
         /\ DOMAIN items \cap before[t] \subseteq DOMAIN more
  <2>1. \A t \in DOMAIN locked :
          /\ locked[t] = [items[t] EXCEPT !.amount = taken[t]]
          /\ DOMAIN items \cap before[t] \subseteq DOMAIN locked
    BY <1>0 DEF Walking, taken
  <2>2. more[s] = [items[s] EXCEPT !.amount = taken[s]]
    BY <1>3, <1>7 DEF item
  <2> QED
    BY <1>1, <1>7, <2>1, <2>2
<1>12. DOMAIN rest = {t \in DOMAIN items :
                        t \notin DOMAIN more \/ taken[t] < items[t].amount}
  <2>1. \A t \in DOMAIN locked : ~(taken[t] < items[t].amount)
    <3> SUFFICES ASSUME NEW t \in DOMAIN locked
                 PROVE  ~(taken[t] < items[t].amount)
      OBVIOUS
    <3>1. taken[t] = items[t].amount /\ items[t].amount \in Nat
      BY <1>0, <1>1, WalkingType DEF IsQueue
    <3> QED
      BY <3>1
  <2>2. taken[s] < items[s].amount <=> used # items[s].amount
    BY <1>2, <1>3, <1>4
  <2> QED
    BY <1>1, <1>7, <1>9, <2>1, <2>2
<1>13. \A t \in DOMAIN rest :
         rest[t] = IF t \in DOMAIN more
                   THEN [items[t] EXCEPT !.amount = @ - taken[t]]
                   ELSE items[t]
  <2> SUFFICES ASSUME NEW t \in DOMAIN rest
               PROVE  rest[t] = IF t \in DOMAIN more
                                THEN [items[t] EXCEPT !.amount = @ - taken[t]]
                                ELSE items[t]
    OBVIOUS
  <2>1. CASE t = s
    BY <1>1, <1>3, <1>7, <1>9, <2>1
  <2>2. CASE t # s
    <3>1. t \in DOMAIN left /\ t \notin DOMAIN locked /\ rest[t] = left[t]
      BY <1>1, <1>9, <2>2
    <3>2. left[t] = items[t]
      BY <1>0, <3>1 DEF Walking
    <3> QED
      BY <1>7, <2>2, <3>1, <3>2
  <2> QED
    BY <2>1, <2>2
<1>14. Walking(items, before, want, more, rest)
  BY <1>7, <1>9, <1>10, <1>11, <1>12, <1>13 DEF Walking, taken
<1>15. used = items[s].amount => Emptied(more, rest)
  BY <1>1, <1>7, <1>9 DEF Emptied
<1> QED
  BY <1>4, <1>5, <1>8, <1>14, <1>15 DEF item, more, rest

\* A walk that wants nothing of the items it has not locked has reached none of
\* them: it has computed the closed form.
LEMMA WalkingStops ==
    ASSUME NEW items, IsQueue(items),
           NEW before, IsOrder(DOMAIN items, before),
           NEW want, \A s \in DOMAIN items : want[s] \in Int,
           NEW locked, NEW left, Walking(items, before, want, locked, left),
           \A s \in DOMAIN items \ DOMAIN locked : want[s] <= Sum(locked)
    PROVE  DOMAIN locked = Reached(items, before, want)
<1>1. ASSUME NEW s \in Reached(items, before, want), s \notin DOMAIN locked
      PROVE  FALSE
  <2> DEFINE front == Only(items, before[s])
  <2>1. s \in DOMAIN items /\ Sum(front) < want[s]
    BY <1>1 DEF Reached, Ahead
  <2>2. want[s] <= Sum(locked) /\ want[s] \in Int
    BY <1>1, <2>1
  <2>3. IsQueue(front) /\ DOMAIN front = before[s] \cap DOMAIN items
    BY OnlyType
  <2>4. IsQueue(locked) /\ DOMAIN locked \subseteq DOMAIN items
    BY WalkingType
  <2>5. DOMAIN locked \subseteq DOMAIN front
    <3> SUFFICES ASSUME NEW t \in DOMAIN locked PROVE t \in before[s]
      BY <2>3, <2>4
    <3>1. t \in DOMAIN items /\ t # s
      BY <1>1, <2>4
    <3>2. s \notin before[t]
      BY <1>1, <2>1 DEF Walking
    <3> QED
      BY <2>1, <3>1, <3>2 DEF IsOrder
  <2>6. \A t \in DOMAIN locked : locked[t].amount <= front[t].amount
    <3> SUFFICES ASSUME NEW t \in DOMAIN locked
                 PROVE  locked[t].amount <= front[t].amount
      OBVIOUS
    <3>1. front[t] = items[t]
      BY <2>3, <2>5 DEF Only
    <3> QED
      BY <3>1, WalkingType
  <2> HIDE DEF front
  <2>7. Sum(locked) <= Sum(front)
    <3>1. /\ IsAmounts(Amounts(locked)) /\ IsAmounts(Amounts(front))
          /\ DOMAIN Amounts(locked) = DOMAIN locked
          /\ DOMAIN Amounts(front) = DOMAIN front
      BY <2>3, <2>4, SumType
    <3>2. \A t \in DOMAIN locked : Amounts(locked)[t] <= Amounts(front)[t]
      BY <2>5, <2>6 DEF Amounts
    <3> QED
      BY <2>5, <3>1, <3>2, TotalMonotone DEF Sum
  <2>8. Sum(locked) \in Nat /\ Sum(front) \in Nat
    BY <2>3, <2>4, SumType
  <2> QED
    BY <2>1, <2>2, <2>7, <2>8
<1> QED
  BY <1>1 DEF Walking

\* Taking nothing changes no item: items are records.
IsTable(items) ==
    \A s \in DOMAIN items :
        [items[s] EXCEPT !.amount = items[s].amount] = items[s]

\* A walk that has reached all that is wanted holds what the closed form says.
LEMMA WalkingEnds ==
    ASSUME NEW items, IsQueue(items), IsTable(items), NEW before,
           NEW want, \A s \in DOMAIN items : want[s] \in Int,
           NEW locked, NEW left, Walking(items, before, want, locked, left),
           DOMAIN locked = Reached(items, before, want)
    PROVE  /\ locked = [s \in Reached(items, before, want) |->
                          [items[s] EXCEPT
                             !.amount = Taken(items, before, want)[s]]]
           /\ left = Left(items, before, want)
<1> DEFINE taken   == Taken(items, before, want)
           reached == Reached(items, before, want)
           kept    == {s \in DOMAIN items :
                         s \notin reached \/ taken[s] < items[s].amount}
<1>1. locked = [s \in reached |-> [items[s] EXCEPT !.amount = taken[s]]]
  BY DEF Walking
<1>2. left = [s \in kept |-> left[s]]
  BY DEF Walking
<1>3. ASSUME NEW s \in kept
      PROVE  left[s] = [items[s] EXCEPT !.amount = @ - taken[s]]
  <2>1. s \in DOMAIN items /\ s \in DOMAIN left
    BY <1>2
  <2>2. CASE s \in reached
    BY <2>1, <2>2 DEF Walking
  <2>3. CASE s \notin reached
    <3>1. left[s] = items[s]
      BY <2>1, <2>3 DEF Walking
    <3>2. taken[s] = 0
      BY <2>1, <2>3 DEF Taken
    <3>3. items[s].amount \in Nat
      BY <2>1 DEF IsQueue
    <3> HIDE DEF taken
    <3>4. items[s].amount - taken[s] = items[s].amount
      BY <3>2, <3>3
    <3>5. [items[s] EXCEPT !.amount = items[s].amount] = items[s]
      BY <2>1 DEF IsTable
    <3> QED
      BY <3>1, <3>4, <3>5
  <2> QED
    BY <2>2, <2>3
<1>4. Left(items, before, want)
        = [s \in kept |-> [items[s] EXCEPT !.amount = @ - taken[s]]]
  BY DEF Left
<1> HIDE DEF taken, reached, kept
<1>5. left = [s \in kept |-> [items[s] EXCEPT !.amount = @ - taken[s]]]
  BY <1>2, <1>3
<1> QED
  BY <1>1, <1>4, <1>5 DEF taken, reached, kept

-----------------------------------------------------------------------------
(***************************************************************************)
(* The numbers and queues of the loops.                                    *)
(***************************************************************************)
\* What is still needed at a rate is what is needed in all less what has been
\* included, and never less than nothing: rounding up comes after the
\* subtraction in the code.
LEMMA RemainingIs ==
    ASSUME NEW n \in Nat, NEW rate \in 0 .. B, NEW done \in Nat
    PROVE  RemainingCollateralNeeded(n, rate, done)
             = Monus(CollateralNeeded(n, rate), done)
<1> USE MatchingAssumption
<1> DEFINE term == n * (B - rate) * CollProvider
           d    == B * CollSeeker
           q    == CeilDiv(term, d)
<1>1. term \in Nat
  <2>1. B - rate \in Nat
    OBVIOUS
  <2>2. n * (B - rate) \in Nat
    BY <2>1, SMT
  <2> QED
    BY <2>2, SMT
<1>2. d \in Nat \ {0}
  BY SMT
<1>3. done * B * CollSeeker = d * done /\ d * done \in Nat
  BY SMT
<1> HIDE DEF term, d
<1>4. q \in Nat /\ term <= d * q /\ d * q < term + d
  BY <1>1, <1>2, CeilDivBounds
<1>5. d * q \in Nat
  BY <1>2, <1>4, SMT
<1>6. CASE term < d * done
  <2>1. d * q < d * (done + 1)
    <3>1. d * (done + 1) = d * done + d
      BY <1>2, SMT
    <3> QED
      BY <1>1, <1>2, <1>3, <1>4, <1>5, <1>6, <3>1
  <2>2. q < done + 1
    <3> HIDE DEF q
    <3> SUFFICES ASSUME done + 1 <= q PROVE FALSE
      BY <1>4
    <3>1. d * (done + 1) <= d * q
      BY <1>2, <1>4, SMT
    <3>2. d * (done + 1) \in Nat
      BY <1>2, SMT
    <3> QED
      BY <1>5, <2>1, <3>1, <3>2
  <2>3. RemainingCollateralNeeded(n, rate, done) = 0
    BY <1>3, <1>6 DEF RemainingCollateralNeeded, term, d
  <2>4. Monus(q, done) = 0
    BY <1>4, <2>2 DEF Monus
  <2> QED
    BY <2>3, <2>4 DEF CollateralNeeded, term, d
<1>7. CASE ~(term < d * done)
  <2> DEFINE m == term - d * done
             r == CeilDiv(m, d)
  <2>1. m \in Nat
    BY <1>1, <1>3, <1>7
  <2> HIDE DEF m
  <2>2. r \in Nat /\ m <= d * r /\ d * r < m + d
    BY <1>2, <2>1, CeilDivBounds
  <2> HIDE DEF r, q
  <2>3. d * r \in Nat /\ d * (r + done) = d * r + d * done
    BY <1>2, <2>2, SMT
  <2>4. term <= d * (r + done) /\ d * (r + done) < term + d
    BY <1>1, <1>2, <1>3, <2>1, <2>2, <2>3 DEF m
  <2>5. q = r + done
    <3>1. ~(q < r + done)
      <4> SUFFICES ASSUME q + 1 <= r + done PROVE FALSE
        BY <1>4, <2>2
      <4>1. d * (q + 1) <= d * (r + done)
        BY <1>2, <1>4, <2>2, SMT
      <4>2. d * (q + 1) = d * q + d
        BY <1>2, <1>4, SMT
      <4> QED
        BY <1>1, <1>2, <1>3, <1>4, <1>5, <2>3, <2>4, <4>1, <4>2
    <3>2. ~(r + done < q)
      <4> SUFFICES ASSUME r + done + 1 <= q PROVE FALSE
        BY <1>4, <2>2
      <4>1. d * (r + done + 1) <= d * q
        BY <1>2, <1>4, <2>2, SMT
      <4>2. d * (r + done + 1) = d * (r + done) + d
        BY <1>2, <2>2, SMT
      <4> QED
        BY <1>1, <1>2, <1>3, <1>4, <1>5, <2>3, <2>4, <4>1, <4>2
    <3> QED
      BY <1>4, <2>2, <3>1, <3>2
  <2>6. RemainingCollateralNeeded(n, rate, done) = r
    BY <1>3, <1>7 DEF RemainingCollateralNeeded, term, d, m, r
  <2>7. Monus(q, done) = r
    BY <2>2, <2>5 DEF Monus
  <2> QED
    BY <2>6, <2>7 DEF CollateralNeeded, term, d, q
<1> QED
  BY <1>6, <1>7

\* The fee rate is the greatest of those locked.
LEMMA GreatestRate ==
    ASSUME NEW locked, NEW r \in 0 .. B,
           r = 0 \/ \E p \in DOMAIN locked : locked[p].minFeeRate = r,
           \A p \in DOMAIN locked : locked[p].minFeeRate \in 0 .. r
    PROVE  EffectiveFeeRate(locked) = r
<1> DEFINE rates == {locked[p].minFeeRate : p \in DOMAIN locked} \cup {0}
<1>0. r \in Int
  BY MatchingAssumption
<1>1. r \in rates /\ \A x \in rates : x \in Int /\ x <= r
  <2>1. \A p \in DOMAIN locked :
          locked[p].minFeeRate \in Int /\ locked[p].minFeeRate <= r
    BY <1>0
  <2>2. 0 <= r
    BY MatchingAssumption
  <2> QED
    BY <2>1, <2>2
<1> HIDE DEF rates
<1>2. \A x \in rates : r >= x
  BY <1>0, <1>1
<1>3. \A y \in rates : (\A x \in rates : y >= x) => y = r
  <2> SUFFICES ASSUME NEW y \in rates, y >= r PROVE y = r
    BY <1>1
  <2> QED
    BY <1>0, <1>1
<1>4. Max(rates) = r
  <2>1. \E y \in rates : \A x \in rates : y >= x
    BY <1>1, <1>2
  <2>2. /\ Max(rates) \in rates
        /\ \A x \in rates : Max(rates) >= x
    BY <2>1 DEF Max
  <2> QED
    BY <1>3, <2>2
<1> QED
  BY <1>4 DEF EffectiveFeeRate, rates

\* The queues the loops start from.
LEMMA QueuesType ==
    ASSUME seeks0 \in Items(SeekSeqs, [amount : AmountRange]),
           provides0 \in
             Items(ProvideSeqs, [amount : AmountRange, minFeeRate : FeeRange])
    PROVE  /\ IsQueue(seeks0) /\ IsTable(seeks0)
           /\ IsProvides(provides0) /\ IsTable(provides0)
           /\ IsOrder(DOMAIN seeks0, Older(seeks0))
           /\ IsOrder(DOMAIN provides0, Cheaper(provides0))
           /\ DOMAIN Wanted(seeks0, provides0) = DOMAIN provides0
           /\ \A p \in DOMAIN provides0 :
                /\ Wanted(seeks0, provides0)[p] \in Int
                /\ Wanted(seeks0, provides0)[p]
                     = CollateralNeeded(Sum(seeks0), provides0[p].minFeeRate)
<1>1. /\ DOMAIN seeks0 \subseteq SeekSeqs
      /\ \A s \in DOMAIN seeks0 : seeks0[s] \in [amount : AmountRange]
  BY DEF Items
<1>2. /\ DOMAIN provides0 \subseteq ProvideSeqs
      /\ \A p \in DOMAIN provides0 :
           provides0[p] \in [amount : AmountRange, minFeeRate : FeeRange]
  BY DEF Items
<1>3. IsFiniteSet(DOMAIN seeks0) /\ IsFiniteSet(DOMAIN provides0)
  BY <1>1, <1>2, FS_Subset, LoopsAssumption
<1>4. IsQueue(seeks0) /\ IsTable(seeks0)
  <2>1. ASSUME NEW s \in DOMAIN seeks0
        PROVE  /\ "amount" \in DOMAIN seeks0[s] /\ seeks0[s].amount \in Nat
               /\ [seeks0[s] EXCEPT !.amount = seeks0[s].amount] = seeks0[s]
    <3>1. seeks0[s] \in [amount : Nat]
      BY <1>1, LoopsAssumption
    <3> QED
      BY <3>1
  <2> QED
    BY <1>3, <2>1 DEF IsQueue, IsTable
<1>5. IsProvides(provides0) /\ IsTable(provides0)
  <2>1. ASSUME NEW p \in DOMAIN provides0
        PROVE  /\ "amount" \in DOMAIN provides0[p]
               /\ provides0[p].amount \in Nat
               /\ "minFeeRate" \in DOMAIN provides0[p]
               /\ provides0[p].minFeeRate \in 0 .. B
               /\ [provides0[p] EXCEPT !.amount = provides0[p].amount]
                    = provides0[p]
    <3>1. provides0[p] \in [amount : Nat, minFeeRate : 0 .. B]
      BY <1>2, LoopsAssumption
    <3> QED
      BY <3>1
  <2> QED
    BY <1>3, <2>1 DEF IsProvides, IsQueue, IsTable
<1>6. DOMAIN seeks0 \subseteq Int /\ DOMAIN provides0 \subseteq Int
  <2>1. SeekSeqs \subseteq Int /\ ProvideSeqs \subseteq Int
    BY LoopsAssumption
  <2> QED
    BY <1>1, <1>2, <2>1
<1>7. /\ IsOrder(DOMAIN seeks0, Older(seeks0))
      /\ IsOrder(DOMAIN provides0, Cheaper(provides0))
  BY <1>5, <1>6, OlderIsOrder, CheaperIsOrder
<1>8. \A p \in DOMAIN provides0 :
        Wanted(seeks0, provides0)[p]
          = CollateralNeeded(Sum(seeks0), provides0[p].minFeeRate)
  BY DEF Wanted
<1>9. /\ DOMAIN Wanted(seeks0, provides0) = DOMAIN provides0
      /\ \A p \in DOMAIN provides0 : Wanted(seeks0, provides0)[p] \in Nat
  BY <1>4, <1>5, WantedType
<1> QED
  BY <1>4, <1>5, <1>7, <1>8, <1>9

\* A front exists.
LEMMA FrontExists ==
    ASSUME NEW queue, IsFiniteSet(DOMAIN queue), DOMAIN queue # {},
           NEW before, IsOrder(DOMAIN queue, before),
           \A s \in DOMAIN queue : before[s] \subseteq DOMAIN queue
    PROVE  /\ Front(queue, before) \in DOMAIN queue
           /\ before[Front(queue, before)] = {}
<1>1. PICK m \in DOMAIN queue : \A s \in DOMAIN queue \ {m} : m \in before[s]
  BY OrderFirst
<1>2. before[m] = {}
  <2> SUFFICES ASSUME NEW s \in before[m] PROVE FALSE
    OBVIOUS
  <2>1. s \in DOMAIN queue /\ s # m
    BY DEF IsOrder
  <2>2. m \in before[s]
    BY <1>1, <2>1
  <2>3. s \in before[s]
    BY <2>1, <2>2 DEF IsOrder
  <2> QED
    BY <2>1, <2>3 DEF IsOrder
<1> QED
  BY <1>1, <1>2 DEF Front

-----------------------------------------------------------------------------
(***************************************************************************)
(* The first loop: provides are locked from the cheapest.                  *)
(***************************************************************************)
\* Before its first iteration a walk has locked nothing.
LEMMA WalkingStarts ==
    ASSUME NEW items, NEW before, NEW want, NEW none, DOMAIN none = {},
           none = [s \in {} |-> 0],
           items = [s \in DOMAIN items |-> items[s]]
    PROVE  Walking(items, before, want, none, items) /\ Emptied(none, items)
<1>1. \A s \in DOMAIN none : FALSE
  OBVIOUS
<1> QED
  BY <1>1 DEF Walking, Emptied

\* The loops start from nothing locked.
LEMMA LoopsStart == Init => LoopsInv
<1> SUFFICES ASSUME Init PROVE LoopsInv
  OBVIOUS
<1> DEFINE none == [s \in {} |-> 0]
           S    == Sum(seeks0)
<1>1. /\ seeks0 \in Items(SeekSeqs, [amount : AmountRange])
      /\ provides0 \in
           Items(ProvideSeqs, [amount : AmountRange, minFeeRate : FeeRange])
      /\ seeks = seeks0 /\ provides = provides0
      /\ lockedSeeks = none /\ lockedProvides = none
      /\ phase = "provides" /\ feeRate = 0 /\ included = 0
  BY DEF Init
<1>2. DOMAIN none = {}
  OBVIOUS
<1>3. /\ seeks0 = [s \in DOMAIN seeks0 |-> seeks0[s]]
      /\ provides0 = [p \in DOMAIN provides0 |-> provides0[p]]
  BY <1>1 DEF Items
<1>4. IsQueue(seeks0)
  BY <1>1, QueuesType
<1>5. S \in Nat
  BY <1>4, SumType
<1>6. 0 \in 0 .. B
  BY MatchingAssumption
<1>7. CollateralNeeded(S, 0) \in Nat
  BY <1>5, <1>6, CollateralNeededType
<1>8. remaining = Monus(CollateralNeeded(S, 0), 0)
  <2>1. remaining = RemainingCollateralNeeded(S, 0, 0)
    BY DEF Init
  <2> QED
    BY <1>5, <1>6, <2>1, RemainingIs
<1> HIDE DEF none, S
<1>9. EffectiveFeeRate(none) = 0
  BY <1>2, <1>6, GreatestRate
<1>10. Sum(none) = 0
  <2>1. DOMAIN Amounts(none) = {}
    BY <1>2 DEF Amounts
  <2> QED
    BY <2>1, TotalZero DEF Sum
<1>11. none = [s \in {} |-> 0]
  BY DEF none
<1>12. /\ Walking(provides0, Cheaper(provides0), Wanted(seeks0, provides0),
                  none, provides0)
       /\ Emptied(none, provides0)
  BY <1>2, <1>3, <1>11, WalkingStarts
<1>13. ProvidesWalk /\ Emptied(lockedProvides, provides)
  BY <1>1, <1>12 DEF ProvidesWalk
<1>14. feeRate = EffectiveFeeRate(lockedProvides)
       /\ included = Sum(lockedProvides)
  BY <1>1, <1>9, <1>10
<1>15. remaining = Monus(CollateralNeeded(Sum(seeks0), feeRate), included)
  BY <1>1, <1>8 DEF S
<1> QED
  BY <1>1, <1>11, <1>13, <1>14, <1>15 DEF LoopsInv

\* Where the first loop stands: at the cheapest provide left, which is not
\* cheaper than any that is locked.
LEMMA ProvideAtFront ==
    ASSUME LoopsInv, phase = "provides", remaining > 0, DOMAIN provides # {},
           NEW p, p = Front(provides, Cheaper(provides))
    PROVE  /\ StandsAt(provides0, Cheaper(provides0),
                       Wanted(seeks0, provides0), lockedProvides, provides, p)
           /\ p \in DOMAIN provides0 /\ p \in DOMAIN provides
           /\ provides[p] = provides0[p]
           /\ provides0[p].minFeeRate \in 0 .. B
           /\ feeRate \in 0 .. provides0[p].minFeeRate
           /\ \A q \in DOMAIN lockedProvides :
                /\ q \in DOMAIN provides0
                /\ lockedProvides[q].minFeeRate = provides0[q].minFeeRate
                /\ provides0[q].minFeeRate \in 0 .. provides0[p].minFeeRate
           /\ NeededAt(p) = Monus(Wanted(seeks0, provides0)[p], included)
<1> DEFINE want   == Wanted(seeks0, provides0)
           before == Cheaper(provides0)
           r      == provides0[p].minFeeRate
<1>1. /\ seeks0 \in Items(SeekSeqs, [amount : AmountRange])
      /\ provides0 \in
           Items(ProvideSeqs, [amount : AmountRange, minFeeRate : FeeRange])
      /\ Walking(provides0, before, want, lockedProvides, provides)
      /\ Emptied(lockedProvides, provides)
      /\ feeRate = EffectiveFeeRate(lockedProvides)
      /\ included = Sum(lockedProvides)
      /\ seeks = seeks0
      /\ remaining = Monus(CollateralNeeded(Sum(seeks0), feeRate), included)
  BY DEF LoopsInv, ProvidesWalk
<1>2. /\ IsQueue(seeks0) /\ IsProvides(provides0)
      /\ IsOrder(DOMAIN provides0, before)
      /\ \A q \in DOMAIN provides0 :
           /\ want[q] \in Int
           /\ want[q] = CollateralNeeded(Sum(seeks0), provides0[q].minFeeRate)
  BY <1>1, QueuesType
<1>3. IsQueue(provides0)
  BY <1>2 DEF IsProvides
<1> HIDE DEF want, before
<1>4. /\ IsQueue(lockedProvides)
      /\ DOMAIN lockedProvides \subseteq DOMAIN provides0
      /\ DOMAIN provides \subseteq DOMAIN provides0
      /\ IsFiniteSet(DOMAIN provides)
  BY <1>1, <1>2, <1>3, WalkingType
<1>5. \A q \in DOMAIN provides : provides[q] = provides0[q]
  BY <1>1 DEF Walking, Emptied
<1>6. \A q \in DOMAIN provides :
        Cheaper(provides)[q] = DOMAIN provides \cap before[q]
  <2> SUFFICES ASSUME NEW q \in DOMAIN provides
               PROVE  Cheaper(provides)[q] = DOMAIN provides \cap before[q]
    OBVIOUS
  <2>1. Cheaper(provides)[q] =
          {x \in DOMAIN provides :
             \/ provides[x].minFeeRate < provides[q].minFeeRate
             \/ provides[x].minFeeRate = provides[q].minFeeRate /\ x < q}
    BY DEF Cheaper
  <2>2. before[q] =
          {x \in DOMAIN provides0 :
             \/ provides0[x].minFeeRate < provides0[q].minFeeRate
             \/ provides0[x].minFeeRate = provides0[q].minFeeRate /\ x < q}
    BY <1>4 DEF Cheaper, before
  <2> QED
    BY <1>4, <1>5, <2>1, <2>2
<1>7. p \in DOMAIN provides /\ DOMAIN provides \cap before[p] = {}
  <2>1. IsOrder(DOMAIN provides, Cheaper(provides))
    <3>1. \A s \in DOMAIN provides : s \in DOMAIN provides0
      BY <1>4
    <3> QED
      BY <1>2, <1>6, <3>1 DEF IsOrder
  <2>2. \A s \in DOMAIN provides :
          Cheaper(provides)[s] \subseteq DOMAIN provides
    BY <1>6
  <2>3. /\ Front(provides, Cheaper(provides)) \in DOMAIN provides
        /\ Cheaper(provides)[Front(provides, Cheaper(provides))] = {}
    BY <1>4, <2>1, <2>2, FrontExists
  <2> QED
    BY <1>6, <2>3
<1>8. StandsAt(provides0, before, want, lockedProvides, provides, p)
  BY <1>1, <1>7 DEF StandsAt
<1>9. p \in DOMAIN provides0 /\ provides[p] = provides0[p]
  BY <1>4, <1>5, <1>7
<1>10. \A q \in DOMAIN provides0 :
         /\ provides0[q].minFeeRate \in 0 .. B
         /\ provides0[q].minFeeRate \in Int
  <2>1. \A q \in DOMAIN provides0 : provides0[q].minFeeRate \in 0 .. B
    BY <1>2 DEF IsProvides
  <2> QED
    BY <2>1, MatchingAssumption
<1>11. LockedAhead(provides0, before, want, lockedProvides, provides, p)
  BY <1>2, <1>3, <1>8, WalkingAhead
<1>12. ASSUME NEW q \in DOMAIN lockedProvides
       PROVE  /\ q \in DOMAIN provides0
              /\ lockedProvides[q].minFeeRate = provides0[q].minFeeRate
              /\ provides0[q].minFeeRate \in 0 .. r
  <2>1. q \in DOMAIN provides0 /\ q \in before[p]
    BY <1>4, <1>11 DEF LockedAhead
  <2>2. provides0[q].minFeeRate <= r
    <3>1. \/ provides0[q].minFeeRate < r
          \/ provides0[q].minFeeRate = r
      BY <1>9, <2>1 DEF Cheaper, before
    <3> QED
      BY <1>9, <1>10, <2>1, <3>1
  <2>3. lockedProvides[q]
          = [provides0[q] EXCEPT
               !.amount = Taken(provides0, before, want)[q]]
    BY <1>1 DEF Walking
  <2>4. "minFeeRate" \in DOMAIN provides0[q]
    BY <1>2, <2>1 DEF IsProvides
  <2>5. lockedProvides[q].minFeeRate = provides0[q].minFeeRate
    BY <2>3, <2>4
  <2> QED
    BY <1>9, <1>10, <2>1, <2>2, <2>5, MatchingAssumption
<1>13. r \in 0 .. B
  BY <1>9, <1>10
<1>14. feeRate \in 0 .. r
  <2>1. r \in Nat
    BY <1>13, MatchingAssumption
  <2>2. \A q \in DOMAIN lockedProvides : lockedProvides[q].minFeeRate \in 0 .. r
    BY <1>12
  <2> HIDE DEF r
  <2>3. EffectiveFeeRate(lockedProvides) \in 0 .. r
    BY <2>1, <2>2, EffectiveFeeRateType
  <2> QED
    BY <1>1, <2>3
<1>15. NeededAt(p) = Monus(want[p], included)
  <2>1. Sum(seeks0) \in Nat /\ included \in Nat
    BY <1>1, <1>2, <1>4, SumType
  <2>2. want[p] = CollateralNeeded(Sum(seeks0), r)
    BY <1>2, <1>9
  <2>3. provides[p].minFeeRate = r
    BY <1>9
  <2>4. CASE r > feeRate
    <3>1. NeededAt(p) = RemainingCollateralNeeded(Sum(seeks0), r, included)
      BY <1>1, <2>3, <2>4 DEF NeededAt
    <3> QED
      BY <1>13, <2>1, <2>2, <3>1, RemainingIs
  <2>5. CASE ~(r > feeRate)
    <3>1. r = feeRate
      BY <1>13, <1>14, <2>5, MatchingAssumption
    <3>2. NeededAt(p) = remaining
      BY <2>3, <2>5 DEF NeededAt
    <3> QED
      BY <1>1, <2>2, <3>1, <3>2
  <2> QED
    BY <2>4, <2>5
<1> QED
  BY <1>7, <1>8, <1>9, <1>12, <1>13, <1>14, <1>15 DEF want, before

\* An iteration of the first loop: the provide at the front is locked for what
\* is still needed at its rate.
LEMMA TakeProvideKeeps == LoopsInv /\ TakeProvide => LoopsInv'
<1> SUFFICES ASSUME LoopsInv, TakeProvide PROVE LoopsInv'
  OBVIOUS
<1> DEFINE p      == Front(provides, Cheaper(provides))
           want   == Wanted(seeks0, provides0)
           before == Cheaper(provides0)
           needed == NeededAt(p)
           used   == Least(needed, provides[p].amount)
           r      == provides0[p].minFeeRate
           item   == [provides0[p] EXCEPT !.amount = used]
<1>1. /\ phase = "provides" /\ remaining > 0 /\ DOMAIN provides # {}
      /\ needed > 0
      /\ feeRate' = IF provides[p].minFeeRate > feeRate
                    THEN provides[p].minFeeRate ELSE feeRate
      /\ included' = included + used
      /\ remaining' = needed - used
      /\ lockedProvides' = Put(lockedProvides, p,
                               [provides[p] EXCEPT !.amount = used])
      /\ provides' = Less(provides, p, used)
      /\ UNCHANGED <<seeks0, provides0, seeks, covered, lockedSeeks, phase>>
  BY DEF TakeProvide
<1>2. /\ StandsAt(provides0, before, want, lockedProvides, provides, p)
      /\ p \in DOMAIN provides0
      /\ provides[p] = provides0[p]
      /\ r \in 0 .. B
      /\ feeRate \in 0 .. r
      /\ \A q \in DOMAIN lockedProvides :
           /\ q \in DOMAIN provides0
           /\ lockedProvides[q].minFeeRate = provides0[q].minFeeRate
           /\ provides0[q].minFeeRate \in 0 .. r
      /\ needed = Monus(want[p], included)
  <2> HIDE DEF want, before
  <2>1. p = Front(provides, Cheaper(provides))
    OBVIOUS
  <2> HIDE DEF p, needed
  <2> QED
    BY <1>1, <2>1, ProvideAtFront DEF want, before, needed
<1>3. /\ seeks0 \in Items(SeekSeqs, [amount : AmountRange])
      /\ provides0 \in
           Items(ProvideSeqs, [amount : AmountRange, minFeeRate : FeeRange])
      /\ Walking(provides0, before, want, lockedProvides, provides)
      /\ included = Sum(lockedProvides)
      /\ seeks = seeks0 /\ lockedSeeks = [s \in {} |-> 0]
  BY <1>1 DEF LoopsInv, ProvidesWalk
<1>4. /\ IsQueue(seeks0) /\ IsProvides(provides0)
      /\ IsOrder(DOMAIN provides0, before)
      /\ \A q \in DOMAIN provides0 :
           /\ want[q] \in Int
           /\ want[q] = CollateralNeeded(Sum(seeks0), provides0[q].minFeeRate)
  BY <1>3, QueuesType
<1>5. IsQueue(provides0)
  BY <1>4 DEF IsProvides
<1> HIDE DEF p, want, before, needed, used
<1>6. /\ IsQueue(lockedProvides) /\ Sum(lockedProvides) \in Nat
  BY <1>3, <1>4, <1>5, WalkingType, SumType
<1>7. want[p] \in Int /\ want[p] = CollateralNeeded(Sum(seeks0), r)
  BY <1>2, <1>4
<1>8. needed = want[p] - included /\ included < want[p] /\ included \in Nat
  BY <1>1, <1>2, <1>3, <1>6, <1>7 DEF Monus
<1>9. used = Least(want[p] - Sum(lockedProvides), provides0[p].amount)
  BY <1>2, <1>3, <1>8 DEF used
<1>10. Sum(lockedProvides) < want[p]
  BY <1>3, <1>8
<1>11. /\ used \in Nat /\ used <= provides0[p].amount
       /\ Walking(provides0, before, want, Put(lockedProvides, p, item),
                  Less(provides, p, used))
       /\ Sum(Put(lockedProvides, p, item)) = Sum(lockedProvides) + used
       /\ used = provides0[p].amount =>
            Emptied(Put(lockedProvides, p, item), Less(provides, p, used))
  BY <1>2, <1>4, <1>5, <1>9, <1>10, WalkingTakes
<1>12. /\ lockedProvides' = Put(lockedProvides, p, item)
       /\ provides' = Less(provides, p, used)
  BY <1>1, <1>2 DEF item
<1>13. feeRate' = r
  <2>1. feeRate \in Int /\ r \in Int /\ feeRate <= r
    BY <1>2, MatchingAssumption
  <2> QED
    BY <1>1, <1>2, <2>1
<1>14. EffectiveFeeRate(lockedProvides') = r
  <2>1. /\ DOMAIN lockedProvides' = DOMAIN lockedProvides \cup {p}
        /\ lockedProvides'[p] = item
        /\ \A q \in DOMAIN lockedProvides \ {p} :
             lockedProvides'[q] = lockedProvides[q]
    BY <1>12 DEF Put
  <2>2. "minFeeRate" \in DOMAIN provides0[p]
    BY <1>2, <1>4 DEF IsProvides
  <2>3. item.minFeeRate = r
    BY <2>2 DEF item
  <2>4. r \in 0 .. r
    BY <1>2, MatchingAssumption
  <2> HIDE DEF r, item
  <2>5. \A q \in DOMAIN lockedProvides' :
          lockedProvides'[q].minFeeRate \in 0 .. r
    BY <1>2, <2>1, <2>3, <2>4 DEF r
  <2>6. \E q \in DOMAIN lockedProvides' : lockedProvides'[q].minFeeRate = r
    BY <2>1, <2>3
  <2>7. r \in 0 .. B
    BY <1>2 DEF r
  <2> QED
    BY <2>5, <2>6, <2>7, GreatestRate
<1> HIDE DEF item
<1>15. ProvidesWalk'
  BY <1>1, <1>11, <1>12 DEF ProvidesWalk, want, before
<1>16. included' = Sum(lockedProvides')
  BY <1>1, <1>3, <1>11, <1>12
<1>17. provides0[p].amount \in Nat
  BY <1>2, <1>5 DEF IsQueue
<1>18. remaining' = Monus(CollateralNeeded(Sum(seeks0), feeRate'), included')
  <2>1. remaining' = want[p] - included - used
    BY <1>1, <1>8
  <2>2. included' = included + used
    BY <1>1
  <2>3. used <= want[p] - included
    BY <1>3, <1>7, <1>8, <1>9, <1>17 DEF Least
  <2>4. CollateralNeeded(Sum(seeks0), feeRate') = want[p]
    BY <1>7, <1>13
  <2> QED
    BY <1>7, <1>8, <1>11, <2>1, <2>2, <2>3, <2>4 DEF Monus
<1>19. remaining' > 0 => Emptied(lockedProvides', provides')
  <2> SUFFICES ASSUME remaining' > 0 PROVE Emptied(lockedProvides', provides')
    OBVIOUS
  <2>1. used = provides0[p].amount
    BY <1>1, <1>3, <1>7, <1>8, <1>9, <1>17 DEF Least
  <2> QED
    BY <1>11, <1>12, <2>1
<1> QED
  BY <1>1, <1>3, <1>13, <1>14, <1>15, <1>16, <1>18, <1>19 DEF LoopsInv

\* The first loop ends where nothing is needed at the rate it would have to go
\* to, so no provide behind would have been reached.
LEMMA EnoughProvidesKeeps == LoopsInv /\ EnoughProvides => LoopsInv'
<1> SUFFICES ASSUME LoopsInv, EnoughProvides PROVE LoopsInv'
  OBVIOUS
<1> DEFINE want   == Wanted(seeks0, provides0)
           before == Cheaper(provides0)
           S      == Sum(seeks0)
           rate(q) == provides0[q].minFeeRate
<1>1. /\ phase = "provides"
      /\ remaining > 0 /\ DOMAIN provides # {} =>
           NeededAt(Front(provides, Cheaper(provides))) = 0
      /\ covered' = SeeksCovered(included, feeRate)
      /\ phase' = "seeks"
      /\ UNCHANGED <<seeks0, provides0, seeks, provides, feeRate, included,
                     remaining, lockedSeeks, lockedProvides>>
  BY DEF EnoughProvides
<1>2. /\ seeks0 \in Items(SeekSeqs, [amount : AmountRange])
      /\ provides0 \in
           Items(ProvideSeqs, [amount : AmountRange, minFeeRate : FeeRange])
      /\ ProvidesWalk
      /\ Walking(provides0, before, want, lockedProvides, provides)
      /\ feeRate = EffectiveFeeRate(lockedProvides)
      /\ included = Sum(lockedProvides)
      /\ seeks = seeks0 /\ lockedSeeks = [s \in {} |-> 0]
      /\ remaining = Monus(CollateralNeeded(S, feeRate), included)
      /\ remaining > 0 => Emptied(lockedProvides, provides)
  BY <1>1 DEF LoopsInv, ProvidesWalk
<1>3. /\ IsQueue(seeks0) /\ IsProvides(provides0) /\ IsTable(provides0)
      /\ IsOrder(DOMAIN provides0, before)
      /\ \A q \in DOMAIN provides0 :
           /\ want[q] \in Int
           /\ want[q] = CollateralNeeded(S, rate(q))
  BY <1>2, QueuesType
<1>4. IsQueue(provides0)
  BY <1>3 DEF IsProvides
<1>5. S \in Nat
  BY <1>3, SumType
<1> HIDE DEF want, before, S
<1>6. /\ IsQueue(lockedProvides) /\ included \in Nat
      /\ DOMAIN lockedProvides \subseteq DOMAIN provides0
      /\ DOMAIN provides \subseteq DOMAIN provides0
      /\ DOMAIN provides0 \ DOMAIN lockedProvides \subseteq DOMAIN provides
  BY <1>2, <1>3, <1>4, WalkingType, SumType
<1>7. \A q \in DOMAIN provides0 : rate(q) \in 0 .. B /\ rate(q) \in Int
  <2>1. \A q \in DOMAIN provides0 : rate(q) \in 0 .. B
    BY <1>3 DEF IsProvides
  <2> QED
    BY <2>1, MatchingAssumption
<1>8. \A q \in DOMAIN lockedProvides : lockedProvides[q].minFeeRate = rate(q)
  <2> SUFFICES ASSUME NEW q \in DOMAIN lockedProvides
               PROVE  lockedProvides[q].minFeeRate = rate(q)
    OBVIOUS
  <2>1. lockedProvides[q] = [provides0[q] EXCEPT
                               !.amount = Taken(provides0, before, want)[q]]
    BY <1>2 DEF Walking
  <2>2. "minFeeRate" \in DOMAIN provides0[q]
    BY <1>3, <1>6 DEF IsProvides
  <2> QED
    BY <2>1, <2>2
<1>9. ASSUME NEW q \in DOMAIN provides0 \ DOMAIN lockedProvides
      PROVE  want[q] <= included
  <2>1. q \in DOMAIN provides /\ rate(q) \in 0 .. B
        /\ want[q] = CollateralNeeded(S, rate(q))
    BY <1>3, <1>6, <1>7
  <2>2. CASE remaining > 0
    <3> DEFINE p == Front(provides, Cheaper(provides))
    <3>1. DOMAIN provides # {} /\ NeededAt(p) = 0
      BY <1>1, <2>1, <2>2
    <3>2. p = Front(provides, Cheaper(provides))
      OBVIOUS
    <3> HIDE DEF p
    <3>3. /\ StandsAt(provides0, before, want, lockedProvides, provides, p)
          /\ p \in DOMAIN provides0
          /\ NeededAt(p) = Monus(want[p], included)
      BY <1>1, <2>2, <3>1, <3>2, ProvideAtFront DEF want, before
    <3>4. want[p] <= included /\ want[p] = CollateralNeeded(S, rate(p))
          /\ rate(p) \in 0 .. B
      BY <1>3, <1>6, <1>7, <3>1, <3>3 DEF Monus
    <3>5. rate(p) <= rate(q)
      <4>1. CASE q = p
        BY <1>7, <3>3, <4>1
      <4>2. CASE q # p
        <5>1. q \notin before[p]
          BY <2>1, <3>3 DEF StandsAt
        <5>2. p \in before[q]
          BY <1>3, <3>3, <4>2, <5>1 DEF IsOrder
        <5>3. rate(p) < rate(q) \/ rate(p) = rate(q)
          BY <5>2 DEF before, Cheaper
        <5> QED
          BY <1>7, <3>3, <5>3
      <4> QED
        BY <4>1, <4>2
    <3> HIDE DEF rate
    <3>6. want[q] <= want[p]
      BY <1>5, <2>1, <3>4, <3>5, DearerNeedsLess
    <3>7. want[q] \in Int /\ want[p] \in Int
      BY <1>3, <3>3
    <3> QED
      BY <1>6, <3>4, <3>6, <3>7
  <2>3. CASE ~(remaining > 0)
    <3>1. feeRate \in 0 .. rate(q)
      <4>1. ASSUME NEW x \in DOMAIN lockedProvides
            PROVE  lockedProvides[x].minFeeRate \in 0 .. rate(q)
        <5>1. q \notin before[x] /\ x # q /\ x \in DOMAIN provides0
          BY <1>2, <1>6 DEF Walking
        <5>2. x \in before[q]
          BY <1>3, <5>1 DEF IsOrder
        <5>3. rate(x) < rate(q) \/ rate(x) = rate(q)
          BY <5>2 DEF before, Cheaper
        <5>4. rate(x) \in 0 .. B /\ rate(x) \in Int /\ rate(q) \in Int
          BY <1>7, <5>1
        <5>5. lockedProvides[x].minFeeRate = rate(x)
          BY <1>8
        <5> HIDE DEF rate
        <5> QED
          BY <5>3, <5>4, <5>5, MatchingAssumption
      <4>2. rate(q) \in Nat
        BY <2>1, MatchingAssumption
      <4> HIDE DEF rate
      <4> QED
        BY <1>2, <4>1, <4>2, EffectiveFeeRateType
    <3> HIDE DEF rate
    <3>2. feeRate \in 0 .. B /\ feeRate <= rate(q)
      BY <2>1, <3>1, MatchingAssumption
    <3>3. want[q] <= CollateralNeeded(S, feeRate)
      BY <1>5, <2>1, <3>2, DearerNeedsLess
    <3>4. CollateralNeeded(S, feeRate) \in Nat /\ want[q] \in Int
      BY <1>3, <1>5, <3>2, CollateralNeededType
    <3>5. CollateralNeeded(S, feeRate) <= included
      BY <1>2, <1>6, <2>3, <3>4 DEF Monus
    <3> QED
      BY <1>6, <3>3, <3>4, <3>5
  <2> QED
    BY <2>2, <2>3
<1>10. \A q \in DOMAIN provides0 : want[q] \in Int
  BY <1>3
<1>11. DOMAIN lockedProvides = Reached(provides0, before, want)
  BY <1>2, <1>3, <1>4, <1>9, <1>10, WalkingStops
<1>12. /\ lockedProvides = [q \in Reached(provides0, before, want) |->
                              [provides0[q] EXCEPT
                                 !.amount = Taken(provides0, before, want)[q]]]
       /\ provides = Left(provides0, before, want)
  BY <1>2, <1>3, <1>4, <1>10, <1>11, WalkingEnds
<1>13. /\ lockedProvides = LockedProvides(seeks0, provides0)
       /\ provides = UnlockedProvides(seeks0, provides0)
  BY <1>12 DEF LockedProvides, UnlockedProvides, want, before
<1>14. SeeksWalk' /\ Emptied(lockedSeeks', seeks')
  <2> DEFINE none == [s \in {} |-> 0]
  <2>1. DOMAIN none = {}
    OBVIOUS
  <2>2. seeks0 = [s \in DOMAIN seeks0 |-> seeks0[s]]
    BY <1>2 DEF Items
  <2>3. none = [s \in {} |-> 0]
    OBVIOUS
  <2>4. lockedSeeks' = none /\ seeks' = seeks0 /\ seeks0' = seeks0
        /\ lockedProvides' = lockedProvides
    BY <1>1, <1>2
  <2> HIDE DEF none
  <2>5. /\ Walking(seeks0, Older(seeks0), Covered(seeks0, lockedProvides),
                   none, seeks0)
        /\ Emptied(none, seeks0)
    BY <2>1, <2>2, <2>3, WalkingStarts
  <2> QED
    BY <2>4, <2>5 DEF SeeksWalk
<1>15. covered' \in Nat
  <2>1. \A q \in DOMAIN lockedProvides :
          lockedProvides[q].minFeeRate \in 0 .. B - 1
    BY <1>3, <1>13, LockedProvidesType
  <2>2. SeeksCovered(Sum(lockedProvides), EffectiveFeeRate(lockedProvides))
          \in Nat
    BY <1>6, <2>1, CoveredType
  <2> QED
    BY <1>1, <1>2, <2>2
<1>16. covered' + Sum(lockedSeeks') = SeeksCovered(included', feeRate')
  <2>1. Sum(lockedSeeks) = 0
    <3>1. DOMAIN Amounts(lockedSeeks) = {}
      BY <1>2 DEF Amounts
    <3> QED
      BY <3>1, TotalZero DEF Sum
  <2> QED
    BY <1>1, <1>15, <2>1
<1>17. ProvidesWalk'
  BY <1>1, <1>2 DEF ProvidesWalk
<1> QED
  BY <1>1, <1>2, <1>13, <1>14, <1>15, <1>16, <1>17 DEF LoopsInv

-----------------------------------------------------------------------------
(***************************************************************************)
(* The second loop: seeks are locked from the oldest.                      *)
(***************************************************************************)
\* What the second loop knows: every seek is wanted up to the same cover, of
\* which "covered" is what is not used yet.
LEMMA SeeksFacts ==
    ASSUME LoopsInv, phase # "provides"
    PROVE  LET want == Covered(seeks0, lockedProvides)
           IN  /\ IsQueue(seeks0) /\ IsTable(seeks0)
               /\ IsOrder(DOMAIN seeks0, Older(seeks0))
               /\ Walking(seeks0, Older(seeks0), want, lockedSeeks, seeks)
               /\ covered \in Nat
               /\ Sum(lockedSeeks) \in Nat
               /\ \A s \in DOMAIN seeks0 :
                    /\ want[s] \in Int
                    /\ want[s] = covered + Sum(lockedSeeks)
<1> DEFINE want  == Covered(seeks0, lockedProvides)
           cover == SeeksCovered(Sum(lockedProvides),
                                 EffectiveFeeRate(lockedProvides))
<1>1. /\ seeks0 \in Items(SeekSeqs, [amount : AmountRange])
      /\ provides0 \in
           Items(ProvideSeqs, [amount : AmountRange, minFeeRate : FeeRange])
      /\ included = Sum(lockedProvides)
      /\ feeRate = EffectiveFeeRate(lockedProvides)
      /\ lockedProvides = LockedProvides(seeks0, provides0)
      /\ Walking(seeks0, Older(seeks0), want, lockedSeeks, seeks)
      /\ covered \in Nat
      /\ covered + Sum(lockedSeeks) = SeeksCovered(included, feeRate)
  BY DEF LoopsInv, SeeksWalk
<1>2. /\ IsQueue(seeks0) /\ IsTable(seeks0) /\ IsProvides(provides0)
      /\ IsOrder(DOMAIN seeks0, Older(seeks0))
  BY <1>1, QueuesType
<1>3. /\ IsQueue(lockedProvides)
      /\ \A p \in DOMAIN lockedProvides :
           lockedProvides[p].minFeeRate \in 0 .. B - 1
  BY <1>1, <1>2, LockedProvidesType
<1>4. cover \in Nat /\ \A s \in DOMAIN seeks0 : want[s] = cover
  BY <1>3, CoveredType
<1>5. cover = covered + Sum(lockedSeeks)
  BY <1>1
<1> HIDE DEF want, cover
<1>6. \A s \in DOMAIN seeks0 : want[s] \in Int
  BY <1>4
<1>7. Sum(lockedSeeks) \in Nat
  BY <1>1, <1>2, <1>6, WalkingType, SumType
<1> QED
  BY <1>1, <1>2, <1>4, <1>5, <1>6, <1>7 DEF want

\* An iteration of the second loop: the oldest seek left is locked for what the
\* collateral still covers.
LEMMA TakeSeekKeeps == LoopsInv /\ TakeSeek => LoopsInv'
<1> SUFFICES ASSUME LoopsInv, TakeSeek PROVE LoopsInv'
  OBVIOUS
<1> DEFINE s      == Front(seeks, Older(seeks))
           want   == Covered(seeks0, lockedProvides)
           before == Older(seeks0)
           used   == Least(covered, seeks[s].amount)
           item   == [seeks0[s] EXCEPT !.amount = used]
<1>1. /\ phase = "seeks" /\ covered > 0 /\ DOMAIN seeks # {}
      /\ covered' = covered - used
      /\ lockedSeeks' = Put(lockedSeeks, s, [seeks[s] EXCEPT !.amount = used])
      /\ seeks' = Less(seeks, s, used)
      /\ UNCHANGED <<seeks0, provides0, provides, feeRate, included, remaining,
                     lockedProvides, phase>>
  BY DEF TakeSeek
<1>2. /\ IsQueue(seeks0) /\ IsOrder(DOMAIN seeks0, before)
      /\ Walking(seeks0, before, want, lockedSeeks, seeks)
      /\ covered \in Nat /\ Sum(lockedSeeks) \in Nat
      /\ \A t \in DOMAIN seeks0 :
           want[t] \in Int /\ want[t] = covered + Sum(lockedSeeks)
  BY <1>1, SeeksFacts
<1>3. /\ Emptied(lockedSeeks, seeks)
      /\ covered + Sum(lockedSeeks) = SeeksCovered(included, feeRate)
  BY <1>1 DEF LoopsInv
<1> HIDE DEF want, before
<1>4. /\ IsQueue(lockedSeeks) /\ DOMAIN seeks \subseteq DOMAIN seeks0
      /\ IsFiniteSet(DOMAIN seeks)
  BY <1>2, WalkingType
<1>5. \A t \in DOMAIN seeks : Older(seeks)[t] = DOMAIN seeks \cap before[t]
  BY <1>4 DEF Older, before
<1>6. s \in DOMAIN seeks /\ DOMAIN seeks \cap before[s] = {}
  <2>1. IsOrder(DOMAIN seeks, Older(seeks))
    <3>1. \A t \in DOMAIN seeks : t \in DOMAIN seeks0
      BY <1>4
    <3> QED
      BY <1>2, <1>5, <3>1 DEF IsOrder
  <2>2. \A t \in DOMAIN seeks : Older(seeks)[t] \subseteq DOMAIN seeks
    BY <1>5
  <2>3. /\ Front(seeks, Older(seeks)) \in DOMAIN seeks
        /\ Older(seeks)[Front(seeks, Older(seeks))] = {}
    BY <1>1, <1>4, <2>1, <2>2, FrontExists
  <2> QED
    BY <1>5, <2>3
<1> HIDE DEF s
<1>7. StandsAt(seeks0, before, want, lockedSeeks, seeks, s)
  BY <1>2, <1>3, <1>6 DEF StandsAt
<1>8. s \in DOMAIN seeks0 /\ seeks[s] = seeks0[s]
  BY <1>2, <1>3, <1>4, <1>6 DEF Walking, Emptied
<1>9. seeks0[s].amount \in Nat
  BY <1>2, <1>8 DEF IsQueue
<1>10. want[s] = covered + Sum(lockedSeeks)
  BY <1>2, <1>8
<1>11. used = Least(want[s] - Sum(lockedSeeks), seeks0[s].amount)
       /\ Sum(lockedSeeks) < want[s]
  BY <1>1, <1>2, <1>8, <1>10
<1> HIDE DEF used
<1>12. /\ used \in Nat
       /\ Walking(seeks0, before, want, Put(lockedSeeks, s, item),
                  Less(seeks, s, used))
       /\ Sum(Put(lockedSeeks, s, item)) = Sum(lockedSeeks) + used
       /\ used = seeks0[s].amount =>
            Emptied(Put(lockedSeeks, s, item), Less(seeks, s, used))
  BY <1>2, <1>7, <1>11, WalkingTakes
<1>13. lockedSeeks' = Put(lockedSeeks, s, item) /\ seeks' = Less(seeks, s, used)
  BY <1>1, <1>8 DEF item
<1> HIDE DEF item
<1>14. SeeksWalk'
  BY <1>1, <1>12, <1>13 DEF SeeksWalk, want, before
<1>15. used = Least(covered, seeks0[s].amount)
  BY <1>2, <1>10, <1>11
<1>16. /\ covered' \in Nat
       /\ covered' + Sum(lockedSeeks') = SeeksCovered(included', feeRate')
  <2>1. used <= covered
    BY <1>2, <1>9, <1>15 DEF Least
  <2> QED
    BY <1>1, <1>2, <1>3, <1>12, <1>13, <2>1
<1>17. covered' > 0 => Emptied(lockedSeeks', seeks')
  <2> SUFFICES ASSUME covered' > 0 PROVE Emptied(lockedSeeks', seeks')
    OBVIOUS
  <2>1. used = seeks0[s].amount
    BY <1>1, <1>2, <1>9, <1>15 DEF Least
  <2> QED
    BY <1>12, <1>13, <2>1
<1>18. ProvidesWalk'
  BY <1>1 DEF LoopsInv, ProvidesWalk
<1>19. /\ seeks0 \in Items(SeekSeqs, [amount : AmountRange])
       /\ provides0 \in
            Items(ProvideSeqs, [amount : AmountRange, minFeeRate : FeeRange])
       /\ feeRate = EffectiveFeeRate(lockedProvides)
       /\ included = Sum(lockedProvides)
       /\ lockedProvides = LockedProvides(seeks0, provides0)
       /\ provides = UnlockedProvides(seeks0, provides0)
  BY <1>1 DEF LoopsInv
<1> QED
  BY <1>1, <1>14, <1>16, <1>17, <1>18, <1>19 DEF LoopsInv

\* The second loop ends where the cover is used up or every seek is locked.
LEMMA EnoughSeeksKeeps == LoopsInv /\ EnoughSeeks => LoopsInv'
<1> SUFFICES ASSUME LoopsInv, EnoughSeeks PROVE LoopsInv'
  OBVIOUS
<1> DEFINE want   == Covered(seeks0, lockedProvides)
           before == Older(seeks0)
<1>1. /\ phase = "seeks" /\ phase' = "done"
      /\ covered = 0 \/ DOMAIN seeks = {}
      /\ UNCHANGED <<seeks0, provides0, seeks, provides, feeRate, included,
                     remaining, covered, lockedSeeks, lockedProvides>>
  BY DEF EnoughSeeks
<1>2. /\ IsQueue(seeks0) /\ IsTable(seeks0)
      /\ IsOrder(DOMAIN seeks0, before)
      /\ Walking(seeks0, before, want, lockedSeeks, seeks)
      /\ covered \in Nat /\ Sum(lockedSeeks) \in Nat
      /\ \A t \in DOMAIN seeks0 :
           want[t] \in Int /\ want[t] = covered + Sum(lockedSeeks)
  BY <1>1, SeeksFacts
<1> HIDE DEF want, before
<1>3. \A t \in DOMAIN seeks0 : want[t] \in Int
  BY <1>2
<1>4. DOMAIN seeks0 \ DOMAIN lockedSeeks \subseteq DOMAIN seeks
  BY <1>2, <1>3, WalkingType
<1>5. \A t \in DOMAIN seeks0 \ DOMAIN lockedSeeks :
        want[t] <= Sum(lockedSeeks)
  BY <1>1, <1>2, <1>4
<1>6. DOMAIN lockedSeeks = Reached(seeks0, before, want)
  BY <1>2, <1>3, <1>5, WalkingStops
<1>7. /\ lockedSeeks = [t \in Reached(seeks0, before, want) |->
                          [seeks0[t] EXCEPT
                             !.amount = Taken(seeks0, before, want)[t]]]
      /\ seeks = Left(seeks0, before, want)
  BY <1>2, <1>3, <1>6, WalkingEnds
<1>8. /\ lockedSeeks = GrossLockedSeeks(seeks0, lockedProvides)
      /\ seeks = UnlockedSeeks(seeks0, lockedProvides)
  BY <1>7 DEF GrossLockedSeeks, UnlockedSeeks, want, before
<1>9. ProvidesWalk' /\ SeeksWalk'
  BY <1>1 DEF LoopsInv, ProvidesWalk, SeeksWalk
<1>10. /\ seeks0 \in Items(SeekSeqs, [amount : AmountRange])
       /\ provides0 \in
            Items(ProvideSeqs, [amount : AmountRange, minFeeRate : FeeRange])
       /\ feeRate = EffectiveFeeRate(lockedProvides)
       /\ included = Sum(lockedProvides)
       /\ lockedProvides = LockedProvides(seeks0, provides0)
       /\ provides = UnlockedProvides(seeks0, provides0)
       /\ covered + Sum(lockedSeeks) = SeeksCovered(included, feeRate)
       /\ covered > 0 => Emptied(lockedSeeks, seeks)
  BY <1>1 DEF LoopsInv
<1> QED
  BY <1>1, <1>2, <1>8, <1>9, <1>10 DEF LoopsInv

\* Every iteration of either loop keeps the invariant.
LEMMA LoopsGoOn == LoopsInv /\ [Next]_vars => LoopsInv'
<1>1. ASSUME LoopsInv, UNCHANGED vars PROVE LoopsInv'
  BY <1>1 DEF vars, LoopsInv, ProvidesWalk, SeeksWalk
<1> QED
  BY <1>1, TakeProvideKeeps, EnoughProvidesKeeps, TakeSeekKeeps,
     EnoughSeeksKeeps DEF Next

-----------------------------------------------------------------------------
(***************************************************************************)
(* The theorems.                                                           *)
(***************************************************************************)
\* The loops with which the server computes the locks compute what LockMatching
\* says, for any queues, rates, amounts and ratio.
THEOREM LoopsComputeClosedForm == Spec => []AgreesWithClosedForm
<1>1. LoopsInv => AgreesWithClosedForm
  BY DEF LoopsInv, AgreesWithClosedForm
<1> QED
  BY <1>1, LoopsStart, LoopsGoOn, PTL DEF Spec

LEMMA TotalsRun == LoopsInv => RunningTotals
<1> SUFFICES ASSUME LoopsInv, phase = "provides"
             PROVE  included + remaining
                      >= CollateralNeeded(Sum(seeks0), feeRate)
  BY DEF LoopsInv, RunningTotals
<1>1. /\ seeks0 \in Items(SeekSeqs, [amount : AmountRange])
      /\ provides0 \in
           Items(ProvideSeqs, [amount : AmountRange, minFeeRate : FeeRange])
      /\ ProvidesWalk
      /\ feeRate = EffectiveFeeRate(lockedProvides)
      /\ included = Sum(lockedProvides)
      /\ remaining = Monus(CollateralNeeded(Sum(seeks0), feeRate), included)
  BY DEF LoopsInv
<1>2. /\ IsQueue(seeks0) /\ IsProvides(provides0)
      /\ \A p \in DOMAIN provides0 : Wanted(seeks0, provides0)[p] \in Int
  BY <1>1, QueuesType
<1>3. /\ IsQueue(lockedProvides)
      /\ DOMAIN lockedProvides \subseteq DOMAIN provides0
  BY <1>1, <1>2, WalkingType DEF ProvidesWalk, IsProvides
<1>4. Sum(seeks0) \in Nat /\ included \in Nat
  BY <1>1, <1>2, <1>3, SumType
<1>5. \A p \in DOMAIN lockedProvides :
        lockedProvides[p].minFeeRate \in 0 .. B
  <2> SUFFICES ASSUME NEW p \in DOMAIN lockedProvides
               PROVE  lockedProvides[p].minFeeRate \in 0 .. B
    OBVIOUS
  <2>1. lockedProvides[p] = [provides0[p] EXCEPT !.amount =
          Taken(provides0, Cheaper(provides0), Wanted(seeks0, provides0))[p]]
    BY <1>1 DEF ProvidesWalk, Walking
  <2>2. /\ "minFeeRate" \in DOMAIN provides0[p]
        /\ provides0[p].minFeeRate \in 0 .. B
    BY <1>2, <1>3 DEF IsProvides
  <2> QED
    BY <2>1, <2>2
<1>6. feeRate \in 0 .. B
  BY <1>1, <1>5, EffectiveFeeRateType, MatchingAssumption
<1>7. CollateralNeeded(Sum(seeks0), feeRate) \in Nat
  BY <1>4, <1>6, CollateralNeededType
<1> QED
  BY <1>1, <1>4, <1>7 DEF Monus

\* The running total is what has been locked, and with what is still needed it
\* is never less than what the seeks need at the rate reached.
THEOREM TotalsAreRunning == Spec => []RunningTotals
<1>1. LoopsInv => RunningTotals
  BY TotalsRun
<1> QED
  BY <1>1, LoopsStart, LoopsGoOn, PTL DEF Spec

\* Both: what the loops hold is right at every iteration, and at the end.
THEOREM LoopsAreRight == Spec => []LoopsAgree
<1> QED
  BY LoopsComputeClosedForm, TotalsAreRunning, PTL DEF LoopsAgree

-----------------------------------------------------------------------------
(* Depositing to the stable balance: StableBalance. *)

\* A division rounds down, and is of natural numbers a natural number.
LEMMA DivisionRoundsDown ==
    ASSUME NEW n \in Nat, NEW d \in Nat \ {0}
    PROVE  n \div d \in Nat /\ (n \div d) * d <= n /\ n < (n \div d) * d + d
  OBVIOUS

LEMMA RoundIsNat ==
    ASSUME NEW n \in Nat, NEW d \in Nat \ {0}
    PROVE  Depositing!Round(n, d) \in Nat
<1>1. 2 * n + d \in Nat /\ 2 * d \in Nat \ {0}
  OBVIOUS
<1>2. (2 * n + d) \div (2 * d) \in Nat
  BY <1>1, DivisionRoundsDown
<1> QED
  BY <1>2 DEF Depositing!Round

LEMMA RoundIsInt ==
    ASSUME NEW n \in Int, NEW d \in Nat \ {0}
    PROVE  Depositing!Round(n, d) \in Int
<1>1. 2 * n + d \in Int /\ 2 * d \in Nat \ {0}
  OBVIOUS
<1>2. \A x \in Int, y \in Nat \ {0} : x \div y \in Int
  OBVIOUS
<1> QED
  BY <1>1, <1>2 DEF Depositing!Round

LEMMA AmountsAreNumbers ==
    ASSUME Depositing!StableBalanceAssumption, stableRate \in Rates
    PROVE  /\ \A x \in Nat : /\ Depositing!Sat(x) \in Nat /\ Depositing!Msats(Depositing!Sat(x)) <= x
                             /\ Depositing!Msats(x) \in Nat /\ Depositing!CentsOf(x) \in Nat
                             /\ Depositing!SatsOf(x) \in Nat /\ Depositing!Sat(Depositing!Msats(x)) = x
           /\ \A x \in Int : Depositing!SatsOf(x) \in Int
<1>1. MsatsPerSat \in Nat \ {0} /\ Parts \in Nat \ {0} /\ stableRate \in Nat \ {0}
  BY DEF Depositing!StableBalanceAssumption
<1>2. ASSUME NEW x \in Nat
      PROVE  Depositing!Sat(x) \in Nat /\ Depositing!Msats(Depositing!Sat(x)) <= x
  BY <1>1, DivisionRoundsDown DEF Depositing!Sat, Depositing!Msats
<1>3. ASSUME NEW x \in Nat PROVE Depositing!Msats(x) \in Nat
  BY <1>1 DEF Depositing!Msats
<1>4. ASSUME NEW x \in Nat PROVE Depositing!CentsOf(x) \in Nat
  <2>1. Depositing!Sat(x) * Parts \in Nat
    BY <1>1, <1>2
  <2> QED
    BY <1>1, <2>1, RoundIsNat DEF Depositing!CentsOf
<1>5. 100 * Parts \in Nat \ {0}
  BY <1>1
<1>6. ASSUME NEW x \in Nat PROVE Depositing!SatsOf(x) \in Nat
  <2>1. x * stableRate \in Nat
    BY <1>1
  <2> QED
    BY <1>5, <2>1, RoundIsNat DEF Depositing!SatsOf
<1>7. ASSUME NEW x \in Int PROVE Depositing!SatsOf(x) \in Int
  <2>1. x * stableRate \in Int
    BY <1>1
  <2> QED
    BY <1>5, <2>1, RoundIsInt DEF Depositing!SatsOf
<1>8. ASSUME NEW x \in Nat PROVE Depositing!Sat(Depositing!Msats(x)) = x
  <2>1. (x * MsatsPerSat) \div MsatsPerSat = x
    BY <1>1
  <2> QED
    BY <2>1 DEF Depositing!Sat, Depositing!Msats
<1> QED
  BY <1>2, <1>3, <1>4, <1>6, <1>7, <1>8

\* A cancellation that takes anything takes two thirds of a cent at least.
LEMMA CancelsSomething ==
    ASSUME NEW c \in Nat, NEW l \in Nat \ {0}, Depositing!Round(c * 10000, l) > 0
    PROVE  3 * (l * Depositing!Round(c * 10000, l)) >= 20000
<1> DEFINE q == Depositing!Round(c * 10000, l)
<1>1. q = (20000 * c + l) \div (2 * l) /\ q \in Nat
  <2>1. 2 * (c * 10000) + l = 20000 * c + l
    OBVIOUS
  <2>2. c * 10000 \in Nat
    OBVIOUS
  <2>3. q \in Nat
    BY <2>2, RoundIsNat
  <2> QED
    BY <2>1, <2>3 DEF Depositing!Round
<1>2. 20000 * c + l \in Nat /\ 2 * l \in Nat \ {0}
  OBVIOUS
<1> HIDE DEF q
<1>3. PICK n \in Nat, d \in Nat \ {0} : n = 20000 * c + l /\ d = 2 * l
  BY <1>2
<1>4. q * d <= n /\ n < q * d + d
  <2>1. q = n \div d
    BY <1>1, <1>3
  <2> QED
    BY <2>1, DivisionRoundsDown
<1>5. q > 0
  BY DEF q
<1>6. q * d = 2 * (l * q) /\ l * q \in Nat /\ l * q >= l
  BY <1>1, <1>3, <1>5
<1>7. 3 * (l * q) >= 20000
  <2>1. PICK x \in Nat : x = l * q
    BY <1>6
  <2>2. 2 * x <= 20000 * c + l /\ 20000 * c + l < 2 * x + 2 * l /\ x >= l
    BY <1>3, <1>4, <1>6, <2>1
  <2> QED
    BY <2>1, <2>2
<1> QED
  BY <1>7 DEF q

CancelledIsSome ==
    pool.cancelled > 0 => pool.staged = 0 /\ 3 * (pool.locked * pool.cancelled) >= 20000
\* An open form shows the account as it is, and the balance covers what it deposits.
FormIsTrue ==
    /\ stableScreen # "home" => info = pool
    /\ stableScreen = "deposit" =>
          /\ Depositing!Msats(stableAmount) <= ecash /\ pool.cancelled = 0
          /\ MaxStable > 0 => stableAmount + Depositing!SatsOf(pool.locked * 100) <= MaxStable
StableInv ==
    /\ Depositing!TypeOK /\ (stableScreen # "home" => stableCalls < MaxCalls)
    /\ Fresh => /\ CancelledIsSome /\ FormIsTrue /\ Depositing!DepositsWhatWasConfirmed
                /\ Depositing!DepositIsTaken

BasisPoints == 0 .. Depositing!Bps
LEMMA BpsAre == \A n \in BasisPoints : n \in Nat /\ n <= 10000
  BY DEF BasisPoints, Depositing!Bps

LEMMA AccountIs ==
    ASSUME NEW x \in Depositing!Accounts
    PROVE  x.staged \in Nat /\ x.locked \in Nat /\ x.cancelled \in Nat /\ x.cancelled <= 10000
<1>1. x.cancelled \in BasisPoints
  BY DEF Depositing!Accounts, BasisPoints
<1>2. x.staged \in Nat /\ x.locked \in Nat
  BY DEF Depositing!Accounts
<1>3. x.cancelled \in Nat /\ x.cancelled <= 10000
  BY <1>1, BpsAre
<1> QED
  BY <1>2, <1>3

\* Nothing is deposited while a cancellation waits.
LEMMA PendingIsFresh ==
    ASSUME Depositing!StableBalanceAssumption, Depositing!TypeOK, CancelledIsSome, info = pool,
           Depositing!Pending >= 0
    PROVE  pool.cancelled = 0
<1>1. stableRate \in Nat \ {0} /\ pool.locked \in Nat /\ pool.cancelled \in Nat
  BY AccountIs DEF Depositing!StableBalanceAssumption, Depositing!TypeOK
<1> SUFFICES ASSUME pool.cancelled > 0 PROVE FALSE
  BY <1>1
<1>2. Depositing!CentsOf(pool.staged) = 0
  <2>1. pool.staged = 0 /\ MsatsPerSat \in Nat \ {0} /\ Parts \in Nat \ {0}
    BY DEF CancelledIsSome, Depositing!StableBalanceAssumption
  <2>2. Depositing!Sat(0) = 0
    BY <2>1 DEF Depositing!Sat
  <2>3. 0 * Parts = 0 /\ 2 * 0 + stableRate = stableRate
    BY <1>1, <2>1
  <2>4. stableRate \div (2 * stableRate) = 0
    BY <1>1
  <2> QED
    BY <2>1, <2>2, <2>3, <2>4 DEF Depositing!CentsOf, Depositing!Round
<1>0. pool.locked * pool.cancelled \in Nat
  BY <1>1
<1>3. PICK x \in Nat : x = pool.locked * pool.cancelled
  BY <1>0
<1>4. 3 * x >= 20000
  BY <1>3 DEF CancelledIsSome
<1>5. (2 * (x * 100) + 10000) \div (2 * 10000) > 0
  BY <1>4
<1>6. Depositing!Pending = 0 - (2 * (x * 100) + 10000) \div (2 * 10000)
  <2>1. info.locked * info.cancelled * 100 = x * 100
    BY <1>3
  <2>2. Depositing!CentsOf(info.staged) * 100 = 0
    BY <1>2
  <2> QED
    BY <2>1, <2>2 DEF Depositing!Pending, Depositing!Round, Depositing!Bps
<1> QED
  BY <1>5, <1>6

LEMMA OpensDeposit ==
    ASSUME Depositing!StableBalanceAssumption, StableInv, Depositing!OpenDeposit
    PROVE  StableInv'
<1>1. PICK a \in 1 .. Depositing!MostDeposited :
        stableAmount' = a /\ a \in Typed \cup {Depositing!MostDeposited}
  BY DEF Depositing!OpenDeposit
<1>2. /\ stableRate \in Rates /\ ecash \in Nat /\ info \in Depositing!Accounts /\ pool \in Depositing!Accounts
      /\ MaxStable \in Nat
  BY DEF StableInv, Depositing!TypeOK, Depositing!StableBalanceAssumption
<1>3. Depositing!Sat(ecash) \in Nat /\ Depositing!Msats(Depositing!Sat(ecash)) <= ecash
  BY <1>2, AmountsAreNumbers
<1>4. Depositing!Stable \in Int
  <2>1. info.locked \in Nat /\ info.cancelled \in Nat
    BY <1>2, AccountIs
  <2>2. info.locked * info.cancelled * 100 \in Nat /\ info.locked * 100 \in Nat
    BY <2>1
  <2>3. (info.locked * info.cancelled * 100) \div Depositing!Bps \in Nat
    BY <2>2, DivisionRoundsDown DEF Depositing!Bps
  <2> QED
    BY <2>2, <2>3 DEF Depositing!Stable
<1>5. Depositing!SatsOf(Depositing!Stable) \in Int
  BY <1>2, <1>4, AmountsAreNumbers
<1>6. /\ Depositing!MostDeposited \in Int /\ Depositing!MostDeposited <= Depositing!Sat(ecash)
      /\ MaxStable > 0 /\ Depositing!MostDeposited > 0 =>
            Depositing!MostDeposited <= MaxStable - Depositing!SatsOf(Depositing!Stable)
  BY <1>2, <1>3, <1>5 DEF Depositing!MostDeposited, Depositing!Least, Depositing!Most
<1>7. a \in Nat /\ a <= Depositing!Sat(ecash)
      /\ (MaxStable > 0 => a <= MaxStable - Depositing!SatsOf(Depositing!Stable))
  BY <1>3, <1>5, <1>6, <1>2
<1>8. Depositing!Msats(a) <= ecash
  <2>1. MsatsPerSat \in Nat /\ Depositing!Sat(ecash) \in Nat
    BY <1>3 DEF Depositing!StableBalanceAssumption
  <2>2. a * MsatsPerSat <= Depositing!Sat(ecash) * MsatsPerSat
    BY <1>7, <2>1
  <2>3. /\ a * MsatsPerSat \in Nat /\ Depositing!Sat(ecash) * MsatsPerSat \in Nat
        /\ Depositing!Sat(ecash) * MsatsPerSat <= ecash
    BY <1>3, <1>7, <2>1 DEF Depositing!Msats
  <2>4. a * MsatsPerSat <= ecash
    BY <1>2, <2>2, <2>3
  <2> QED
    BY <2>4 DEF Depositing!Msats
<1>9. /\ UNCHANGED <<stableRate, ecash, pool, info, stableCall, stableCalls>>
      /\ stableScreen' = "deposit" /\ stableCalls < MaxCalls /\ (Fresh => info = pool) /\ Depositing!Pending >= 0
  BY DEF Depositing!OpenDeposit, Depositing!Shown
<1>10. Depositing!TypeOK'
  BY <1>1, <1>7, <1>9 DEF StableInv, Depositing!TypeOK
<1>11. ASSUME Fresh PROVE FormIsTrue'
  <2>1. info = pool /\ pool.cancelled = 0
    BY <1>9, <1>11, PendingIsFresh DEF StableInv
  <2>2. Depositing!Stable = pool.locked * 100
    <3>1. pool.locked \in Nat
      BY <1>2 DEF Depositing!Accounts
    <3>2. pool.locked * 0 * 100 = 0 /\ 0 \div 10000 = 0
      BY <3>1
    <3> QED
      BY <2>1, <3>1, <3>2 DEF Depositing!Stable, Depositing!Bps
  <2>3. MaxStable > 0 => a + Depositing!SatsOf(pool.locked * 100) <= MaxStable
    BY <1>2, <1>5, <1>7, <2>2
  <2>4. Depositing!SatsOf(pool.locked * 100)' = Depositing!SatsOf(pool.locked * 100)
    BY <1>9 DEF Depositing!SatsOf, Depositing!Round
  <2>5. Depositing!Msats(stableAmount)' = Depositing!Msats(a)
    BY <1>1 DEF Depositing!Msats
  <2> QED
    BY <1>1, <1>8, <1>9, <2>1, <2>3, <2>4, <2>5 DEF FormIsTrue
<1> QED
  BY <1>9, <1>10, <1>11 DEF StableInv, CancelledIsSome, Depositing!DepositsWhatWasConfirmed,
     Depositing!DepositIsTaken, Depositing!Called

LEMMA OpensWithdraw ==
    ASSUME Depositing!StableBalanceAssumption, StableInv, Depositing!OpenWithdraw
    PROVE  StableInv'
<1>1. /\ UNCHANGED <<stableRate, ecash, pool, info, stableCall, stableCalls>>
      /\ stableScreen' = "withdraw" /\ stableCalls < MaxCalls /\ (Fresh => info = pool)
  BY DEF Depositing!OpenWithdraw, Depositing!Shown
<1>2. stableAmount' \in Nat
  <2>1. PICK a \in 1 .. Depositing!MostWithdrawn : stableAmount' = a
    BY DEF Depositing!OpenWithdraw
  <2> QED
    BY <2>1
<1>3. Depositing!TypeOK'
  BY <1>1, <1>2 DEF StableInv, Depositing!TypeOK
<1> QED
  BY <1>1, <1>3 DEF StableInv, CancelledIsSome, FormIsTrue, Depositing!DepositsWhatWasConfirmed,
     Depositing!DepositIsTaken, Depositing!Called

LEMMA PaddedIs ==
    ASSUME Depositing!StableBalanceAssumption, ecash \in Nat, NEW asked \in Nat
    PROVE  /\ Depositing!Padded(asked) \in Nat /\ Depositing!Padded(asked) <= ecash
           /\ asked <= ecash => asked <= Depositing!Padded(asked)
<1>1. asked * FeeRate \in Nat /\ MsatsPerSat \in Nat
  BY DEF Depositing!StableBalanceAssumption
<1>2. Depositing!Round(asked * FeeRate, 1000) \in Nat
  BY <1>1, RoundIsNat
<1> QED
  BY <1>1, <1>2 DEF Depositing!Padded, Depositing!Least, Depositing!Most

LEMMA Deposits ==
    ASSUME Depositing!StableBalanceAssumption, StableInv, Depositing!Deposit
    PROVE  StableInv' /\ (Fresh => Depositing!FirstIsWithin)
<1> DEFINE asked == Depositing!Msats(stableAmount)
           goes == Depositing!Padded(asked)
           fee == Depositing!FeeOf(goes)
           ok == goes + fee <= ecash /\ pool.cancelled = 0
<1>1. /\ stableScreen = "deposit" /\ stableScreen' = "home" /\ stableAmount' = 0
      /\ stableCalls' = stableCalls + 1 /\ UNCHANGED <<stableRate, info>>
      /\ stableCall' = [kind |-> "deposit", wanted |-> asked, unlocked |-> goes, bps |-> 0,
                        held |-> ecash, ok |-> ok]
  BY DEF Depositing!Deposit
<1>2. IF ok THEN ecash' = ecash - goes - fee /\ pool' = [pool EXCEPT !.staged = @ + goes]
            ELSE UNCHANGED <<ecash, pool>>
  BY DEF Depositing!Deposit
<1>3. /\ stableRate \in Rates /\ ecash \in Nat /\ pool \in Depositing!Accounts /\ stableAmount \in Nat
  BY DEF StableInv, Depositing!TypeOK
<1>4. asked \in Nat /\ Depositing!Sat(asked) = stableAmount
  BY <1>3, AmountsAreNumbers
<1>5. goes \in Nat /\ goes <= ecash /\ (asked <= ecash => asked <= goes)
  BY <1>3, <1>4, PaddedIs
<1>6. fee \in Nat
  <2>1. FediFee \in Nat
    BY DEF Depositing!StableBalanceAssumption
  <2>2. goes * FediFee + 999 \in Nat
    BY <1>5, <2>1
  <2> QED
    BY <2>2, DivisionRoundsDown DEF Depositing!FeeOf
<1> HIDE DEF asked, goes, fee
<1>7. ecash' \in Nat /\ pool' \in Depositing!Accounts
  BY <1>2, <1>3, <1>5, <1>6 DEF Depositing!Accounts
<1>8. stableCalls' \in 0 .. MaxCalls
  <2>1. stableCalls \in 0 .. MaxCalls /\ MaxCalls \in Nat /\ stableCalls < MaxCalls
    BY <1>1 DEF StableInv, Depositing!TypeOK, Depositing!StableBalanceAssumption
  <2> QED
    BY <1>1, <2>1
<1>9. Depositing!TypeOK'
  BY <1>1, <1>5, <1>7, <1>8 DEF StableInv, Depositing!TypeOK
<1>10. ASSUME Fresh PROVE CancelledIsSome'
  <2>1. pool'.cancelled = pool.cancelled /\ pool'.locked = pool.locked
    BY <1>2, <1>3 DEF Depositing!Accounts
  <2>2. pool'.cancelled > 0 => pool' = pool
    BY <1>2, <1>3, <2>1, AccountIs
  <2> QED
    BY <1>10, <2>2 DEF StableInv, CancelledIsSome
<1>11. ASSUME Fresh PROVE Depositing!DepositsWhatWasConfirmed'
  BY <1>1, <1>5, <1>11 DEF StableInv, FormIsTrue, asked, Depositing!DepositsWhatWasConfirmed
<1>12. ASSUME Fresh PROVE Depositing!DepositIsTaken'
  <2>1. pool.cancelled = 0
    BY <1>1, <1>12 DEF StableInv, FormIsTrue
  <2>2. ASSUME ~ok PROVE goes <= ecash /\ goes + fee > ecash
    BY <1>3, <1>5, <1>6, <2>1, <2>2
  <2>3. /\ stableCall'.unlocked = goes /\ stableCall'.held = ecash
        /\ stableCall'.ok <=> ok
    BY <1>1
  <2>4. (stableCall'.unlocked * FediFee + 999) \div 1000 = fee
    BY <2>3 DEF fee, Depositing!FeeOf
  <2> QED
    BY <2>2, <2>3, <2>4 DEF Depositing!DepositIsTaken, Depositing!FeeOf
<1>13. ASSUME Fresh PROVE Depositing!FirstIsWithin
  <2> SUFFICES ASSUME ok, MaxStable > 0, pool.staged = 0 PROVE Depositing!Within
    BY <1>1 DEF Depositing!FirstIsWithin
  <2>1. stableAmount + Depositing!SatsOf(pool.locked * 100) <= MaxStable
    BY <1>1, <1>13 DEF StableInv, FormIsTrue
  <2>2. pool'.staged = goes /\ stableCall'.unlocked = goes /\ stableCall'.wanted = asked
    BY <1>1, <1>2, <1>3, <1>5 DEF Depositing!Accounts
  <2>3. Depositing!Sat(pool'.staged - stableCall'.unlocked + stableCall'.wanted) = stableAmount
    BY <1>4, <1>5, <2>2
  <2>4. Depositing!SatsOf(pool.locked * 100) \in Nat
    <3>1. pool.locked * 100 \in Nat
      BY <1>3, AccountIs
    <3> QED
      BY <1>3, <3>1, AmountsAreNumbers
  <2> QED
    BY <1>3, <2>1, <2>3, <2>4 DEF Depositing!Within
<1> QED
  BY <1>1, <1>9, <1>10, <1>11, <1>12, <1>13 DEF StableInv, FormIsTrue

LEMMA Withdraws ==
    ASSUME Depositing!StableBalanceAssumption, StableInv, Depositing!Withdraw
    PROVE  StableInv'
<1> DEFINE asked == Depositing!Msats(stableAmount)
           comes == Depositing!Unlocked(asked)
           bps == Depositing!LockedBps(asked)
           ready == bps # Depositing!NotANumber /\ comes <= pool.staged /\ (comes > 0 \/ bps > 0)
           ok == ready /\ (bps = 0 \/ Depositing!Cancels(bps, pool.staged - comes))
<1>1. /\ stableScreen = "withdraw" /\ stableScreen' = "home" /\ stableAmount' = 0
      /\ stableCalls' = stableCalls + 1 /\ UNCHANGED <<stableRate, info>>
      /\ stableCall' = [kind |-> "withdraw", wanted |-> asked, unlocked |-> comes,
                        bps |-> bps, held |-> ecash, ok |-> ok]
      /\ pool' = [staged |-> IF ready THEN pool.staged - comes ELSE pool.staged,
                  locked |-> pool.locked,
                  cancelled |-> IF ok /\ bps > 0 THEN bps ELSE pool.cancelled]
      /\ ecash' = IF ready THEN ecash + comes ELSE ecash
  BY DEF Depositing!Withdraw
<1>2. /\ stableRate \in Rates /\ ecash \in Nat /\ pool \in Depositing!Accounts /\ info \in Depositing!Accounts
      /\ stableAmount \in Nat
  BY DEF StableInv, Depositing!TypeOK
<1>3. asked \in Nat
  BY <1>2, AmountsAreNumbers
<1> HIDE DEF asked
<1>4. comes \in Nat
  BY <1>2, <1>3, AccountIs DEF Depositing!Unlocked
<1>5. bps \in Nat \cup {Depositing!NotANumber}
      /\ (bps # Depositing!NotANumber /\ bps > 0 => 3 * (info.locked * bps) >= 20000)
  <2>1. CASE asked <= info.staged
    BY <2>1 DEF Depositing!LockedBps
  <2>2. CASE ~(asked <= info.staged) /\ info.locked = 0
    BY <2>2 DEF Depositing!LockedBps
  <2>3. CASE ~(asked <= info.staged) /\ info.locked # 0
    <3>1. asked - info.staged \in Nat /\ info.locked \in Nat \ {0}
      BY <1>2, <1>3, <2>3, AccountIs
    <3>2. PICK c \in Nat : c = Depositing!CentsOf(asked - info.staged)
      BY <1>2, <3>1, AmountsAreNumbers
    <3>3. bps = Depositing!Round(c * 10000, info.locked)
      BY <2>3, <3>2 DEF Depositing!LockedBps, Depositing!Bps
    <3>4. c * 10000 \in Nat
      BY <3>2
    <3>5. bps \in Nat
      BY <3>1, <3>3, <3>4, RoundIsNat
    <3> HIDE DEF bps
    <3> QED
      BY <3>1, <3>3, <3>5, CancelsSomething
  <2> QED
    BY <2>1, <2>2, <2>3
<1> HIDE DEF comes, bps
<1>6. ASSUME ok, bps > 0 PROVE bps \in 0 .. 10000 /\ pool.staged - comes = 0
  <2>1. bps \in MinBps .. 10000 /\ pool.staged - comes = 0
    BY <1>5, <1>6 DEF Depositing!Cancels, Depositing!Bps
  <2>2. MinBps \in 0 .. 10000
    BY DEF Depositing!StableBalanceAssumption
  <2> QED
    BY <2>1, <2>2
<1>7. stableCalls' \in 0 .. MaxCalls
  <2>1. stableCalls \in 0 .. MaxCalls /\ MaxCalls \in Nat /\ stableCalls < MaxCalls
    BY <1>1 DEF StableInv, Depositing!TypeOK, Depositing!StableBalanceAssumption
  <2> QED
    BY <1>1, <2>1
<1>8. ecash' \in Nat /\ pool' \in Depositing!Accounts
  <2>1. ecash' \in Nat
    BY <1>1, <1>2, <1>4
  <2>2. (IF ready THEN pool.staged - comes ELSE pool.staged) \in Nat
    BY <1>2, <1>4, AccountIs
  <2> HIDE DEF ok, ready
  <2>3. (IF ok /\ bps > 0 THEN bps ELSE pool.cancelled) \in BasisPoints
    <3>1. pool.cancelled \in BasisPoints
      BY <1>2 DEF Depositing!Accounts, BasisPoints
    <3>2. ok /\ bps > 0 => bps \in BasisPoints
      BY <1>6 DEF BasisPoints, Depositing!Bps
    <3> QED
      BY <3>1, <3>2
  <2>4. pool.locked \in Nat
    BY <1>2, AccountIs
  <2>5. pool' \in Depositing!Accounts
    BY <1>1, <2>2, <2>3, <2>4 DEF Depositing!Accounts, BasisPoints
  <2> QED
    BY <2>1, <2>5
<1>9. Depositing!TypeOK'
  <2>1. ok \in BOOLEAN
    BY DEF Depositing!Cancels
  <2> HIDE DEF ok, ready
  <2> QED
    BY <1>1, <1>4, <1>5, <1>7, <1>8, <2>1 DEF StableInv, Depositing!TypeOK
<1>10. ASSUME Fresh PROVE CancelledIsSome'
  <2>1. CASE ok /\ bps > 0
    <3>1. pool'.staged = 0 /\ pool'.locked = pool.locked /\ pool'.cancelled = bps
      BY <1>1, <1>6, <2>1
    <3>2. info = pool
      BY <1>1, <1>10 DEF StableInv, FormIsTrue
    <3>3. 3 * (pool.locked * bps) >= 20000
      BY <1>5, <2>1, <3>2
    <3> HIDE DEF ok, ready
    <3> QED
      BY <3>1, <3>3 DEF CancelledIsSome
  <2>2. CASE ~(ok /\ bps > 0)
    <3>1. /\ pool'.locked = pool.locked /\ pool'.cancelled = pool.cancelled
          /\ pool'.staged = pool.staged \/ (ready /\ pool'.staged = pool.staged - comes)
      BY <1>1, <2>2
    <3>2. pool.staged = 0 => pool'.staged = 0
      BY <1>4, <3>1
    <3> HIDE DEF ok, ready
    <3> QED
      BY <1>10, <3>1, <3>2 DEF StableInv, CancelledIsSome
  <2> QED
    BY <2>1, <2>2
<1> QED
  BY <1>1, <1>9, <1>10 DEF StableInv, FormIsTrue, Depositing!DepositsWhatWasConfirmed,
     Depositing!DepositIsTaken, Depositing!Called

LEMMA TurnsOver ==
    ASSUME Depositing!StableBalanceAssumption, StableInv, Depositing!TurnOver
    PROVE  StableInv'
<1>1. /\ stableRate \in Rates /\ ecash \in Nat /\ pool \in Depositing!Accounts
      /\ Parts \in Nat /\ stableRate \in Nat \ {0}
  BY DEF StableInv, Depositing!TypeOK, Depositing!StableBalanceAssumption
<1>2. pool.locked \in Nat /\ pool.staged \in Nat /\ pool.cancelled \in Nat /\ pool.cancelled <= 10000
  BY <1>1, AccountIs
<1>3. Depositing!Sat(pool.staged) \in Nat /\ Parts \in Nat /\ stableRate \in Nat \ {0}
  BY <1>1, <1>2, AmountsAreNumbers
<1> DEFINE freed == (pool.locked * pool.cancelled + Depositing!Bps - 1) \div Depositing!Bps
           filled == (Depositing!Sat(pool.staged) * Parts) \div stableRate
<1>4. /\ (Fresh => stableScreen = "home")
      /\ pool' = [staged |-> 0, locked |-> pool.locked - freed + filled, cancelled |-> 0]
      /\ ecash' = ecash + Depositing!Msats(Depositing!SatsOf(freed * 100))
      /\ UNCHANGED <<stableRate, info, stableScreen, stableAmount, stableCall, stableCalls>>
  BY DEF Depositing!TurnOver, Depositing!Still
<1>5. freed \in Nat /\ freed <= pool.locked
  <2>1. PICK n \in Nat, l \in Nat : n = pool.locked * pool.cancelled /\ l = pool.locked
    BY <1>2
  <2>2. n <= l * 10000
    BY <1>2, <2>1
  <2>3. n + 10000 - 1 \in Nat /\ n + 10000 - 1 < l * 10000 + 10000
    BY <2>2
  <2>4. PICK q \in Nat : q = (n + 10000 - 1) \div 10000
    BY <2>3, DivisionRoundsDown
  <2>5. q <= l
    BY <2>3, <2>4
  <2> QED
    BY <2>1, <2>4, <2>5 DEF Depositing!Bps
<1>6. filled \in Nat
  <2>1. Depositing!Sat(pool.staged) * Parts \in Nat
    BY <1>3
  <2> QED
    BY <1>3, <2>1, DivisionRoundsDown
<1> HIDE DEF freed, filled
<1>7. Depositing!Msats(Depositing!SatsOf(freed * 100)) \in Nat
  <2>1. freed * 100 \in Nat
    BY <1>5
  <2>2. Depositing!SatsOf(freed * 100) \in Nat
    BY <1>1, <2>1, AmountsAreNumbers
  <2> QED
    BY <1>1, <2>2, AmountsAreNumbers
<1>8. ecash' \in Nat
  BY <1>1, <1>4, <1>7
<1>9. pool' \in Depositing!Accounts
  <2>1. pool.locked - freed + filled \in Nat
    BY <1>2, <1>5, <1>6
  <2>2. 0 \in 0 .. Depositing!Bps
    BY DEF Depositing!Bps
  <2> QED
    BY <1>4, <2>1, <2>2 DEF Depositing!Accounts
<1>10. Depositing!TypeOK'
  BY <1>4, <1>8, <1>9 DEF StableInv, Depositing!TypeOK
<1> QED
  BY <1>4, <1>10 DEF StableInv, CancelledIsSome, FormIsTrue, Depositing!DepositsWhatWasConfirmed,
     Depositing!DepositIsTaken, Depositing!Called

LEMMA StableGoesOn ==
    ASSUME Depositing!StableBalanceAssumption, StableInv, [Depositing!Next]_(Depositing!vars)
    PROVE  StableInv'
<1> USE DEF StableInv, Depositing!TypeOK, CancelledIsSome, FormIsTrue, Depositing!Msats, Depositing!SatsOf,
    Depositing!Round, Depositing!DepositsWhatWasConfirmed, Depositing!DepositIsTaken, Depositing!Called, Depositing!Still
<1>1. CASE UNCHANGED Depositing!vars
  BY <1>1 DEF Depositing!vars
<1>2. CASE Depositing!Back
  BY <1>2 DEF Depositing!Back
<1>3. CASE Depositing!Refresh
  BY <1>3 DEF Depositing!Refresh
<1>4. ASSUME NEW r \in Rates, Depositing!RateMoves(r) PROVE StableInv'
  BY <1>4 DEF Depositing!RateMoves
<1>5. CASE Depositing!Spend
  <2>1. ecash \div 2 \in Nat
    BY <1>5, DivisionRoundsDown
  <2> QED
    BY <1>5, <2>1 DEF Depositing!Spend
<1> HIDE DEF StableInv, Depositing!TypeOK, CancelledIsSome, FormIsTrue,
    Depositing!DepositsWhatWasConfirmed, Depositing!DepositIsTaken
<1> QED
  BY <1>1, <1>2, <1>3, <1>4, <1>5, OpensDeposit, OpensWithdraw, Deposits, Withdraws, TurnsOver
     DEF Depositing!Next

LEMMA StableStart ==
    ASSUME Depositing!StableBalanceAssumption, Depositing!Init
    PROVE  StableInv
<1>1. PICK l \in Locked : pool = [staged |-> 0, locked |-> l, cancelled |-> 0]
  BY DEF Depositing!Init
<1>2. l \in Nat /\ 0 \in 0 .. Depositing!Bps /\ ecash \in Nat
  <2>1. Locked \subseteq Nat /\ Ecash \subseteq Nat /\ ecash \in Ecash
    BY DEF Depositing!StableBalanceAssumption, Depositing!Init
  <2>2. 0 \in 0 .. Depositing!Bps
    BY DEF Depositing!Bps
  <2> QED
    BY <2>1, <2>2
<1>3. pool \in Depositing!Accounts
  BY <1>1, <1>2 DEF Depositing!Accounts
<1>4. stableCalls \in 0 .. MaxCalls
  BY DEF Depositing!StableBalanceAssumption, Depositing!Init
<1>5. Depositing!TypeOK
  BY <1>2, <1>3, <1>4 DEF Depositing!TypeOK, Depositing!Init, Depositing!NoCall
<1> QED
  BY <1>1, <1>5 DEF StableInv, Depositing!Init, CancelledIsSome, FormIsTrue, Depositing!NoCall,
     Depositing!DepositsWhatWasConfirmed, Depositing!DepositIsTaken, Depositing!Called

(* Whatever rates, prices of a lock and amounts there are: a deposit is not less than *)
(* what was confirmed, leaves the stable balance within its maximum if nothing was     *)
(* pending before, and is covered and taken unless the balance has nothing left for the *)
(* fee that the bridge adds. All of this while nothing moves under an open form         *)
(* (increaseStableBalance).                                                            *)
THEOREM DepositsAreSound ==
    ASSUME Depositing!StableBalanceAssumption
    PROVE  Depositing!Spec =>
                  /\ []Depositing!TypeOK
                  /\ Fresh => []Depositing!DepositsWhatWasConfirmed
                  /\ Fresh => []Depositing!DepositIsTaken
                  /\ Fresh => Depositing!FirstStaysBelowMaximum
<1>1. Depositing!Init => StableInv
  BY StableStart
<1>2. StableInv /\ [Depositing!Next]_(Depositing!vars) => StableInv'
  BY StableGoesOn
<1>3. Depositing!Spec => []StableInv
  BY <1>1, <1>2, PTL DEF Depositing!Spec
<1>4. Depositing!Spec => []Depositing!TypeOK
  <2>1. StableInv => Depositing!TypeOK
    BY DEF StableInv
  <2> QED
    BY <1>3, <2>1, PTL
<1>5. ASSUME Fresh PROVE Depositing!Spec => []Depositing!DepositsWhatWasConfirmed
  <2>1. StableInv => Depositing!DepositsWhatWasConfirmed
    BY <1>5 DEF StableInv
  <2> QED
    BY <1>3, <2>1, PTL
<1>7. ASSUME Fresh PROVE Depositing!Spec => []Depositing!DepositIsTaken
  <2>1. StableInv => Depositing!DepositIsTaken
    BY <1>7 DEF StableInv
  <2> QED
    BY <1>3, <2>1, PTL
<1>6. ASSUME Fresh PROVE Depositing!Spec => Depositing!FirstStaysBelowMaximum
  <2>1. StableInv => [Depositing!FirstIsWithin]_(Depositing!vars)
    <3>1. StableInv /\ Depositing!Deposit => Depositing!FirstIsWithin
      BY <1>6, Deposits
    <3>2. ~Depositing!Deposit => Depositing!FirstIsWithin
      BY DEF Depositing!FirstIsWithin
    <3> QED
      BY <3>1, <3>2
  <2> QED
    BY <1>3, <2>1, PTL DEF Depositing!FirstStaysBelowMaximum
<1> QED
  BY <1>4, <1>5, <1>6, <1>7

-----------------------------------------------------------------------------
(* What withdraws from an account of the pool: StabilityOperations. *)

\* Operations, and what the outputs of one that is being paid are.
Operations ==
    [st : User!Ended \cup User!Began, ask : Nat, cancel : Nat, got : Nat, base : Nat]
PayOf(o) == IF o.st = "paying" THEN o.ask ELSE 0
Paying(f) == PayOf(f["ui"]) + PayOf(f["sweeper"]) + PayOf(f["monitor"])
\* What there is, of h ecash and an account of i idle, f and o staged and l locked.
MoneyOf(h, i, f, o, l) == h + i + f + o + l
Money == MoneyOf(held, idle, freshStaged, oldStaged, lockedSum)
\* Only the user cancels; while an operation goes on, what it got is there, e.
Fits(a, s, k, c, g, b, e) ==
    /\ k <= AllMoney /\ c <= AllMoney /\ g <= AllMoney /\ b <= AllMoney
    /\ s \in {"unlock", "deposit"} => g = 0
    /\ s \in {"cancel", "accepted", "watching", "claim", "paying"} => g <= e
    /\ a # "ui" => /\ s \notin {"deposit", "cancel", "accepted", "watching", "claim"}
                   /\ c = 0 /\ (s = "paying" => g = 0)
    /\ a # "ui" /\ s = "unlock" => k > 0
OpFits(a, o, e) == Fits(a, o.st, o.ask, o.cancel, o.got, o.base, e)
Amount(n) == n \in Nat /\ n <= AllMoney
Knows(i) == Amount(i.idle) /\ Amount(i.staged) /\ Amount(i.locked) /\ Amount(i.cancelled)
Numbers ==
    /\ held \in Nat /\ idle \in Nat /\ freshStaged \in Nat /\ oldStaged \in Nat
    /\ lockedSum \in Nat /\ cancelledSum \in Nat /\ cancelledSum <= lockedSum
Flags ==
    /\ recorded \in BOOLEAN /\ sweeping \in BOOLEAN /\ Amount(read) /\ Knows(told)
    /\ promise \in {"none", "called", "listening", "resolved", "rejected"}
OpsFit ==
    /\ op \in [User!Parties -> Operations]
    /\ \A a \in User!Parties : OpFits(a, op[a], held)
MoneyInv ==
    /\ AllMoney \in Nat /\ Numbers /\ Flags /\ OpsFit
    /\ Money + Paying(op) <= AllMoney

LEMMA PaysAre ==
    ASSUME NEW f \in [User!Parties -> Operations]
    PROVE  /\ \A a \in User!Parties : PayOf(f[a]) \in Nat
           /\ Paying(f) \in Nat
           /\ \A a \in User!Parties : PayOf(f[a]) <= Paying(f)
<1>1. \A a \in User!Parties : PayOf(f[a]) \in Nat
  BY DEF PayOf, Operations
<1>2. \A a \in User!Parties : a = "ui" \/ a = "sweeper" \/ a = "monitor"
  BY DEF User!Parties
<1>3. "ui" \in User!Parties /\ "sweeper" \in User!Parties /\ "monitor" \in User!Parties
  BY DEF User!Parties
<1>4. PICK i \in Nat, j \in Nat, k \in Nat :
            i = PayOf(f["ui"]) /\ j = PayOf(f["sweeper"]) /\ k = PayOf(f["monitor"])
  BY <1>1, <1>3
<1>5. Paying(f) = i + j + k
  BY <1>4 DEF Paying
<1>6. \A a \in User!Parties : PayOf(f[a]) <= Paying(f)
  <2> SUFFICES ASSUME NEW a \in User!Parties PROVE PayOf(f[a]) <= i + j + k
    BY <1>5
  <2>1. PayOf(f[a]) = i \/ PayOf(f[a]) = j \/ PayOf(f[a]) = k
    BY <1>2, <1>4
  <2> QED
    BY <2>1
<1> QED
  BY <1>1, <1>5, <1>6

LEMMA OneChanges ==
    ASSUME NEW f \in [User!Parties -> Operations], NEW a \in User!Parties, NEW n \in Operations
    PROVE  /\ [f EXCEPT ![a] = n] \in [User!Parties -> Operations]
           /\ Paying([f EXCEPT ![a] = n]) = Paying(f) - PayOf(f[a]) + PayOf(n)
<1> DEFINE g == [f EXCEPT ![a] = n]
<1>1. g \in [User!Parties -> Operations]
  OBVIOUS
<1>2. g[a] = n /\ \A b \in User!Parties : b # a => g[b] = f[b]
  OBVIOUS
<1>3. \A b \in User!Parties : PayOf(g[b]) \in Nat /\ PayOf(f[b]) \in Nat
  BY <1>1, PaysAre
<1> HIDE DEF g
<1>4. "ui" \in User!Parties /\ "sweeper" \in User!Parties /\ "monitor" \in User!Parties
  BY DEF User!Parties
<1>5. PICK i \in Nat, j \in Nat, k \in Nat, m \in Nat :
            /\ i = PayOf(f["ui"]) /\ j = PayOf(f["sweeper"]) /\ k = PayOf(f["monitor"])
            /\ m = PayOf(n)
  BY <1>2, <1>3, <1>4
<1>6. /\ PayOf(g["ui"]) = IF a = "ui" THEN m ELSE i
      /\ PayOf(g["sweeper"]) = IF a = "sweeper" THEN m ELSE j
      /\ PayOf(g["monitor"]) = IF a = "monitor" THEN m ELSE k
      /\ PayOf(f[a]) = IF a = "ui" THEN i ELSE IF a = "sweeper" THEN j ELSE k
  BY <1>2, <1>4, <1>5 DEF User!Parties
<1>7. Paying(g) = Paying(f) - PayOf(f[a]) + PayOf(n)
  <2>1. a = "ui" \/ a = "sweeper" \/ a = "monitor"
    BY DEF User!Parties
  <2> QED
    BY <1>5, <1>6, <2>1 DEF Paying
<1> QED
  BY <1>1, <1>7 DEF g

LEMMA MoneyIs ==
    ASSUME NEW h \in Nat, NEW i \in Nat, NEW f \in Nat, NEW o \in Nat, NEW l \in Nat
    PROVE  /\ MoneyOf(h, i, f, o, l) \in Nat
           /\ h <= MoneyOf(h, i, f, o, l) /\ h + i + f + o <= MoneyOf(h, i, f, o, l)
           /\ i <= MoneyOf(h, i, f, o, l) /\ l <= MoneyOf(h, i, f, o, l)
           /\ f <= MoneyOf(h, i, f, o, l) /\ o <= MoneyOf(h, i, f, o, l)
  BY DEF MoneyOf

LEMMA MoneyIsNat == ASSUME Numbers PROVE Money \in Nat
  BY MoneyIs DEF Numbers, Money

\* What there is before and after; m is what is paid meanwhile, k what was being paid before.
Moved(s, t, k, m) == s \in Nat /\ t \in Nat /\ k \in Nat /\ m \in Nat /\ t + m <= s + k

\* What an operation of a becomes, and what moves with it.
LEMMA MoneyMoves ==
    ASSUME MoneyInv, NEW a \in User!Parties, NEW n \in Operations, op' = [op EXCEPT ![a] = n],
           Numbers', Flags', OpFits(a, n, held'), a = "ui" \/ held' >= held,
           Moved(Money, Money', PayOf(op[a]), PayOf(n))
    PROVE  MoneyInv'
<1>1. op \in [User!Parties -> Operations]
  BY DEF MoneyInv, OpsFit
<1>2. /\ op' \in [User!Parties -> Operations] /\ Paying(op') = Paying(op) - PayOf(op[a]) + PayOf(n)
  BY <1>1, OneChanges
<1>3. \A b \in User!Parties : b # a => op'[b] = op[b]
  BY <1>1
<1>4. op'[a] = n
  BY <1>1
<1>5. \A b \in User!Parties : OpFits(b, op'[b], held')
  <2> SUFFICES ASSUME NEW b \in User!Parties, b # a PROVE OpFits(b, op[b], held')
    BY <1>3, <1>4
  <2>1. OpFits(b, op[b], held) /\ op[b].got \in Nat
    BY <1>1 DEF MoneyInv, OpsFit, Operations
  <2>2. held' >= held \/ b # "ui"
    OBVIOUS
  <2>3. held \in Nat /\ held' \in Nat
    BY DEF MoneyInv, Numbers
  <2>4. op[b].got <= held /\ held' >= held => op[b].got <= held'
    BY <2>1, <2>3
  <2>5. op[b].st \in {"cancel", "accepted", "watching", "claim", "paying"} => op[b].got <= held'
    <3>1. CASE b # "ui"
      <4>1. op[b].st = "cancel" \/ op[b].st = "paying" => op[b].got = 0
        BY <2>1, <3>1 DEF OpFits, Fits
      <4> QED
        BY <2>1, <2>3, <3>1, <4>1 DEF OpFits, Fits
    <3>2. CASE held' >= held
      BY <2>1, <2>4, <3>2 DEF OpFits, Fits
    <3> QED
      BY <2>2, <3>1, <3>2
  <2> QED
    BY <2>1, <2>5 DEF OpFits, Fits
<1>6. Money + Paying(op) <= AllMoney /\ AllMoney \in Nat
  BY DEF MoneyInv
<1>7. Paying(op) \in Nat
  BY <1>1, PaysAre
<1>8. Money' + Paying(op') <= AllMoney
  <2>1. PICK s \in Nat, t \in Nat, k \in Nat, m \in Nat, p \in Nat, q \in Nat :
             /\ s = Money /\ t = Money' /\ k = PayOf(op[a]) /\ m = PayOf(n)
             /\ p = Paying(op) /\ q = AllMoney /\ t + m <= s + k
    BY <1>6, <1>7 DEF Moved
  <2>2. s + p <= q /\ Paying(op') = p - k + m
    BY <1>2, <1>6, <2>1
  <2>3. t + (p - k + m) <= q
    BY <2>1, <2>2
  <2> QED
    BY <2>1, <2>2, <2>3
<1> QED
  BY <1>2, <1>5, <1>6, <1>8 DEF MoneyInv, OpsFit

\* The same where no operation changes.
LEMMA MoneyStays ==
    ASSUME MoneyInv, op' = op, held' = held, Numbers', Flags', Money' = Money
    PROVE  MoneyInv'
<1>1. OpsFit /\ AllMoney \in Nat /\ Money + Paying(op) <= AllMoney
  BY DEF MoneyInv
<1>2. OpsFit'
  BY <1>1 DEF OpsFit
<1>3. Paying(op') = Paying(op)
  OBVIOUS
<1> QED
  BY <1>1, <1>2, <1>3 DEF MoneyInv

\* What a withdrawal of n takes: x of what is idle, y and z of what is staged.
LEMMA TakesAre ==
    ASSUME Numbers, NEW n \in Nat, User!CanTake(n), User!Take(n)
    PROVE  \E x \in Nat, y \in Nat, z \in Nat :
              /\ x + y + z = n /\ x <= idle /\ y <= freshStaged /\ z <= oldStaged
              /\ idle' = idle - x /\ freshStaged' = freshStaged - y /\ oldStaged' = oldStaged - z
              /\ n <= idle => y = 0 /\ z = 0
<1>1. PICK i \in Nat, f \in Nat, o \in Nat : i = idle /\ f = freshStaged /\ o = oldStaged
  BY DEF Numbers
<1> DEFINE x == IF n < i THEN n ELSE i
           y == IF n - x < f THEN n - x ELSE f
           z == n - x - y
<1>2. n <= i + f + o
  BY <1>1 DEF User!CanTake, User!Staged
<1>3. /\ x \in Nat /\ y \in Nat /\ z \in Nat
      /\ x + y + z = n /\ x <= i /\ y <= f /\ z <= o /\ (n <= i => y = 0 /\ z = 0)
  <2>1. x \in Nat /\ x <= i /\ x <= n /\ (n <= i => x = n)
    OBVIOUS
  <2>2. PICK w \in Nat : w = n - x /\ (w > 0 => x = i)
    BY <2>1
  <2>3. y = IF w < f THEN w ELSE f
    BY <2>2
  <2>4. y \in Nat /\ y <= f /\ y <= w /\ z = w - y /\ z \in Nat
    BY <2>2, <2>3
  <2>5. z <= o
    BY <1>2, <2>1, <2>2, <2>3, <2>4
  <2> QED
    BY <2>1, <2>2, <2>3, <2>4, <2>5
<1>4. idle' = i - x /\ freshStaged' = f - y /\ oldStaged' = o - z
  BY <1>1 DEF User!Take
<1> HIDE DEF x, y, z
<1> QED
  BY <1>1, <1>3, <1>4

LEMMA MoneyFacts ==
    ASSUME MoneyInv
    PROVE  /\ AllMoney \in Nat /\ Numbers /\ Flags /\ op \in [User!Parties -> Operations]
           /\ Amount(held) /\ Amount(idle) /\ Amount(idle + freshStaged + oldStaged)
           /\ Amount(freshStaged + oldStaged) /\ Amount(lockedSum) /\ Amount(cancelledSum)
           /\ \A a \in User!Parties :
                 /\ OpFits(a, op[a], held) /\ op[a] \in Operations
                 /\ op[a].st = "paying" => Amount(held + op[a].ask)
<1>1. /\ AllMoney \in Nat /\ Numbers /\ Flags /\ op \in [User!Parties -> Operations]
      /\ \A a \in User!Parties : OpFits(a, op[a], held) /\ op[a] \in Operations
  BY DEF MoneyInv, OpsFit
<1>2. PICK h \in Nat, i \in Nat, f \in Nat, o \in Nat, l \in Nat, c \in Nat, p \in Nat :
            /\ h = held /\ i = idle /\ f = freshStaged /\ o = oldStaged /\ l = lockedSum
            /\ c = cancelledSum /\ c <= l /\ p = Paying(op)
  BY <1>1, PaysAre DEF Numbers
<1>3. PICK s \in Nat : s = MoneyOf(h, i, f, o, l)
  BY MoneyIs
<1>4. s + p <= AllMoney
  BY <1>2, <1>3 DEF MoneyInv, Money
<1>5. h <= s /\ i <= s /\ l <= s /\ h + i + f + o <= s
  BY <1>3, MoneyIs
<1>6. ASSUME NEW a \in User!Parties, op[a].st = "paying" PROVE Amount(held + op[a].ask)
  <2>1. op[a].ask \in Nat /\ PayOf(op[a]) = op[a].ask
    BY <1>1, <1>6 DEF Operations, PayOf
  <2>2. op[a].ask <= p
    BY <1>1, <1>2, <2>1, PaysAre
  <2>3. PICK k \in Nat : k = op[a].ask
    BY <2>1
  <2>4. h + k \in Nat /\ h + k <= AllMoney
    BY <1>1, <1>4, <1>5, <2>2, <2>3
  <2> QED
    BY <1>2, <2>3, <2>4 DEF Amount
<1>7. /\ Amount(h) /\ Amount(i) /\ Amount(i + f + o) /\ Amount(f + o) /\ Amount(l) /\ Amount(c)
  BY <1>1, <1>2, <1>4, <1>5 DEF Amount
<1> QED
  BY <1>1, <1>2, <1>6, <1>7

\* An operation at s that asks k, cancels c, got g and found b idle.
Op(s, k, c, g, b) == [st |-> s, ask |-> k, cancel |-> c, got |-> g, base |-> b]
States == User!Ended \cup User!Began
LEMMA OpIs ==
    ASSUME NEW s \in States, NEW k \in Nat, NEW c \in Nat, NEW g \in Nat, NEW b \in Nat
    PROVE  /\ Op(s, k, c, g, b) \in Operations /\ Op(s, k, c, g, b).st = s
           /\ Op(s, k, c, g, b).ask = k /\ Op(s, k, c, g, b).cancel = c
           /\ Op(s, k, c, g, b).got = g /\ Op(s, k, c, g, b).base = b
           /\ PayOf(Op(s, k, c, g, b)) = IF s = "paying" THEN k ELSE 0
  BY DEF Op, Operations, PayOf, States

LEMMA OpOf ==
    ASSUME NEW o \in Operations
    PROVE  /\ o = Op(o.st, o.ask, o.cancel, o.got, o.base) /\ o.st \in States
           /\ o.ask \in Nat /\ o.cancel \in Nat /\ o.got \in Nat /\ o.base \in Nat
  BY DEF Op, Operations, States

\* What the steps do to an operation.
Placed(f, a, o) == [f EXCEPT ![a] = o]
PutSt(f, a, x) == [f EXCEPT ![a].st = x]
PutAsk(f, a, x, y) == [f EXCEPT ![a].st = x, ![a].ask = y]
PutCancel(f, a, x, y) == [f EXCEPT ![a].st = x, ![a].cancel = y]
PutGot(f, a, x, y) == [f EXCEPT ![a].st = x, ![a].got = y]
PutBase(f, a, x, y) == [f EXCEPT ![a].st = x, ![a].base = y]
LEMMA PutsAre ==
    ASSUME NEW f \in [User!Parties -> Operations], NEW a \in User!Parties, NEW x, NEW y
    PROVE  /\ PutSt(f, a, x) = Placed(f, a, Op(x, f[a].ask, f[a].cancel, f[a].got, f[a].base))
           /\ PutAsk(f, a, x, y) = Placed(f, a, Op(x, y, f[a].cancel, f[a].got, f[a].base))
           /\ PutCancel(f, a, x, y) = Placed(f, a, Op(x, f[a].ask, y, f[a].got, f[a].base))
           /\ PutGot(f, a, x, y) = Placed(f, a, Op(x, f[a].ask, f[a].cancel, y, f[a].base))
           /\ PutBase(f, a, x, y) = Placed(f, a, Op(x, f[a].ask, f[a].cancel, f[a].got, y))
<1> DEFINE o == f[a]
           F == {"st", "ask", "cancel", "got", "base"}
<1>1. o \in Operations /\ DOMAIN o = F
  BY DEF Operations
<1>2. PutSt(f, a, x) = Placed(f, a, Op(x, o.ask, o.cancel, o.got, o.base))
  <2> DEFINE r == [o EXCEPT !.st = x]
  <2>1. DOMAIN r = F
    BY <1>1
  <2>2. /\ r.st = x /\ r.ask = o.ask /\ r.cancel = o.cancel
        /\ r.got = o.got /\ r.base = o.base
    BY <1>1
  <2>3. r = [q \in F |-> r[q]]
    BY <2>1
  <2>4. [f EXCEPT ![a].st = x] = [f EXCEPT ![a] = r]
    OBVIOUS
  <2> HIDE DEF r
  <2>5. r = Op(x, o.ask, o.cancel, o.got, o.base)
    BY <2>2, <2>3 DEF Op
  <2> QED
    BY <2>4, <2>5 DEF PutSt, Placed
<1>3. PutAsk(f, a, x, y) = Placed(f, a, Op(x, y, o.cancel, o.got, o.base))
  <2> DEFINE r == [o EXCEPT !.st = x, !.ask = y]
  <2>1. DOMAIN r = F
    BY <1>1
  <2>2. /\ r.st = x /\ r.ask = y /\ r.cancel = o.cancel
        /\ r.got = o.got /\ r.base = o.base
    BY <1>1
  <2>3. r = [q \in F |-> r[q]]
    BY <2>1
  <2>4. [f EXCEPT ![a].st = x, ![a].ask = y] = [f EXCEPT ![a] = r]
    OBVIOUS
  <2> HIDE DEF r
  <2>5. r = Op(x, y, o.cancel, o.got, o.base)
    BY <2>2, <2>3 DEF Op
  <2> QED
    BY <2>4, <2>5 DEF PutAsk, Placed
<1>4. PutCancel(f, a, x, y) = Placed(f, a, Op(x, o.ask, y, o.got, o.base))
  <2> DEFINE r == [o EXCEPT !.st = x, !.cancel = y]
  <2>1. DOMAIN r = F
    BY <1>1
  <2>2. /\ r.st = x /\ r.ask = o.ask /\ r.cancel = y
        /\ r.got = o.got /\ r.base = o.base
    BY <1>1
  <2>3. r = [q \in F |-> r[q]]
    BY <2>1
  <2>4. [f EXCEPT ![a].st = x, ![a].cancel = y] = [f EXCEPT ![a] = r]
    OBVIOUS
  <2> HIDE DEF r
  <2>5. r = Op(x, o.ask, y, o.got, o.base)
    BY <2>2, <2>3 DEF Op
  <2> QED
    BY <2>4, <2>5 DEF PutCancel, Placed
<1>5. PutGot(f, a, x, y) = Placed(f, a, Op(x, o.ask, o.cancel, y, o.base))
  <2> DEFINE r == [o EXCEPT !.st = x, !.got = y]
  <2>1. DOMAIN r = F
    BY <1>1
  <2>2. /\ r.st = x /\ r.ask = o.ask /\ r.cancel = o.cancel
        /\ r.got = y /\ r.base = o.base
    BY <1>1
  <2>3. r = [q \in F |-> r[q]]
    BY <2>1
  <2>4. [f EXCEPT ![a].st = x, ![a].got = y] = [f EXCEPT ![a] = r]
    OBVIOUS
  <2> HIDE DEF r
  <2>5. r = Op(x, o.ask, o.cancel, y, o.base)
    BY <2>2, <2>3 DEF Op
  <2> QED
    BY <2>4, <2>5 DEF PutGot, Placed
<1>6. PutBase(f, a, x, y) = Placed(f, a, Op(x, o.ask, o.cancel, o.got, y))
  <2> DEFINE r == [o EXCEPT !.st = x, !.base = y]
  <2>1. DOMAIN r = F
    BY <1>1
  <2>2. /\ r.st = x /\ r.ask = o.ask /\ r.cancel = o.cancel
        /\ r.got = o.got /\ r.base = y
    BY <1>1
  <2>3. r = [q \in F |-> r[q]]
    BY <2>1
  <2>4. [f EXCEPT ![a].st = x, ![a].base = y] = [f EXCEPT ![a] = r]
    OBVIOUS
  <2> HIDE DEF r
  <2>5. r = Op(x, o.ask, o.cancel, o.got, y)
    BY <2>2, <2>3 DEF Op
  <2> QED
    BY <2>4, <2>5 DEF PutBase, Placed
<1> QED
  BY <1>2, <1>3, <1>4, <1>5, <1>6

LEMMA ToldIs ==
    ASSUME op \in [User!Parties -> Operations], NEW a \in User!Parties, NEW s, User!Told(a, s)
    PROVE  op' = Placed(op, a, Op(s, op[a].ask, op[a].cancel, op[a].got, op[a].base))
<1>1. op' = PutSt(op, a, s)
  BY DEF User!Told, PutSt
<1>2. PutSt(op, a, s) = Placed(op, a, Op(s, op[a].ask, op[a].cancel, op[a].got, op[a].base))
  BY PutsAre
<1> QED
  BY <1>1, <1>2

\* What a step of the operation of a does, put together of what it becomes and what it moves.
LEMMA Steps ==
    ASSUME MoneyInv, NEW a \in User!Parties,
           NEW s \in States, NEW k \in Nat, NEW c \in Nat, NEW g \in Nat, NEW b \in Nat,
           op' = Placed(op, a, Op(s, k, c, g, b)), Numbers', Flags',
           Fits(a, s, k, c, g, b, held'), a = "ui" \/ held' >= held,
           Moved(Money, Money', PayOf(op[a]), IF s = "paying" THEN k ELSE 0)
    PROVE  MoneyInv'
<1>1. Op(s, k, c, g, b) \in Operations
  BY OpIs
<1>2. PayOf(Op(s, k, c, g, b)) = IF s = "paying" THEN k ELSE 0
  BY OpIs
<1>3. OpFits(a, Op(s, k, c, g, b), held')
  BY OpIs DEF OpFits
<1>4. op' = [op EXCEPT ![a] = Op(s, k, c, g, b)]
  BY DEF Placed
<1> QED
  BY <1>1, <1>2, <1>3, <1>4, MoneyMoves

\* A step that moves nothing, whatever it was or becomes.
LEMMA StepsAlone ==
    ASSUME MoneyInv, NEW a \in User!Parties,
           NEW s \in States, NEW k \in Nat, NEW c \in Nat, NEW g \in Nat, NEW b \in Nat,
           op' = Placed(op, a, Op(s, k, c, g, b)), Numbers', Flags',
           Fits(a, s, k, c, g, b, held), held' = held, Money' = Money,
           s = "paying" => op[a].st = "paying" /\ k = op[a].ask
    PROVE  MoneyInv'
<1>1. Money \in Nat /\ held \in Nat /\ op \in [User!Parties -> Operations]
  BY MoneyIsNat DEF MoneyInv, Numbers, OpsFit
<1>2. PayOf(op[a]) \in Nat /\ (s = "paying" => PayOf(op[a]) = k)
  BY <1>1, PaysAre DEF PayOf
<1>3. Moved(Money, Money', PayOf(op[a]), IF s = "paying" THEN k ELSE 0)
  <2>1. PICK m \in Nat, p \in Nat : m = Money /\ p = PayOf(op[a])
    BY <1>1, <1>2
  <2>2. (IF s = "paying" THEN k ELSE 0) \in Nat /\ (IF s = "paying" THEN k ELSE 0) <= p
    BY <1>2, <2>1
  <2> QED
    BY <2>1, <2>2 DEF Moved
<1>4. Fits(a, s, k, c, g, b, held') /\ held' >= held
  BY <1>1
<1> QED
  BY <1>3, <1>4, Steps

\* A withdrawal of n that goes to ecash (w = n) or to outputs under way (w = 0).
LEMMA TakeMoves ==
    ASSUME Numbers, AllMoney \in Nat, NEW n \in Nat, User!CanTake(n), User!Take(n),
           NEW w \in Nat, w <= n, held' = held + w, UNCHANGED <<lockedSum, cancelledSum>>
    PROVE  /\ Numbers' /\ held' >= held
           /\ \A p \in Nat : p + w = n => Moved(Money, Money', 0, p)
<1>1. PICK h \in Nat, i \in Nat, f \in Nat, o \in Nat, l \in Nat, c \in Nat :
            /\ h = held /\ i = idle /\ f = freshStaged /\ o = oldStaged
            /\ l = lockedSum /\ c = cancelledSum /\ c <= l
  BY DEF Numbers
<1>2. PICK x \in Nat, y \in Nat, z \in Nat :
            /\ x + y + z = n /\ x <= i /\ y <= f /\ z <= o
            /\ idle' = i - x /\ freshStaged' = f - y /\ oldStaged' = o - z
  BY <1>1, TakesAre
<1>3. PICK j \in Nat, e \in Nat, q \in Nat, v \in Nat :
            j = i - x /\ e = f - y /\ q = o - z /\ v = h + w
  BY <1>2
<1>4. Numbers'
  BY <1>1, <1>2, <1>3 DEF Numbers
<1>5. held' >= held
  BY <1>1, <1>3
<1>6. ASSUME NEW p \in Nat, p + w = n PROVE Moved(Money, Money', 0, p)
  <2>1. Money = MoneyOf(h, i, f, o, l) /\ Money' = MoneyOf(v, j, e, q, l)
    BY <1>1, <1>2, <1>3 DEF Money
  <2>2. MoneyOf(v, j, e, q, l) + p <= MoneyOf(h, i, f, o, l) + 0
    BY <1>2, <1>3, <1>6 DEF MoneyOf
  <2> QED
    BY <2>1, <2>2, MoneyIs DEF Moved
<1> QED
  BY <1>4, <1>5, <1>6

Promises == {"none", "called", "listening", "resolved", "rejected"}
LEMMA Hearing ==
    ASSUME promise \in Promises, NEW a, NEW s, User!Hears(a, s)
    PROVE  promise' \in Promises
  BY DEF User!Hears, User!Outcome, Promises

\* What goes on elsewhere does not change the rest.
LEMMA FlagsStay ==
    ASSUME Flags, UNCHANGED <<recorded, sweeping, read, told>>, promise' \in Promises
    PROVE  Flags'
  BY DEF Flags, Promises

LEMMA NumbersStay ==
    ASSUME MoneyInv, UNCHANGED <<held, idle, freshStaged, oldStaged, lockedSum, cancelledSum>>
    PROVE  Numbers' /\ Money' = Money /\ held' = held
<1>1. Numbers
  BY DEF MoneyInv
<1> QED
  BY <1>1 DEF Numbers, Money

\* An operation that is told to be in the state s, and nothing else.
LEMMA TellsOnly ==
    ASSUME MoneyInv, NEW a \in User!Parties, NEW s \in User!Ended, User!Told(a, s),
           UNCHANGED <<held, idle, freshStaged, oldStaged, lockedSum, cancelledSum>>,
           UNCHANGED <<recorded, sweeping, read, told>>
    PROVE  MoneyInv'
<1>1. /\ Flags /\ op \in [User!Parties -> Operations]
      /\ OpFits(a, op[a], held) /\ op[a] \in Operations
  BY MoneyFacts
<1>2. Flags'
  BY <1>1, FlagsStay, Hearing DEF User!Told, Flags, Promises
<1>3. /\ s \in States
      /\ s \notin {"deposit", "unlock", "cancel", "accepted", "watching", "claim", "paying"}
  BY DEF States, User!Ended
<1>4. op' = Placed(op, a, Op(s, op[a].ask, op[a].cancel, op[a].got, op[a].base))
  BY <1>1, ToldIs
<1>5. /\ op[a].ask \in Nat /\ op[a].cancel \in Nat /\ op[a].got \in Nat /\ op[a].base \in Nat
  BY <1>1, OpOf
<1>6. Fits(a, s, op[a].ask, op[a].cancel, op[a].got, op[a].base, held)
  BY <1>1, <1>3, <1>5 DEF OpFits, Fits
<1>7. Numbers' /\ Money' = Money /\ held' = held
  BY NumbersStay
<1> QED
  BY <1>2, <1>3, <1>4, <1>5, <1>6, <1>7, StepsAlone

LEMMA UnlockedMoves ==
    ASSUME MoneyInv, NEW a \in User!Parties, User!Unlocked(a)
    PROVE  MoneyInv'
<1> DEFINE k == op[a].ask  c == op[a].cancel  b == op[a].base
<1>1. /\ AllMoney \in Nat /\ Numbers /\ Flags /\ op \in [User!Parties -> Operations]
      /\ OpFits(a, op[a], held) /\ op[a] \in Operations
  BY MoneyFacts
<1>2. k \in Nat /\ c \in Nat /\ b \in Nat
  BY <1>1, OpOf
<1>3. /\ op[a].st = "unlock" /\ UNCHANGED <<lockedSum, cancelledSum>>
      /\ UNCHANGED <<recorded, sweeping, read, told>>
  BY DEF User!Unlocked
<1>4. CASE User!CanTake(k) /\ c > 0
  <2>1. /\ User!Take(k) /\ held' = held + k /\ promise' = promise
        /\ op' = PutGot(op, a, "cancel", k)
    BY <1>4 DEF User!Unlocked, PutGot
  <2>2. op' = Placed(op, a, Op("cancel", k, c, k, b))
    BY <1>1, <2>1, PutsAre
  <2> HIDE DEF k, c, b
  <2>3. Numbers' /\ held' >= held /\ Moved(Money, Money', 0, 0)
    BY <1>1, <1>2, <1>3, <1>4, <2>1, TakeMoves
  <2>4. Flags'
    BY <1>1, <1>3, <2>1, FlagsStay DEF Flags, Promises
  <2>5. PayOf(op[a]) = 0
    BY <1>3 DEF PayOf
  <2>6. k <= held'
    BY <1>1, <1>2, <2>1 DEF Numbers
  <2>7. Fits(a, "cancel", k, c, k, b, held') /\ "cancel" \in States
    <3>1. k <= AllMoney /\ c <= AllMoney /\ b <= AllMoney /\ (a # "ui" => c = 0)
      BY <1>1 DEF OpFits, Fits, k, c, b
    <3>2. "cancel" \in States
      BY DEF States, User!Began
    <3> QED
      BY <1>2, <1>4, <2>6, <3>1, <3>2 DEF Fits
  <2> QED
    BY <1>2, <2>2, <2>3, <2>4, <2>5, <2>7, Steps
<1>5. CASE User!CanTake(k) /\ c = 0
  <2>1. /\ User!Take(k) /\ held' = held + 0 /\ held' = held /\ promise' = promise
        /\ op' = PutGot(op, a, "paying", 0)
    BY <1>1, <1>5 DEF User!Unlocked, Numbers, PutGot
  <2>2. op' = Placed(op, a, Op("paying", k, c, 0, b))
    BY <1>1, <2>1, PutsAre
  <2> HIDE DEF k, c, b
  <2>3. Numbers' /\ held' >= held /\ Moved(Money, Money', 0, k)
    BY <1>1, <1>2, <1>3, <1>5, <2>1, TakeMoves
  <2>4. Flags'
    BY <1>1, <1>3, <2>1, FlagsStay DEF Flags, Promises
  <2>5. PayOf(op[a]) = 0
    BY <1>3 DEF PayOf
  <2>6. 0 <= held' /\ 0 <= AllMoney
    BY <1>1, <2>1 DEF Numbers
  <2>7. Fits(a, "paying", k, c, 0, b, held') /\ "paying" \in States
    <3>1. k <= AllMoney /\ c <= AllMoney /\ b <= AllMoney
      BY <1>1 DEF OpFits, Fits, k, c, b
    <3>2. "paying" \in States
      BY DEF States, User!Began
    <3> QED
      BY <1>2, <1>5, <2>6, <3>1, <3>2 DEF Fits
  <2> QED
    BY <1>2, <2>2, <2>3, <2>4, <2>5, <2>7, Steps
<1>6. CASE ~User!CanTake(k)
  <2>1. /\ User!Told(a, "txRejected") /\ "txRejected" \in User!Ended
        /\ UNCHANGED <<held, idle, freshStaged, oldStaged, lockedSum, cancelledSum>>
    BY <1>3, <1>6 DEF User!Unlocked, User!Ended
  <2> QED
    BY <1>3, <2>1, TellsOnly
<1> QED
  BY <1>2, <1>4, <1>5, <1>6

LEMMA CancelledMoves ==
    ASSUME MoneyInv, NEW a \in User!Parties, User!Cancelled(a)
    PROVE  MoneyInv'
<1> DEFINE k == op[a].ask  g == op[a].got  b == op[a].base
<1>1. /\ AllMoney \in Nat /\ Numbers /\ Flags /\ op \in [User!Parties -> Operations]
      /\ OpFits(a, op[a], held) /\ op[a] \in Operations /\ Amount(lockedSum)
  BY MoneyFacts
<1>2. k \in Nat /\ g \in Nat /\ b \in Nat
  BY <1>1, OpOf
<1>3. /\ op[a].st = "cancel" /\ UNCHANGED <<held, idle, freshStaged, oldStaged, lockedSum>>
      /\ UNCHANGED <<recorded, sweeping, read, told>>
  BY DEF User!Cancelled
<1>4. CASE User!CanCancel
  <2>1. /\ cancelledSum' = lockedSum /\ User!Hears(a, "accepted")
        /\ op' = PutCancel(op, a, "accepted", lockedSum)
    BY <1>4 DEF User!Cancelled, PutCancel
  <2>2. op' = Placed(op, a, Op("accepted", k, lockedSum, g, b))
    BY <1>1, <2>1, PutsAre
  <2> HIDE DEF k, g, b
  <2>3. lockedSum \in Nat /\ Numbers'
    BY <1>1, <1>3, <2>1 DEF Numbers
  <2>4. Money' = Money /\ held' = held
    BY <1>3 DEF Money
  <2>5. Flags'
    BY <1>1, <1>3, <2>1, FlagsStay, Hearing DEF Flags, Promises
  <2>6. Fits(a, "accepted", k, lockedSum, g, b, held) /\ "accepted" \in States
    <3>1. /\ k <= AllMoney /\ g <= AllMoney /\ b <= AllMoney /\ lockedSum <= AllMoney
          /\ a = "ui" /\ g <= held
      BY <1>1, <1>3 DEF OpFits, Fits, k, g, b, Amount
    <3>2. "accepted" \in States
      BY DEF States, User!Began
    <3> QED
      BY <1>2, <2>3, <3>1, <3>2 DEF Fits
  <2> QED
    BY <1>2, <2>2, <2>3, <2>4, <2>5, <2>6, StepsAlone
<1>5. CASE ~User!CanCancel
  <2>1. /\ User!Told(a, "cancelFailed") /\ "cancelFailed" \in User!Ended
        /\ UNCHANGED <<held, idle, freshStaged, oldStaged, lockedSum, cancelledSum>>
    BY <1>3, <1>5 DEF User!Cancelled, User!Ended
  <2> QED
    BY <1>3, <2>1, TellsOnly
<1> QED
  BY <1>4, <1>5

\* A cancellation that was accepted is watched, or what is idle is asked for.
LEMMA WatchedMoves ==
    ASSUME MoneyInv, NEW a \in User!Parties, User!Watch(a) \/ User!Processed(a)
    PROVE  MoneyInv'
<1> DEFINE k == op[a].ask  c == op[a].cancel  g == op[a].got  b == op[a].base
<1>1. /\ AllMoney \in Nat /\ Numbers /\ Flags /\ op \in [User!Parties -> Operations]
      /\ OpFits(a, op[a], held) /\ op[a] \in Operations /\ Amount(idle)
  BY MoneyFacts
<1>2. k \in Nat /\ c \in Nat /\ g \in Nat /\ b \in Nat /\ idle \in Nat
  BY <1>1, OpOf DEF Amount
<1>3. /\ op[a].st = "accepted" \/ op[a].st = "watching"
      /\ UNCHANGED <<held, idle, freshStaged, oldStaged, lockedSum, cancelledSum>>
      /\ UNCHANGED <<recorded, sweeping, read, told, promise>>
      /\ \/ op' = PutBase(op, a, "watching", idle)
         \/ op' = PutAsk(op, a, "claim", idle)
  BY DEF User!Watch, User!Processed, User!account, PutBase, PutAsk
<1>4. /\ a = "ui" /\ k <= AllMoney /\ c <= AllMoney /\ g <= AllMoney /\ b <= AllMoney
      /\ g <= held /\ idle <= AllMoney
  BY <1>1, <1>3 DEF OpFits, Fits, Amount
<1>5. Flags'
  BY <1>1, <1>3, FlagsStay DEF Flags, Promises
<1>6. Numbers' /\ Money' = Money /\ held' = held
  BY <1>3, NumbersStay
<1>7. CASE op' = PutBase(op, a, "watching", idle)
  <2>1. op' = Placed(op, a, Op("watching", k, c, g, idle))
    BY <1>1, <1>7, PutsAre
  <2> HIDE DEF k, c, g, b
  <2>2. Fits(a, "watching", k, c, g, idle, held) /\ "watching" \in States
    BY <1>4 DEF Fits, States, User!Began
  <2> QED
    BY <1>2, <1>5, <1>6, <2>1, <2>2, StepsAlone
<1>8. CASE op' = PutAsk(op, a, "claim", idle)
  <2>1. op' = Placed(op, a, Op("claim", idle, c, g, b))
    BY <1>1, <1>8, PutsAre
  <2> HIDE DEF k, c, g, b
  <2>2. Fits(a, "claim", idle, c, g, b, held) /\ "claim" \in States
    BY <1>4 DEF Fits, States, User!Began
  <2> QED
    BY <1>2, <1>5, <1>6, <2>1, <2>2, StepsAlone
<1> QED
  BY <1>3, <1>7, <1>8

LEMMA ClaimedMoves ==
    ASSUME MoneyInv, NEW a \in User!Parties, User!Claimed(a)
    PROVE  MoneyInv'
<1> DEFINE k == op[a].ask  c == op[a].cancel  g == op[a].got  b == op[a].base
<1>1. /\ AllMoney \in Nat /\ Numbers /\ Flags /\ op \in [User!Parties -> Operations]
      /\ OpFits(a, op[a], held) /\ op[a] \in Operations
  BY MoneyFacts
<1>2. k \in Nat /\ c \in Nat /\ g \in Nat /\ b \in Nat
  BY <1>1, OpOf
<1>3. /\ op[a].st = "claim" /\ UNCHANGED <<held, lockedSum, cancelledSum>>
      /\ UNCHANGED <<recorded, sweeping, read, told>>
  BY DEF User!Claimed
<1>4. CASE User!CanTake(k)
  <2>1. /\ User!Take(k) /\ held' = held + 0 /\ held' = held /\ promise' = promise
        /\ op' = PutSt(op, a, "paying")
    BY <1>1, <1>3, <1>4 DEF User!Claimed, Numbers, PutSt
  <2>2. op' = Placed(op, a, Op("paying", k, c, g, b))
    BY <1>1, <2>1, PutsAre
  <2> HIDE DEF k, c, g, b
  <2>3. Numbers' /\ held' >= held /\ Moved(Money, Money', 0, k)
    BY <1>1, <1>2, <1>3, <1>4, <2>1, TakeMoves
  <2>4. Flags'
    BY <1>1, <1>3, <2>1, FlagsStay DEF Flags, Promises
  <2>5. PayOf(op[a]) = 0
    BY <1>3 DEF PayOf
  <2>6. Fits(a, "paying", k, c, g, b, held') /\ "paying" \in States
    <3>1. /\ k <= AllMoney /\ c <= AllMoney /\ g <= AllMoney /\ b <= AllMoney
          /\ a = "ui" /\ g <= held
      BY <1>1, <1>3 DEF OpFits, Fits, k, c, g, b
    <3> QED
      BY <2>1, <3>1 DEF Fits, States, User!Began
  <2> QED
    BY <1>2, <2>2, <2>3, <2>4, <2>5, <2>6, Steps
<1>5. CASE ~User!CanTake(k)
  <2>1. /\ User!Told(a, "txRejected") /\ "txRejected" \in User!Ended
        /\ UNCHANGED <<held, idle, freshStaged, oldStaged, lockedSum, cancelledSum>>
    BY <1>3, <1>5 DEF User!Claimed, User!Ended
  <2> QED
    BY <1>3, <2>1, TellsOnly
<1> QED
  BY <1>4, <1>5

LEMMA PaidMoves ==
    ASSUME MoneyInv, NEW a \in User!Parties, User!Paid(a)
    PROVE  MoneyInv'
<1> DEFINE k == op[a].ask  c == op[a].cancel  g == op[a].got  b == op[a].base
<1>1. /\ AllMoney \in Nat /\ Numbers /\ Flags /\ op \in [User!Parties -> Operations]
      /\ OpFits(a, op[a], held) /\ op[a] \in Operations
      /\ (op[a].st = "paying" => Amount(held + op[a].ask))
  BY MoneyFacts
<1>2. k \in Nat /\ c \in Nat /\ g \in Nat /\ b \in Nat /\ g + k \in Nat
  BY <1>1, OpOf
<1>3. /\ op[a].st = "paying"
      /\ UNCHANGED <<idle, freshStaged, oldStaged, lockedSum, cancelledSum>>
      /\ UNCHANGED <<recorded, sweeping, read, told>>
  BY DEF User!Paid, User!account
<1>4. CASE /\ held' = held + k /\ User!Hears(a, "success")
           /\ op' = [op EXCEPT ![a].st = "success", ![a].got = @ + op[a].ask]
  <2>1. op' = PutGot(op, a, "success", g + k)
    BY <1>1, <1>4 DEF PutGot
  <2>2. op' = Placed(op, a, Op("success", k, c, g + k, b))
    BY <1>1, <2>1, PutsAre
  <2>3. Amount(held + k)
    BY <1>1, <1>3
  <2> HIDE DEF k, c, g, b
  <2>4. Flags'
    BY <1>1, <1>3, <1>4, FlagsStay, Hearing DEF Flags, Promises
  <2>5. PICK h \in Nat, i \in Nat, f \in Nat, o \in Nat, l \in Nat, m \in Nat :
             /\ h = held /\ i = idle /\ f = freshStaged /\ o = oldStaged /\ l = lockedSum
             /\ m = h + k
    BY <1>1, <1>2 DEF Numbers
  <2>6. Numbers' /\ held' >= held
    BY <1>1, <1>2, <1>3, <1>4, <2>5 DEF Numbers
  <2>7. PayOf(op[a]) = k
    BY <1>3 DEF PayOf, k
  <2>8. Moved(Money, Money', k, 0)
    <3>1. Money = MoneyOf(h, i, f, o, l) /\ Money' = MoneyOf(m, i, f, o, l)
      BY <1>3, <1>4, <2>5 DEF Money
    <3>2. MoneyOf(m, i, f, o, l) + 0 <= MoneyOf(h, i, f, o, l) + k
      BY <1>2, <2>5 DEF MoneyOf
    <3> QED
      BY <1>2, <3>1, <3>2, MoneyIs DEF Moved
  <2>9. Fits(a, "success", k, c, g + k, b, held') /\ "success" \in States
    <3>1. /\ k <= AllMoney /\ c <= AllMoney /\ b <= AllMoney /\ g <= held /\ (a # "ui" => c = 0)
      BY <1>1, <1>3 DEF OpFits, Fits, k, c, g, b
    <3>2. g + k <= AllMoney
      BY <1>1, <1>2, <2>3, <2>5, <3>1 DEF Amount
    <3> QED
      BY <3>1, <3>2 DEF Fits, States, User!Ended
  <2> QED
    BY <1>2, <2>2, <2>4, <2>6, <2>7, <2>8, <2>9, Steps
<1>5. CASE User!Told(a, "outputError") /\ held' = held
  <2>1. "outputError" \in User!Ended
    BY DEF User!Ended
  <2> QED
    BY <1>3, <1>5, <2>1, TellsOnly
<1> QED
  BY <1>4, <1>5 DEF User!Paid

LEMMA NoOpBecomes ==
    ASSUME NEW s, NEW k, NEW c
    PROVE  /\ [User!NoOp EXCEPT !.st = s, !.ask = k, !.cancel = c] = Op(s, k, c, 0, 0)
           /\ [User!NoOp EXCEPT !.st = s, !.ask = k] = Op(s, k, 0, 0, 0)
<1> DEFINE F == {"st", "ask", "cancel", "got", "base"}
           n == User!NoOp
           r == [n EXCEPT !.st = s, !.ask = k, !.cancel = c]
           q == [n EXCEPT !.st = s, !.ask = k]
<1>1. DOMAIN n = F /\ n.cancel = 0 /\ n.got = 0 /\ n.base = 0
  BY DEF User!NoOp
<1> HIDE DEF n
<1>2. DOMAIN r = F /\ r.st = s /\ r.ask = k /\ r.cancel = c /\ r.got = 0 /\ r.base = 0
  BY <1>1
<1>3. DOMAIN q = F /\ q.st = s /\ q.ask = k /\ q.cancel = 0 /\ q.got = 0 /\ q.base = 0
  BY <1>1
<1>4. r = [x \in F |-> r[x]] /\ q = [x \in F |-> q[x]]
  BY <1>2, <1>3
<1> HIDE DEF r, q
<1>5. r = Op(s, k, c, 0, 0) /\ q = Op(s, k, 0, 0, 0)
  BY <1>2, <1>3, <1>4 DEF Op
<1> QED
  BY <1>5 DEF r, q, n

LEMMA StartsAre ==
    ASSUME NEW a, NEW k \in Nat, NEW c \in Nat, User!Start(a, k, c)
    PROVE  /\ a \in Actors
           /\ op' = Placed(op, a, Op(IF k > 0 THEN "unlock" ELSE "cancel", k, c, 0, 0))
<1> DEFINE s == IF k > 0 THEN "unlock" ELSE "cancel"
<1>1. op' = Placed(op, a, [User!NoOp EXCEPT !.st = s, !.ask = k, !.cancel = c]) /\ a \in Actors
  BY DEF User!Start, Placed
<1>2. [User!NoOp EXCEPT !.st = s, !.ask = k, !.cancel = c] = Op(s, k, c, 0, 0)
  BY NoOpBecomes
<1> QED
  BY <1>1, <1>2

LEMMA StartMoves ==
    ASSUME MoneyInv, User!StabilityOperationsAssumption, NEW a, NEW k \in Nat, NEW c \in Nat,
           User!Start(a, k, c), k <= AllMoney, c <= AllMoney, a # "ui" => k > 0 /\ c = 0, Flags',
           UNCHANGED <<held, idle, freshStaged, oldStaged, lockedSum, cancelledSum>>
    PROVE  MoneyInv'
<1>1. a \in User!Parties
  BY StartsAre DEF User!StabilityOperationsAssumption, User!Parties
<1>2. AllMoney \in Nat /\ held \in Nat
  BY MoneyFacts DEF Numbers
<1> DEFINE s == IF k > 0 THEN "unlock" ELSE "cancel"
<1>3. op' = Placed(op, a, Op(s, k, c, 0, 0))
  BY StartsAre
<1>4. s = "unlock" \/ (s = "cancel" /\ a = "ui")
  OBVIOUS
<1> HIDE DEF s
<1>5. s \in States /\ s # "paying"
  BY <1>4 DEF States, User!Began
<1>6. Fits(a, s, k, c, 0, 0, held)
  <2>1. CASE s = "unlock"
    BY <1>2, <2>1 DEF Fits
  <2>2. CASE s = "cancel" /\ a = "ui"
    BY <1>2, <2>2 DEF Fits
  <2> QED
    BY <1>4, <2>1, <2>2
<1>7. Numbers' /\ Money' = Money /\ held' = held
  BY NumbersStay
<1> QED
  BY <1>1, <1>3, <1>5, <1>6, <1>7, StepsAlone

LEMMA WithdrawMoves ==
    ASSUME MoneyInv, User!StabilityOperationsAssumption, User!Withdraw
    PROVE  MoneyInv'
<1>1. Flags /\ Knows(told) /\ AllMoney \in Nat
  BY MoneyFacts DEF Flags
<1>2. /\ UNCHANGED <<held, idle, freshStaged, oldStaged, lockedSum, cancelledSum>>
      /\ UNCHANGED <<recorded, sweeping, read, told>> /\ promise' = "called"
  BY DEF User!Withdraw, User!account
<1>3. Flags'
  BY <1>1, <1>2, FlagsStay DEF Promises
<1>4. PICK k \in {0, told.staged}, c \in {0, told.locked} : User!Start("ui", k, c)
  BY DEF User!Withdraw
<1>5. k \in Nat /\ c \in Nat /\ k <= AllMoney /\ c <= AllMoney
  BY <1>1, <1>4 DEF Knows, Amount
<1> QED
  BY <1>2, <1>3, <1>4, <1>5, StartMoves

LEMMA DepositMoves ==
    ASSUME MoneyInv, User!StabilityOperationsAssumption, User!Deposit
    PROVE  MoneyInv'
<1>1. Flags /\ AllMoney \in Nat /\ held \in Nat
  BY MoneyFacts DEF Numbers
<1>2. /\ UNCHANGED <<held, idle, freshStaged, oldStaged, lockedSum, cancelledSum>>
      /\ UNCHANGED <<recorded, sweeping, read, told>> /\ promise' = "called"
      /\ op' = Placed(op, "ui", Op("deposit", 1, 0, 0, 0))
  <2>1. op' = Placed(op, "ui", [User!NoOp EXCEPT !.st = "deposit", !.ask = 1])
    BY DEF User!Deposit, Placed
  <2>2. [User!NoOp EXCEPT !.st = "deposit", !.ask = 1] = Op("deposit", 1, 0, 0, 0)
    BY NoOpBecomes
  <2> QED
    BY <2>1, <2>2 DEF User!Deposit, User!account
<1>3. Flags'
  BY <1>1, <1>2, FlagsStay DEF Promises
<1>4. Fits("ui", "deposit", 1, 0, 0, 0, held) /\ "deposit" \in States
  <2>1. 1 <= AllMoney
    BY <1>1 DEF User!StabilityOperationsAssumption
  <2> QED
    BY <1>1, <2>1 DEF Fits, States, User!Began
<1>5. Numbers' /\ Money' = Money /\ held' = held /\ "ui" \in User!Parties
  BY <1>2, NumbersStay DEF User!Parties
<1> QED
  BY <1>2, <1>3, <1>4, <1>5, StepsAlone

LEMMA DepositedMoves ==
    ASSUME MoneyInv, User!Deposited
    PROVE  MoneyInv'
<1> DEFINE k == op["ui"].ask  c == op["ui"].cancel  g == op["ui"].got  b == op["ui"].base
<1>0. "ui" \in User!Parties
  BY DEF User!Parties
<1>1. /\ AllMoney \in Nat /\ Numbers /\ Flags /\ op \in [User!Parties -> Operations]
      /\ OpFits("ui", op["ui"], held) /\ op["ui"] \in Operations
  BY <1>0, MoneyFacts
<1>2. k \in Nat /\ c \in Nat /\ g \in Nat /\ b \in Nat
  BY <1>1, OpOf
<1>3. op["ui"].st = "deposit" /\ UNCHANGED <<recorded, sweeping, read, told>>
  BY DEF User!Deposited
<1>4. CASE /\ held >= k /\ held' = held - k /\ freshStaged' = freshStaged + k
           /\ User!Told("ui", "deposited")
           /\ UNCHANGED <<idle, oldStaged, lockedSum, cancelledSum>>
  <2>1. op' = Placed(op, "ui", Op("deposited", k, c, g, b)) /\ User!Hears("ui", "deposited")
    BY <1>0, <1>1, <1>4, ToldIs DEF User!Told
  <2>2. Fits("ui", "deposited", k, c, g, b, held')
    BY <1>1, <1>3 DEF OpFits, Fits
  <2> HIDE DEF k, c, g, b
  <2>3. Flags' /\ "deposited" \in States
    BY <1>1, <1>3, <2>1, FlagsStay, Hearing DEF Flags, Promises, States, User!Ended
  <2>4. PICK h \in Nat, i \in Nat, f \in Nat, o \in Nat, l \in Nat, m \in Nat, n \in Nat :
             /\ h = held /\ i = idle /\ f = freshStaged /\ o = oldStaged /\ l = lockedSum
             /\ m = h - k /\ n = f + k
    BY <1>1, <1>2, <1>4 DEF Numbers
  <2>5. Numbers'
    BY <1>1, <1>4, <2>4 DEF Numbers
  <2>6. PayOf(op["ui"]) = 0
    BY <1>3 DEF PayOf
  <2>7. Moved(Money, Money', 0, 0)
    <3>1. Money = MoneyOf(h, i, f, o, l) /\ Money' = MoneyOf(m, i, n, o, l)
      BY <1>4, <2>4 DEF Money
    <3>2. MoneyOf(m, i, n, o, l) + 0 <= MoneyOf(h, i, f, o, l) + 0
      BY <1>2, <2>4 DEF MoneyOf
    <3> QED
      BY <3>1, <3>2, MoneyIs DEF Moved
  <2> QED
    BY <1>0, <1>2, <2>1, <2>2, <2>3, <2>5, <2>6, <2>7, Steps
<1>5. CASE /\ User!Told("ui", "txRejected")
           /\ UNCHANGED <<held, idle, freshStaged, oldStaged, lockedSum, cancelledSum>>
  <2>1. "txRejected" \in User!Ended
    BY DEF User!Ended
  <2> QED
    BY <1>0, <1>3, <1>5, <2>1, TellsOnly
<1> QED
  BY <1>4, <1>5 DEF User!Deposited, User!account

\* What moves no money and changes no operation.
LEMMA OthersMove ==
    ASSUME MoneyInv,
           \/ User!Record \/ User!Listen \/ User!SweeperReads \/ User!Refresh
           \/ UNCHANGED User!vars
    PROVE  MoneyInv'
<1>1. /\ AllMoney \in Nat /\ Numbers /\ Flags /\ Amount(idle) /\ Amount(lockedSum)
      /\ Amount(cancelledSum) /\ Amount(idle + freshStaged + oldStaged)
      /\ Amount(freshStaged + oldStaged)
  BY MoneyFacts
<1>2. /\ op' = op
      /\ UNCHANGED <<held, idle, freshStaged, oldStaged, lockedSum, cancelledSum>>
  BY DEF User!Record, User!Listen, User!SweeperReads, User!Refresh, User!vars, User!account
<1>3. Numbers' /\ Money' = Money /\ held' = held
  BY <1>2, NumbersStay
<1>4. Flags'
  <2>1. CASE User!Record \/ User!Listen
    BY <1>1, <2>1 DEF Flags, User!Record, User!Listen
  <2>2. CASE User!SweeperReads
    <3>1. read' = (freshStaged + oldStaged) + idle
      BY <2>2 DEF User!SweeperReads, User!Staged
    <3>2. Amount(read')
      <4>1. PICK i \in Nat, f \in Nat, o \in Nat : i = idle /\ f = freshStaged /\ o = oldStaged
        BY <1>1 DEF Numbers
      <4>2. (f + o) + i = i + f + o
        OBVIOUS
      <4> QED
        BY <1>1, <3>1, <4>1, <4>2
    <3>3. UNCHANGED <<recorded, sweeping, told, promise>>
      BY <2>2 DEF User!SweeperReads
    <3> QED
      BY <1>1, <3>2, <3>3 DEF Flags
  <2>3. CASE User!Refresh
    <3>1. /\ told' = [idle |-> idle, staged |-> freshStaged + oldStaged, locked |-> lockedSum,
                       cancelled |-> cancelledSum]
          /\ sweeping' \in BOOLEAN
      <4>1. sweeping' \in BOOLEAN
        BY <1>1, <2>3 DEF User!Refresh, User!Forgets, Flags
      <4> QED
        BY <2>3, <4>1 DEF User!Refresh, User!Staged
    <3>2. Knows(told')
      BY <1>1, <3>1 DEF Knows
    <3>3. UNCHANGED <<recorded, read, promise>>
      BY <2>3 DEF User!Refresh
    <3> QED
      BY <1>1, <3>1, <3>2, <3>3 DEF Flags
  <2>4. CASE UNCHANGED User!vars
    BY <1>1, <2>4 DEF Flags, User!vars
  <2> QED
    BY <2>1, <2>2, <2>3, <2>4
<1> QED
  BY <1>2, <1>3, <1>4, MoneyStays

LEMMA SweepsMove ==
    ASSUME MoneyInv, User!StabilityOperationsAssumption, User!SweeperWithdraws \/ User!Sweep
    PROVE  MoneyInv'
<1>1. AllMoney \in Nat /\ Flags /\ Knows(told) /\ Amount(read)
  BY MoneyFacts DEF Flags
<1>2. /\ UNCHANGED <<held, idle, freshStaged, oldStaged, lockedSum, cancelledSum>>
      /\ UNCHANGED <<recorded, told, promise>>
  BY DEF User!SweeperWithdraws, User!Sweep, User!account
<1>3. CASE User!SweeperWithdraws
  <2>1. read > 0 /\ User!Start("sweeper", read, 0) /\ read' = 0 /\ sweeping' = sweeping
    BY <1>3 DEF User!SweeperWithdraws
  <2>2. Flags'
    BY <1>1, <1>2, <2>1 DEF Flags, Amount
  <2>3. read \in Nat /\ read <= AllMoney /\ 0 <= AllMoney
    BY <1>1 DEF Amount
  <2> QED
    BY <1>2, <2>1, <2>2, <2>3, StartMoves
<1>4. CASE User!Sweep
  <2>1. /\ told.idle > 0 /\ sweeping' = TRUE /\ read' = read
        /\ User!Start("monitor", told.idle, 0) \/ op' = op
    BY <1>4 DEF User!Sweep
  <2>2. Flags'
    BY <1>1, <1>2, <2>1 DEF Flags
  <2>3. told.idle \in Nat /\ told.idle <= AllMoney /\ 0 <= AllMoney
    BY <1>1 DEF Amount, Knows
  <2>4. CASE User!Start("monitor", told.idle, 0)
    BY <1>2, <2>1, <2>2, <2>3, <2>4, StartMoves
  <2>5. CASE op' = op
    <3>1. Numbers' /\ Money' = Money /\ held' = held
      BY <1>2, NumbersStay
    <3> QED
      BY <2>2, <2>5, <3>1, MoneyStays
  <2> QED
    BY <2>1, <2>4, <2>5
<1> QED
  BY <1>3, <1>4

LEMMA TurnOverMoves ==
    ASSUME MoneyInv, User!TurnOver
    PROVE  MoneyInv'
<1>1. AllMoney \in Nat /\ Numbers /\ Flags
  BY MoneyFacts
<1>2. PICK h \in Nat, i \in Nat, f \in Nat, o \in Nat, l \in Nat, c \in Nat :
           /\ h = held /\ i = idle /\ f = freshStaged /\ o = oldStaged /\ l = lockedSum
           /\ c = cancelledSum /\ c <= l
  BY <1>1 DEF Numbers
<1>3. PICK x \in Nat : x \in {0, f + o} /\ lockedSum' = l - c + x /\ oldStaged' = f + o - x
  <2>1. PICK x \in {0, f + o} : lockedSum' = l - c + x /\ oldStaged' = f + o - x
    BY <1>2 DEF User!TurnOver, User!Staged
  <2> QED
    BY <2>1
<1>4. /\ freshStaged' = 0 /\ idle' = i + c /\ cancelledSum' = 0 /\ recorded' = FALSE
      /\ UNCHANGED <<held, op, told, sweeping, read, promise>>
  BY <1>2 DEF User!TurnOver
<1>5. PICK j \in Nat, n \in Nat, q \in Nat : j = i + c /\ n = f + o - x /\ q = l - c + x
  BY <1>2, <1>3
<1>6. Numbers'
  BY <1>1, <1>3, <1>4, <1>5 DEF Numbers
<1>7. Money' = Money
  <2>1. Money = MoneyOf(h, i, f, o, l) /\ Money' = MoneyOf(h, j, 0, n, q)
    BY <1>2, <1>3, <1>4, <1>5 DEF Money
  <2>2. MoneyOf(h, i, f, o, l) = MoneyOf(h, j, 0, n, q)
    BY <1>2, <1>5 DEF MoneyOf
  <2> QED
    BY <2>1, <2>2
<1>8. Flags'
  BY <1>1, <1>4 DEF Flags
<1> QED
  BY <1>4, <1>6, <1>7, <1>8, MoneyStays

LEMMA MoneyGoesOn ==
    ASSUME User!StabilityOperationsAssumption, MoneyInv, [User!Next]_(User!vars)
    PROVE  MoneyInv'
<1>1. ASSUME NEW a \in Actors, User!Progress(a) PROVE MoneyInv'
  <2>1. a \in User!Parties
    BY DEF User!StabilityOperationsAssumption, User!Parties
  <2> QED
    BY <1>1, <2>1, UnlockedMoves, CancelledMoves, WatchedMoves, ClaimedMoves, PaidMoves
       DEF User!Progress
<1>2. CASE User!TurnOver \/ User!Deposited
  BY <1>2, TurnOverMoves, DepositedMoves
<1>3. CASE User!Withdraw \/ User!Deposit
  BY <1>3, WithdrawMoves, DepositMoves
<1>4. CASE User!SweeperWithdraws \/ User!Sweep
  BY <1>4, SweepsMove
<1>5. CASE User!Record \/ User!Listen \/ User!SweeperReads \/ User!Refresh \/ UNCHANGED User!vars
  BY <1>5, OthersMove
<1> QED
  BY <1>1, <1>2, <1>3, <1>4, <1>5 DEF User!Next

LEMMA MoneyAtFirst ==
    ASSUME User!StabilityOperationsAssumption, User!Init
    PROVE  MoneyInv
<1>1. AllMoney \in Nat
  BY DEF User!StabilityOperationsAssumption
<1>2. PICK i \in Nat, o \in Nat, l \in Nat :
           /\ i = idle /\ o = oldStaged /\ l = lockedSum /\ i + o + l = AllMoney
  BY <1>1 DEF User!Init
<1>3. /\ held = 0 /\ freshStaged = 0 /\ cancelledSum = 0 /\ recorded = FALSE /\ sweeping = FALSE
      /\ read = 0 /\ promise = "none"
      /\ told = [idle |-> idle, staged |-> oldStaged, locked |-> lockedSum, cancelled |-> 0]
      /\ op = [a \in User!Parties |-> User!NoOp]
  BY DEF User!Init
<1>4. Numbers
  BY <1>2, <1>3 DEF Numbers
<1>5. Flags
  <2>1. Amount(0) /\ Amount(i) /\ Amount(o) /\ Amount(l)
    BY <1>1, <1>2 DEF Amount
  <2>2. told.idle = i /\ told.staged = o /\ told.locked = l /\ told.cancelled = 0
    BY <1>2, <1>3
  <2> QED
    BY <1>3, <2>1, <2>2 DEF Flags, Knows
<1>6. User!NoOp = Op("none", 0, 0, 0, 0) /\ "none" \in States
  BY DEF User!NoOp, Op, States, User!Ended
<1>7. /\ User!NoOp \in Operations /\ PayOf(User!NoOp) = 0
      /\ \A a : OpFits(a, User!NoOp, held)
  <2>1. \A a : Fits(a, "none", 0, 0, 0, 0, held)
    BY <1>1 DEF Fits
  <2> QED
    BY <1>6, <2>1, OpIs DEF OpFits
<1>8. OpsFit
  BY <1>3, <1>7 DEF OpsFit
<1>9. Money + Paying(op) <= AllMoney
  <2>1. Paying(op) = 0
    BY <1>3, <1>7 DEF Paying, User!Parties
  <2>2. Money = MoneyOf(0, i, 0, o, l)
    BY <1>2, <1>3 DEF Money
  <2> QED
    BY <1>2, <2>1, <2>2 DEF MoneyOf
<1> QED
  BY <1>1, <1>4, <1>5, <1>8, <1>9 DEF MoneyInv

LEMMA MoneyIsTyped ==
    ASSUME User!StabilityOperationsAssumption, MoneyInv
    PROVE  User!TypeOK
<1>1. /\ AllMoney \in Nat /\ Numbers /\ Flags /\ Amount(held) /\ Amount(idle)
      /\ Amount(lockedSum) /\ Amount(cancelledSum)
      /\ \A a \in User!Parties : OpFits(a, op[a], held) /\ op[a] \in Operations
      /\ Amount(freshStaged + oldStaged)
  BY MoneyFacts
<1>2. Amount(freshStaged) /\ Amount(oldStaged)
  <2>1. PICK f \in Nat, o \in Nat : f = freshStaged /\ o = oldStaged
    BY <1>1 DEF Numbers
  <2> QED
    BY <1>1, <2>1 DEF Amount
<1>3. \A n : Amount(n) => n \in 0 .. AllMoney
  BY <1>1 DEF Amount
<1>4. /\ {held, idle, freshStaged, oldStaged, lockedSum, cancelledSum, read} \subseteq 0 .. AllMoney
      /\ cancelledSum <= lockedSum
  BY <1>1, <1>2, <1>3 DEF Flags, Numbers
<1>5. {told.idle, told.staged, told.locked, told.cancelled} \subseteq 0 .. AllMoney
  BY <1>1, <1>3 DEF Flags, Knows
<1>6. ASSUME NEW a \in Actors
      PROVE  /\ op[a].st \in User!Ended \cup User!Began
             /\ {op[a].ask, op[a].cancel, op[a].got, op[a].base} \subseteq 0 .. AllMoney
  <2>1. a \in User!Parties
    BY DEF User!StabilityOperationsAssumption, User!Parties
  <2>2. OpFits(a, op[a], held) /\ op[a] \in Operations
    BY <1>1, <2>1
  <2>3. /\ Amount(op[a].ask) /\ Amount(op[a].cancel) /\ Amount(op[a].got) /\ Amount(op[a].base)
        /\ op[a].st \in States
    BY <2>2, OpOf DEF OpFits, Fits, Amount
  <2> QED
    BY <1>3, <2>3 DEF States
<1> QED
  BY <1>1, <1>4, <1>5, <1>6 DEF User!TypeOK, Flags

-----------------------------------------------------------------------------
\* What an operation of the user will have paid, at s with k asked, c cancelled, g got and b
\* idle at first; i is idle now and x waits to be.
PaysAll(s, k, c, g, b, i, x) ==
    /\ s = "accepted" => IF x > 0 THEN x = c ELSE i >= c
    /\ s = "watching" => IF x > 0 THEN x = c /\ i = b ELSE i >= b + c
    /\ s = "claim" => k >= c
    /\ s = "paying" => g + k >= c
    /\ s = "success" => g >= c
PaysAllOf(o, i, x) == PaysAll(o.st, o.ask, o.cancel, o.got, o.base, i, x)
PaidInv == PaysAllOf(op["ui"], idle, cancelledSum)

LEMMA PutIs ==
    ASSUME NEW f \in [User!Parties -> Operations], NEW a \in User!Parties, NEW o
    PROVE  /\ Placed(f, a, o)[a] = o
           /\ \A b \in User!Parties : b # a => Placed(f, a, o)[b] = f[b]
  BY DEF Placed

\* What the operation of the user becomes, and what is idle and to be cancelled.
LEMMA UserBecomes ==
    ASSUME MoneyInv, NEW s \in States, NEW k \in Nat, NEW c \in Nat, NEW g \in Nat, NEW b \in Nat,
           op' = Placed(op, "ui", Op(s, k, c, g, b)), PaysAll(s, k, c, g, b, idle', cancelledSum')
    PROVE  PaidInv'
<1>1. op \in [User!Parties -> Operations] /\ "ui" \in User!Parties
  BY MoneyFacts DEF User!Parties
<1>2. op'["ui"] = Op(s, k, c, g, b)
  BY <1>1, PutIs
<1>3. PaysAllOf(Op(s, k, c, g, b), idle', cancelledSum')
  BY OpIs DEF PaysAllOf
<1> QED
  BY <1>2, <1>3 DEF PaidInv

LEMMA PaidGoesOn ==
    ASSUME User!StabilityOperationsAssumption, Actors \subseteq {"ui"}, MoneyInv, PaidInv,
           [User!Next]_(User!vars)
    PROVE  PaidInv'
<1> DEFINE k == op["ui"].ask  c == op["ui"].cancel  g == op["ui"].got  b == op["ui"].base
           st == op["ui"].st
<1>1. /\ AllMoney \in Nat /\ Numbers /\ Flags /\ op \in [User!Parties -> Operations]
      /\ op["ui"] \in Operations /\ "ui" \in User!Parties /\ OpFits("ui", op["ui"], held)
  BY MoneyFacts DEF User!Parties
<1>2. /\ k \in Nat /\ c \in Nat /\ g \in Nat /\ b \in Nat /\ st \in States
      /\ idle \in Nat /\ cancelledSum \in Nat /\ lockedSum \in Nat
  BY <1>1, OpOf DEF Numbers
<1>3. PaysAll(st, k, c, g, b, idle, cancelledSum)
  BY DEF PaidInv, PaysAllOf
<1>4. CASE UNCHANGED <<op, idle, cancelledSum>>
  BY <1>4 DEF PaidInv
<1>5. CASE User!Record \/ User!Listen \/ User!SweeperReads \/ User!Refresh \/ UNCHANGED User!vars
  BY <1>4, <1>5 DEF User!Record, User!Listen, User!SweeperReads, User!Refresh, User!vars,
     User!account
<1>6. CASE User!TurnOver
  <2>1. op' = op /\ idle' = idle + cancelledSum /\ cancelledSum' = 0
    BY <1>6 DEF User!TurnOver
  <2> HIDE DEF k, c, g, b, st
  <2>2. PaysAll(st, k, c, g, b, idle + cancelledSum, 0)
    <3>1. PICK i \in Nat, x \in Nat : i = idle /\ x = cancelledSum
      BY <1>2
    <3> QED
      BY <1>2, <1>3, <3>1 DEF PaysAll
  <2> QED
    BY <2>1, <2>2 DEF PaidInv, PaysAllOf, k, c, g, b, st
<1>7. CASE User!Withdraw
  <2>1. PICK x \in {0, told.staged}, y \in {0, told.locked} : User!Start("ui", x, y)
    BY <1>7 DEF User!Withdraw
  <2>2. x \in Nat /\ y \in Nat
    BY <1>1, <2>1 DEF Flags, Knows, Amount
  <2>3. op' = Placed(op, "ui", Op(IF x > 0 THEN "unlock" ELSE "cancel", x, y, 0, 0))
    BY <2>1, <2>2, StartsAre
  <2>4. PICK s \in States : s = IF x > 0 THEN "unlock" ELSE "cancel"
    BY DEF States, User!Began
  <2>5. PaysAll(s, x, y, 0, 0, idle', cancelledSum')
    BY <2>4 DEF PaysAll
  <2> QED
    BY <2>2, <2>3, <2>4, <2>5, UserBecomes
<1>8. CASE User!Deposit
  <2>1. op' = Placed(op, "ui", [User!NoOp EXCEPT !.st = "deposit", !.ask = 1])
    BY <1>8 DEF User!Deposit, Placed
  <2>2. op' = Placed(op, "ui", Op("deposit", 1, 0, 0, 0)) /\ "deposit" \in States
    BY <2>1, NoOpBecomes DEF States, User!Began
  <2>3. PaysAll("deposit", 1, 0, 0, 0, idle', cancelledSum')
    BY DEF PaysAll
  <2> QED
    BY <2>2, <2>3, UserBecomes
<1>9. ASSUME NEW s \in User!Ended \ {"success"}, User!Told("ui", s) PROVE PaidInv'
  <2>1. op' = Placed(op, "ui", Op(s, k, c, g, b))
    BY <1>1, <1>9, ToldIs
  <2>2. s \in States /\ s \notin {"accepted", "watching", "claim", "paying", "success"}
    BY DEF States, User!Ended
  <2> HIDE DEF k, c, g, b
  <2>3. PaysAll(s, k, c, g, b, idle', cancelledSum')
    BY <2>2 DEF PaysAll
  <2> QED
    BY <1>2, <2>1, <2>2, <2>3, UserBecomes
<1>10. CASE User!Deposited
  BY <1>9, <1>10 DEF User!Deposited, User!Ended
<1>11. CASE User!Unlocked("ui")
  <2>1. CASE /\ op' = PutGot(op, "ui", "cancel", k) /\ c > 0
    <3>1. op' = Placed(op, "ui", Op("cancel", k, c, k, b)) /\ "cancel" \in States
      BY <1>1, <2>1, PutsAre DEF States, User!Began
    <3>2. PaysAll("cancel", k, c, k, b, idle', cancelledSum')
      BY DEF PaysAll
    <3> QED
      BY <1>2, <3>1, <3>2, UserBecomes
  <2>2. CASE /\ op' = PutGot(op, "ui", "paying", 0) /\ ~(c > 0)
    <3>1. op' = Placed(op, "ui", Op("paying", k, c, 0, b)) /\ "paying" \in States
      BY <1>1, <2>2, PutsAre DEF States, User!Began
    <3> HIDE DEF k, c, g, b
    <3>2. PaysAll("paying", k, c, 0, b, idle', cancelledSum')
      BY <1>2, <2>2 DEF PaysAll
    <3> QED
      BY <1>2, <3>1, <3>2, UserBecomes
  <2>3. CASE User!Told("ui", "txRejected")
    BY <1>9, <2>3 DEF User!Ended
  <2> QED
    BY <1>11, <2>1, <2>2, <2>3 DEF User!Unlocked, PutGot
<1>12. CASE User!Cancelled("ui")
  <2>1. CASE /\ op' = PutCancel(op, "ui", "accepted", lockedSum) /\ cancelledSum' = lockedSum
             /\ lockedSum > 0
    <3>1. op' = Placed(op, "ui", Op("accepted", k, lockedSum, g, b)) /\ "accepted" \in States
      BY <1>1, <2>1, PutsAre DEF States, User!Began
    <3> HIDE DEF k, c, g, b
    <3>2. PaysAll("accepted", k, lockedSum, g, b, idle', cancelledSum')
      BY <1>2, <2>1 DEF PaysAll
    <3> QED
      BY <1>2, <3>1, <3>2, UserBecomes
  <2>2. CASE User!Told("ui", "cancelFailed")
    BY <1>9, <2>2 DEF User!Ended
  <2> QED
    BY <1>12, <2>1, <2>2 DEF User!Cancelled, User!CanCancel, PutCancel
<1>13. CASE User!Watch("ui")
  <2>1. st = "accepted" /\ UNCHANGED <<idle, cancelledSum>>
    BY <1>13 DEF User!Watch, User!account
  <2>2. CASE op' = PutBase(op, "ui", "watching", idle) /\ cancelledSum > 0
    <3>1. op' = Placed(op, "ui", Op("watching", k, c, g, idle)) /\ "watching" \in States
      BY <1>1, <2>2, PutsAre DEF States, User!Began
    <3> HIDE DEF k, c, g, b, st
    <3>2. PaysAll("watching", k, c, g, idle, idle', cancelledSum')
      BY <1>2, <1>3, <2>1, <2>2 DEF PaysAll
    <3> QED
      BY <1>2, <3>1, <3>2, UserBecomes
  <2>3. CASE op' = PutAsk(op, "ui", "claim", idle) /\ cancelledSum = 0
    <3>1. op' = Placed(op, "ui", Op("claim", idle, c, g, b)) /\ "claim" \in States
      BY <1>1, <2>3, PutsAre DEF States, User!Began
    <3> HIDE DEF k, c, g, b, st
    <3>2. PaysAll("claim", idle, c, g, b, idle', cancelledSum')
      BY <1>2, <1>3, <2>1, <2>3 DEF PaysAll
    <3> QED
      BY <1>2, <3>1, <3>2, UserBecomes
  <2> QED
    BY <1>13, <2>2, <2>3 DEF User!Watch, PutBase, PutAsk
<1>14. CASE User!Processed("ui")
  <2>1. /\ st = "watching" /\ UNCHANGED <<idle, cancelledSum>> /\ idle > b
        /\ op' = PutAsk(op, "ui", "claim", idle)
    BY <1>14 DEF User!Processed, User!account, PutAsk
  <2>2. op' = Placed(op, "ui", Op("claim", idle, c, g, b)) /\ "claim" \in States
    BY <1>1, <2>1, PutsAre DEF States, User!Began
  <2> HIDE DEF k, c, g, b, st
  <2>3. PaysAll("claim", idle, c, g, b, idle', cancelledSum')
    BY <1>2, <1>3, <2>1 DEF PaysAll
  <2> QED
    BY <1>2, <2>2, <2>3, UserBecomes
<1>15. CASE User!Claimed("ui")
  <2>1. CASE op' = PutSt(op, "ui", "paying") /\ st = "claim"
    <3>1. op' = Placed(op, "ui", Op("paying", k, c, g, b)) /\ "paying" \in States
      BY <1>1, <2>1, PutsAre DEF States, User!Began
    <3> HIDE DEF k, c, g, b, st
    <3>2. PaysAll("paying", k, c, g, b, idle', cancelledSum')
      BY <1>2, <1>3, <2>1 DEF PaysAll
    <3> QED
      BY <1>2, <3>1, <3>2, UserBecomes
  <2>2. CASE User!Told("ui", "txRejected")
    BY <1>9, <2>2 DEF User!Ended
  <2> QED
    BY <1>15, <2>1, <2>2 DEF User!Claimed, PutSt
<1>16. CASE User!Paid("ui")
  <2>1. CASE /\ op' = [op EXCEPT !["ui"].st = "success", !["ui"].got = @ + op["ui"].ask]
             /\ st = "paying"
    <3>1. op' = PutGot(op, "ui", "success", g + k)
      BY <1>1, <2>1 DEF PutGot
    <3>2. op' = Placed(op, "ui", Op("success", k, c, g + k, b)) /\ "success" \in States
      BY <1>1, <3>1, PutsAre DEF States, User!Ended
    <3> HIDE DEF k, c, g, b, st
    <3>3. PaysAll("success", k, c, g + k, b, idle', cancelledSum') /\ g + k \in Nat
      BY <1>2, <1>3, <2>1 DEF PaysAll
    <3> QED
      BY <1>2, <3>2, <3>3, UserBecomes
  <2>2. CASE User!Told("ui", "outputError")
    BY <1>9, <2>2 DEF User!Ended
  <2> QED
    BY <1>16, <2>1, <2>2 DEF User!Paid
<1>17. ASSUME NEW a \in Actors, User!Progress(a) PROVE PaidInv'
  <2>1. a = "ui"
    OBVIOUS
  <2> QED
    BY <1>11, <1>12, <1>13, <1>14, <1>15, <1>16, <1>17, <2>1 DEF User!Progress
<1>18. ~User!SweeperWithdraws /\ ~(User!Sweep)
  BY DEF User!SweeperWithdraws, User!Start, User!Sweep
<1> QED
  BY <1>5, <1>6, <1>7, <1>8, <1>10, <1>17, <1>18 DEF User!Next

-----------------------------------------------------------------------------
\* Where the user does nothing, what is left of an account of i idle, f and o staged.
LeftOf(i, f, o) == i + f + o
StillThere == LeftOf(idle, freshStaged, oldStaged)
\* The sweeper asks for all there is or more, r what it read and k what it asks; the hook for
\* what is idle or less, m, and once, w; it knows of n. i is idle now and t is left.
SweepFits(rs, r, k, ms, m, w, n, i, t) ==
    /\ r > 0 => r >= t
    /\ rs = "unlock" => k >= t
    /\ ms = "unlock" => (m <= i \/ t = 0) /\ (w \/ t = 0)
    /\ n <= i \/ w \/ t = 0
SweepInv ==
    /\ cancelledSum = 0
    /\ SweepFits(op["sweeper"].st, read, op["sweeper"].ask, op["monitor"].st, op["monitor"].ask,
                 sweeping, told.idle, idle, StillThere)

LEMMA LeftIs ==
    ASSUME NEW i \in Nat, NEW f \in Nat, NEW o \in Nat
    PROVE  LeftOf(i, f, o) \in Nat /\ i <= LeftOf(i, f, o) /\ LeftOf(i, f, o) = i + f + o
  BY DEF LeftOf

\* A withdrawal of n leaves n less, and what is staged if it is of what is idle.
LEMMA TakesLeave ==
    ASSUME Numbers, NEW n \in Nat, User!CanTake(n), User!Take(n)
    PROVE  /\ StillThere \in Nat /\ StillThere' \in Nat /\ n <= StillThere /\ StillThere' = StillThere - n
           /\ idle \in Nat /\ idle' \in Nat /\ idle' <= idle /\ idle <= StillThere
           /\ n <= idle => freshStaged' = freshStaged /\ oldStaged' = oldStaged
<1>1. PICK i \in Nat, f \in Nat, o \in Nat : i = idle /\ f = freshStaged /\ o = oldStaged
  BY DEF Numbers
<1>2. PICK x \in Nat, y \in Nat, z \in Nat :
            /\ x + y + z = n /\ x <= i /\ y <= f /\ z <= o
            /\ idle' = i - x /\ freshStaged' = f - y /\ oldStaged' = o - z
            /\ n <= i => y = 0 /\ z = 0
  BY <1>1, TakesAre
<1>3. PICK j \in Nat, e \in Nat, q \in Nat : j = i - x /\ e = f - y /\ q = o - z
  BY <1>2
<1>4. StillThere = LeftOf(i, f, o) /\ StillThere' = LeftOf(j, e, q)
  BY <1>1, <1>2, <1>3 DEF StillThere
<1>5. LeftOf(i, f, o) = i + f + o /\ LeftOf(j, e, q) = j + e + q /\ i <= LeftOf(i, f, o)
  BY DEF LeftOf
<1>6. n <= i + f + o /\ j + e + q = i + f + o - n /\ j <= i
  BY <1>2, <1>3
<1>7. n <= i => e = f /\ q = o
  BY <1>2, <1>3
<1>8. /\ idle = i /\ idle' = j /\ freshStaged = f /\ freshStaged' = e
      /\ oldStaged = o /\ oldStaged' = q
  BY <1>1, <1>2, <1>3
<1>9. i + f + o \in Nat /\ j + e + q \in Nat
  OBVIOUS
<1> QED
  BY <1>4, <1>5, <1>6, <1>7, <1>8, <1>9

\* The operations of the sweeper and of the hook, as numbers.
LEMMA SweepFacts ==
    ASSUME MoneyInv
    PROVE  /\ op \in [User!Parties -> Operations] /\ Numbers
           /\ "sweeper" \in User!Parties /\ "monitor" \in User!Parties
           /\ \A a \in {"sweeper", "monitor"} :
                 /\ op[a].ask \in Nat /\ op[a].cancel \in Nat /\ op[a].got \in Nat
                 /\ op[a].base \in Nat /\ op[a].st \in States /\ OpFits(a, op[a], held)
                 /\ op[a].st \notin {"deposit", "cancel", "accepted", "watching", "claim"}
                 /\ op[a].cancel = 0 /\ (op[a].st = "unlock" => op[a].ask > 0)
           /\ read \in Nat /\ told.idle \in Nat /\ sweeping \in BOOLEAN
           /\ idle \in Nat /\ StillThere \in Nat /\ idle <= StillThere
<1>1. /\ op \in [User!Parties -> Operations] /\ Numbers /\ Flags
      /\ \A a \in User!Parties : OpFits(a, op[a], held) /\ op[a] \in Operations
  BY MoneyFacts
<1>2. "sweeper" \in User!Parties /\ "monitor" \in User!Parties
  BY DEF User!Parties
<1>3. read \in Nat /\ told.idle \in Nat /\ sweeping \in BOOLEAN
  BY <1>1 DEF Flags, Knows, Amount
<1>4. idle \in Nat /\ StillThere \in Nat /\ idle <= StillThere
  BY <1>1, LeftIs DEF Numbers, StillThere
<1>5. ASSUME NEW a \in {"sweeper", "monitor"}
      PROVE  /\ op[a].ask \in Nat /\ op[a].cancel \in Nat /\ op[a].got \in Nat
             /\ op[a].base \in Nat /\ op[a].st \in States /\ OpFits(a, op[a], held)
             /\ op[a].st \notin {"deposit", "cancel", "accepted", "watching", "claim"}
             /\ op[a].cancel = 0 /\ (op[a].st = "unlock" => op[a].ask > 0)
  <2>1. op[a] \in Operations /\ OpFits(a, op[a], held) /\ a # "ui"
    BY <1>1, <1>2
  <2>2. /\ op[a].ask \in Nat /\ op[a].cancel \in Nat /\ op[a].got \in Nat /\ op[a].base \in Nat
        /\ op[a].st \in States
    BY <2>1, OpOf
  <2>3. /\ op[a].st \notin {"deposit", "cancel", "accepted", "watching", "claim"}
        /\ op[a].cancel = 0 /\ (op[a].st = "unlock" => op[a].ask > 0)
    BY <2>1 DEF OpFits, Fits
  <2> QED
    BY <2>1, <2>2, <2>3
<1> QED
  BY <1>1, <1>2, <1>3, <1>4, <1>5

\* Less is left and no more is idle than before; the operations ask for no more, nor do they
\* begin.
LEMMA SweepShrinks ==
    ASSUME MoneyInv, SweepInv, cancelledSum' = 0,
           StillThere' \in Nat, idle' \in Nat, StillThere' <= StillThere,
           idle' = idle \/ (sweeping /\ op["monitor"].st # "unlock") \/ StillThere' = 0
                        \/ (sweeping /\ op'["monitor"].st # "unlock"),
           op'["sweeper"].st = "unlock" => op'["sweeper"] = op["sweeper"],
           op'["monitor"].st = "unlock" => op'["monitor"] = op["monitor"],
           UNCHANGED <<read, sweeping, told>>
    PROVE  SweepInv'
<1> DEFINE rs == op["sweeper"].st  k == op["sweeper"].ask
           ms == op["monitor"].st  m == op["monitor"].ask  n == told.idle
<1>1. /\ read \in Nat /\ k \in Nat /\ m \in Nat /\ n \in Nat /\ idle \in Nat /\ StillThere \in Nat
      /\ sweeping \in BOOLEAN
  BY SweepFacts
<1>2. SweepFits(rs, read, k, ms, m, sweeping, n, idle, StillThere)
  BY DEF SweepInv
<1>3. /\ op'["sweeper"].st = "unlock" => rs = "unlock" /\ op'["sweeper"].ask = k
      /\ op'["monitor"].st = "unlock" => ms = "unlock" /\ op'["monitor"].ask = m
  OBVIOUS
<1>4. PICK r \in Nat, i \in Nat, j \in Nat, t \in Nat, u \in Nat :
           r = read /\ i = idle /\ j = idle' /\ t = StillThere /\ u = StillThere' /\ u <= t
  BY <1>1
<1> DEFINE rs2 == op'["sweeper"].st  k2 == op'["sweeper"].ask
           ms2 == op'["monitor"].st  m2 == op'["monitor"].ask
<1> HIDE DEF rs, k, ms, m, n, rs2, k2, ms2, m2
<1>5. /\ rs2 = "unlock" => rs = "unlock" /\ k2 = k
      /\ ms2 = "unlock" => ms = "unlock" /\ m2 = m
  BY <1>3 DEF rs, k, ms, m, rs2, k2, ms2, m2
<1>6. j = i \/ (sweeping /\ ms # "unlock") \/ u = 0 \/ (sweeping /\ ms2 # "unlock")
  BY <1>4 DEF ms, ms2
<1>7. SweepFits(rs2, r, k2, ms2, m2, sweeping, n, j, u)
  <2>1. r > 0 => r >= u
    BY <1>2, <1>4 DEF SweepFits
  <2>2. rs2 = "unlock" => k2 >= u
    BY <1>1, <1>2, <1>4, <1>5 DEF SweepFits
  <2>3. t = 0 => u = 0
    BY <1>4
  <2>4. ms2 = "unlock" => (m2 <= j \/ u = 0) /\ (sweeping \/ u = 0)
    BY <1>2, <1>4, <1>5, <1>6, <2>3 DEF SweepFits
  <2>5. n <= j \/ sweeping \/ u = 0
    BY <1>2, <1>4, <1>6, <2>3 DEF SweepFits
  <2> QED
    BY <2>1, <2>2, <2>4, <2>5 DEF SweepFits
<1>8. read' = r /\ sweeping' = sweeping /\ told'.idle = n /\ idle' = j /\ StillThere' = u
  BY <1>4 DEF n
<1> QED
  BY <1>7, <1>8 DEF SweepInv, rs2, k2, ms2, m2

\* An operation that ends, or is being paid.
LEMMA SweepEnds ==
    ASSUME MoneyInv, SweepInv, cancelledSum' = 0, NEW a \in User!Parties,
           op'[a].st # "unlock", \A b \in User!Parties : b # a => op'[b] = op[b],
           StillThere' \in Nat, idle' \in Nat, StillThere' <= StillThere,
           idle' = idle \/ (a = "monitor" /\ (sweeping \/ StillThere' = 0)) \/ StillThere' = 0,
           UNCHANGED <<read, sweeping, told>>
    PROVE  SweepInv'
<1>1. "sweeper" \in User!Parties /\ "monitor" \in User!Parties
  BY DEF User!Parties
<1>2. /\ op'["sweeper"].st = "unlock" => op'["sweeper"] = op["sweeper"]
      /\ op'["monitor"].st = "unlock" => op'["monitor"] = op["monitor"]
  BY <1>1
<1>3. \/ idle' = idle \/ StillThere' = 0
      \/ sweeping /\ op'["monitor"].st # "unlock"
  OBVIOUS
<1> QED
  BY <1>2, <1>3, SweepShrinks

LEMMA SweepGoesOn ==
    ASSUME User!StabilityOperationsAssumption, "ui" \notin Actors, MoneyInv, SweepInv,
           [User!Next]_(User!vars)
    PROVE  SweepInv'
<1>1. /\ op \in [User!Parties -> Operations] /\ Numbers
      /\ "sweeper" \in User!Parties /\ "monitor" \in User!Parties
      /\ read \in Nat /\ told.idle \in Nat /\ sweeping \in BOOLEAN
      /\ idle \in Nat /\ StillThere \in Nat /\ idle <= StillThere
      /\ cancelledSum = 0
  BY SweepFacts DEF SweepInv
<1> DEFINE rs == op["sweeper"].st  k == op["sweeper"].ask
           ms == op["monitor"].st  m == op["monitor"].ask  n == told.idle
<1>2. SweepFits(rs, read, k, ms, m, sweeping, n, idle, StillThere)
  BY DEF SweepInv
<1>3. CASE UNCHANGED <<op, idle, freshStaged, oldStaged, cancelledSum, read, sweeping, told>>
  <2>1. StillThere' = StillThere
    BY <1>3 DEF StillThere
  <2> QED
    BY <1>3, <2>1 DEF SweepInv
<1>4. CASE User!Record \/ User!Listen \/ UNCHANGED User!vars
  BY <1>3, <1>4 DEF User!Record, User!Listen, User!vars, User!account
<1>5. CASE User!TurnOver
  <2>1. PICK i \in Nat, f \in Nat, o \in Nat : i = idle /\ f = freshStaged /\ o = oldStaged
    BY <1>1 DEF Numbers
  <2>2. PICK x \in {0, f + o} : oldStaged' = f + o - x
    BY <1>5, <2>1 DEF User!TurnOver, User!Staged
  <2>3. PICK q \in Nat : q = f + o - x /\ q <= f + o
    BY <2>2
  <2>4. /\ freshStaged' = 0 /\ idle' = i /\ cancelledSum' = 0
        /\ UNCHANGED <<op, read, sweeping, told>>
    BY <1>1, <1>5, <2>1 DEF User!TurnOver
  <2>5. StillThere' = LeftOf(i, 0, q) /\ StillThere = LeftOf(i, f, o)
    BY <2>1, <2>2, <2>3, <2>4 DEF StillThere
  <2>6. LeftOf(i, 0, q) \in Nat /\ LeftOf(i, 0, q) <= LeftOf(i, f, o)
    BY <2>3 DEF LeftOf
  <2>7. StillThere' \in Nat /\ StillThere' <= StillThere /\ idle' = idle /\ idle' \in Nat
    BY <2>1, <2>4, <2>5, <2>6
  <2> QED
    BY <2>4, <2>7, SweepShrinks
<1>6. CASE User!SweeperReads
  <2>1. /\ read' = (freshStaged + oldStaged) + idle
        /\ UNCHANGED <<op, idle, freshStaged, oldStaged, cancelledSum, sweeping, told>>
    BY <1>6 DEF User!SweeperReads, User!Staged, User!account
  <2>2. read' = StillThere /\ StillThere' = StillThere
    <3>1. PICK i \in Nat, f \in Nat, o \in Nat : i = idle /\ f = freshStaged /\ o = oldStaged
      BY <1>1 DEF Numbers
    <3>2. (f + o) + i = LeftOf(i, f, o)
      BY DEF LeftOf
    <3> QED
      BY <2>1, <3>1, <3>2 DEF StillThere
  <2> HIDE DEF rs, k, ms, m, n
  <2>3. SweepFits(rs, StillThere, k, ms, m, sweeping, n, idle, StillThere)
    BY <1>1, <1>2 DEF SweepFits
  <2> QED
    BY <1>1, <2>1, <2>2, <2>3 DEF SweepInv, rs, k, ms, m, n
<1>7. CASE User!Refresh
  <2>1. /\ UNCHANGED <<op, idle, freshStaged, oldStaged, cancelledSum, read>>
        /\ told'.idle = idle /\ sweeping' \in BOOLEAN
        /\ sweeping' = sweeping \/ idle = 0
    BY <1>1, <1>7 DEF User!Refresh, User!account, User!Forgets
  <2>2. StillThere' = StillThere
    BY <2>1 DEF StillThere
  <2>3. m \in Nat /\ (ms = "unlock" => m > 0)
    BY SweepFacts
  <2> HIDE DEF rs, k, ms, m, n
  <2>4. SweepFits(rs, read, k, ms, m, sweeping', idle, idle, StillThere)
    <3>1. ms = "unlock" => (m <= idle \/ StillThere = 0) /\ (sweeping' \/ StillThere = 0)
      BY <1>1, <1>2, <2>1, <2>3 DEF SweepFits
    <3> QED
      BY <1>1, <1>2, <3>1 DEF SweepFits
  <2> QED
    BY <1>1, <2>1, <2>2, <2>4 DEF SweepInv, rs, k, ms, m, n
<1>8. CASE User!SweeperWithdraws
  <2>1. /\ User!Start("sweeper", read, 0) /\ read > 0 /\ read' = 0
        /\ UNCHANGED <<idle, freshStaged, oldStaged, cancelledSum, sweeping, told>>
    BY <1>8 DEF User!SweeperWithdraws, User!account
  <2>2. op' = Placed(op, "sweeper", Op("unlock", read, 0, 0, 0)) /\ "unlock" \in States
    BY <1>1, <2>1, StartsAre DEF States, User!Began
  <2>3. op'["sweeper"] = Op("unlock", read, 0, 0, 0) /\ op'["monitor"] = op["monitor"]
    BY <1>1, <2>2, PutIs
  <2>4. op'["sweeper"].st = "unlock" /\ op'["sweeper"].ask = read
    BY <1>1, <2>2, <2>3, OpIs
  <2>5. StillThere' = StillThere
    BY <2>1 DEF StillThere
  <2> HIDE DEF rs, k, ms, m, n
  <2>6. SweepFits("unlock", 0, read, ms, m, sweeping, n, idle, StillThere)
    BY <1>1, <1>2, <2>1 DEF SweepFits
  <2> QED
    BY <1>1, <2>1, <2>3, <2>4, <2>5, <2>6 DEF SweepInv, ms, m, n
<1>9. CASE User!Sweep
  <2>1. /\ User!Start("monitor", n, 0) \/ op' = op
        /\ n > 0 /\ sweeping' = TRUE /\ ~sweeping
        /\ UNCHANGED <<idle, freshStaged, oldStaged, cancelledSum, read, told>>
    BY <1>9 DEF User!Sweep, User!account
  <2>2. StillThere' = StillThere
    BY <2>1 DEF StillThere
  <2>3. CASE op' = op
    <3> HIDE DEF rs, k, ms, m, n
    <3>1. SweepFits(rs, read, k, ms, m, TRUE, n, idle, StillThere)
      BY <1>1, <1>2 DEF SweepFits
    <3> QED
      BY <1>1, <2>1, <2>2, <2>3, <3>1 DEF SweepInv, rs, k, ms, m, n
  <2>4. CASE User!Start("monitor", n, 0)
    <3>1. op' = Placed(op, "monitor", Op("unlock", n, 0, 0, 0)) /\ "unlock" \in States
      BY <1>1, <2>1, <2>4, StartsAre DEF States, User!Began
    <3>2. op'["monitor"] = Op("unlock", n, 0, 0, 0) /\ op'["sweeper"] = op["sweeper"]
      BY <1>1, <3>1, PutIs
    <3>3. op'["monitor"].st = "unlock" /\ op'["monitor"].ask = n
      BY <1>1, <3>1, <3>2, OpIs
    <3> HIDE DEF rs, k, ms, m, n
    <3>4. SweepFits(rs, read, k, "unlock", n, TRUE, n, idle, StillThere)
      BY <1>1, <1>2, <2>1 DEF SweepFits
    <3> QED
      BY <1>1, <2>1, <2>2, <3>2, <3>3, <3>4 DEF SweepInv, rs, k, n
  <2> QED
    BY <2>1, <2>3, <2>4
<1>10. ASSUME NEW a \in Actors, User!Unlocked(a) PROVE SweepInv'
  <2>1. a \in {"sweeper", "monitor"} /\ a \in User!Parties
    BY DEF User!StabilityOperationsAssumption, User!Parties
  <2>2. /\ op[a].ask \in Nat /\ op[a].cancel = 0 /\ op[a].st = "unlock" /\ op[a].ask > 0
    BY <1>10, <2>1, SweepFacts DEF User!Unlocked
  <2>3. UNCHANGED <<read, sweeping, told>> /\ cancelledSum' = 0
    BY <1>1, <1>10 DEF User!Unlocked
  <2>4. CASE User!CanTake(op[a].ask)
    <3>1. User!Take(op[a].ask) /\ op' = PutGot(op, a, "paying", 0)
      BY <1>10, <2>2, <2>4 DEF User!Unlocked, PutGot
    <3>2. op' = Placed(op, a, Op("paying", op[a].ask, op[a].cancel, 0, op[a].base))
      BY <1>1, <2>1, <3>1, PutsAre
    <3>3. op[a].base \in Nat /\ op[a].cancel \in Nat /\ "paying" \in States
      BY <2>1, SweepFacts DEF States, User!Began
    <3>4. op'[a].st # "unlock" /\ \A b \in User!Parties : b # a => op'[b] = op[b]
      <4>1. op'[a] = Op("paying", op[a].ask, op[a].cancel, 0, op[a].base)
        BY <1>1, <2>1, <3>2, PutIs
      <4>2. Op("paying", op[a].ask, op[a].cancel, 0, op[a].base).st = "paying"
        BY DEF Op
      <4>3. \A b \in User!Parties : b # a => op'[b] = op[b]
        BY <1>1, <2>1, <3>2, PutIs
      <4> QED
        BY <4>1, <4>2, <4>3
    <3>5. /\ StillThere' \in Nat /\ idle' \in Nat /\ op[a].ask <= StillThere /\ StillThere' = StillThere - op[a].ask
      BY <1>1, <2>2, <2>4, <3>1, TakesLeave
    <3>6. PICK t \in Nat, q \in Nat : t = StillThere /\ q = op[a].ask /\ q <= t /\ q > 0 /\ StillThere' = t - q
      BY <1>1, <2>2, <3>5
    <3>7. StillThere' <= StillThere
      BY <3>6
    <3>8. (a = "monitor" /\ sweeping) \/ StillThere' = 0
      <4>1. CASE a = "sweeper"
        <5>1. q >= t
          BY <1>2, <2>2, <3>6, <4>1 DEF SweepFits
        <5> QED
          BY <3>6, <5>1
      <4>2. CASE a = "monitor"
        <5>1. sweeping \/ t = 0
          BY <1>2, <2>2, <3>6, <4>2 DEF SweepFits
        <5> QED
          BY <3>6, <4>2, <5>1
      <4> QED
        BY <2>1, <4>1, <4>2
    <3> QED
      BY <2>1, <2>3, <3>4, <3>5, <3>7, <3>8, SweepEnds
  <2>5. CASE ~User!CanTake(op[a].ask)
    <3>1. /\ op' = PutSt(op, a, "txRejected") /\ UNCHANGED <<idle, freshStaged, oldStaged>>
      BY <1>10, <2>5 DEF User!Unlocked, User!Told, PutSt
    <3>2. op' = Placed(op, a, Op("txRejected", op[a].ask, op[a].cancel, op[a].got, op[a].base))
      BY <1>1, <2>1, <3>1, PutsAre
    <3>3. /\ op[a].base \in Nat /\ op[a].cancel \in Nat /\ op[a].got \in Nat
          /\ "txRejected" \in States
      BY <2>1, SweepFacts DEF States, User!Ended
    <3>4. op'[a].st # "unlock" /\ \A b \in User!Parties : b # a => op'[b] = op[b]
      <4>1. op'[a] = Op("txRejected", op[a].ask, op[a].cancel, op[a].got, op[a].base)
        BY <1>1, <2>1, <3>2, PutIs
      <4>2. Op("txRejected", op[a].ask, op[a].cancel, op[a].got, op[a].base).st = "txRejected"
        BY DEF Op
      <4>3. \A b \in User!Parties : b # a => op'[b] = op[b]
        BY <1>1, <2>1, <3>2, PutIs
      <4> QED
        BY <4>1, <4>2, <4>3
    <3>5. StillThere' = StillThere /\ StillThere' \in Nat /\ idle' = idle /\ idle' \in Nat /\ StillThere' <= StillThere
      BY <1>1, <3>1 DEF StillThere
    <3> QED
      BY <2>1, <2>3, <3>4, <3>5, SweepEnds
  <2> QED
    BY <2>4, <2>5
<1>11. ASSUME NEW a \in Actors, User!Paid(a) PROVE SweepInv'
  <2>1. a \in {"sweeper", "monitor"} /\ a \in User!Parties
    BY DEF User!StabilityOperationsAssumption, User!Parties
  <2>2. /\ UNCHANGED <<read, sweeping, told, idle, freshStaged, oldStaged>> /\ cancelledSum' = 0
    BY <1>1, <1>11 DEF User!Paid, User!account
  <2>3. /\ op[a].ask \in Nat /\ op[a].cancel \in Nat /\ op[a].got \in Nat /\ op[a].base \in Nat
        /\ op[a].got + op[a].ask \in Nat /\ "success" \in States /\ "outputError" \in States
    BY <2>1, SweepFacts DEF States, User!Ended
  <2>4. \/ op' = PutGot(op, a, "success", op[a].got + op[a].ask)
        \/ op' = PutSt(op, a, "outputError")
    BY <1>1, <1>11, <2>1 DEF User!Paid, User!Told, PutGot, PutSt
  <2>5. \/ op' = Placed(op, a, Op("success", op[a].ask, op[a].cancel, op[a].got + op[a].ask,
                                  op[a].base))
        \/ op' = Placed(op, a, Op("outputError", op[a].ask, op[a].cancel, op[a].got, op[a].base))
    BY <1>1, <2>1, <2>4, PutsAre
  <2>6. op'[a].st # "unlock" /\ \A b \in User!Parties : b # a => op'[b] = op[b]
    <3>1. \/ op'[a] = Op("success", op[a].ask, op[a].cancel, op[a].got + op[a].ask, op[a].base)
          \/ op'[a] = Op("outputError", op[a].ask, op[a].cancel, op[a].got, op[a].base)
      BY <1>1, <2>1, <2>5, PutIs
    <3>2. op'[a].st = "success" \/ op'[a].st = "outputError"
      <4>1. \A v, w, x, y, z : Op(v, w, x, y, z).st = v
        BY DEF Op
      <4> QED
        BY <3>1, <4>1
    <3>3. \A b \in User!Parties : b # a => op'[b] = op[b]
      BY <1>1, <2>1, <2>5, PutIs
    <3> QED
      BY <3>2, <3>3
  <2>7. StillThere' = StillThere /\ StillThere' \in Nat /\ idle' = idle /\ idle' \in Nat /\ StillThere' <= StillThere
    BY <1>1, <2>2 DEF StillThere
  <2> QED
    BY <2>1, <2>2, <2>6, <2>7, SweepEnds
<1>12. ASSUME NEW a \in Actors, User!Progress(a) PROVE SweepInv'
  <2>1. a \in {"sweeper", "monitor"}
    BY DEF User!StabilityOperationsAssumption
  <2>2. op[a].st \notin {"deposit", "cancel", "accepted", "watching", "claim"}
    BY <2>1, SweepFacts
  <2>3. User!Unlocked(a) \/ User!Paid(a)
    BY <1>12, <2>2 DEF User!Progress, User!Cancelled, User!Watch, User!Processed, User!Claimed
  <2> QED
    BY <1>10, <1>11, <2>3
<1>13. ~User!Withdraw /\ ~User!Deposit /\ ~User!Deposited
  BY DEF User!Withdraw, User!Deposit, User!Deposited
<1> QED
  BY <1>4, <1>5, <1>6, <1>7, <1>8, <1>9, <1>12, <1>13 DEF User!Next

LEMMA SweepTakesIdle ==
    ASSUME User!StabilityOperationsAssumption, "ui" \notin Actors, MoneyInv, SweepInv
    PROVE  User!TakesIdleOnly
<1> SUFFICES ASSUME NEW a \in Actors \cap {"monitor"}, User!Unlocked(a)
             PROVE  (freshStaged + oldStaged)' = freshStaged + oldStaged
  BY DEF User!TakesIdleOnly, User!Staged
<1>1. /\ op["monitor"].ask \in Nat /\ op["monitor"].ask > 0 /\ op["monitor"].st = "unlock"
      /\ Numbers /\ a = "monitor"
  BY SweepFacts DEF User!Unlocked
<1> DEFINE m == op["monitor"].ask
<1>2. m <= idle \/ StillThere = 0
  BY <1>1 DEF SweepInv, SweepFits
<1>3. CASE User!CanTake(m)
  <2>1. User!Take(m)
    BY <1>1, <1>3 DEF User!Unlocked
  <2> HIDE DEF m
  <2>2. m <= StillThere /\ (m <= idle => freshStaged' = freshStaged /\ oldStaged' = oldStaged)
    BY <1>1, <1>3, <2>1, TakesLeave DEF m
  <2>3. m <= idle
    BY <1>1, <1>2, <2>2 DEF m
  <2> QED
    BY <2>2, <2>3
<1>4. CASE ~User!CanTake(m)
  BY <1>1, <1>4 DEF User!Unlocked
<1> QED
  BY <1>3, <1>4

LEMMA PaidAtFirst == User!Init => PaidInv
<1> SUFFICES ASSUME User!Init PROVE PaidInv
  OBVIOUS
<1>1. op["ui"] = User!NoOp
  BY DEF User!Init, User!Parties
<1> QED
  BY <1>1 DEF PaidInv, PaysAllOf, PaysAll, User!NoOp

\* Whoever acts on an account, its numbers stay within what there is. What is left to a user
\* alone is paid: a withdrawal that succeeds has paid what was cancelled, at least. The hook
\* that sweeps what is idle takes nothing staged, beside the sweeper but without the user
\* (StabilityPoolClientModule's state machines, StabilityPoolSweeperService,
\* useMonitorStabilityPool).
THEOREM OperationsArePaid ==
    ASSUME User!StabilityOperationsAssumption
    PROVE  User!Spec =>
              /\ []User!TypeOK
              /\ Actors \subseteq {"ui"} => []User!SuccessIsPaid
              /\ "ui" \notin Actors => User!SweepsIdleOnly
<1>1. User!Spec => []MoneyInv
  <2>1. User!Init => MoneyInv
    BY MoneyAtFirst
  <2>2. MoneyInv /\ [User!Next]_(User!vars) => MoneyInv'
    BY MoneyGoesOn
  <2> QED
    BY <2>1, <2>2, PTL DEF User!Spec
<1>2. User!Spec => []User!TypeOK
  <2>1. MoneyInv => User!TypeOK
    BY MoneyIsTyped
  <2> QED
    BY <1>1, <2>1, PTL
<1>3. ASSUME Actors \subseteq {"ui"} PROVE User!Spec => []User!SuccessIsPaid
  <2>1. User!Init => PaidInv
    BY PaidAtFirst
  <2>2. MoneyInv /\ PaidInv /\ [User!Next]_(User!vars) => PaidInv'
    BY <1>3, PaidGoesOn
  <2>3. PaidInv => User!SuccessIsPaid
    BY <1>3 DEF PaidInv, PaysAllOf, PaysAll, User!SuccessIsPaid
  <2> QED
    BY <1>1, <2>1, <2>2, <2>3, PTL DEF User!Spec
<1>4. ASSUME "ui" \notin Actors PROVE User!Spec => User!SweepsIdleOnly
  <2>1. User!Init => SweepInv
    <3> SUFFICES ASSUME User!Init PROVE SweepInv
      OBVIOUS
    <3>1. /\ op["sweeper"] = User!NoOp /\ op["monitor"] = User!NoOp /\ cancelledSum = 0
          /\ read = 0 /\ told.idle = idle
      BY DEF User!Init, User!Parties
    <3>2. idle \in Nat
      BY MoneyAtFirst DEF MoneyInv, Numbers
    <3> QED
      BY <3>1, <3>2 DEF SweepInv, SweepFits, User!NoOp
  <2>2. MoneyInv /\ SweepInv /\ [User!Next]_(User!vars) => SweepInv'
    BY <1>4, SweepGoesOn
  <2>3. MoneyInv /\ SweepInv => [User!TakesIdleOnly]_(User!vars)
    BY <1>4, SweepTakesIdle
  <2> QED
    BY <1>1, <2>1, <2>2, <2>3, PTL DEF User!Spec, User!SweepsIdleOnly
<1> QED
  BY <1>2, <1>3, <1>4

-----------------------------------------------------------------------------
(* What the run checks of all three together: MCStable. *)

\* Every step is one of the system that runs, which stays the same.
LEMMA EachRunsAlone ==
    ASSUME [StableNext]_allStable
    PROVE  /\ which' = which
           /\ [Next]_vars
           /\ which = "depositing" => [Depositing!Next]_(Depositing!vars)
           /\ which = "user" => [User!Next]_(User!vars)
<1>1. CASE UNCHANGED allStable
  BY <1>1 DEF allStable, balanceVars, operationsVars, Depositing!vars, User!vars
<1>2. CASE LoopsStep
  BY <1>2 DEF LoopsStep, balanceVars, operationsVars, Depositing!vars, User!vars
<1>3. CASE BalanceStep
  BY <1>3 DEF BalanceStep, operationsVars, User!vars
<1>4. CASE OperationsStep
  BY <1>4 DEF OperationsStep, balanceVars, Depositing!vars
<1> QED
  BY <1>1, <1>2, <1>3, <1>4 DEF StableNext

\* The loops of the server compute the closed form, whichever system the run is about.
THEOREM LoopsAlwaysAgree == StableSpec => []LoopsAgree
<1>1. StableInit => LoopsInv
  BY LoopsStart DEF StableInit
<1>2. LoopsInv /\ [StableNext]_allStable => LoopsInv'
  BY EachRunsAlone, LoopsGoOn
<1>3. LoopsInv => LoopsAgree
  BY TotalsRun DEF LoopsInv, AgreesWithClosedForm, LoopsAgree
<1> QED
  BY <1>1, <1>2, <1>3, PTL DEF StableSpec

\* When nothing moves under an open form (Fresh), the pool takes the deposits that the form
\* allows, with no less than was confirmed, unless the balance has nothing left for the fee
\* that the bridge adds; and a withdrawal told to have succeeded has paid what it asked for,
\* when only the thunks of the user withdraw (StableBalance, StabilityOperations).
THEOREM AskedIsAlwaysTaken == StableSpec => []AskedIsTaken
<1>1. StableSpec => [](which = "depositing" => StableInv)
  <2>1. StableInit /\ which = "depositing" => StableInv
    BY StableStart, StableConstantsAssumption DEF StableInit
  <2>2. ASSUME which = "depositing", StableInv, [StableNext]_allStable PROVE StableInv'
    BY <2>2, EachRunsAlone, StableGoesOn, StableConstantsAssumption
  <2>3. [StableNext]_allStable => ((which = "depositing")' <=> which = "depositing")
    BY EachRunsAlone
  <2> QED
    BY <2>1, <2>2, <2>3, PTL DEF StableSpec
<1>2. StableSpec => [](which = "user" => MoneyInv)
  <2>1. StableInit /\ which = "user" => MoneyInv
    BY MoneyAtFirst, StableConstantsAssumption DEF StableInit
  <2>2. ASSUME which = "user", MoneyInv, [StableNext]_allStable PROVE MoneyInv'
    BY <2>2, EachRunsAlone, MoneyGoesOn, StableConstantsAssumption
  <2>3. [StableNext]_allStable => ((which = "user")' <=> which = "user")
    BY EachRunsAlone
  <2> QED
    BY <2>1, <2>2, <2>3, PTL DEF StableSpec
<1>3. StableSpec => [](which = "user" /\ Actors \subseteq {"ui"} => PaidInv)
  <2>1. StableInit /\ which = "user" => PaidInv
    BY PaidAtFirst DEF StableInit
  <2>2. ASSUME which = "user", Actors \subseteq {"ui"}, MoneyInv, PaidInv, [StableNext]_allStable
        PROVE  PaidInv'
    BY <2>2, EachRunsAlone, PaidGoesOn, StableConstantsAssumption
  <2>3. [StableNext]_allStable => ((which = "user")' <=> which = "user")
    BY EachRunsAlone
  <2>4. Actors \subseteq {"ui"} <=> (Actors \subseteq {"ui"})'
    OBVIOUS
  <2> QED
    BY <1>2, <2>1, <2>2, <2>3, <2>4, PTL DEF StableSpec
<1>4. /\ which = "depositing" => StableInv
      /\ which = "user" => MoneyInv
      /\ which = "user" /\ Actors \subseteq {"ui"} => PaidInv
      => AskedIsTaken
  <2>1. MoneyInv => User!TypeOK
    BY MoneyIsTyped, StableConstantsAssumption
  <2>2. PaidInv /\ Actors \subseteq {"ui"} => User!SuccessIsPaid
    BY DEF PaidInv, PaysAllOf, PaysAll, User!SuccessIsPaid
  <2> QED
    BY <2>1, <2>2 DEF AskedIsTaken, DepositIsTaken, DepositsWhatWasConfirmed, SuccessIsPaid,
       StableInv
<1> QED
  BY <1>1, <1>2, <1>3, <1>4, PTL

=============================================================================
