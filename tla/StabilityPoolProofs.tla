------------------------- MODULE StabilityPoolProofs -------------------------
(***************************************************************************)
(* What holds of the stability pool's ledger for any number of accounts,   *)
(* deposits and cycles, any prices, fee rates and collateral ratio.        *)
(*                                                                         *)
(* Every operation on a table but one gives items a new amount and drops   *)
(* some (Reamounted); restaging merges two such tables.  Who owns an item, *)
(* and what it charges, follow from this alone.                            *)
(*                                                                         *)
(* Then what the pool promises its users: the books balance and the pool   *)
(* is the custodian Custody describes; a settlement keeps the value of     *)
(* every seek, both queues are served in their order, a turnover leaves no *)
(* collateral over that a waiting seek could have had, who cancels         *)
(* everything leaves, and the metadata tells the truth.                    *)
(*                                                                         *)
(* Each table loses or gains what an operation on it takes or adds:        *)
(* draining and cancelling walk a queue, restaging adds two tables up,     *)
(* settling and the fees share a pool.  A turnover is the sequence of      *)
(* these (Turned gives its intermediate results names), so what it takes   *)
(* from one table it adds to another.  What each account has is followed   *)
(* the same way; for the refinement it is enough that a turnover leaves    *)
(* alone whoever has no lock before and after it.                          *)
(*                                                                         *)
(* Shares are rounded down and needs are rounded up, so the value of a     *)
(* seek comes down to which factor may be cancelled.  The order of the     *)
(* queues comes down to one fact about the walk of the auction             *)
(* (WalkStops): where it left something of an item it has stopped.  What   *)
(* was cancelled stays out because its account has nothing staged.         *)
(***************************************************************************)
EXTENDS StabilityPool, LockMatchingTheorems, WellFoundedInduction

-----------------------------------------------------------------------------
(***************************************************************************)
(* New amounts for the items of a table.                                   *)
(***************************************************************************)
Reamounted(new, old) ==
    /\ new = [s \in DOMAIN new |-> new[s]]
    /\ DOMAIN new \subseteq DOMAIN old
    /\ \A s \in DOMAIN new :
         \E n \in Nat : new[s] = [old[s] EXCEPT !.amount = n]

IsItem(Item) == Item \in {SeekItem, ProvideItem}

\* Both kinds of items keep their type when their amount changes.
LEMMA ItemType ==
    ASSUME NEW Item, IsItem(Item), NEW x \in Item
    PROVE  /\ "amount" \in DOMAIN x /\ x.amount \in Nat
           /\ x.account \in Account
           /\ \A n \in Nat :
                /\ [x EXCEPT !.amount = n] \in Item
                /\ [x EXCEPT !.amount = n].amount = n
                /\ [x EXCEPT !.amount = n].account = x.account
           /\ Item = ProvideItem =>
                /\ "minFeeRate" \in DOMAIN x
                /\ x.minFeeRate \in 0 .. MaxFeeRate
                /\ \A n \in Nat :
                     [x EXCEPT !.amount = n].minFeeRate = x.minFeeRate
<1>1. CASE Item = SeekItem
  <2>1. SeekItem # ProvideItem
    <3>1. DOMAIN x = {"account", "amount"}
      BY <1>1 DEF SeekItem
    <3>2. ASSUME x \in ProvideItem PROVE "minFeeRate" \in DOMAIN x
      BY <3>2 DEF ProvideItem
    <3> QED
      BY <1>1, <3>1, <3>2
  <2> QED
    BY <1>1, <2>1 DEF SeekItem
<1>2. CASE Item = ProvideItem
  BY <1>2 DEF ProvideItem
<1> QED
  BY <1>1, <1>2 DEF IsItem

\* A table of items is a queue.
LEMMA QueueOfIsQueue ==
    ASSUME NEW next \in Nat, NEW Item, IsItem(Item),
           NEW items, IsQueueOf(items, Item, next)
    PROVE  IsQueue(items)
<1>1. IsFiniteSet(0 .. next - 1)
  BY FS_Interval
<1>2. IsFiniteSet(DOMAIN items)
  BY <1>1, FS_Subset DEF IsQueueOf
<1>3. \A s \in DOMAIN items : items[s] \in Item
  BY DEF IsQueueOf
<1> QED
  BY <1>2, <1>3, ItemType DEF IsQueue

\* A table with other amounts is a table of the same items.
LEMMA ReamountedType ==
    ASSUME NEW next \in Nat, NEW Item, IsItem(Item),
           NEW old, IsQueueOf(old, Item, next),
           NEW new, Reamounted(new, old)
    PROVE  /\ IsQueueOf(new, Item, next)
           /\ \A s \in DOMAIN new :
                /\ s \in DOMAIN old
                /\ new[s].account = old[s].account
                /\ Item = ProvideItem => new[s].minFeeRate = old[s].minFeeRate
<1>1. ASSUME NEW s \in DOMAIN new
      PROVE  /\ s \in DOMAIN old
             /\ new[s] \in Item
             /\ new[s].account = old[s].account
             /\ Item = ProvideItem => new[s].minFeeRate = old[s].minFeeRate
  <2>1. s \in DOMAIN old /\ old[s] \in Item
    BY DEF Reamounted, IsQueueOf
  <2>2. PICK n \in Nat : new[s] = [old[s] EXCEPT !.amount = n]
    BY DEF Reamounted
  <2> QED
    BY <2>1, <2>2, ItemType
<1>2. new \in [DOMAIN new -> Item]
  BY <1>1 DEF Reamounted
<1> QED
  BY <1>1, <1>2 DEF Reamounted, IsQueueOf

\* Amounts may change in several passes.
LEMMA ReamountedTransitive ==
    ASSUME NEW old, NEW mid, NEW new, Reamounted(mid, old), Reamounted(new, mid),
           \A s \in DOMAIN old : "amount" \in DOMAIN old[s]
    PROVE  Reamounted(new, old)
<1>1. ASSUME NEW s \in DOMAIN new
      PROVE  /\ s \in DOMAIN old
             /\ \E n \in Nat : new[s] = [old[s] EXCEPT !.amount = n]
  <2>1. s \in DOMAIN mid /\ s \in DOMAIN old
    BY DEF Reamounted
  <2>2. PICK n \in Nat : new[s] = [mid[s] EXCEPT !.amount = n]
    BY DEF Reamounted
  <2>3. PICK m \in Nat : mid[s] = [old[s] EXCEPT !.amount = m]
    BY <2>1 DEF Reamounted
  <2>4. [[old[s] EXCEPT !.amount = m] EXCEPT !.amount = n]
          = [old[s] EXCEPT !.amount = n]
    OBVIOUS
  <2> QED
    BY <2>1, <2>2, <2>3, <2>4
<1> QED
  BY <1>1 DEF Reamounted

\* An untouched table.
LEMMA ReamountedReflexive ==
    ASSUME NEW next \in Nat, NEW Item, IsItem(Item),
           NEW items, IsQueueOf(items, Item, next)
    PROVE  Reamounted(items, items)
<1>1. ASSUME NEW s \in DOMAIN items
      PROVE  \E n \in Nat : items[s] = [items[s] EXCEPT !.amount = n]
  <2>1. items[s] \in Item
    BY DEF IsQueueOf
  <2>2. items[s].amount \in Nat
    BY <2>1, ItemType
  <2>3. items[s] = [items[s] EXCEPT !.amount = items[s].amount]
    <3>1. CASE Item = SeekItem
      BY <2>1, <3>1 DEF SeekItem
    <3>2. CASE Item = ProvideItem
      BY <2>1, <3>2 DEF ProvideItem
    <3> QED
      BY <3>1, <3>2 DEF IsItem
  <2> QED
    BY <2>2, <2>3
<1>2. items = [s \in DOMAIN items |-> items[s]]
  BY DEF IsQueueOf
<1> QED
  BY <1>1, <1>2 DEF Reamounted

\* Part of a table.
LEMMA OnlyReamounts ==
    ASSUME NEW next \in Nat, NEW Item, IsItem(Item),
           NEW items, IsQueueOf(items, Item, next), NEW S
    PROVE  /\ Reamounted(Only(items, S), items)
           /\ DOMAIN Only(items, S) = S \cap DOMAIN items
<1>1. Reamounted(items, items)
  BY ReamountedReflexive
<1> QED
  BY <1>1 DEF Reamounted, Only

\* What an account has in a table is a number of millisats.
LEMMA HoldingType ==
    ASSUME NEW next \in Nat, NEW Item, IsItem(Item),
           NEW items, IsQueueOf(items, Item, next), NEW a
    PROVE  Holding(items, a) \in Nat
BY QueueOfIsQueue, OnlyType DEF Holding

\* What a walk over a table leaves.
LEMMA LeftReamounts ==
    ASSUME NEW next \in Nat, NEW Item, IsItem(Item),
           NEW items, IsQueueOf(items, Item, next),
           NEW before, NEW want, \A s \in DOMAIN items : want[s] \in Int
    PROVE  Reamounted(Left(items, before, want), items)
<1> DEFINE left  == Left(items, before, want)
           taken == Taken(items, before, want)
<1>1. IsQueue(items)
  BY QueueOfIsQueue
<1>2. /\ DOMAIN left \subseteq DOMAIN items
      /\ \A s \in DOMAIN left :
           left[s] = [items[s] EXCEPT !.amount = @ - taken[s]]
  BY <1>1, LeftType
<1>3. \A s \in DOMAIN items : items[s].amount - taken[s] \in Nat
  <2>1. \A s \in DOMAIN items :
          taken[s] \in Nat /\ taken[s] <= items[s].amount
    BY <1>1, TakenType
  <2> HIDE DEF taken
  <2> QED
    BY <1>1, <2>1 DEF IsQueue
<1>4. left = [s \in DOMAIN left |-> left[s]]
  BY DEF Left
<1> HIDE DEF left, taken
<1>5. ASSUME NEW s \in DOMAIN left
      PROVE  \E n \in Nat : left[s] = [items[s] EXCEPT !.amount = n]
  <2>1. left[s] = [items[s] EXCEPT !.amount = items[s].amount - taken[s]]
    BY <1>2
  <2> QED
    BY <1>2, <1>3, <2>1
<1> QED
  BY <1>2, <1>4, <1>5 DEF Reamounted, left

\* What a withdrawal leaves.
LEMMA DrainedReamounts ==
    ASSUME NEW next \in Nat, NEW Item, IsItem(Item),
           NEW items, IsQueueOf(items, Item, next),
           NEW own, own \subseteq DOMAIN items, NEW behind, NEW want \in Int
    PROVE  Reamounted(Drained(items, own, behind, want), items)
<1> DEFINE mine  == Only(items, own)
           left  == Left(mine, behind, Same(mine, want))
           after == Drained(items, own, behind, want)
<1>1. Reamounted(mine, items) /\ DOMAIN mine = own
  BY OnlyReamounts
<1>2. IsQueueOf(mine, Item, next)
  BY <1>1, ReamountedType
<1>3. Reamounted(left, mine)
  <2>1. \A s \in DOMAIN mine : Same(mine, want)[s] \in Int
    BY DEF Same
  <2> HIDE DEF mine
  <2> QED
    BY <1>2, <2>1, LeftReamounts
<1>4. Reamounted(left, items)
  <2>1. \A s \in DOMAIN items : "amount" \in DOMAIN items[s]
    BY QueueOfIsQueue DEF IsQueue
  <2> HIDE DEF left, mine
  <2> QED
    BY <1>1, <1>3, <2>1, ReamountedTransitive
<1>5. Reamounted(items, items)
  BY ReamountedReflexive
<1>6. after = [s \in (DOMAIN items \ own) \cup DOMAIN left |->
                 IF s \in own THEN left[s] ELSE items[s]]
  BY DEF Drained
<1>7. DOMAIN left \subseteq own
  BY <1>1, <1>3 DEF Reamounted
<1> HIDE DEF left, mine, after
<1>8. DOMAIN after \subseteq DOMAIN items
  BY <1>6, <1>7
<1>9. after = [s \in DOMAIN after |-> after[s]]
  BY <1>6
<1>10. ASSUME NEW s \in DOMAIN after
       PROVE  \E n \in Nat : after[s] = [items[s] EXCEPT !.amount = n]
  <2>1. CASE s \in own
    <3>1. s \in DOMAIN left /\ after[s] = left[s]
      BY <1>6, <2>1
    <3> QED
      BY <1>4, <3>1 DEF Reamounted
  <2>2. CASE s \notin own
    <3>1. s \in DOMAIN items /\ after[s] = items[s]
      BY <1>6, <1>7, <2>2
    <3> QED
      BY <1>5, <3>1 DEF Reamounted
  <2> QED
    BY <2>1, <2>2
<1> QED
  BY <1>8, <1>9, <1>10 DEF Reamounted, after

-----------------------------------------------------------------------------
(***************************************************************************)
(* Settling and cancelling.                                                *)
(***************************************************************************)
\* Giving every locked item its payout.
LEMMA SettingReamounts ==
    ASSUME NEW items, NEW pay, IsAmounts(pay), DOMAIN pay = DOMAIN items
    PROVE  /\ Reamounted(SetAmounts(items, pay), items)
           /\ DOMAIN SetAmounts(items, pay) = DOMAIN items
BY DEF SetAmounts, Reamounted, IsAmounts

\* What the seeks are paid is within what is locked.
LEMMA PoolsType ==
    ASSUME TypeOK, NEW newPrice \in Nat \ {0}
    PROVE  /\ SeeksPool(newPrice) \in Nat
           /\ ProvidesPool(newPrice) \in Nat
           /\ IsAmounts(Amounts(cycle.lockedSeeks))
           /\ IsAmounts(Amounts(cycle.lockedProvides))
<1> DEFINE seeks    == cycle.lockedSeeks
           provides == cycle.lockedProvides
           owed     == CeilDiv(Sum(seeks) * cycle.startPrice, newPrice)
<1>1. IsQueue(seeks) /\ IsQueue(provides)
  BY QueueOfIsQueue DEF TypeOK, IsItem
<1>2. /\ Sum(seeks) \in Nat /\ Sum(provides) \in Nat
      /\ IsAmounts(Amounts(seeks)) /\ IsAmounts(Amounts(provides))
  BY <1>1, SumType
<1>3. Sum(seeks) * cycle.startPrice \in Nat
  BY <1>2 DEF TypeOK
<1>4. owed \in Nat
  BY <1>3, CeilDivBounds
<1>5. SeeksPool(newPrice) = Least(owed, LockedSum)
  BY DEF SeeksPool
<1>6. LockedSum \in Nat
  BY <1>2 DEF LockedSum
<1> HIDE DEF seeks, provides, owed
<1>7. SeeksPool(newPrice) \in Nat /\ ProvidesPool(newPrice) \in Nat
  BY <1>4, <1>5, <1>6 DEF Least, ProvidesPool
<1> QED
  BY <1>2, <1>7 DEF seeks, provides

\* A settlement gives the locked items new amounts and drops none.
LEMMA SettledReamounts ==
    ASSUME TypeOK, NEW newPrice \in Nat \ {0},
           ~DividesByZero(Amounts(cycle.lockedSeeks), SeeksPool(newPrice)),
           ~DividesByZero(Amounts(cycle.lockedProvides), ProvidesPool(newPrice)),
           NEW paidSeeks \in SettledSeeks(newPrice),
           NEW paidProvides \in SettledProvides(newPrice)
    PROVE  /\ Reamounted(paidSeeks, cycle.lockedSeeks)
           /\ Reamounted(paidProvides, cycle.lockedProvides)
<1>1. PICK pay \in Payouts(Amounts(cycle.lockedSeeks), SeeksPool(newPrice)) :
        paidSeeks = SetAmounts(cycle.lockedSeeks, pay)
  BY DEF SettledSeeks
<1>2. IsAmounts(pay) /\ DOMAIN pay = DOMAIN cycle.lockedSeeks
  <2>1. DOMAIN Amounts(cycle.lockedSeeks) = DOMAIN cycle.lockedSeeks
    BY DEF Amounts
  <2> QED
    BY <1>1, <2>1, PoolsType, PayoutsAreExact
<1>3. PICK rest \in Payouts(Amounts(cycle.lockedProvides),
                            ProvidesPool(newPrice)) :
        paidProvides = SetAmounts(cycle.lockedProvides, rest)
  BY DEF SettledProvides
<1>4. IsAmounts(rest) /\ DOMAIN rest = DOMAIN cycle.lockedProvides
  <2>1. DOMAIN Amounts(cycle.lockedProvides) = DOMAIN cycle.lockedProvides
    BY DEF Amounts
  <2> QED
    BY <1>3, <2>1, PoolsType, PayoutsAreExact
<1> QED
  BY <1>1, <1>2, <1>3, <1>4, SettingReamounts

\* What a cancellation wants of an account's locks.
LEMMA ToCancelType ==
    ASSUME TypeOK, NEW next \in Nat, NEW Item, IsItem(Item),
           NEW items, IsQueueOf(items, Item, next)
    PROVE  \A s \in DOMAIN items : OwnersToCancel(items)[s] \in Nat
<1>1. ASSUME NEW a
      PROVE  ToCancel(items, a) \in Nat
  <2>1. CASE a \in DOMAIN cancellations
    <3>1. cancellations[a] \in Nat
      <4>1. cancellations \in [DOMAIN cancellations -> MinCancelBps .. BpsUnit]
        BY DEF TypeOK
      <4>2. cancellations[a] \in MinCancelBps .. BpsUnit
        BY <2>1, <4>1
      <4> QED
        BY <4>2, PoolAssumption DEF PoolAssumption
    <3>2. Holding(items, a) * cancellations[a] \in Nat
      BY <3>1, HoldingType
    <3>3. CeilDiv(Holding(items, a) * cancellations[a], BpsUnit) \in Nat
      BY <3>2, CeilDivBounds, PoolAssumption
    <3> QED
      BY <2>1, <3>3 DEF ToCancel
  <2>2. CASE a \notin DOMAIN cancellations
    BY <2>2 DEF ToCancel
  <2> QED
    BY <2>1, <2>2
<1> QED
  BY <1>1 DEF OwnersToCancel

\* What is renewed, and what is refunded.
LEMMA RenewedReamounts ==
    ASSUME TypeOK, NEW next \in Nat, NEW Item, IsItem(Item),
           NEW items, IsQueueOf(items, Item, next), NEW behind
    PROVE  /\ Reamounted(Renewed(items, behind), items)
           /\ \A a : Refund(items, behind, a) \in Nat
<1> DEFINE want  == OwnersToCancel(items)
           left  == Left(items, behind, want)
           taken == Taken(items, behind, want)
           kept  == {s \in DOMAIN left :
                       \/ left[s].amount # 0
                       \/ ToCancel(items, items[s].account) = 0}
<1>1. \A s \in DOMAIN items : want[s] \in Int
  BY ToCancelType
<1>2. IsQueue(items)
  BY QueueOfIsQueue
<1> HIDE DEF want
<1>3. Reamounted(left, items)
  BY <1>1, LeftReamounts
<1>4. IsAmounts(taken)
  BY <1>1, <1>2, TakenType
<1>5. Renewed(items, behind) = Only(left, kept)
  BY DEF Renewed, want
<1> HIDE DEF left, taken, kept
<1>6. IsQueueOf(left, Item, next)
  BY <1>3, ReamountedType
<1>7. Reamounted(Only(left, kept), left)
  BY <1>6, OnlyReamounts
<1>8. Reamounted(Renewed(items, behind), items)
  BY <1>2, <1>3, <1>5, <1>7, ReamountedTransitive DEF IsQueue
<1>9. ASSUME NEW a
      PROVE  Refund(items, behind, a) \in Nat
  <2>1. IsFiniteSet(Of(items, a) \cap DOMAIN taken)
    BY <1>4, FS_Intersection DEF IsAmounts
  <2>2. IsAmounts(Only(taken, Of(items, a)))
    BY <1>4, <2>1 DEF IsAmounts, Only
  <2> QED
    BY <2>2, TotalType DEF Refund, taken, want
<1> QED
  BY <1>8, <1>9

-----------------------------------------------------------------------------
(***************************************************************************)
(* Restaging and locking.                                                  *)
(***************************************************************************)
\* Merging the remaining locks into a staging table.
LEMMA RestagedType ==
    ASSUME NEW next \in Nat, NEW Item, IsItem(Item),
           NEW staged, IsQueueOf(staged, Item, next),
           NEW locked, IsQueueOf(locked, Item, next)
    PROVE  LET all == Restaged(staged, locked)
           IN  /\ IsQueueOf(all, Item, next)
               /\ \A s \in DOMAIN all :
                    \/ /\ s \in DOMAIN staged
                       /\ all[s].account = staged[s].account
                    \/ /\ s \in DOMAIN locked
                       /\ all[s].account = locked[s].account
<1> DEFINE all == Restaged(staged, locked)
<1>1. DOMAIN all = DOMAIN staged \cup DOMAIN locked
  BY DEF Restaged
<1>2. all = [s \in DOMAIN all |-> all[s]]
  BY DEF Restaged
<1>3. ASSUME NEW s \in DOMAIN all
      PROVE  /\ all[s] \in Item
             /\ \/ /\ s \in DOMAIN staged
                   /\ all[s].account = staged[s].account
                \/ /\ s \in DOMAIN locked
                   /\ all[s].account = locked[s].account
  <2>1. CASE s \notin DOMAIN locked
    <3>1. all[s] = staged[s] /\ s \in DOMAIN staged
      BY <1>1, <2>1 DEF Restaged
    <3> QED
      BY <3>1 DEF IsQueueOf
  <2>2. CASE s \in DOMAIN locked /\ s \notin DOMAIN staged
    <3>1. all[s] = locked[s]
      BY <1>1, <2>2 DEF Restaged
    <3> QED
      BY <2>2, <3>1 DEF IsQueueOf
  <2>3. CASE s \in DOMAIN locked /\ s \in DOMAIN staged
    <3> DEFINE n == staged[s].amount + locked[s].amount
    <3>1. all[s] = [staged[s] EXCEPT !.amount = n]
      BY <1>1, <2>3 DEF Restaged
    <3>2. staged[s] \in Item /\ locked[s] \in Item
      BY <2>3 DEF IsQueueOf
    <3>3. n \in Nat
      BY <3>2, ItemType
    <3> HIDE DEF n
    <3> QED
      BY <2>3, <3>1, <3>2, <3>3, ItemType
  <2> QED
    BY <2>1, <2>2, <2>3
<1> HIDE DEF all
<1>4. IsQueueOf(all, Item, next)
  BY <1>1, <1>2, <1>3 DEF IsQueueOf
<1> QED
  BY <1>3, <1>4 DEF all

\* The locks a turnover makes: what it locks and what it leaves staged are parts
\* of one queue.
LEMMA LocksType ==
    ASSUME NEW n \in Nat, NEW m \in Nat,
           NEW seeks, IsQueueOf(seeks, SeekItem, n),
           NEW provides, IsQueueOf(provides, ProvideItem, m)
    PROVE  LET locked  == LockedProvides(seeks, provides)
               gross   == GrossLockedSeeks(seeks, locked)
               feeRate == EffectiveFeeRate(locked)
           IN  /\ Reamounted(locked, provides)
               /\ Reamounted(UnlockedProvides(seeks, provides), provides)
               /\ Reamounted(gross, seeks)
               /\ Reamounted(UnlockedSeeks(seeks, locked), seeks)
               /\ \A p \in DOMAIN locked : locked[p].minFeeRate \in 0 .. B - 1
               /\ feeRate \in 0 .. B - 1
               /\ feeRate \in 0 .. MaxFeeRate
<1> DEFINE locked  == LockedProvides(seeks, provides)
           gross   == GrossLockedSeeks(seeks, locked)
           feeRate == EffectiveFeeRate(locked)
<1>1. IsItem(SeekItem) /\ IsItem(ProvideItem)
  BY DEF IsItem
<1>2. IsQueue(seeks) /\ IsQueue(provides)
  BY <1>1, QueueOfIsQueue
<1>3. IsProvides(provides)
  <2>1. ASSUME NEW p \in DOMAIN provides
        PROVE  /\ "minFeeRate" \in DOMAIN provides[p]
               /\ provides[p].minFeeRate \in 0 .. B
    <3>1. provides[p] \in ProvideItem
      BY DEF IsQueueOf
    <3>2. 0 .. MaxFeeRate \subseteq 0 .. B
      BY PoolAssumption, MatchingAssumption
    <3> QED
      BY <1>1, <3>1, <3>2, ItemType
  <2> QED
    BY <1>2, <2>1 DEF IsProvides
<1>4. /\ IsQueue(locked)
      /\ DOMAIN locked \subseteq DOMAIN provides
      /\ \A p \in DOMAIN locked :
           /\ \E k \in Nat : /\ k <= provides[p].amount
                             /\ locked[p] = [provides[p] EXCEPT !.amount = k]
           /\ locked[p].minFeeRate \in 0 .. B - 1
  BY <1>2, <1>3, LockedProvidesType
<1>5. Reamounted(locked, provides)
  <2>1. locked = [p \in DOMAIN locked |-> locked[p]]
    BY DEF LockedProvides
  <2> HIDE DEF locked
  <2> QED
    BY <1>4, <2>1 DEF Reamounted
<1>6. Reamounted(UnlockedProvides(seeks, provides), provides)
  <2>1. \A p \in DOMAIN provides : Wanted(seeks, provides)[p] \in Int
    BY <1>2, <1>3, WantedType
  <2> QED
    BY <1>1, <2>1, LeftReamounts DEF UnlockedProvides
<1>7. gross = [s \in DOMAIN gross |-> gross[s]]
  BY DEF GrossLockedSeeks
<1> HIDE DEF locked
<1>8. /\ DOMAIN gross \subseteq DOMAIN seeks
      /\ \A s \in DOMAIN gross : \E k \in Nat :
           gross[s] = [seeks[s] EXCEPT !.amount = k]
  BY <1>2, <1>4, GrossLockedSeeksType
<1>9. Reamounted(gross, seeks)
  <2> HIDE DEF gross
  <2> QED
    BY <1>7, <1>8 DEF Reamounted
<1>10. feeRate \in 0 .. B - 1 /\ \A s \in DOMAIN seeks :
         Covered(seeks, locked)[s] \in Int
  BY <1>4, CoveredType
<1>11. Reamounted(UnlockedSeeks(seeks, locked), seeks)
  BY <1>1, <1>10, LeftReamounts DEF UnlockedSeeks
<1>12. feeRate \in 0 .. MaxFeeRate
  <2>1. IsQueueOf(locked, ProvideItem, m)
    BY <1>1, <1>5, ReamountedType
  <2>2. \A p \in DOMAIN locked : locked[p].minFeeRate \in 0 .. MaxFeeRate
    BY <1>1, <2>1, ItemType DEF IsQueueOf
  <2> QED
    BY <2>2, EffectiveFeeRateType, PoolAssumption
<1> QED
  BY <1>4, <1>5, <1>6, <1>9, <1>10, <1>11, <1>12 DEF locked

\* Taking the fees gives the locked seeks new amounts.
LEMMA NetReamounts ==
    ASSUME NEW next \in Nat, NEW gross, IsQueueOf(gross, SeekItem, next),
           NEW feeRate \in 0 .. B
    PROVE  /\ Reamounted(NetLockedSeeks(gross, feeRate), gross)
           /\ DOMAIN NetLockedSeeks(gross, feeRate) = DOMAIN gross
           /\ \A s \in DOMAIN gross :
                NetLockedSeeks(gross, feeRate)[s].amount =
                  gross[s].amount - Fee(gross[s].amount, feeRate)
           /\ IsAmounts(Fees(gross, feeRate))
<1> DEFINE net == NetLockedSeeks(gross, feeRate)
<1>1. /\ net = [s \in DOMAIN net |-> net[s]]
      /\ DOMAIN net = DOMAIN gross
  BY DEF NetLockedSeeks
<1>2. IsQueue(gross)
  BY QueueOfIsQueue DEF IsItem
<1>3. ASSUME NEW s \in DOMAIN gross
      PROVE  /\ gross[s].amount - Fee(gross[s].amount, feeRate) \in Nat
             /\ Fee(gross[s].amount, feeRate) \in Nat
             /\ "amount" \in DOMAIN gross[s]
             /\ net[s] = [gross[s] EXCEPT
                            !.amount = gross[s].amount
                                         - Fee(gross[s].amount, feeRate)]
  <2>1. gross[s].amount \in Nat /\ "amount" \in DOMAIN gross[s]
    BY <1>2 DEF IsQueue
  <2>2. /\ Fee(gross[s].amount, feeRate) \in Nat
        /\ Fee(gross[s].amount, feeRate) <= gross[s].amount
    BY <2>1, FeeType
  <2> QED
    BY <2>1, <2>2 DEF NetLockedSeeks
<1>4. IsAmounts(Fees(gross, feeRate))
  BY <1>2, <1>3 DEF IsAmounts, Fees, IsQueue
<1> HIDE DEF net
<1>5. Reamounted(net, gross)
  BY <1>1, <1>3 DEF Reamounted
<1>6. \A s \in DOMAIN gross :
        net[s].amount = gross[s].amount - Fee(gross[s].amount, feeRate)
  BY <1>3
<1> QED
  BY <1>1, <1>4, <1>5, <1>6 DEF net

\* What a provider has locked is its weight when the fees are shared.
LEMMA WeightsType ==
    ASSUME NEW next \in Nat, NEW locked, IsQueueOf(locked, ProvideItem, next)
    PROVE  IsAmounts(ProviderWeights(locked))
<1> DEFINE providers == {locked[p].account : p \in DOMAIN locked}
           owner     == [p \in DOMAIN locked |-> locked[p].account]
<1>1. IsItem(ProvideItem)
  BY DEF IsItem
<1>2. owner \in Surjection(DOMAIN locked, providers)
  BY DEF Surjection
<1>3. IsFiniteSet(DOMAIN locked)
  BY <1>1, QueueOfIsQueue DEF IsQueue
<1>4. IsFiniteSet(providers)
  BY <1>2, <1>3, FS_Surjection
<1>5. \A a : Holding(locked, a) \in Nat
  BY <1>1, HoldingType
<1> QED
  BY <1>4, <1>5 DEF ProviderWeights, IsAmounts

\* Sharing the fees by what providers have locked divides by what is locked.
LEMMA WeightsPositive ==
    ASSUME NEW next \in Nat, NEW locked, IsQueueOf(locked, ProvideItem, next),
           NEW pool, ~DividesByZero(ProviderWeights(locked), pool),
           DOMAIN locked # {}
    PROVE  Sum(locked) # 0
<1> DEFINE weights == ProviderWeights(locked)
<1>1. IsQueue(locked)
  BY QueueOfIsQueue DEF IsItem
<1>2. DOMAIN weights = {locked[p].account : p \in DOMAIN locked}
  BY DEF ProviderWeights
<1>3. DOMAIN weights # {}
  BY <1>2
<1>4. Total(weights) # 0
  BY <1>3 DEF DividesByZero
<1>5. ASSUME Sum(locked) = 0, NEW a \in DOMAIN weights
      PROVE  weights[a] = 0
  <2>1. Holding(locked, a) \in Nat /\ Holding(locked, a) <= Sum(locked)
    BY <1>1, OnlyType DEF Holding
  <2>2. weights[a] = Holding(locked, a)
    BY <1>2 DEF ProviderWeights
  <2> QED
    BY <1>5, <2>1, <2>2
<1> QED
  BY <1>4, <1>5, TotalZero

-----------------------------------------------------------------------------
(***************************************************************************)
(* Metadata.                                                               *)
(***************************************************************************)
\* Updating metadata keeps its type.
LEMMA MetadataField ==
    ASSUME NEW x \in Metadata, NEW n \in Nat, NEW b \in BOOLEAN
    PROVE  /\ [x EXCEPT !.withdrawn = @ + n,
                        !.fullyWithdrawn = @ \/ b] \in Metadata
           /\ [x EXCEPT !.feesPaid = @ + n] \in Metadata
<1>1. /\ x.withdrawn \in Nat /\ x.feesPaid \in Nat
      /\ x.fullyWithdrawn \in BOOLEAN
  BY DEF Metadata
<1>2. x.withdrawn + n \in Nat /\ x.feesPaid + n \in Nat
  BY <1>1
<1>3. (x.fullyWithdrawn \/ b) \in BOOLEAN
  BY <1>1
<1>4. [x EXCEPT !.feesPaid = x.feesPaid + n] \in Metadata
  BY <1>2 DEF Metadata
<1>5. ASSUME NEW i \in Nat, NEW c \in BOOLEAN
      PROVE  [x EXCEPT !.withdrawn = i, !.fullyWithdrawn = c] \in Metadata
  BY DEF Metadata
<1> QED
  BY <1>2, <1>3, <1>4, <1>5

\* What a transaction's seeks come to is a number of millisats.
LEMMA PartOfAmounts ==
    ASSUME NEW f, IsAmounts(f), NEW S
    PROVE  Total(Only(f, S)) \in Nat
<1> DEFINE part == Only(f, S)
<1>1. DOMAIN part = S \cap DOMAIN f /\ \A s \in DOMAIN part : part[s] = f[s]
  BY DEF Only
<1> HIDE DEF part
<1>2. IsFiniteSet(DOMAIN part)
  BY <1>1, FS_Subset DEF IsAmounts
<1>3. IsAmounts(part)
  BY <1>1, <1>2 DEF IsAmounts
<1> QED
  BY <1>3, TotalType DEF part

\* A transaction with seeks in a table has a first one there.
LEMMA FirstIsThere ==
    ASSUME NEW items, DOMAIN items \subseteq Nat, NEW m, OfTx(items, m) # {}
    PROVE  First(items, m) \in DOMAIN items
<1> DEFINE own == OfTx(items, m)
<1>1. own \subseteq Nat /\ own # {} /\ own \subseteq DOMAIN items
  BY DEF OfTx
<1> HIDE DEF own
<1>2. \E s \in own : \A t \in own : <<t, s>> \notin OpToRel(<, Nat)
  BY <1>1, WFMin, NatLessThanWellFounded
<1>3. PICK s \in own : \A t \in own : <<t, s>> \notin OpToRel(<, Nat)
  BY <1>2
<1>4. ASSUME NEW t \in own
      PROVE  s <= t
  <2>1. <<t, s>> \in Nat \X Nat
    BY <1>1
  <2>2. ~(t < s)
    BY <1>3, <2>1 DEF OpToRel
  <2> QED
    BY <1>1, <2>2
<1>5. (CHOOSE first \in own : \A t \in own : first <= t) \in own
  BY <1>4
<1> QED
  BY <1>1, <1>5 DEF First, own

\* Cancelling keeps metadata well typed.
LEMMA MetadataCancellingType ==
    ASSUME TypeOK, NEW seeks, IsQueueOf(seeks, SeekItem, nextSeek)
    PROVE  IsQueueOf(MetadataAfterCancelling(seeks), Metadata, nextSeek)
<1> DEFINE behind  == NewerOwn(seeks)
           want    == OwnersToCancel(seeks)
           taken   == Taken(seeks, behind, want)
           visited == Reached(seeks, behind, want)
           part(m) == Total(Only(taken, OfTx(seeks, m)))
           all(m)  == \E s \in visited :
                        txid[s] = m /\ taken[s] = seeks[s].amount
           after   == MetadataAfterCancelling(seeks)
<1>1. \A m : part(m) \in Nat
  <2>1. IsItem(SeekItem) /\ nextSeek \in Nat
    BY DEF IsItem, TypeOK
  <2>2. \A s \in DOMAIN seeks : want[s] \in Int
    BY <2>1, ToCancelType
  <2>3. IsQueue(seeks)
    BY <2>1, QueueOfIsQueue
  <2> HIDE DEF want
  <2>4. IsAmounts(taken)
    BY <2>2, <2>3, TakenType
  <2> HIDE DEF taken
  <2> QED
    BY <2>4, PartOfAmounts
<1>2. DOMAIN after = DOMAIN seekMetadata /\ after = [m \in DOMAIN after |-> after[m]]
  BY DEF MetadataAfterCancelling
<1>3. ASSUME NEW m \in DOMAIN seekMetadata
      PROVE  after[m] \in Metadata
  <2>1. seekMetadata[m] \in Metadata
    BY DEF TypeOK, IsQueueOf
  <2>2. after[m] = [seekMetadata[m] EXCEPT !.withdrawn = @ + part(m),
                                           !.fullyWithdrawn = @ \/ all(m)]
    BY DEF MetadataAfterCancelling
  <2>3. part(m) \in Nat /\ all(m) \in BOOLEAN
    BY <1>1
  <2> HIDE DEF part, all, after
  <2> QED
    BY ZenonT(40), <2>1, <2>2, <2>3, MetadataField
<1> HIDE DEF after
<1>4. DOMAIN seekMetadata \subseteq 0 .. nextSeek - 1
  BY DEF TypeOK, IsQueueOf
<1> QED
  BY <1>2, <1>3, <1>4 DEF IsQueueOf, after

\* So does locking, which opens records for the transactions that had none.
LEMMA MetadataLockingType ==
    ASSUME TypeOK, NEW metadata, IsQueueOf(metadata, Metadata, nextSeek),
           NEW gross, IsQueueOf(gross, SeekItem, nextSeek),
           NEW feeRate \in 0 .. B
    PROVE  IsQueueOf(MetadataAfterLocking(metadata, gross, feeRate),
                     Metadata, nextSeek)
<1> DEFINE fees    == Fees(gross, feeRate)
           part(m) == Total(Only(fees, OfTx(gross, m)))
           opened  == {txid[s] : s \in DOMAIN gross}
           after   == MetadataAfterLocking(metadata, gross, feeRate)
<1>0. nextSeek \in Nat /\ IsItem(SeekItem)
  BY DEF TypeOK, IsItem
<1>1. \A m : part(m) \in Nat
  <2>1. IsAmounts(fees)
    BY <1>0, NetReamounts
  <2> HIDE DEF fees
  <2> QED
    BY <2>1, PartOfAmounts
<1>2. /\ DOMAIN after = DOMAIN metadata \cup opened
      /\ after = [m \in DOMAIN after |-> after[m]]
  BY DEF MetadataAfterLocking
<1>3. ASSUME NEW m \in DOMAIN after
      PROVE  after[m] \in Metadata
  <2>1. CASE m \in DOMAIN metadata
    <3>1. after[m] = [metadata[m] EXCEPT !.feesPaid = @ + part(m)]
      BY <1>2, <2>1 DEF MetadataAfterLocking
    <3>2. metadata[m] \in Metadata /\ part(m) \in Nat
      BY <1>1, <2>1 DEF IsQueueOf
    <3> HIDE DEF after, part
    <3> QED
      BY <3>1, <3>2, MetadataField
  <2>2. CASE m \notin DOMAIN metadata
    <3>1. after[m] = [initial |-> gross[First(gross, m)].amount,
                      withdrawn |-> 0, feesPaid |-> part(m),
                      fullyWithdrawn |-> FALSE]
      BY <1>2, <2>2 DEF MetadataAfterLocking
    <3>2. OfTx(gross, m) # {} /\ DOMAIN gross \subseteq Nat
      BY <1>0, <1>2, <2>2 DEF OfTx, IsQueueOf
    <3>3. First(gross, m) \in DOMAIN gross
      BY <3>2, FirstIsThere
    <3>4. gross[First(gross, m)].amount \in Nat
      BY <1>0, <3>3, ItemType DEF IsQueueOf, IsItem
    <3>5. part(m) \in Nat
      BY <1>1
    <3> HIDE DEF after, part
    <3> QED
      BY <3>1, <3>4, <3>5 DEF Metadata
  <2> QED
    BY <2>1, <2>2
<1>4. DOMAIN after \subseteq 0 .. nextSeek - 1
  <2>1. opened \subseteq 0 .. nextSeek - 1
    BY DEF TypeOK, IsQueueOf
  <2> HIDE DEF after, opened
  <2> QED
    BY <1>2, <2>1 DEF IsQueueOf
<1> HIDE DEF after
<1> QED
  BY <1>2, <1>3, <1>4 DEF IsQueueOf, after

-----------------------------------------------------------------------------
(***************************************************************************)
(* A turnover, as far as the invariants need it: all seeks, and all        *)
(* provides, go back into one queue and are split into the new locks and   *)
(* what stays staged.                                                      *)
(***************************************************************************)
Owners(items) == {items[s].account : s \in DOMAIN items}

\* The queue that the locks and the staged items of a turnover are parts of.
LEMMA RestagedLocks ==
    ASSUME TypeOK, NEW next \in Nat, NEW Item, IsItem(Item), NEW behind,
           NEW staged, IsQueueOf(staged, Item, next),
           NEW locked, IsQueueOf(locked, Item, next),
           NEW paid, Reamounted(paid, locked)
    PROVE  LET all == Restaged(staged, Renewed(paid, behind))
           IN  /\ IsQueueOf(all, Item, next)
               /\ Owners(all) \subseteq Owners(staged) \cup Owners(locked)
               /\ \A a : Refund(paid, behind, a) \in Nat
<1> DEFINE renewed == Renewed(paid, behind)
           all     == Restaged(staged, renewed)
<1>1. /\ IsQueueOf(paid, Item, next)
      /\ \A s \in DOMAIN paid :
           s \in DOMAIN locked /\ paid[s].account = locked[s].account
  BY ReamountedType
<1>2. Reamounted(renewed, paid) /\ \A a : Refund(paid, behind, a) \in Nat
  BY <1>1, RenewedReamounts
<1> HIDE DEF renewed
<1>3. /\ IsQueueOf(renewed, Item, next)
      /\ \A s \in DOMAIN renewed :
           s \in DOMAIN paid /\ renewed[s].account = paid[s].account
  BY <1>1, <1>2, ReamountedType
<1>4. /\ IsQueueOf(all, Item, next)
      /\ \A s \in DOMAIN all :
           \/ s \in DOMAIN staged /\ all[s].account = staged[s].account
           \/ s \in DOMAIN renewed /\ all[s].account = renewed[s].account
  BY <1>3, RestagedType
<1> HIDE DEF all
<1>5. Owners(all) \subseteq Owners(staged) \cup Owners(locked)
  BY <1>1, <1>3, <1>4 DEF Owners
<1> QED
  BY <1>2, <1>4, <1>5 DEF all, renewed

\* A turnover that does not halt.
LEMMA TurnoverParts ==
    ASSUME TypeOK, NEW newPrice \in Prices, Turnover(newPrice), halted' = "no"
    PROVE  \E seeks, provides :
             /\ IsQueueOf(seeks, SeekItem, nextSeek)
             /\ IsQueueOf(provides, ProvideItem, nextProvide)
             /\ Owners(seeks) \subseteq
                  Owners(stagedSeeks) \cup Owners(cycle.lockedSeeks)
             /\ Owners(provides) \subseteq
                  Owners(stagedProvides) \cup Owners(cycle.lockedProvides)
             /\ Reamounted(stagedSeeks', seeks)
             /\ Reamounted(stagedProvides', provides)
             /\ Reamounted(cycle'.lockedSeeks, seeks)
             /\ Reamounted(cycle'.lockedProvides, provides)
             /\ Sum(cycle'.lockedSeeks) * CollProvider
                  <= Sum(cycle'.lockedProvides) * CollSeeker
             /\ DOMAIN cycle'.lockedProvides # {} =>
                  Sum(cycle'.lockedProvides) # 0
             /\ cancellations' = Nothing
             /\ idle' \in [Account -> Nat]
             /\ IsQueueOf(seekMetadata', Metadata, nextSeek)
             /\ \E feeRate \in 0 .. MaxFeeRate :
                  cycle' = [index |-> cycle.index + 1, startPrice |-> newPrice,
                            feeRate |-> feeRate,
                            lockedSeeks |-> cycle'.lockedSeeks,
                            lockedProvides |-> cycle'.lockedProvides]
             /\ pastFeeRates' \in {pastFeeRates,
                                   Append(pastFeeRates, cycle.feeRate)}
             /\ provideMark' = nextProvide
             /\ TransactionEnds
             /\ UNCHANGED <<nextSeek, nextProvide, escrow>>
<1>1. /\ ~DividesByZero(Amounts(cycle.lockedSeeks), SeeksPool(newPrice))
      /\ ~DividesByZero(Amounts(cycle.lockedProvides), ProvidesPool(newPrice))
      /\ \E s \in SettledSeeks(newPrice), p \in SettledProvides(newPrice) :
           Relock(newPrice, s, p)
  BY DEF Turnover, Halt
<1>2. PICK paidSeeks \in SettledSeeks(newPrice),
           paidProvides \in SettledProvides(newPrice) :
        Relock(newPrice, paidSeeks, paidProvides)
  BY <1>1
<1> DEFINE seeksBehind    == NewerOwn(paidSeeks)
           providesBehind == DearerOwn(paidProvides)
           seeks    == Restaged(stagedSeeks, Renewed(paidSeeks, seeksBehind))
           provides == Restaged(stagedProvides,
                                Renewed(paidProvides, providesBehind))
           locked   == LockedProvides(seeks, provides)
           feeRate  == EffectiveFeeRate(locked)
           gross    == GrossLockedSeeks(seeks, locked)
           net      == NetLockedSeeks(gross, feeRate)
           feePool  == Total(Fees(gross, feeRate))
           weights  == ProviderWeights(locked)
           metadata == MetadataAfterCancelling(paidSeeks)
<1>3. ~DividesByZero(weights, feePool)
  BY <1>2 DEF Relock, Halt
<1>4. PICK pay \in Payouts(weights, feePool) :
        /\ idle' = [a \in Account |->
                      idle[a] + Refund(paidSeeks, seeksBehind, a)
                        + Refund(paidProvides, providesBehind, a)
                        + (IF a \in DOMAIN pay THEN pay[a] ELSE 0)]
        /\ cancellations' = Nothing
        /\ stagedSeeks' = UnlockedSeeks(seeks, locked)
        /\ stagedProvides' = UnlockedProvides(seeks, provides)
        /\ cycle' = [index |-> cycle.index + 1, startPrice |-> newPrice,
                     feeRate |-> feeRate, lockedSeeks |-> net,
                     lockedProvides |-> locked]
        /\ seekMetadata' = MetadataAfterLocking(metadata, gross, feeRate)
        /\ pastFeeRates' = IF cycle.index = 0 THEN pastFeeRates
                           ELSE Append(pastFeeRates, cycle.feeRate)
        /\ provideMark' = nextProvide
        /\ TransactionEnds
        /\ UNCHANGED <<nextSeek, nextProvide, escrow>>
  BY <1>2, <1>3 DEF Relock
<1>5. newPrice \in Nat \ {0}
  BY PoolAssumption
<1>6. /\ nextSeek \in Nat /\ nextProvide \in Nat
      /\ IsItem(SeekItem) /\ IsItem(ProvideItem)
  BY DEF TypeOK, IsItem
<1>7. /\ Reamounted(paidSeeks, cycle.lockedSeeks)
      /\ Reamounted(paidProvides, cycle.lockedProvides)
  BY <1>1, <1>2, <1>5, SettledReamounts
<1> HIDE DEF seeksBehind, providesBehind
<1>8. /\ IsQueueOf(seeks, SeekItem, nextSeek)
      /\ Owners(seeks) \subseteq
           Owners(stagedSeeks) \cup Owners(cycle.lockedSeeks)
      /\ \A a : Refund(paidSeeks, seeksBehind, a) \in Nat
  BY <1>6, <1>7, RestagedLocks DEF TypeOK
<1>9. /\ IsQueueOf(provides, ProvideItem, nextProvide)
      /\ Owners(provides) \subseteq
           Owners(stagedProvides) \cup Owners(cycle.lockedProvides)
      /\ \A a : Refund(paidProvides, providesBehind, a) \in Nat
  BY <1>6, <1>7, RestagedLocks DEF TypeOK
<1>10. IsQueueOf(metadata, Metadata, nextSeek)
  BY <1>6, <1>7, ReamountedType, MetadataCancellingType DEF TypeOK
<1> HIDE DEF seeks, provides, metadata
<1>11. /\ Reamounted(locked, provides)
       /\ Reamounted(UnlockedProvides(seeks, provides), provides)
       /\ Reamounted(gross, seeks)
       /\ Reamounted(UnlockedSeeks(seeks, locked), seeks)
       /\ \A p \in DOMAIN locked : locked[p].minFeeRate \in 0 .. B - 1
       /\ feeRate \in 0 .. B - 1
       /\ feeRate \in 0 .. MaxFeeRate
  BY <1>6, <1>8, <1>9, LocksType
<1>12. feeRate \in 0 .. B
  BY <1>11, MatchingAssumption
<1> HIDE DEF locked
<1>13. /\ IsQueueOf(gross, SeekItem, nextSeek)
       /\ IsQueueOf(locked, ProvideItem, nextProvide)
  BY <1>6, <1>8, <1>9, <1>11, ReamountedType
<1>14. /\ IsQueue(seeks) /\ IsQueue(locked)
       /\ DOMAIN seeks \subseteq 0 .. nextSeek
  <2>1. IsQueue(seeks) /\ IsQueue(locked)
    BY <1>6, <1>8, <1>13, QueueOfIsQueue
  <2>2. 0 .. nextSeek - 1 \subseteq 0 .. nextSeek
    BY <1>6
  <2> QED
    BY <1>8, <2>1, <2>2 DEF IsQueueOf
<1>15. Reamounted(net, gross) /\ IsAmounts(Fees(gross, feeRate))
  BY <1>6, <1>12, <1>13, NetReamounts
<1>16. Sum(net) * CollProvider <= Sum(locked) * CollSeeker
  <2>1. /\ DOMAIN net = DOMAIN gross
        /\ \A s \in DOMAIN net : net[s].amount =
             gross[s].amount - Fee(gross[s].amount, feeRate)
    BY <1>6, <1>12, <1>13, NetReamounts
  <2> HIDE DEF net
  <2> QED
    BY <1>6, <1>11, <1>14, <2>1, LocksAreCollateralised
<1>17. DOMAIN locked # {} => Sum(locked) # 0
  <2> HIDE DEF feePool
  <2> QED
    BY <1>3, <1>6, <1>13, WeightsPositive
<1>18. Reamounted(net, seeks)
  <2> HIDE DEF net, gross
  <2> QED
    BY <1>11, <1>14, <1>15, ReamountedTransitive DEF IsQueue
<1>19. IsQueueOf(seekMetadata', Metadata, nextSeek)
  BY <1>4, <1>10, <1>12, <1>13, MetadataLockingType
<1>20. idle' \in [Account -> Nat]
  <2>1. IsAmounts(weights)
    BY <1>6, <1>13, WeightsType
  <2>2. feePool \in Nat
    BY <1>15, TotalType
  <2> HIDE DEF weights, feePool
  <2>3. IsAmounts(pay)
    BY <1>3, <1>4, <2>1, <2>2, PayoutsAreExact
  <2>4. ASSUME NEW a \in Account
        PROVE  idle[a] + Refund(paidSeeks, seeksBehind, a)
                 + Refund(paidProvides, providesBehind, a)
                 + (IF a \in DOMAIN pay THEN pay[a] ELSE 0) \in Nat
    <3>1. (IF a \in DOMAIN pay THEN pay[a] ELSE 0) \in Nat
      BY <2>3 DEF IsAmounts
    <3>2. idle[a] \in Nat
      BY DEF TypeOK
    <3> QED
      BY <1>8, <1>9, <3>1, <3>2
  <2> QED
    BY <1>4, <2>4
<1>21. /\ cycle'.lockedSeeks = net /\ cycle'.lockedProvides = locked
       /\ cycle' = [index |-> cycle.index + 1, startPrice |-> newPrice,
                    feeRate |-> feeRate,
                    lockedSeeks |-> cycle'.lockedSeeks,
                    lockedProvides |-> cycle'.lockedProvides]
  BY <1>4
<1>22. pastFeeRates' \in {pastFeeRates, Append(pastFeeRates, cycle.feeRate)}
  BY <1>4
<1> HIDE DEF net, feeRate
<1>23. WITNESS seeks, provides
<1>24. \E rate \in 0 .. MaxFeeRate :
         cycle' = [index |-> cycle.index + 1, startPrice |-> newPrice,
                   feeRate |-> rate,
                   lockedSeeks |-> cycle'.lockedSeeks,
                   lockedProvides |-> cycle'.lockedProvides]
  BY <1>11, <1>21
<1>25. /\ Reamounted(stagedSeeks', seeks)
       /\ Reamounted(stagedProvides', provides)
       /\ Reamounted(cycle'.lockedSeeks, seeks)
       /\ Reamounted(cycle'.lockedProvides, provides)
       /\ Sum(cycle'.lockedSeeks) * CollProvider
            <= Sum(cycle'.lockedProvides) * CollSeeker
       /\ DOMAIN cycle'.lockedProvides # {} =>
            Sum(cycle'.lockedProvides) # 0
  BY <1>4, <1>11, <1>16, <1>18, <1>21, <1>17
<1> QED
  BY <1>4, <1>8, <1>9, <1>19, <1>20, <1>22, <1>24, <1>25, Zenon

-----------------------------------------------------------------------------
(***************************************************************************)
(* The steps.                                                              *)
(***************************************************************************)

\* Staging a deposit.
LEMMA AddType ==
    ASSUME NEW next \in Nat, NEW Item,
           NEW queue, IsQueueOf(queue, Item, next),
           NEW item \in Item
    PROVE  /\ IsQueueOf(Add(queue, next, item), Item, next + 1)
           /\ DOMAIN Add(queue, next, item) = DOMAIN queue \cup {next}
           /\ Owners(Add(queue, next, item))
                \subseteq Owners(queue) \cup {item.account}
           /\ \A s \in DOMAIN queue : Add(queue, next, item)[s] = queue[s]
<1> DEFINE more == Add(queue, next, item)
<1>1. /\ DOMAIN more = DOMAIN queue \cup {next}
      /\ more = [s \in DOMAIN more |-> more[s]]
  BY DEF Add
<1>2. more[next] = item /\ \A s \in DOMAIN queue : s # next => more[s] = queue[s]
  BY DEF Add
<1>3. next \notin DOMAIN queue /\ \A s \in DOMAIN queue : queue[s] \in Item
  BY DEF IsQueueOf
<1>4. DOMAIN more \subseteq 0 .. (next + 1) - 1
  <2>1. \A s \in DOMAIN queue : s \in 0 .. next - 1
    BY DEF IsQueueOf
  <2> HIDE DEF more
  <2> QED
    BY <1>1, <2>1
<1> HIDE DEF more
<1>5. IsQueueOf(more, Item, next + 1)
  BY <1>1, <1>2, <1>3, <1>4 DEF IsQueueOf
<1>6. Owners(more) \subseteq Owners(queue) \cup {item.account}
  BY <1>1, <1>2, <1>3 DEF Owners
<1> QED
  BY <1>1, <1>2, <1>3, <1>5, <1>6 DEF more

\* Counters only grow, and what was below one stays below it.
LEMMA QueueOfGrows ==
    ASSUME NEW next \in Nat, NEW Item, NEW items, IsQueueOf(items, Item, next)
    PROVE  IsQueueOf(items, Item, next + 1)
<1>1. 0 .. next - 1 \subseteq 0 .. (next + 1) - 1
  OBVIOUS
<1> QED
  BY <1>1 DEF IsQueueOf

\* A withdrawal only lowers what the account has staged.
LEMMA WithdrawalParts ==
    ASSUME TypeOK, NEW a \in Account, NEW amount \in Withdrawals,
           ProcessInput(a, amount)
    PROVE  /\ Reamounted(stagedSeeks', stagedSeeks)
           /\ Reamounted(stagedProvides', stagedProvides)
           /\ idle' \in [Account -> Nat]
           /\ escrow' \in Int
           /\ TransactionEnds
           /\ UNCHANGED <<cancellations, cycle, pastFeeRates, nextSeek,
                          nextProvide, provideMark, seekMetadata, halted>>
<1> DEFINE afterIdle  == amount - Least(amount, idle[a])
           afterSeeks == afterIdle - Least(afterIdle, Holding(stagedSeeks, a))
<1>1. /\ nextSeek \in Nat /\ nextProvide \in Nat
      /\ IsItem(SeekItem) /\ IsItem(ProvideItem)
  BY DEF TypeOK, IsItem
<1>2. amount \in Nat /\ idle[a] \in Nat /\ Holding(stagedSeeks, a) \in Nat
  BY <1>1, HoldingType, PoolAssumption DEF TypeOK
<1>3. afterIdle \in Int
  BY <1>2 DEF Least
<1>4. afterSeeks \in Int
  BY <1>2, <1>3 DEF Least
<1>5. /\ Of(stagedSeeks, a) \subseteq DOMAIN stagedSeeks
      /\ Of(stagedProvides, a) \subseteq DOMAIN stagedProvides
  BY DEF Of
<1>6. /\ stagedSeeks' =
           Drained(stagedSeeks, Of(stagedSeeks, a),
                   SeeksBehind(Only(stagedSeeks, Of(stagedSeeks, a))),
                   afterIdle)
      /\ stagedProvides' =
           Drained(stagedProvides, Of(stagedProvides, a),
                   ProvidesBehind(Only(stagedProvides, Of(stagedProvides, a))),
                   afterSeeks)
      /\ idle' = [idle EXCEPT ![a] = @ - Least(amount, @)]
      /\ escrow' = escrow - amount
  BY DEF ProcessInput
<1> HIDE DEF afterIdle, afterSeeks
<1>7. Reamounted(stagedSeeks', stagedSeeks)
  BY <1>1, <1>3, <1>5, <1>6, DrainedReamounts DEF TypeOK
<1>8. Reamounted(stagedProvides', stagedProvides)
  BY <1>1, <1>4, <1>5, <1>6, DrainedReamounts DEF TypeOK
<1>9. idle' \in [Account -> Nat]
  <2>1. idle[a] - Least(amount, idle[a]) \in Nat
    BY <1>2 DEF Least
  <2>2. idle' = [idle EXCEPT ![a] = idle[a] - Least(amount, idle[a])]
    BY <1>6
  <2> QED
    BY <2>1, <2>2 DEF TypeOK
<1>10. escrow' \in Int
  BY <1>2, <1>6 DEF TypeOK
<1> QED
  BY <1>7, <1>8, <1>9, <1>10 DEF ProcessInput

\* A step of the pool, for the proofs below to go through case by case.
LEMMA StepCases ==
    ASSUME Next
    PROVE  \/ \E a \in Account, amount \in Deposits : Seek(a, amount)
           \/ \E a \in Account, amount \in Deposits, feeRate \in FeeRates :
                Provide(a, amount, feeRate)
           \/ \E a \in Account, bps \in Bps :
                CancelRenewal(a, bps)
           \/ \E a \in Account : UndoCancelRenewal(a)
           \/ \E a \in Account, amount \in Withdrawals : ProcessInput(a, amount)
           \/ \E newPrice \in Prices : Turnover(newPrice) /\ halted' = "no"
           \/ /\ halted' \in {"seeks", "provides", "fees"}
              /\ UNCHANGED <<idle, queues, cancellations, cycle, pastFeeRates,
                             nextSeek, nextProvide, provideMark, txid, txStart,
                             seekMetadata, escrow>>
<1>1. ASSUME NEW newPrice \in Prices, Turnover(newPrice)
      PROVE  \/ halted' = "no"
             \/ /\ halted' \in {"seeks", "provides", "fees"}
                /\ UNCHANGED <<idle, queues, cancellations, cycle,
                               pastFeeRates, nextSeek, nextProvide,
                               provideMark, txid, txStart, seekMetadata,
                               escrow>>
  BY <1>1 DEF Turnover, Relock, Halt
<1> QED
  BY <1>1 DEF Next

\* The transaction of a new seek, and of the earlier ones.
LEMMA TxidsType ==
    ASSUME TypeOK, NEW a \in Account, NEW amount \in Deposits, Seek(a, amount)
    PROVE  /\ txid' \in [0 .. nextSeek' - 1 -> 0 .. nextSeek' - 1]
           /\ txStart' \in 0 .. nextSeek'
           /\ DOMAIN txid \subseteq DOMAIN txid'
           /\ \A s \in DOMAIN txid : txid'[s] = txid[s]
<1> DEFINE id == TxidOf(a, txStart')
<1>1. /\ nextSeek \in Nat /\ txStart \in 0 .. nextSeek
      /\ txid \in [0 .. nextSeek - 1 -> 0 .. nextSeek - 1]
      /\ DOMAIN stagedSeeks \subseteq 0 .. nextSeek - 1
  BY DEF TypeOK, IsQueueOf
<1>2. /\ txid' = Add(txid, nextSeek, id) /\ nextSeek' = nextSeek + 1
      /\ txStart' \in {txStart, nextSeek}
  BY DEF Seek
<1>3. id \in 0 .. nextSeek
  <2> DEFINE before == {s \in Of(stagedSeeks, a) : s >= txStart'}
  <2>1. before \subseteq 0 .. nextSeek - 1
    BY <1>1 DEF Of
  <2>2. id = IF before = {} THEN nextSeek ELSE txid[CHOOSE s \in before : TRUE]
    BY DEF TxidOf
  <2> HIDE DEF before, id
  <2>3. CASE before = {}
    BY <1>1, <2>2, <2>3
  <2>4. CASE before # {}
    <3> DEFINE one == CHOOSE s \in before : TRUE
    <3>1. one \in before /\ id = txid[one]
      BY <2>2, <2>4
    <3> HIDE DEF one
    <3>2. txid[one] \in 0 .. nextSeek - 1
      BY <1>1, <2>1, <3>1
    <3> QED
      BY <1>1, <3>1, <3>2
  <2> QED
    BY <2>3, <2>4
<1> HIDE DEF id
<1>4. /\ DOMAIN txid' = DOMAIN txid \cup {nextSeek}
      /\ txid' = [s \in DOMAIN txid \cup {nextSeek} |->
                    IF s = nextSeek THEN id ELSE txid[s]]
  BY <1>2 DEF Add
<1>5. DOMAIN txid \cup {nextSeek} = 0 .. nextSeek
  BY <1>1
<1>6. nextSeek' - 1 = nextSeek /\ txStart' \in 0 .. nextSeek'
  BY <1>1, <1>2
<1>7. \A s \in 0 .. nextSeek : (IF s = nextSeek THEN id ELSE txid[s]) \in 0 .. nextSeek
  BY <1>1, <1>3
<1>8. nextSeek \notin DOMAIN txid
  BY <1>1
<1> QED
  BY <1>4, <1>5, <1>6, <1>7, <1>8

\* Every item of consensus leaves every table of the ledger well typed: no
\* amount, refund, fee or share underflows, and no sequence number in use
\* reaches its counter.
THEOREM TypeCorrect == Spec => []TypeOK
<1>1. Init => TypeOK
  <2> SUFFICES ASSUME Init PROVE TypeOK
    OBVIOUS
  <2>1. \A Item : IsQueueOf(Nothing, Item, 0)
    BY DEF IsQueueOf, Nothing
  <2>2. Nothing \in [DOMAIN Nothing -> MinCancelBps .. BpsUnit]
        /\ DOMAIN Nothing \subseteq Account
    BY DEF Nothing
  <2>3. <<>> \in Seq(0 .. MaxFeeRate) /\ 0 \in 0 .. MaxFeeRate
    BY PoolAssumption
  <2>4. Nothing \in [0 .. 0 - 1 -> 0 .. 0 - 1] /\ 0 \in 0 .. 0
    BY DEF Nothing
  <2> QED
    BY <2>1, <2>2, <2>3, <2>4 DEF Init, TypeOK, NoCycle
<1>2. TypeOK /\ [Next]_vars => TypeOK'
  <2> SUFFICES ASSUME TypeOK, [Next]_vars PROVE TypeOK'
    OBVIOUS
  <2>0. /\ nextSeek \in Nat /\ nextProvide \in Nat
        /\ IsItem(SeekItem) /\ IsItem(ProvideItem)
    BY DEF TypeOK, IsItem
  <2>9. TransactionEnds /\ nextSeek' = nextSeek
          => /\ txid' \in [0 .. nextSeek' - 1 -> 0 .. nextSeek' - 1]
             /\ txStart' \in 0 .. nextSeek'
    BY <2>0 DEF TypeOK, TransactionEnds
  <2>1. ASSUME NEW a \in Account, NEW amount \in Deposits, Seek(a, amount)
        PROVE  TypeOK'
    <3>1. amount \in Nat
      BY PoolAssumption
    <3>2. [account |-> a, amount |-> amount] \in SeekItem
      BY <3>1 DEF SeekItem
    <3>3. IsQueueOf(stagedSeeks', SeekItem, nextSeek')
      BY <2>0, <2>1, <3>2, AddType DEF Seek, TypeOK
    <3>4. /\ IsQueueOf(cycle'.lockedSeeks, SeekItem, nextSeek')
          /\ IsQueueOf(seekMetadata', Metadata, nextSeek')
      BY <2>0, <2>1, QueueOfGrows DEF Seek, TypeOK
    <3>5. /\ txid' \in [0 .. nextSeek' - 1 -> 0 .. nextSeek' - 1]
          /\ txStart' \in 0 .. nextSeek'
      BY <2>1, TxidsType
    <3> QED
      BY <2>0, <2>1, <3>1, <3>3, <3>4, <3>5 DEF Seek, TypeOK
  <2>2. ASSUME NEW a \in Account, NEW amount \in Deposits,
               NEW feeRate \in FeeRates, Provide(a, amount, feeRate)
        PROVE  TypeOK'
    <3>1. amount \in Nat /\ feeRate \in 0 .. MaxFeeRate
      BY <2>2, PoolAssumption DEF Provide
    <3>2. [account |-> a, amount |-> amount, minFeeRate |-> feeRate]
            \in ProvideItem
      BY <3>1 DEF ProvideItem
    <3>3. IsQueueOf(stagedProvides', ProvideItem, nextProvide')
      BY <2>0, <2>2, <3>2, AddType DEF Provide, TypeOK
    <3>4. IsQueueOf(cycle'.lockedProvides, ProvideItem, nextProvide')
      BY <2>0, <2>2, QueueOfGrows DEF Provide, TypeOK
    <3> QED
      BY <2>0, <2>2, <2>9, <3>1, <3>3, <3>4 DEF Provide, TypeOK
  <2>3. ASSUME NEW a \in Account, NEW bps \in Bps, CancelRenewal(a, bps)
        PROVE  TypeOK'
    <3>1. /\ DOMAIN cancellations' \subseteq Account
          /\ cancellations' \in [DOMAIN cancellations' ->
                                   MinCancelBps .. BpsUnit]
      BY <2>3 DEF CancelRenewal, Add, TypeOK
    <3> QED
      BY <2>3, <2>9, <3>1 DEF CancelRenewal, queues, TypeOK
  <2>4. ASSUME NEW a \in Account, UndoCancelRenewal(a)
        PROVE  TypeOK'
    <3>1. /\ DOMAIN cancellations' \subseteq Account
          /\ cancellations' \in [DOMAIN cancellations' ->
                                   MinCancelBps .. BpsUnit]
      BY <2>4 DEF UndoCancelRenewal, Only, TypeOK
    <3> QED
      BY <2>4, <2>9, <3>1 DEF UndoCancelRenewal, queues, TypeOK
  <2>5. ASSUME NEW a \in Account, NEW amount \in Withdrawals,
               ProcessInput(a, amount)
        PROVE  TypeOK'
    <3>1. /\ Reamounted(stagedSeeks', stagedSeeks)
          /\ Reamounted(stagedProvides', stagedProvides)
          /\ idle' \in [Account -> Nat]
          /\ escrow' \in Int
          /\ TransactionEnds
          /\ UNCHANGED <<cancellations, cycle, pastFeeRates, nextSeek,
                         nextProvide, provideMark, seekMetadata, halted>>
      BY <2>5, WithdrawalParts
    <3>2. /\ IsQueueOf(stagedSeeks', SeekItem, nextSeek)
          /\ IsQueueOf(stagedProvides', ProvideItem, nextProvide)
      BY <2>0, <3>1, ReamountedType DEF TypeOK
    <3> QED
      BY <2>9, <3>1, <3>2 DEF TypeOK
  <2>6. ASSUME NEW newPrice \in Prices, Turnover(newPrice), halted' = "no"
        PROVE  TypeOK'
    <3>1. PICK seeks, provides :
             /\ IsQueueOf(seeks, SeekItem, nextSeek)
             /\ IsQueueOf(provides, ProvideItem, nextProvide)
             /\ Reamounted(stagedSeeks', seeks)
             /\ Reamounted(stagedProvides', provides)
             /\ Reamounted(cycle'.lockedSeeks, seeks)
             /\ Reamounted(cycle'.lockedProvides, provides)
             /\ cancellations' = Nothing
             /\ idle' \in [Account -> Nat]
             /\ IsQueueOf(seekMetadata', Metadata, nextSeek)
             /\ \E feeRate \in 0 .. MaxFeeRate :
                  cycle' = [index |-> cycle.index + 1, startPrice |-> newPrice,
                            feeRate |-> feeRate,
                            lockedSeeks |-> cycle'.lockedSeeks,
                            lockedProvides |-> cycle'.lockedProvides]
             /\ pastFeeRates' \in {pastFeeRates,
                                   Append(pastFeeRates, cycle.feeRate)}
             /\ provideMark' = nextProvide
             /\ TransactionEnds
             /\ UNCHANGED <<nextSeek, nextProvide, escrow>>
      BY <2>6, TurnoverParts
    <3>2. /\ IsQueueOf(stagedSeeks', SeekItem, nextSeek)
          /\ IsQueueOf(stagedProvides', ProvideItem, nextProvide)
          /\ IsQueueOf(cycle'.lockedSeeks, SeekItem, nextSeek)
          /\ IsQueueOf(cycle'.lockedProvides, ProvideItem, nextProvide)
      BY <2>0, <3>1, ReamountedType
    <3>3. PICK feeRate \in 0 .. MaxFeeRate :
            cycle' = [index |-> cycle.index + 1, startPrice |-> newPrice,
                      feeRate |-> feeRate,
                      lockedSeeks |-> cycle'.lockedSeeks,
                      lockedProvides |-> cycle'.lockedProvides]
      BY <3>1
    <3>4. /\ cycle'.index \in Nat /\ cycle'.startPrice \in Nat \ {0}
          /\ cycle'.feeRate \in 0 .. MaxFeeRate
          /\ cycle' = [index |-> cycle'.index,
                       startPrice |-> cycle'.startPrice,
                       feeRate |-> cycle'.feeRate,
                       lockedSeeks |-> cycle'.lockedSeeks,
                       lockedProvides |-> cycle'.lockedProvides]
      <4>1. cycle.index + 1 \in Nat /\ newPrice \in Nat \ {0}
        BY SMTT(30), PoolAssumption DEF TypeOK
      <4> QED
        BY <3>3, <4>1
    <3>5. /\ DOMAIN cancellations' \subseteq Account
          /\ cancellations' \in [DOMAIN cancellations' ->
                                   MinCancelBps .. BpsUnit]
      BY <3>1 DEF Nothing
    <3>6. pastFeeRates' \in Seq(0 .. MaxFeeRate)
      <4> DEFINE Rates == 0 .. MaxFeeRate
      <4>1. pastFeeRates \in Seq(Rates) /\ cycle.feeRate \in Rates
        BY DEF TypeOK
      <4> HIDE DEF Rates
      <4>2. Append(pastFeeRates, cycle.feeRate) \in Seq(Rates)
        BY <4>1
      <4>3. pastFeeRates' \in Seq(Rates)
        BY <3>1, <4>1, <4>2
      <4> QED
        BY <4>3 DEF Rates
    <3> QED
      BY <2>0, <2>6, <2>9, <3>1, <3>2, <3>4, <3>5, <3>6 DEF TypeOK
  <2>7. ASSUME halted' \in {"seeks", "provides", "fees"},
               UNCHANGED <<idle, queues, cancellations, cycle, pastFeeRates,
                           nextSeek, nextProvide, provideMark, txid, txStart,
                           seekMetadata, escrow>>
        PROVE  TypeOK'
    BY <2>7 DEF queues, TypeOK
  <2>8. CASE UNCHANGED vars
    BY <2>8 DEF vars, TypeOK
  <2> QED
    BY <2>1, <2>2, <2>3, <2>4, <2>5, <2>6, <2>7, <2>8, StepCases, Zenon
<1> QED
  BY <1>1, <1>2, PTL DEF Spec

-----------------------------------------------------------------------------
(***************************************************************************)
(* Invariants.                                                             *)
(***************************************************************************)
\* The empty table.
LEMMA NothingIsEmpty ==
    /\ Owners(Nothing) = {}
    /\ \A a : Of(Nothing, a) = {}
    /\ Sum(Nothing) = 0
<1>1. DOMAIN Nothing = {} /\ DOMAIN Amounts(Nothing) = {}
  BY DEF Nothing, Amounts
<1>2. Sum(Nothing) = 0
  BY <1>1, TotalEmpty DEF Sum
<1> QED
  BY <1>1, <1>2 DEF Owners, Of

\* Only a turnover changes the locks, and it locks seeks only as far as the
\* provides it locks cover them.
THEOREM AlwaysCollateralised == Spec => []Collateralised
<1>1. Init => Collateralised
  <2> SUFFICES ASSUME Init PROVE Collateralised
    OBVIOUS
  <2>1. cycle.lockedSeeks = Nothing /\ cycle.lockedProvides = Nothing
    BY DEF Init, NoCycle
  <2> QED
    BY <2>1, NothingIsEmpty, MatchingAssumption DEF Collateralised
<1>2. TypeOK /\ Collateralised /\ [Next]_vars => Collateralised'
  <2> SUFFICES ASSUME TypeOK, Collateralised, [Next]_vars
               PROVE  Collateralised'
    OBVIOUS
  <2>1. ASSUME NEW newPrice \in Prices, Turnover(newPrice), halted' = "no"
        PROVE  Collateralised'
    BY <2>1, TurnoverParts DEF Collateralised
  <2>2. cycle' = cycle => Collateralised'
    BY DEF Collateralised
  <2>3. CASE UNCHANGED vars
    BY <2>2, <2>3 DEF vars
  <2>4. CASE Next
    BY <2>1, <2>2, <2>4, StepCases
       DEF Seek, Provide, CancelRenewal, UndoCancelRenewal, ProcessInput
  <2> QED
    BY <2>3, <2>4
<1> QED
  BY <1>1, <1>2, TypeCorrect, PTL DEF Spec

\* Who has something in a table.
LEMMA HasOwners ==
    ASSUME NEW items, NEW a
    PROVE  Has(items, a) <=> a \in Owners(items)
BY DEF Has, Of, Owners

\* New amounts give nothing to anyone who had nothing.
LEMMA ReamountedOwners ==
    ASSUME NEW next \in Nat, NEW Item, IsItem(Item),
           NEW old, IsQueueOf(old, Item, next),
           NEW new, Reamounted(new, old)
    PROVE  Owners(new) \subseteq Owners(old)
BY ReamountedType DEF Owners

\* A deposit stages something for its own account only.
LEMMA SeekOwner ==
    ASSUME TypeOK, NEW a \in Account, NEW amount \in Deposits, Seek(a, amount)
    PROVE  Owners(stagedSeeks') \subseteq Owners(stagedSeeks) \cup {a}
<1> DEFINE item == [account |-> a, amount |-> amount]
<1>1. item \in SeekItem /\ item.account = a
  BY PoolAssumption DEF SeekItem
<1>2. stagedSeeks' = Add(stagedSeeks, nextSeek, item)
  BY DEF Seek
<1>3. nextSeek \in Nat /\ IsQueueOf(stagedSeeks, SeekItem, nextSeek)
  BY DEF TypeOK
<1> HIDE DEF item
<1>4. Owners(Add(stagedSeeks, nextSeek, item))
        \subseteq Owners(stagedSeeks) \cup {item.account}
  BY <1>1, <1>3, AddType
<1> QED
  BY <1>1, <1>2, <1>4

\* The same for a provide.
LEMMA ProvideOwner ==
    ASSUME TypeOK, NEW a \in Account, NEW amount \in Deposits,
           NEW feeRate \in FeeRates, Provide(a, amount, feeRate)
    PROVE  Owners(stagedProvides') \subseteq Owners(stagedProvides) \cup {a}
<1> DEFINE item == [account |-> a, amount |-> amount, minFeeRate |-> feeRate]
<1>1. feeRate \in 0 .. MaxFeeRate
  BY PoolAssumption DEF Provide
<1>2. item \in ProvideItem /\ item.account = a
  BY <1>1, PoolAssumption DEF ProvideItem
<1>3. stagedProvides' = Add(stagedProvides, nextProvide, item)
  BY DEF Provide
<1>4. /\ nextProvide \in Nat
      /\ IsQueueOf(stagedProvides, ProvideItem, nextProvide)
  BY DEF TypeOK
<1> HIDE DEF item
<1>5. Owners(Add(stagedProvides, nextProvide, item))
        \subseteq Owners(stagedProvides) \cup {item.account}
  BY <1>2, <1>4, AddType
<1> QED
  BY <1>2, <1>3, <1>5

SeekOwners == Owners(stagedSeeks) \cup Owners(cycle.lockedSeeks)

ProvideOwners == Owners(stagedProvides) \cup Owners(cycle.lockedProvides)

\* OneSided in terms of owners.
LEMMA OneSidedOwners == OneSided <=>
    \A a \in Account : a \notin SeekOwners \/ a \notin ProvideOwners
BY HasOwners DEF OneSided, SeekOwners, ProvideOwners

\* A step brings an account to one side only when it is not on the other, and
\* otherwise only removes accounts.
LEMMA OwnersStep ==
    ASSUME TypeOK, [Next]_vars
    PROVE  \/ SeekOwners' \subseteq SeekOwners
              /\ ProvideOwners' \subseteq ProvideOwners
           \/ \E a \in Account :
                \/ /\ SeekOwners' \subseteq SeekOwners \cup {a}
                   /\ ProvideOwners' = ProvideOwners
                   /\ a \notin ProvideOwners
                \/ /\ ProvideOwners' \subseteq ProvideOwners \cup {a}
                   /\ SeekOwners' = SeekOwners
                   /\ a \notin SeekOwners
<1> USE DEF SeekOwners, ProvideOwners
<1>0. /\ nextSeek \in Nat /\ nextProvide \in Nat
      /\ IsItem(SeekItem) /\ IsItem(ProvideItem)
  BY DEF TypeOK, IsItem
<1>1. ASSUME NEW a \in Account, NEW amount \in Deposits, Seek(a, amount)
      PROVE  /\ SeekOwners' \subseteq SeekOwners \cup {a}
             /\ ProvideOwners' = ProvideOwners
             /\ a \notin ProvideOwners
  <2>1. Owners(stagedSeeks') \subseteq Owners(stagedSeeks) \cup {a}
    BY <1>1, SeekOwner
  <2>2. a \notin ProvideOwners
    BY <1>1, HasOwners DEF Seek, CanSeek
  <2> QED
    BY <1>1, <2>1, <2>2 DEF Seek, Owners
<1>2. ASSUME NEW a \in Account, NEW amount \in Deposits,
             NEW feeRate \in FeeRates, Provide(a, amount, feeRate)
      PROVE  /\ ProvideOwners' \subseteq ProvideOwners \cup {a}
             /\ SeekOwners' = SeekOwners
             /\ a \notin SeekOwners
  <2>1. Owners(stagedProvides') \subseteq Owners(stagedProvides) \cup {a}
    BY <1>2, ProvideOwner
  <2>2. a \notin SeekOwners
    BY <1>2, HasOwners DEF Provide, CanProvide
  <2> QED
    BY <1>2, <2>1, <2>2 DEF Provide, Owners
<1>3. ASSUME NEW a \in Account, NEW amount \in Withdrawals,
             ProcessInput(a, amount)
      PROVE  /\ SeekOwners' \subseteq SeekOwners
             /\ ProvideOwners' \subseteq ProvideOwners
  <2>1. /\ Reamounted(stagedSeeks', stagedSeeks)
        /\ Reamounted(stagedProvides', stagedProvides)
        /\ UNCHANGED cycle
    BY <1>3, WithdrawalParts
  <2>2. /\ Owners(stagedSeeks') \subseteq Owners(stagedSeeks)
        /\ Owners(stagedProvides') \subseteq Owners(stagedProvides)
    BY <1>0, <2>1, ReamountedOwners DEF TypeOK
  <2> QED
    BY <2>1, <2>2 DEF Owners
<1>4. ASSUME NEW newPrice \in Prices, Turnover(newPrice), halted' = "no"
      PROVE  /\ SeekOwners' \subseteq SeekOwners
             /\ ProvideOwners' \subseteq ProvideOwners
  <2>1. PICK seeks, provides :
          /\ IsQueueOf(seeks, SeekItem, nextSeek)
          /\ IsQueueOf(provides, ProvideItem, nextProvide)
          /\ Owners(seeks) \subseteq SeekOwners
          /\ Owners(provides) \subseteq ProvideOwners
          /\ Reamounted(stagedSeeks', seeks)
          /\ Reamounted(stagedProvides', provides)
          /\ Reamounted(cycle'.lockedSeeks, seeks)
          /\ Reamounted(cycle'.lockedProvides, provides)
    BY <1>4, TurnoverParts
  <2>2. /\ Owners(stagedSeeks') \subseteq Owners(seeks)
        /\ Owners(cycle'.lockedSeeks) \subseteq Owners(seeks)
        /\ Owners(stagedProvides') \subseteq Owners(provides)
        /\ Owners(cycle'.lockedProvides) \subseteq Owners(provides)
    BY <1>0, <2>1, ReamountedOwners
  <2> QED
    BY <2>1, <2>2 DEF Owners
<1>5. ASSUME UNCHANGED <<stagedSeeks, stagedProvides, cycle>>
      PROVE  SeekOwners' = SeekOwners /\ ProvideOwners' = ProvideOwners
  BY <1>5 DEF Owners
<1>6. CASE UNCHANGED vars
  BY <1>5, <1>6 DEF vars
<1>7. CASE Next
  <2>1. ASSUME NEW a \in Account, NEW bps \in Bps, CancelRenewal(a, bps)
        PROVE  UNCHANGED <<stagedSeeks, stagedProvides, cycle>>
    BY <2>1 DEF CancelRenewal, queues
  <2>2. ASSUME NEW a \in Account, UndoCancelRenewal(a)
        PROVE  UNCHANGED <<stagedSeeks, stagedProvides, cycle>>
    BY <2>2 DEF UndoCancelRenewal, queues
  <2> HIDE DEF SeekOwners, ProvideOwners
  <2> QED
    BY <1>1, <1>2, <1>3, <1>4, <1>5, <1>7, <2>1, <2>2, StepCases DEF queues
<1> QED
  BY <1>6, <1>7

\* The checks of process_output against staged and locked deposits keep every
\* account on one side, because turnovers and withdrawals give nothing in a
\* table to an account that had nothing on that side.
THEOREM AccountsOneSided == Spec => []OneSided
<1>1. Init => OneSided
  <2> SUFFICES ASSUME Init PROVE OneSided
    OBVIOUS
  <2>1. SeekOwners = {}
    BY NothingIsEmpty DEF Init, NoCycle, SeekOwners
  <2> QED
    BY <2>1, OneSidedOwners
<1>2. TypeOK /\ OneSided /\ [Next]_vars => OneSided'
  <2> SUFFICES ASSUME TypeOK, OneSided, [Next]_vars PROVE OneSided'
    OBVIOUS
  <2>1. \A a \in Account : a \notin SeekOwners \/ a \notin ProvideOwners
    BY OneSidedOwners
  <2>2. \A a \in Account : a \notin SeekOwners' \/ a \notin ProvideOwners'
    BY <2>1, OwnersStep
  <2> QED
    BY <2>2, HasOwners DEF OneSided, SeekOwners, ProvideOwners
<1> QED
  BY <1>1, <1>2, TypeCorrect, PTL DEF Spec

\* A pending cancellation keeps its account from staging anything, withdrawals
\* stage nothing, and the turnover that could unlock its locks clears it.
THEOREM CancellationsBacked == Spec => []CancellationBacked
<1>1. Init => CancellationBacked
  BY DEF Init, CancellationBacked, Nothing
<1>2. TypeOK /\ CancellationBacked /\ [Next]_vars => CancellationBacked'
  <2> SUFFICES ASSUME TypeOK, CancellationBacked, [Next]_vars
               PROVE  CancellationBacked'
    OBVIOUS
  <2>0. /\ nextSeek \in Nat /\ nextProvide \in Nat
        /\ IsItem(SeekItem) /\ IsItem(ProvideItem)
    BY DEF TypeOK, IsItem
  <2>1. ASSUME NEW a \in Account, NEW amount \in Deposits, Seek(a, amount)
        PROVE  CancellationBacked'
    <3>1. Owners(stagedSeeks') \subseteq Owners(stagedSeeks) \cup {a}
      BY <2>1, SeekOwner
    <3>2. /\ a \notin DOMAIN cancellations
          /\ UNCHANGED <<cancellations, cycle, stagedProvides>>
      BY <2>1 DEF Seek, CanSeek
    <3> QED
      BY <3>1, <3>2, HasOwners DEF CancellationBacked
  <2>2. ASSUME NEW a \in Account, NEW amount \in Deposits,
               NEW feeRate \in FeeRates, Provide(a, amount, feeRate)
        PROVE  CancellationBacked'
    <3>1. Owners(stagedProvides') \subseteq Owners(stagedProvides) \cup {a}
      BY <2>2, ProvideOwner
    <3>2. /\ a \notin DOMAIN cancellations
          /\ UNCHANGED <<cancellations, cycle, stagedSeeks>>
      BY <2>2 DEF Provide, CanProvide
    <3> QED
      BY <3>1, <3>2, HasOwners DEF CancellationBacked
  <2>3. ASSUME NEW a \in Account, NEW bps \in Bps, CancelRenewal(a, bps)
        PROVE  CancellationBacked'
    <3>1. DOMAIN cancellations' = DOMAIN cancellations \cup {a}
      BY <2>3 DEF CancelRenewal, Add
    <3>2. /\ CanCancel(a)
          /\ UNCHANGED <<cycle, stagedSeeks, stagedProvides>>
      BY <2>3 DEF CancelRenewal, queues
    <3> QED
      BY <3>1, <3>2 DEF CancellationBacked, CanCancel
  <2>4. ASSUME NEW a \in Account, UndoCancelRenewal(a)
        PROVE  CancellationBacked'
    <3>1. DOMAIN cancellations' \subseteq DOMAIN cancellations
      BY <2>4 DEF UndoCancelRenewal, Only
    <3>2. UNCHANGED <<cycle, stagedSeeks, stagedProvides>>
      BY <2>4 DEF UndoCancelRenewal, queues
    <3> QED
      BY <3>1, <3>2 DEF CancellationBacked
  <2>5. ASSUME NEW a \in Account, NEW amount \in Withdrawals,
               ProcessInput(a, amount)
        PROVE  CancellationBacked'
    <3>1. /\ Reamounted(stagedSeeks', stagedSeeks)
          /\ Reamounted(stagedProvides', stagedProvides)
          /\ UNCHANGED <<cancellations, cycle>>
      BY <2>5, WithdrawalParts
    <3>2. /\ Owners(stagedSeeks') \subseteq Owners(stagedSeeks)
          /\ Owners(stagedProvides') \subseteq Owners(stagedProvides)
      BY <2>0, <3>1, ReamountedOwners DEF TypeOK
    <3> QED
      BY <3>1, <3>2, HasOwners DEF CancellationBacked
  <2>6. ASSUME NEW newPrice \in Prices, Turnover(newPrice), halted' = "no"
        PROVE  CancellationBacked'
    <3>1. cancellations' = Nothing
      BY <2>6, TurnoverParts
    <3> QED
      BY <3>1 DEF CancellationBacked, Nothing
  <2>7. ASSUME UNCHANGED <<cancellations, cycle, stagedSeeks, stagedProvides>>
        PROVE  CancellationBacked'
    BY <2>7 DEF CancellationBacked
  <2>8. CASE UNCHANGED vars
    BY <2>7, <2>8 DEF vars
  <2>9. CASE Next
    BY <2>1, <2>2, <2>3, <2>4, <2>5, <2>6, <2>7, <2>9, StepCases DEF queues
  <2> QED
    BY <2>8, <2>9
<1> QED
  BY <1>1, <1>2, TypeCorrect, PTL DEF Spec

-----------------------------------------------------------------------------
\* The locks of a written cycle have something in them if there are any: a
\* turnover that locks only empty provides stops at sharing the fees, and its
\* cycle is never written.
LocksHoldProvides ==
    DOMAIN cycle.lockedProvides # {} => Sum(cycle.lockedProvides) # 0

\* With the locked seeks collateralised, it follows that settling the provides
\* never divides by zero.
LEMMA SettlingDivides ==
    ASSUME TypeOK, Collateralised, LocksHoldProvides,
           NEW newPrice \in Nat \ {0}
    PROVE  ~DividesByZero(Amounts(cycle.lockedProvides), ProvidesPool(newPrice))
<1> DEFINE seeks    == cycle.lockedSeeks
           provides == cycle.lockedProvides
<1>1. DOMAIN Amounts(provides) = DOMAIN provides
  BY DEF Amounts
<1>2. CASE DOMAIN provides # {}
  BY <1>1, <1>2 DEF LocksHoldProvides, DividesByZero, Sum
<1>3. CASE DOMAIN provides = {}
  <2>1. Sum(provides) = 0
    BY <1>1, <1>3, TotalEmpty DEF Sum
  <2>2. Sum(seeks) \in Nat
    BY QueueOfIsQueue, SumType DEF TypeOK, IsItem
  <2>3. Sum(seeks) * CollProvider <= 0
    <3>1. Sum(provides) * CollSeeker = 0
      BY <2>1, MatchingAssumption
    <3> QED
      BY <3>1 DEF Collateralised
  <2>4. Sum(seeks) = 0
    <3> HIDE DEF seeks
    <3> QED
      BY <2>2, <2>3, MatchingAssumption
  <2>5. LockedSum = 0
    BY <2>1, <2>4 DEF LockedSum
  <2>6. SeeksPool(newPrice) \in Nat /\ ProvidesPool(newPrice) \in Nat
    BY PoolsType
  <2>7. ProvidesPool(newPrice) = 0
    BY <2>5, <2>6 DEF ProvidesPool
  <2> QED
    BY <1>1, <1>3, <2>7 DEF DividesByZero
<1> QED
  BY <1>2, <1>3

\* No turnover stops at dividing by a total of zero provides: the locks that
\* settle_locks finds in the database are collateralised and not empty.
THEOREM ProvidesSettle == Spec => []ProvidesNeverDivideByZero
<1>1. Init => LocksHoldProvides /\ ProvidesNeverDivideByZero
  BY DEF Init, NoCycle, Nothing, LocksHoldProvides, ProvidesNeverDivideByZero
<1>2. TypeOK /\ LocksHoldProvides /\ [Next]_vars => LocksHoldProvides'
  <2> SUFFICES ASSUME TypeOK, LocksHoldProvides, [Next]_vars
               PROVE  LocksHoldProvides'
    OBVIOUS
  <2>1. ASSUME NEW newPrice \in Prices, Turnover(newPrice), halted' = "no"
        PROVE  LocksHoldProvides'
    BY <2>1, TurnoverParts DEF LocksHoldProvides
  <2>2. cycle' = cycle => LocksHoldProvides'
    BY DEF LocksHoldProvides
  <2>3. CASE UNCHANGED vars
    BY <2>2, <2>3 DEF vars
  <2>4. CASE Next
    BY <2>1, <2>2, <2>4, StepCases
       DEF Seek, Provide, CancelRenewal, UndoCancelRenewal, ProcessInput
  <2> QED
    BY <2>3, <2>4
<1>3. /\ TypeOK /\ Collateralised /\ LocksHoldProvides
      /\ ProvidesNeverDivideByZero /\ [Next]_vars
      => ProvidesNeverDivideByZero'
  <2> SUFFICES ASSUME TypeOK, Collateralised, LocksHoldProvides,
                      ProvidesNeverDivideByZero, [Next]_vars
               PROVE  halted' # "provides"
    BY DEF ProvidesNeverDivideByZero
  <2>1. ASSUME NEW newPrice \in Prices, Turnover(newPrice)
        PROVE  halted' # "provides"
    <3>1. ~DividesByZero(Amounts(cycle.lockedProvides), ProvidesPool(newPrice))
      BY SettlingDivides, PoolAssumption
    <3> QED
      BY <2>1, <3>1 DEF Turnover, Relock, Halt
  <2>2. halted' = halted => halted' # "provides"
    BY DEF ProvidesNeverDivideByZero
  <2>3. CASE UNCHANGED vars
    BY <2>2, <2>3 DEF vars
  <2>4. CASE Next
    BY <2>1, <2>2, <2>4
       DEF Next, Seek, Provide, CancelRenewal, UndoCancelRenewal, ProcessInput
  <2> QED
    BY <2>3, <2>4
<1> QED
  BY <1>1, <1>2, <1>3, TypeCorrect, AlwaysCollateralised, PTL DEF Spec



-----------------------------------------------------------------------------
(***************************************************************************)
(* What an operation does to the sum of a table.                           *)
(***************************************************************************)
\* A deposit adds its amount.
LEMMA AddSum ==
    ASSUME NEW next \in Nat, NEW Item, IsItem(Item),
           NEW queue, IsQueueOf(queue, Item, next),
           NEW item \in Item
    PROVE  /\ Sum(Add(queue, next, item)) = Sum(queue) + item.amount
           /\ \A a : Holding(Add(queue, next, item), a) =
                Holding(queue, a) + (IF item.account = a THEN item.amount ELSE 0)
<1> DEFINE more == Add(queue, next, item)
<1>1. /\ IsQueueOf(more, Item, next + 1)
      /\ DOMAIN more = DOMAIN queue \cup {next}
      /\ \A s \in DOMAIN queue : more[s] = queue[s]
  <2>1. IsQueueOf(more, Item, next + 1)
    BY AddType
  <2>2. DOMAIN more = DOMAIN queue \cup {next}
    BY DEF Add
  <2>3. \A s \in DOMAIN queue : more[s] = queue[s]
    BY DEF Add, IsQueueOf
  <2> QED
    BY <2>1, <2>2, <2>3
<1>2. more[next] = item /\ next \notin DOMAIN queue
  BY DEF Add, IsQueueOf
<1>3. IsQueue(queue)
  BY QueueOfIsQueue
<1>4. IsQueue(more)
  <2> HIDE DEF more
  <2> QED
    BY <1>1, QueueOfIsQueue
<1>5. item.amount \in Nat
  BY ItemType
<1> HIDE DEF more
<1>6. ASSUME NEW S
      PROVE  Sum(Only(more, S)) =
               Sum(Only(queue, S)) + (IF next \in S THEN item.amount ELSE 0)
  <2> DEFINE new  == Only(more, S)
             old  == Only(queue, S)
             rest == Only(new, DOMAIN new \ {next})
             one  == Only(new, {next})
  <2>1. /\ DOMAIN new = S \cap DOMAIN more
        /\ DOMAIN old = S \cap DOMAIN queue
    BY DEF Only
  <2>2. rest = old
    BY <1>1, <1>2 DEF Only
  <2>3. IsQueue(new)
    BY <1>4, OnlyType
  <2>4. Sum(new) = Sum(one) + Sum(rest)
    <3> HIDE DEF new
    <3> QED
      BY <2>3, SumSplit
  <2>5. CASE next \in S
    <3>1. DOMAIN Amounts(one) = {next} /\ Amounts(one)[next] = item.amount
      BY <1>1, <1>2, <2>5 DEF Amounts, Only
    <3>2. Sum(one) = item.amount
      BY <1>5, <3>1, TotalOne DEF Sum
    <3>3. Sum(old) \in Nat
      BY <1>3, OnlyType
    <3> HIDE DEF new, old, rest, one
    <3> QED
      BY <1>5, <2>2, <2>4, <2>5, <3>2, <3>3 DEF new, old
  <2>6. CASE next \notin S
    <3>1. new = old
      BY <1>1, <2>6 DEF Only
    <3>2. Sum(old) \in Nat
      BY <1>3, OnlyType
    <3> QED
      BY <2>6, <3>1, <3>2
  <2> QED
    BY <2>5, <2>6
<1>7. Sum(more) = Sum(queue) + item.amount
  <2>1. Only(more, DOMAIN more) = more /\ Only(queue, DOMAIN more) = queue
    BY <1>1 DEF Only, IsQueueOf
  <2> QED
    BY <1>1, <1>6, <2>1
<1>8. ASSUME NEW a
      PROVE  Holding(more, a) =
               Holding(queue, a) + (IF item.account = a THEN item.amount ELSE 0)
  <2>1. Of(queue, a) = Of(more, a) \ {next}
    BY <1>1, <1>2 DEF Of
  <2>2. next \in Of(more, a) <=> item.account = a
    BY <1>1, <1>2 DEF Of
  <2>3. Only(queue, Of(queue, a)) = Only(queue, Of(more, a))
    BY <1>2, <2>1 DEF Only
  <2> QED
    BY <1>6, <2>2, <2>3 DEF Holding
<1> QED
  BY <1>7, <1>8 DEF more

\* A withdrawal takes what it wants of an account's items, or all of them, and
\* nothing of the others.
LEMMA DrainedHolding ==
    ASSUME NEW next \in Nat, NEW Item, IsItem(Item),
           NEW items, IsQueueOf(items, Item, next), NEW a,
           NEW behind, IsOrder(Of(items, a), behind), NEW want \in Nat
    PROVE  LET after == Drained(items, Of(items, a), behind, want)
               taken == Least(want, Holding(items, a))
           IN  /\ Sum(after) = Sum(items) - taken
               /\ Holding(after, a) = Holding(items, a) - taken
               /\ \A b : b # a => Holding(after, b) = Holding(items, b)
<1> DEFINE own   == Of(items, a)
           mine  == Only(items, own)
           left  == Left(mine, behind, Same(mine, want))
           after == Drained(items, own, behind, want)
           taken == Least(want, Holding(items, a))
<1>1. /\ own \subseteq DOMAIN items
      /\ \A s \in own : items[s].account = a
      /\ \A s \in DOMAIN items \ own : items[s].account # a
  BY DEF Of
<1>2. IsQueue(items)
  BY QueueOfIsQueue
<1>3. /\ Reamounted(mine, items) /\ DOMAIN mine = own
      /\ IsQueue(mine) /\ Sum(mine) = Holding(items, a)
  BY <1>1, <1>2, OnlyReamounts, OnlyType DEF Holding
<1>4. IsQueueOf(mine, Item, next)
  BY <1>3, ReamountedType
<1>5. \A s \in DOMAIN mine : Same(mine, want)[s] = want
  BY DEF Same
<1>6. after = [s \in (DOMAIN items \ own) \cup DOMAIN left |->
                 IF s \in own THEN left[s] ELSE items[s]]
  BY DEF Drained
<1>7. left = [s \in DOMAIN left |-> left[s]]
  BY DEF Left
<1> HIDE DEF mine
<1>8. Reamounted(left, mine)
  BY <1>4, <1>5, LeftReamounts
<1>9. Sum(left) = Holding(items, a) - taken /\ taken \in Nat
  <2>1. Total(Taken(mine, behind, Same(mine, want))) = taken
    <3>1. IsOrder(DOMAIN mine, behind)
      BY <1>3
    <3> QED
      BY <1>3, <1>5, <3>1, WalkTakesExactly
  <2>2. Sum(mine) = taken + Sum(left)
    BY <1>3, <1>5, <2>1, LeftSplits
  <2>3. IsQueueOf(left, Item, next)
    <3> HIDE DEF left
    <3> QED
      BY <1>4, <1>8, ReamountedType
  <2>4. Sum(left) \in Nat
    <3> HIDE DEF left
    <3> QED
      BY <2>3, QueueOfIsQueue, SumType
  <2>5. taken \in Nat
    <3>1. Holding(items, a) \in Nat
      BY HoldingType
    <3> QED
      BY <3>1 DEF Least
  <2> HIDE DEF taken, left
  <2> QED
    BY <1>3, <2>2, <2>4, <2>5
<1>10. Reamounted(after, items)
  BY <1>1, DrainedReamounts
<1> HIDE DEF left
<1>11. DOMAIN left \subseteq own /\ \A s \in DOMAIN left : left[s].account = a
  BY <1>1, <1>3, <1>4, <1>8, ReamountedType
<1> HIDE DEF own, after
<1>12. /\ DOMAIN after = (DOMAIN items \ own) \cup DOMAIN left
       /\ \A s \in DOMAIN left : after[s] = left[s]
       /\ \A s \in DOMAIN items \ own : after[s] = items[s]
  BY <1>6, <1>11
<1>13. Holding(after, a) = Sum(left)
  <2>1. Of(after, a) = DOMAIN left
    BY <1>1, <1>11, <1>12 DEF Of
  <2>2. Only(after, Of(after, a)) = left
    BY <1>7, <1>12, <2>1 DEF Only
  <2> QED
    BY <2>2 DEF Holding
<1>14. ASSUME NEW b, b # a
       PROVE  Holding(after, b) = Holding(items, b)
  <2>1. Of(after, b) = Of(items, b) /\ Of(items, b) \subseteq DOMAIN items \ own
    BY <1>1, <1>11, <1>12, <1>14 DEF Of
  <2>2. Only(after, Of(after, b)) = Only(items, Of(items, b))
    BY <1>12, <2>1 DEF Only
  <2> QED
    BY <2>2 DEF Holding
<1>15. Sum(after) = Sum(items) - taken
  <2>1. IsQueueOf(after, Item, next)
    BY <1>10, ReamountedType
  <2>2. IsQueue(after)
    BY <2>1, QueueOfIsQueue
  <2>3. Sum(after) = Sum(Only(after, own))
                       + Sum(Only(after, DOMAIN after \ own))
    BY <2>2, SumSplit
  <2>4. Sum(items) = Sum(Only(items, own))
                       + Sum(Only(items, DOMAIN items \ own))
    BY <1>2, SumSplit
  <2>5. Only(after, own) = left
    BY <1>7, <1>11, <1>12 DEF Only
  <2>6. Only(after, DOMAIN after \ own) = Only(items, DOMAIN items \ own)
    BY <1>1, <1>11, <1>12 DEF Only
  <2>7. Sum(Only(items, own)) = Holding(items, a)
    BY DEF Holding, own
  <2>8. /\ Sum(Only(items, DOMAIN items \ own)) \in Nat
        /\ Holding(items, a) \in Nat
    BY <1>2, OnlyType, HoldingType
  <2> HIDE DEF taken
  <2> QED
    BY <1>9, <2>3, <2>4, <2>5, <2>6, <2>7, <2>8
<1> QED
  BY <1>9, <1>13, <1>14, <1>15 DEF after, own

\* Both orders in which a withdrawal drains an account's items are orders.
LEMMA BehindIsOrder ==
    ASSUME TypeOK, NEW a
    PROVE  /\ IsOrder(Of(stagedSeeks, a),
                      SeeksBehind(Only(stagedSeeks, Of(stagedSeeks, a))))
           /\ IsOrder(Of(stagedProvides, a),
                      ProvidesBehind(Only(stagedProvides,
                                          Of(stagedProvides, a))))
<1> DEFINE seeks    == Only(stagedSeeks, Of(stagedSeeks, a))
           provides == Only(stagedProvides, Of(stagedProvides, a))
<1>1. /\ DOMAIN seeks = Of(stagedSeeks, a)
      /\ DOMAIN provides = Of(stagedProvides, a)
      /\ \A p \in DOMAIN provides : provides[p] = stagedProvides[p]
  BY DEF Only, Of
<1>2. \A s \in DOMAIN seeks : s \in Int
  <2>1. \A s \in DOMAIN stagedSeeks : s \in 0 .. nextSeek - 1
    BY DEF TypeOK, IsQueueOf
  <2> QED
    BY <1>1, <2>1 DEF Of
<1>3. \A p \in DOMAIN provides : p \in Int /\ provides[p].minFeeRate \in Int
  <2>1. \A p \in DOMAIN stagedProvides : p \in 0 .. nextProvide - 1
    BY DEF TypeOK, IsQueueOf
  <2>2. \A p \in DOMAIN stagedProvides : stagedProvides[p] \in ProvideItem
    BY DEF TypeOK, IsQueueOf
  <2>3. \A p \in DOMAIN stagedProvides : stagedProvides[p].minFeeRate \in Int
    BY <2>2 DEF ProvideItem
  <2> QED
    BY <1>1, <2>1, <2>3 DEF Of
<1> HIDE DEF seeks, provides
<1>4. IsOrder(DOMAIN seeks, SeeksBehind(seeks))
  BY <1>2 DEF IsOrder, SeeksBehind
<1>5. IsOrder(DOMAIN provides, ProvidesBehind(provides))
  <2> DEFINE behind == ProvidesBehind(provides)
             rate(p) == provides[p].minFeeRate
  <2>1. ASSUME NEW p \in DOMAIN provides, NEW q \in DOMAIN provides
        PROVE  q \in behind[p] <=>
                 IF q < provideMark /\ p < provideMark
                 THEN \/ rate(p) < rate(q)
                      \/ rate(p) = rate(q) /\ p < q
                 ELSE q > p
    BY DEF ProvidesBehind, Cheaper
  <2>2. provideMark \in Int
    BY DEF TypeOK
  <2>3. \A p \in DOMAIN provides : p \in Int /\ rate(p) \in Int
    BY <1>3
  <2> HIDE DEF behind, rate
  <2>4. \A p \in DOMAIN provides : p \notin behind[p]
    BY <2>1, <2>2, <2>3
  <2>5. \A p, q \in DOMAIN provides :
          p = q \/ p \in behind[q] \/ q \in behind[p]
    BY <2>1, <2>2, <2>3
  <2>6. ASSUME NEW r \in DOMAIN provides, NEW s \in DOMAIN provides,
               NEW t \in DOMAIN provides, r \in behind[s], s \in behind[t]
        PROVE  r \in behind[t]
    BY <2>1, <2>2, <2>3, <2>6
  <2> QED
    BY <2>4, <2>5, <2>6 DEF IsOrder, behind
<1> QED
  BY <1>1, <1>4, <1>5 DEF seeks, provides

\* Restaging adds up two tables.
LEMMA RestagedSum ==
    ASSUME NEW next \in Nat, NEW Item, IsItem(Item),
           NEW staged, IsQueueOf(staged, Item, next),
           NEW locked, IsQueueOf(locked, Item, next)
    PROVE  Sum(Restaged(staged, locked)) = Sum(staged) + Sum(locked)
<1> DEFINE all == Restaged(staged, locked)
           f   == [s \in DOMAIN all |->
                     IF s \in DOMAIN staged THEN staged[s].amount ELSE 0]
           g   == [s \in DOMAIN all |->
                     IF s \in DOMAIN locked THEN locked[s].amount ELSE 0]
<1>1. /\ DOMAIN all = DOMAIN staged \cup DOMAIN locked
      /\ \A s \in DOMAIN all :
           all[s] = IF s \notin DOMAIN locked THEN staged[s]
                    ELSE IF s \notin DOMAIN staged THEN locked[s]
                    ELSE [staged[s] EXCEPT !.amount = @ + locked[s].amount]
  BY DEF Restaged
<1>2. IsQueueOf(all, Item, next)
  BY RestagedType
<1> HIDE DEF all
<1>3. IsQueue(all) /\ IsQueue(staged) /\ IsQueue(locked)
  BY <1>2, QueueOfIsQueue
<1>4. IsAmounts(f) /\ IsAmounts(g)
  BY <1>3 DEF IsAmounts, IsQueue
<1>5. Sum(staged) = Total(f) /\ Sum(locked) = Total(g)
  <2>1. /\ DOMAIN f = DOMAIN all /\ DOMAIN g = DOMAIN all
        /\ \A s \in DOMAIN staged : staged[s].amount = f[s]
        /\ \A s \in DOMAIN f \ DOMAIN staged : f[s] = 0
        /\ \A s \in DOMAIN locked : locked[s].amount = g[s]
        /\ \A s \in DOMAIN g \ DOMAIN locked : g[s] = 0
    BY <1>1
  <2> HIDE DEF f, g
  <2>2. DOMAIN staged \subseteq DOMAIN f /\ DOMAIN locked \subseteq DOMAIN g
    BY <1>1, <2>1
  <2> QED
    BY <1>4, <2>1, <2>2, SumOf
<1>6. \A s \in DOMAIN all : all[s].amount = f[s] + g[s]
  <2> SUFFICES ASSUME NEW s \in DOMAIN all
               PROVE  all[s].amount = f[s] + g[s]
    OBVIOUS
  <2>1. \A t \in DOMAIN staged :
          "amount" \in DOMAIN staged[t] /\ staged[t].amount \in Nat
    BY <1>3 DEF IsQueue
  <2>2. \A t \in DOMAIN locked :
          "amount" \in DOMAIN locked[t] /\ locked[t].amount \in Nat
    BY <1>3 DEF IsQueue
  <2>6. /\ f[s] = IF s \in DOMAIN staged THEN staged[s].amount ELSE 0
        /\ g[s] = IF s \in DOMAIN locked THEN locked[s].amount ELSE 0
    OBVIOUS
  <2> HIDE DEF f, g
  <2>3. CASE s \notin DOMAIN locked
    <3>1. s \in DOMAIN staged /\ all[s] = staged[s]
      BY <1>1, <2>3
    <3>2. f[s] = staged[s].amount /\ g[s] = 0 /\ staged[s].amount \in Nat
      BY <2>1, <2>3, <2>6, <3>1
    <3> QED
      BY <3>1, <3>2
  <2>4. CASE s \in DOMAIN locked /\ s \notin DOMAIN staged
    <3>1. all[s] = locked[s]
      BY <1>1, <2>4
    <3>2. f[s] = 0 /\ g[s] = locked[s].amount /\ locked[s].amount \in Nat
      BY <2>2, <2>4, <2>6
    <3> QED
      BY <3>1, <3>2
  <2>5. CASE s \in DOMAIN locked /\ s \in DOMAIN staged
    <3>1. all[s] = [staged[s] EXCEPT
                      !.amount = staged[s].amount + locked[s].amount]
      BY <1>1, <2>5
    <3>2. "amount" \in DOMAIN staged[s]
      BY <2>1, <2>5
    <3>3. all[s].amount = staged[s].amount + locked[s].amount
      BY <3>1, <3>2
    <3> QED
      BY <2>5, <2>6, <3>3
  <2> QED
    BY <2>3, <2>4, <2>5
<1>7. Total(Amounts(all)) = Total(f) + Total(g)
  <2>1. /\ IsAmounts(Amounts(all)) /\ DOMAIN Amounts(all) = DOMAIN all
        /\ \A s \in DOMAIN all : Amounts(all)[s] = all[s].amount
    BY <1>3, SumType DEF Amounts
  <2>2. DOMAIN f = DOMAIN all /\ DOMAIN g = DOMAIN all
    OBVIOUS
  <2> HIDE DEF f, g
  <2>3. \A s \in DOMAIN f : Amounts(all)[s] = f[s] + g[s]
    BY <1>6, <2>1, <2>2
  <2> QED
    BY <1>4, <2>1, <2>2, <2>3, TotalPlus
<1> QED
  BY <1>5, <1>7 DEF Sum, all

\* A settlement pays the locks all that was locked.
LEMMA SettledSum ==
    ASSUME TypeOK, NEW newPrice \in Nat \ {0},
           ~DividesByZero(Amounts(cycle.lockedSeeks), SeeksPool(newPrice)),
           ~DividesByZero(Amounts(cycle.lockedProvides), ProvidesPool(newPrice)),
           NEW paidSeeks \in SettledSeeks(newPrice),
           NEW paidProvides \in SettledProvides(newPrice)
    PROVE  Sum(paidSeeks) + Sum(paidProvides) =
             Sum(cycle.lockedSeeks) + Sum(cycle.lockedProvides)
<1>1. ASSUME NEW items, NEW pay, IsAmounts(pay), DOMAIN pay = DOMAIN items,
             \A s \in DOMAIN items : "amount" \in DOMAIN items[s]
      PROVE  Sum(SetAmounts(items, pay)) = Total(pay)
  <2> DEFINE new == SetAmounts(items, pay)
  <2>1. DOMAIN new = DOMAIN pay /\ \A s \in DOMAIN new : new[s].amount = pay[s]
    BY <1>1 DEF SetAmounts
  <2> HIDE DEF new
  <2> QED
    BY <1>1, <2>1, SumOf DEF new
<1>2. /\ \A s \in DOMAIN cycle.lockedSeeks :
           "amount" \in DOMAIN cycle.lockedSeeks[s]
      /\ \A s \in DOMAIN cycle.lockedProvides :
           "amount" \in DOMAIN cycle.lockedProvides[s]
      /\ Sum(cycle.lockedSeeks) \in Nat /\ Sum(cycle.lockedProvides) \in Nat
  <2>1. IsQueue(cycle.lockedSeeks) /\ IsQueue(cycle.lockedProvides)
    BY QueueOfIsQueue DEF TypeOK, IsItem
  <2> QED
    BY <2>1, SumType DEF IsQueue
<1>3. /\ SeeksPool(newPrice) \in Nat /\ ProvidesPool(newPrice) \in Nat
      /\ IsAmounts(Amounts(cycle.lockedSeeks))
      /\ IsAmounts(Amounts(cycle.lockedProvides))
      /\ DOMAIN Amounts(cycle.lockedSeeks) = DOMAIN cycle.lockedSeeks
      /\ DOMAIN Amounts(cycle.lockedProvides) = DOMAIN cycle.lockedProvides
  BY PoolsType DEF Amounts
<1>4. Sum(paidSeeks) = SeeksPool(newPrice)
  <2>1. PICK pay \in Payouts(Amounts(cycle.lockedSeeks), SeeksPool(newPrice)) :
          paidSeeks = SetAmounts(cycle.lockedSeeks, pay)
    BY DEF SettledSeeks
  <2>2. /\ IsAmounts(pay) /\ DOMAIN pay = DOMAIN cycle.lockedSeeks
        /\ Total(pay) = SeeksPool(newPrice)
    BY <1>3, <2>1, PayoutsAreExact
  <2> QED
    BY <1>1, <1>2, <2>1, <2>2
<1>5. Sum(paidProvides) = ProvidesPool(newPrice)
  <2>1. PICK pay \in Payouts(Amounts(cycle.lockedProvides),
                             ProvidesPool(newPrice)) :
          paidProvides = SetAmounts(cycle.lockedProvides, pay)
    BY DEF SettledProvides
  <2>2. /\ IsAmounts(pay) /\ DOMAIN pay = DOMAIN cycle.lockedProvides
        /\ Total(pay) = ProvidesPool(newPrice)
    BY <1>3, <2>1, PayoutsAreExact
  <2> QED
    BY <1>1, <1>2, <2>1, <2>2
<1>6. ProvidesPool(newPrice) = LockedSum - SeeksPool(newPrice)
  BY DEF ProvidesPool
<1>7. LockedSum = Sum(cycle.lockedSeeks) + Sum(cycle.lockedProvides)
  BY DEF LockedSum
<1> QED
  BY <1>2, <1>3, <1>4, <1>5, <1>6, <1>7

\* What is not renewed is refunded.
LEMMA RenewedSum ==
    ASSUME TypeOK, NEW next \in Nat, NEW Item, IsItem(Item),
           NEW items, IsQueueOf(items, Item, next), NEW behind,
           NEW refund, DOMAIN refund = Account,
           \A a \in Account : refund[a] = Refund(items, behind, a)
    PROVE  /\ IsAmounts(refund)
           /\ Sum(Renewed(items, behind)) + Total(refund) = Sum(items)
<1> DEFINE want  == OwnersToCancel(items)
           left  == Left(items, behind, want)
           taken == Taken(items, behind, want)
           kept  == {s \in DOMAIN left :
                       \/ left[s].amount # 0
                       \/ ToCancel(items, items[s].account) = 0}
           owner == [s \in DOMAIN items |-> items[s].account]
<1>1. IsQueue(items) /\ \A s \in DOMAIN items : want[s] \in Int
  BY ToCancelType, QueueOfIsQueue
<1>2. Renewed(items, behind) = Only(left, kept)
  BY DEF Renewed
<1>3. \A a : Refund(items, behind, a) = Total(Only(taken, Of(items, a)))
  BY DEF Refund
<1> HIDE DEF want
<1>4. IsAmounts(taken) /\ DOMAIN taken = DOMAIN items
  BY <1>1, TakenType
<1>5. Sum(items) = Total(taken) + Sum(left) /\ IsQueue(left)
  BY <1>1, LeftSplits, LeftType
<1> HIDE DEF left, taken
<1>6. Sum(Only(left, kept)) = Sum(left)
  <2> DEFINE new == Only(left, kept)
             f   == Amounts(left)
  <2>1. DOMAIN new = kept /\ \A s \in kept : new[s] = left[s]
    BY DEF Only
  <2>2. /\ IsAmounts(f) /\ DOMAIN f = DOMAIN left
        /\ \A s \in DOMAIN left : f[s] = left[s].amount
    BY <1>5, SumType DEF Amounts
  <2> HIDE DEF new, f
  <2>3. /\ DOMAIN new \subseteq DOMAIN f
        /\ \A s \in DOMAIN new : new[s].amount = f[s]
        /\ \A s \in DOMAIN f \ DOMAIN new : f[s] = 0
    BY <2>1, <2>2
  <2>4. Sum(new) = Total(f)
    BY <2>2, <2>3, SumOf
  <2> QED
    BY <2>4 DEF Sum, new, f
<1>7. IsAmounts(refund) /\ Total(refund) = Total(taken)
  <2>1. \A s \in DOMAIN taken : owner[s] \in Account
    <3>1. \A s \in DOMAIN items : items[s] \in Item
      BY DEF IsQueueOf
    <3> QED
      BY <1>4, <3>1, ItemType
  <2>2. ASSUME NEW a \in Account
        PROVE  refund[a] =
                 Total(Only(taken, {s \in DOMAIN taken : owner[s] = a}))
    <3>1. Of(items, a) = {s \in DOMAIN taken : owner[s] = a}
      BY <1>4 DEF Of
    <3> QED
      BY <1>3, <3>1
  <2> HIDE DEF owner
  <2> QED
    BY <1>4, <2>1, <2>2, TotalByGroup, PoolAssumption
<1>8. Sum(left) \in Nat /\ Total(taken) \in Nat
  BY <1>4, <1>5, SumType, TotalType
<1> QED
  BY <1>2, <1>5, <1>6, <1>7, <1>8

-----------------------------------------------------------------------------
\* The auction splits both queues into what it locks and what stays staged.
LEMMA AuctionSplits ==
    ASSUME NEW seeks, IsQueue(seeks), NEW provides, IsProvides(provides)
    PROVE  LET locked == LockedProvides(seeks, provides)
               gross  == GrossLockedSeeks(seeks, locked)
           IN  /\ Sum(provides) = Sum(locked)
                                    + Sum(UnlockedProvides(seeks, provides))
               /\ Sum(seeks) = Sum(gross) + Sum(UnlockedSeeks(seeks, locked))
<1> DEFINE wanted  == Wanted(seeks, provides)
           locked  == LockedProvides(seeks, provides)
           ptaken  == Taken(provides, Cheaper(provides), wanted)
           gross   == GrossLockedSeeks(seeks, locked)
           covered == Covered(seeks, locked)
           staken  == Taken(seeks, Older(seeks), covered)
<1>1. IsQueue(provides) /\ \A p \in DOMAIN provides : wanted[p] \in Int
  BY WantedType DEF IsProvides
<1>2. IsQueue(locked) /\ \A s \in DOMAIN seeks : covered[s] \in Int
  <2>1. /\ IsQueue(locked)
        /\ \A p \in DOMAIN locked : locked[p].minFeeRate \in 0 .. B - 1
    BY LockedProvidesType
  <2> HIDE DEF locked
  <2> QED
    BY <2>1, CoveredType
<1>3. Sum(locked) = Total(ptaken)
  <2>1. /\ DOMAIN ptaken = DOMAIN provides /\ IsAmounts(ptaken)
        /\ DOMAIN locked \subseteq DOMAIN provides
        /\ \A p \in DOMAIN provides \ DOMAIN locked : ptaken[p] = 0
    BY <1>1, TakenType DEF LockedProvides, Taken, Reached
  <2>2. \A p \in DOMAIN locked : locked[p].amount = ptaken[p]
    BY <1>1 DEF LockedProvides, Reached, IsQueue
  <2> HIDE DEF ptaken, locked
  <2> QED
    BY <2>1, <2>2, SumOf
<1>4. Sum(gross) = Total(staken)
  <2>1. /\ DOMAIN staken = DOMAIN seeks /\ IsAmounts(staken)
        /\ DOMAIN gross \subseteq DOMAIN seeks
        /\ \A s \in DOMAIN seeks \ DOMAIN gross : staken[s] = 0
    BY <1>2, TakenType DEF GrossLockedSeeks, Taken, Reached
  <2>2. \A s \in DOMAIN gross : gross[s].amount = staken[s]
    BY <1>1 DEF GrossLockedSeeks, Reached, IsQueue
  <2> HIDE DEF staken, gross
  <2> QED
    BY <2>1, <2>2, SumOf
<1>5. Sum(provides) = Total(ptaken) + Sum(UnlockedProvides(seeks, provides))
  BY <1>1, LeftSplits DEF UnlockedProvides
<1>6. Sum(seeks) = Total(staken) + Sum(UnlockedSeeks(seeks, locked))
  <2> HIDE DEF locked
  <2> QED
    BY <1>2, LeftSplits DEF UnlockedSeeks
<1> QED
  BY <1>3, <1>4, <1>5, <1>6

\* The fees are what the locked seeks lose.
LEMMA NetSum ==
    ASSUME NEW next \in Nat, NEW gross, IsQueueOf(gross, SeekItem, next),
           NEW feeRate \in 0 .. B
    PROVE  /\ Sum(NetLockedSeeks(gross, feeRate)) + Total(Fees(gross, feeRate))
                = Sum(gross)
           /\ Total(Fees(gross, feeRate)) \in Nat
<1> DEFINE net  == NetLockedSeeks(gross, feeRate)
           fees == Fees(gross, feeRate)
<1>1. /\ Reamounted(net, gross) /\ DOMAIN net = DOMAIN gross
      /\ \A s \in DOMAIN gross : net[s].amount =
           gross[s].amount - Fee(gross[s].amount, feeRate)
      /\ IsAmounts(fees)
  BY NetReamounts
<1>2. DOMAIN fees = DOMAIN gross
      /\ \A s \in DOMAIN gross : fees[s] = Fee(gross[s].amount, feeRate)
  BY DEF Fees
<1> HIDE DEF net, fees
<1>3. IsQueueOf(net, SeekItem, next)
  BY <1>1, ReamountedType DEF IsItem
<1>4. IsQueue(net) /\ IsQueue(gross)
  BY <1>3, QueueOfIsQueue DEF IsItem
<1>5. /\ IsAmounts(Amounts(net)) /\ IsAmounts(Amounts(gross))
      /\ DOMAIN Amounts(net) = DOMAIN gross
      /\ DOMAIN Amounts(gross) = DOMAIN gross
  BY <1>1, <1>4, SumType
<1>6. \A s \in DOMAIN gross : Amounts(gross)[s] = Amounts(net)[s] + fees[s]
  <2> SUFFICES ASSUME NEW s \in DOMAIN gross
               PROVE  Amounts(gross)[s] = Amounts(net)[s] + fees[s]
    OBVIOUS
  <2>1. gross[s].amount \in Nat /\ fees[s] \in Nat
    BY <1>1, <1>2, <1>4 DEF IsQueue, IsAmounts
  <2>2. /\ Amounts(gross)[s] = gross[s].amount
        /\ Amounts(net)[s] = net[s].amount
    BY <1>1 DEF Amounts
  <2> QED
    BY <1>1, <1>2, <2>1, <2>2
<1>7. Total(Amounts(gross)) = Total(Amounts(net)) + Total(fees)
  BY <1>1, <1>2, <1>5, <1>6, TotalPlus
<1> QED
  BY <1>1, <1>7, TotalType DEF Sum, net, fees

-----------------------------------------------------------------------------
(***************************************************************************)
(* A turnover that does not halt, with what it computes on the way: the    *)
(* settled locks, the queues that go into the auction, what the auction    *)
(* locks, and the fees it pays.                                            *)
(***************************************************************************)
Turned(newPrice, paidSeeks, paidProvides, seeks, provides, locked, feeRate,
       gross, pay) ==
    /\ newPrice \in Nat \ {0}
    /\ ~DividesByZero(Amounts(cycle.lockedSeeks), SeeksPool(newPrice))
    /\ ~DividesByZero(Amounts(cycle.lockedProvides), ProvidesPool(newPrice))
    /\ paidSeeks \in SettledSeeks(newPrice)
    /\ paidProvides \in SettledProvides(newPrice)
    /\ seeks = Restaged(stagedSeeks, Renewed(paidSeeks, NewerOwn(paidSeeks)))
    /\ provides = Restaged(stagedProvides,
                           Renewed(paidProvides, DearerOwn(paidProvides)))
    /\ locked = LockedProvides(seeks, provides)
    /\ feeRate = EffectiveFeeRate(locked)
    /\ gross = GrossLockedSeeks(seeks, locked)
    /\ ~DividesByZero(ProviderWeights(locked), Total(Fees(gross, feeRate)))
    /\ pay \in Payouts(ProviderWeights(locked), Total(Fees(gross, feeRate)))
    /\ idle' = [a \in Account |->
                  idle[a] + Refund(paidSeeks, NewerOwn(paidSeeks), a)
                    + Refund(paidProvides, DearerOwn(paidProvides), a)
                    + (IF a \in DOMAIN pay THEN pay[a] ELSE 0)]
    /\ cancellations' = Nothing
    /\ stagedSeeks' = UnlockedSeeks(seeks, locked)
    /\ stagedProvides' = UnlockedProvides(seeks, provides)
    /\ cycle'.lockedSeeks = NetLockedSeeks(gross, feeRate)
    /\ cycle'.lockedProvides = locked
    /\ cycle'.feeRate = feeRate
    /\ cycle'.index = cycle.index + 1
    /\ cycle'.startPrice = newPrice
    /\ seekMetadata' = MetadataAfterLocking(MetadataAfterCancelling(paidSeeks),
                                            gross, feeRate)
    /\ provideMark' = nextProvide
    /\ TransactionEnds
    /\ UNCHANGED <<nextSeek, nextProvide, escrow>>

\* Every turnover that does not halt is one of these.
LEMMA TurnoverComputes ==
    ASSUME TypeOK, NEW newPrice \in Prices, Turnover(newPrice), halted' = "no"
    PROVE  \E paidSeeks, paidProvides, seeks, provides, locked, feeRate, gross,
              pay :
             Turned(newPrice, paidSeeks, paidProvides, seeks, provides, locked,
                    feeRate, gross, pay)
<1>1. /\ ~DividesByZero(Amounts(cycle.lockedSeeks), SeeksPool(newPrice))
      /\ ~DividesByZero(Amounts(cycle.lockedProvides), ProvidesPool(newPrice))
      /\ \E s \in SettledSeeks(newPrice), p \in SettledProvides(newPrice) :
           Relock(newPrice, s, p)
  BY DEF Turnover, Halt
<1>2. PICK paidSeeks \in SettledSeeks(newPrice),
           paidProvides \in SettledProvides(newPrice) :
        Relock(newPrice, paidSeeks, paidProvides)
  BY <1>1
<1> DEFINE seeks    == Restaged(stagedSeeks,
                                Renewed(paidSeeks, NewerOwn(paidSeeks)))
           provides == Restaged(stagedProvides,
                                Renewed(paidProvides, DearerOwn(paidProvides)))
           locked   == LockedProvides(seeks, provides)
           feeRate  == EffectiveFeeRate(locked)
           gross    == GrossLockedSeeks(seeks, locked)
           feePool  == Total(Fees(gross, feeRate))
           weights  == ProviderWeights(locked)
           metadata == MetadataAfterCancelling(paidSeeks)
<1>3. ~DividesByZero(weights, feePool)
  BY <1>2 DEF Relock, Halt
<1>4. PICK pay \in Payouts(weights, feePool) :
        /\ idle' = [a \in Account |->
                      idle[a] + Refund(paidSeeks, NewerOwn(paidSeeks), a)
                        + Refund(paidProvides, DearerOwn(paidProvides), a)
                        + (IF a \in DOMAIN pay THEN pay[a] ELSE 0)]
        /\ cancellations' = Nothing
        /\ stagedSeeks' = UnlockedSeeks(seeks, locked)
        /\ stagedProvides' = UnlockedProvides(seeks, provides)
        /\ cycle' = [index |-> cycle.index + 1, startPrice |-> newPrice,
                     feeRate |-> feeRate,
                     lockedSeeks |-> NetLockedSeeks(gross, feeRate),
                     lockedProvides |-> locked]
        /\ seekMetadata' = MetadataAfterLocking(metadata, gross, feeRate)
        /\ pastFeeRates' = IF cycle.index = 0 THEN pastFeeRates
                           ELSE Append(pastFeeRates, cycle.feeRate)
        /\ provideMark' = nextProvide
        /\ TransactionEnds
        /\ UNCHANGED <<nextSeek, nextProvide, escrow>>
  BY <1>2, <1>3 DEF Relock
<1>5. newPrice \in Nat \ {0}
  BY PoolAssumption
<1>6. /\ cycle'.lockedSeeks = NetLockedSeeks(gross, feeRate)
      /\ cycle'.lockedProvides = locked
      /\ cycle'.feeRate = feeRate
      /\ cycle'.index = cycle.index + 1
      /\ cycle'.startPrice = newPrice
  BY <1>4
<1>7. Turned(newPrice, paidSeeks, paidProvides, seeks, provides, locked,
             feeRate, gross, pay)
  BY <1>1, <1>2, <1>3, <1>4, <1>5, <1>6 DEF Turned
<1> QED
  BY <1>7

\* The providers of the locks are paid, and together they are paid the pool.
PaysOut(pay, locked, pool) ==
    /\ IsAmounts(pay)
    /\ DOMAIN pay = Owners(locked)
    /\ Total(pay) = pool

\* What a turnover computes has the types it should have.
LEMMA TurnedTypes ==
    ASSUME TypeOK,
           NEW newPrice, NEW paidSeeks, NEW paidProvides, NEW seeks,
           NEW provides, NEW locked, NEW feeRate, NEW gross, NEW pay,
           Turned(newPrice, paidSeeks, paidProvides, seeks, provides, locked,
                  feeRate, gross, pay)
    PROVE  /\ IsQueueOf(paidSeeks, SeekItem, nextSeek)
           /\ IsQueueOf(paidProvides, ProvideItem, nextProvide)
           /\ Reamounted(paidSeeks, cycle.lockedSeeks)
           /\ Reamounted(paidProvides, cycle.lockedProvides)
           /\ IsQueueOf(Renewed(paidSeeks, NewerOwn(paidSeeks)),
                        SeekItem, nextSeek)
           /\ IsQueueOf(Renewed(paidProvides, DearerOwn(paidProvides)),
                        ProvideItem, nextProvide)
           /\ IsQueueOf(seeks, SeekItem, nextSeek)
           /\ IsQueueOf(provides, ProvideItem, nextProvide)
           /\ IsProvides(provides)
           /\ IsQueueOf(locked, ProvideItem, nextProvide)
           /\ IsQueueOf(gross, SeekItem, nextSeek)
           /\ Reamounted(locked, provides)
           /\ Reamounted(gross, seeks)
           /\ feeRate \in 0 .. B - 1
           /\ \A p \in DOMAIN locked : locked[p].minFeeRate \in 0 .. B - 1
           /\ IsAmounts(ProviderWeights(locked))
           /\ PaysOut(pay, locked, Total(Fees(gross, feeRate)))
<1>1. /\ nextSeek \in Nat /\ nextProvide \in Nat
      /\ IsItem(SeekItem) /\ IsItem(ProvideItem)
      /\ IsQueueOf(stagedSeeks, SeekItem, nextSeek)
      /\ IsQueueOf(stagedProvides, ProvideItem, nextProvide)
      /\ IsQueueOf(cycle.lockedSeeks, SeekItem, nextSeek)
      /\ IsQueueOf(cycle.lockedProvides, ProvideItem, nextProvide)
  BY DEF TypeOK, IsItem
<1>2. /\ Reamounted(paidSeeks, cycle.lockedSeeks)
      /\ Reamounted(paidProvides, cycle.lockedProvides)
  BY SettledReamounts DEF Turned
<1>3. /\ IsQueueOf(paidSeeks, SeekItem, nextSeek)
      /\ IsQueueOf(paidProvides, ProvideItem, nextProvide)
  BY <1>1, <1>2, ReamountedType
<1>4. /\ IsQueueOf(Renewed(paidSeeks, NewerOwn(paidSeeks)),
                   SeekItem, nextSeek)
      /\ IsQueueOf(Renewed(paidProvides, DearerOwn(paidProvides)),
                   ProvideItem, nextProvide)
  BY <1>1, <1>3, RenewedReamounts, ReamountedType
<1>5. /\ IsQueueOf(seeks, SeekItem, nextSeek)
      /\ IsQueueOf(provides, ProvideItem, nextProvide)
  BY <1>1, <1>4, RestagedType DEF Turned
<1>6. /\ Reamounted(locked, provides)
      /\ Reamounted(gross, seeks)
      /\ feeRate \in 0 .. B - 1
      /\ \A p \in DOMAIN locked : locked[p].minFeeRate \in 0 .. B - 1
  BY <1>1, <1>5, LocksType DEF Turned
<1>7. /\ IsQueueOf(locked, ProvideItem, nextProvide)
      /\ IsQueueOf(gross, SeekItem, nextSeek)
  BY <1>1, <1>5, <1>6, ReamountedType
<1>8. IsProvides(provides)
  <2>1. IsQueue(provides)
    BY <1>1, <1>5, QueueOfIsQueue
  <2>2. ASSUME NEW p \in DOMAIN provides
        PROVE  /\ "minFeeRate" \in DOMAIN provides[p]
               /\ provides[p].minFeeRate \in 0 .. B
    <3>1. provides[p] \in ProvideItem
      BY <1>5 DEF IsQueueOf
    <3>2. 0 .. MaxFeeRate \subseteq 0 .. B
      BY PoolAssumption, MatchingAssumption
    <3> QED
      BY <1>1, <3>1, <3>2, ItemType
  <2> QED
    BY <2>1, <2>2 DEF IsProvides
<1>9. IsAmounts(ProviderWeights(locked))
  BY <1>1, <1>7, WeightsType
<1>10. /\ IsAmounts(pay) /\ DOMAIN pay = DOMAIN ProviderWeights(locked)
       /\ Total(pay) = Total(Fees(gross, feeRate))
  <2>1. feeRate \in 0 .. B
    BY <1>6, MatchingAssumption
  <2>2. Total(Fees(gross, feeRate)) \in Nat
    BY <1>1, <1>7, <2>1, NetSum
  <2> QED
    BY <1>9, <2>2, PayoutsAreExact DEF Turned
<1>11. DOMAIN ProviderWeights(locked) = Owners(locked)
  BY DEF ProviderWeights, Owners
<1>12. PaysOut(pay, locked, Total(Fees(gross, feeRate)))
  BY <1>10, <1>11 DEF PaysOut
<1> QED
  BY <1>2, <1>3, <1>4, <1>5, <1>6, <1>7, <1>8, <1>9, <1>12

\* A turnover credits the idle balances with what the cancellations refund and
\* with the fees.
LEMMA TurnedIdle ==
    ASSUME TypeOK,
           NEW newPrice, NEW paidSeeks, NEW paidProvides, NEW seeks,
           NEW provides, NEW locked, NEW feeRate, NEW gross, NEW pay,
           Turned(newPrice, paidSeeks, paidProvides, seeks, provides, locked,
                  feeRate, gross, pay)
    PROVE  /\ idle' \in [Account -> Nat]
           /\ Total(idle') + Sum(Renewed(paidSeeks, NewerOwn(paidSeeks)))
                + Sum(Renewed(paidProvides, DearerOwn(paidProvides)))
              = Total(idle) + Sum(paidSeeks) + Sum(paidProvides)
                  + Total(Fees(gross, feeRate))
<1> DEFINE newSeeks    == Renewed(paidSeeks, NewerOwn(paidSeeks))
           newProvides == Renewed(paidProvides, DearerOwn(paidProvides))
           r    == [a \in Account |-> Refund(paidSeeks, NewerOwn(paidSeeks), a)]
           t    == [a \in Account |->
                      Refund(paidProvides, DearerOwn(paidProvides), a)]
           fees == [a \in Account |-> IF a \in DOMAIN pay THEN pay[a] ELSE 0]
           none == [a \in Account \ DOMAIN pay |-> 0]
           one  == [a \in Account |-> idle[a] + r[a]]
           two  == [a \in Account |-> one[a] + t[a]]
<1>1. /\ IsQueueOf(paidSeeks, SeekItem, nextSeek)
      /\ IsQueueOf(paidProvides, ProvideItem, nextProvide)
      /\ IsQueueOf(newSeeks, SeekItem, nextSeek)
      /\ IsQueueOf(newProvides, ProvideItem, nextProvide)
      /\ IsQueueOf(locked, ProvideItem, nextProvide)
      /\ PaysOut(pay, locked, Total(Fees(gross, feeRate)))
  BY TurnedTypes, Zenon
<1>15. /\ IsAmounts(pay) /\ DOMAIN pay = Owners(locked)
       /\ Total(pay) = Total(Fees(gross, feeRate))
  BY <1>1 DEF PaysOut
<1>2. /\ nextSeek \in Nat /\ nextProvide \in Nat
      /\ IsItem(SeekItem) /\ IsItem(ProvideItem)
      /\ IsFiniteSet(Account) /\ idle \in [Account -> Nat]
  BY PoolAssumption DEF TypeOK, IsItem
<1>3. idle' = [a \in Account |-> two[a] + fees[a]]
  BY DEF Turned
<1>4. IsAmounts(r) /\ Sum(newSeeks) + Total(r) = Sum(paidSeeks)
  <2>1. DOMAIN r = Account /\ \A a \in Account :
          r[a] = Refund(paidSeeks, NewerOwn(paidSeeks), a)
    OBVIOUS
  <2> HIDE DEF r
  <2> QED
    BY <1>1, <1>15, <1>2, <2>1, RenewedSum
<1>5. IsAmounts(t) /\ Sum(newProvides) + Total(t) = Sum(paidProvides)
  <2>1. DOMAIN t = Account /\ \A a \in Account :
          t[a] = Refund(paidProvides, DearerOwn(paidProvides), a)
    OBVIOUS
  <2> HIDE DEF t
  <2> QED
    BY <1>1, <1>15, <1>2, <2>1, RenewedSum
<1>6. DOMAIN pay \subseteq Account
  <2>1. \A p \in DOMAIN locked : locked[p] \in ProvideItem
    BY <1>1, <1>15 DEF IsQueueOf
  <2> QED
    BY <1>1, <1>15, <1>2, <2>1, ItemType DEF Owners
<1>7. IsAmounts(fees) /\ Total(fees) = Total(pay)
  <2>1. IsAmounts(fees) /\ IsAmounts(none) /\ Total(none) = 0
    BY <1>1, <1>15, <1>2, FS_Difference, TotalZero DEF IsAmounts
  <2>2. /\ DOMAIN fees = DOMAIN pay \cup DOMAIN none
        /\ DOMAIN pay \cap DOMAIN none = {}
        /\ \A a \in DOMAIN pay : fees[a] = pay[a]
        /\ \A a \in DOMAIN none : fees[a] = none[a]
    BY <1>6
  <2> HIDE DEF fees, none
  <2>3. Total(fees) = Total(pay) + Total(none)
    BY <1>1, <1>15, <2>1, <2>2, TotalSplit
  <2> QED
    BY <1>1, <1>15, <2>1, <2>3, TotalType
<1>8. IsAmounts(idle) /\ DOMAIN idle = Account
  BY <1>2 DEF IsAmounts
<1>9. DOMAIN r = Account /\ DOMAIN t = Account /\ DOMAIN fees = Account
  OBVIOUS
<1> HIDE DEF r, t, fees
<1>10. IsAmounts(one) /\ Total(one) = Total(idle) + Total(r)
  <2>1. IsAmounts(one) /\ DOMAIN one = Account
    BY <1>2, <1>4, <1>8, <1>9 DEF IsAmounts
  <2>2. \A a \in Account : one[a] = idle[a] + r[a]
    OBVIOUS
  <2> HIDE DEF one
  <2> QED
    BY <1>4, <1>8, <1>9, <2>1, <2>2, TotalPlus
<1>11. IsAmounts(two) /\ Total(two) = Total(one) + Total(t)
  <2>1. IsAmounts(two) /\ DOMAIN two = Account /\ DOMAIN one = Account
    BY <1>2, <1>5, <1>9, <1>10 DEF IsAmounts
  <2>2. \A a \in Account : two[a] = one[a] + t[a]
    OBVIOUS
  <2> HIDE DEF one, two
  <2> QED
    BY <1>5, <1>9, <1>10, <2>1, <2>2, TotalPlus
<1>12. idle' \in [Account -> Nat] /\ Total(idle') = Total(two) + Total(fees)
  <2>1. DOMAIN two = Account
    OBVIOUS
  <2> HIDE DEF two
  <2>2. idle' \in [Account -> Nat]
    BY <1>3, <1>7, <1>9, <1>11, <2>1 DEF IsAmounts
  <2>3. IsAmounts(idle') /\ DOMAIN idle' = Account
    BY <1>2, <2>2 DEF IsAmounts
  <2> DEFINE new == idle'
  <2>4. \A a \in Account : new[a] = two[a] + fees[a]
    BY <1>3
  <2> HIDE DEF new
  <2>5. Total(new) = Total(two) + Total(fees)
    BY <1>7, <1>9, <1>11, <2>1, <2>3, <2>4, TotalPlus DEF new
  <2> QED
    BY <2>2, <2>5 DEF new
<1>13. /\ Total(idle) \in Nat /\ Total(r) \in Nat /\ Total(t) \in Nat
       /\ Total(pay) \in Nat
       /\ Sum(newSeeks) \in Nat /\ Sum(newProvides) \in Nat
  <2>1. IsQueue(newSeeks) /\ IsQueue(newProvides)
    BY <1>1, <1>15, <1>2, QueueOfIsQueue
  <2> QED
    BY <1>1, <1>15, <1>4, <1>5, <1>8, <2>1, TotalType, SumType
<1> HIDE DEF one, two, newSeeks, newProvides
<1> QED
  BY <1>1, <1>15, <1>4, <1>5, <1>7, <1>10, <1>11, <1>12, <1>13
     DEF newSeeks, newProvides

\* A turnover moves what the pool owes about and keeps it.
LEMMA TurnedConserves ==
    ASSUME TypeOK,
           NEW newPrice, NEW paidSeeks, NEW paidProvides, NEW seeks,
           NEW provides, NEW locked, NEW feeRate, NEW gross, NEW pay,
           Turned(newPrice, paidSeeks, paidProvides, seeks, provides, locked,
                  feeRate, gross, pay)
    PROVE  Liabilities' = Liabilities
<1> DEFINE newSeeks    == Renewed(paidSeeks, NewerOwn(paidSeeks))
           newProvides == Renewed(paidProvides, DearerOwn(paidProvides))
           net == NetLockedSeeks(gross, feeRate)
           us  == UnlockedSeeks(seeks, locked)
           up  == UnlockedProvides(seeks, provides)
           fees == Total(Fees(gross, feeRate))
<1>1. /\ nextSeek \in Nat /\ nextProvide \in Nat
      /\ IsItem(SeekItem) /\ IsItem(ProvideItem)
      /\ IsQueueOf(stagedSeeks, SeekItem, nextSeek)
      /\ IsQueueOf(stagedProvides, ProvideItem, nextProvide)
      /\ IsQueueOf(cycle.lockedSeeks, SeekItem, nextSeek)
      /\ IsQueueOf(cycle.lockedProvides, ProvideItem, nextProvide)
      /\ idle \in [Account -> Nat] /\ IsFiniteSet(Account)
  BY PoolAssumption DEF TypeOK, IsItem
<1>2. /\ IsQueueOf(newSeeks, SeekItem, nextSeek)
      /\ IsQueueOf(newProvides, ProvideItem, nextProvide)
      /\ IsQueueOf(paidSeeks, SeekItem, nextSeek)
      /\ IsQueueOf(paidProvides, ProvideItem, nextProvide)
      /\ IsQueueOf(seeks, SeekItem, nextSeek)
      /\ IsQueueOf(locked, ProvideItem, nextProvide)
      /\ IsQueueOf(gross, SeekItem, nextSeek)
      /\ IsQueueOf(provides, ProvideItem, nextProvide)
      /\ IsProvides(provides) /\ feeRate \in 0 .. B - 1
  BY TurnedTypes, Zenon
<1>13. feeRate \in 0 .. B
  BY <1>2, MatchingAssumption
<1>14. /\ seeks = Restaged(stagedSeeks, newSeeks)
       /\ provides = Restaged(stagedProvides, newProvides)
       /\ locked = LockedProvides(seeks, provides)
       /\ gross = GrossLockedSeeks(seeks, locked)
  BY DEF Turned
<1>3. /\ Total(idle') + Sum(newSeeks) + Sum(newProvides)
           = Total(idle) + Sum(paidSeeks) + Sum(paidProvides) + fees
      /\ idle' \in [Account -> Nat]
  BY TurnedIdle
<1>4. Sum(paidSeeks) + Sum(paidProvides)
        = Sum(cycle.lockedSeeks) + Sum(cycle.lockedProvides)
  BY SettledSum DEF Turned
<1>5. /\ Sum(seeks) = Sum(stagedSeeks) + Sum(newSeeks)
      /\ Sum(provides) = Sum(stagedProvides) + Sum(newProvides)
  BY <1>1, <1>2, <1>14, RestagedSum
<1>6. /\ Sum(provides) = Sum(locked) + Sum(up)
      /\ Sum(seeks) = Sum(gross) + Sum(us)
  <2>1. IsQueue(seeks)
    BY <1>1, <1>2, QueueOfIsQueue
  <2> QED
    BY <1>2, <1>14, <2>1, AuctionSplits
<1>7. Sum(net) + fees = Sum(gross) /\ fees \in Nat
  BY <1>1, <1>2, <1>13, NetSum
<1>8. Liabilities' = Total(idle') + Sum(us) + Sum(up) + Sum(net) + Sum(locked)
  <2>1. /\ stagedSeeks' = us /\ stagedProvides' = up
        /\ cycle'.lockedSeeks = net /\ cycle'.lockedProvides = locked
    BY DEF Turned
  <2> HIDE DEF us, up, net
  <2> QED
    BY <2>1 DEF Liabilities
<1>9. /\ Sum(stagedSeeks) \in Nat /\ Sum(stagedProvides) \in Nat
      /\ Sum(cycle.lockedSeeks) \in Nat /\ Sum(cycle.lockedProvides) \in Nat
      /\ Sum(newSeeks) \in Nat /\ Sum(newProvides) \in Nat
      /\ Sum(paidSeeks) \in Nat /\ Sum(paidProvides) \in Nat
      /\ Sum(seeks) \in Nat /\ Sum(locked) \in Nat /\ Sum(gross) \in Nat
  <2> HIDE DEF newSeeks, newProvides
  <2>1. /\ IsQueue(stagedSeeks) /\ IsQueue(stagedProvides)
        /\ IsQueue(cycle.lockedSeeks) /\ IsQueue(cycle.lockedProvides)
        /\ IsQueue(newSeeks) /\ IsQueue(newProvides)
        /\ IsQueue(paidSeeks) /\ IsQueue(paidProvides)
        /\ IsQueue(seeks) /\ IsQueue(locked) /\ IsQueue(gross)
    BY <1>1, <1>2, QueueOfIsQueue
  <2> QED
    BY <2>1, SumType
<1>10. Total(idle) \in Nat /\ Total(idle') \in Nat
  <2>1. IsAmounts(idle) /\ IsAmounts(idle')
    BY <1>1, <1>3 DEF IsAmounts
  <2> QED
    BY <2>1, TotalType
<1>11. /\ Sum(us) \in Nat /\ Sum(up) \in Nat /\ Sum(net) \in Nat
  <2>1. IsQueue(us) /\ IsQueue(up)
    <3>1. Reamounted(up, provides) /\ Reamounted(us, seeks)
      BY <1>1, <1>2, <1>14, LocksType
    <3> HIDE DEF us, up
    <3> QED
      BY <1>1, <1>2, <3>1, ReamountedType, QueueOfIsQueue
  <2>2. IsQueue(net)
    <3>1. Reamounted(net, gross)
      BY <1>1, <1>2, <1>13, NetReamounts
    <3> HIDE DEF net
    <3> QED
      BY <1>1, <1>2, <3>1, ReamountedType, QueueOfIsQueue
  <2> QED
    BY <2>1, <2>2, SumType
<1>12. Liabilities = Total(idle) + Sum(stagedSeeks) + Sum(stagedProvides)
                       + Sum(cycle.lockedSeeks) + Sum(cycle.lockedProvides)
  BY DEF Liabilities
<1> HIDE DEF newSeeks, newProvides, net, us, up, fees
<1> QED
  BY <1>3, <1>4, <1>5, <1>6, <1>7, <1>8, <1>9, <1>10, <1>11, <1>12

\* What a withdrawal takes from each of the three places.
LEMMA WithdrawalTakes ==
    ASSUME TypeOK, NEW a \in Account, NEW amount \in Withdrawals,
           ProcessInput(a, amount)
    PROVE  \E i, s, p \in Nat :
             /\ i + s + p = amount
             /\ amount <= Unlocked(a)
             /\ i <= idle[a]
             /\ idle' = [idle EXCEPT ![a] = idle[a] - i]
             /\ s <= Holding(stagedSeeks, a) /\ p <= Holding(stagedProvides, a)
             /\ Sum(stagedSeeks') = Sum(stagedSeeks) - s
             /\ Sum(stagedProvides') = Sum(stagedProvides) - p
             /\ \A b \in Account :
                  /\ Holding(stagedSeeks', b) = Holding(stagedSeeks, b)
                                                  - (IF b = a THEN s ELSE 0)
                  /\ Holding(stagedProvides', b) = Holding(stagedProvides, b)
                                                  - (IF b = a THEN p ELSE 0)
<1> DEFINE i == Least(amount, idle[a])
           afterIdle  == amount - i
           s == Least(afterIdle, Holding(stagedSeeks, a))
           afterSeeks == afterIdle - s
           p == Least(afterSeeks, Holding(stagedProvides, a))
<1>1. /\ nextSeek \in Nat /\ nextProvide \in Nat
      /\ IsItem(SeekItem) /\ IsItem(ProvideItem)
      /\ IsQueueOf(stagedSeeks, SeekItem, nextSeek)
      /\ IsQueueOf(stagedProvides, ProvideItem, nextProvide)
  BY DEF TypeOK, IsItem
<1>2. /\ amount \in Nat /\ idle[a] \in Nat
      /\ Holding(stagedSeeks, a) \in Nat /\ Holding(stagedProvides, a) \in Nat
  BY <1>1, HoldingType, PoolAssumption DEF TypeOK
<1>3. amount <= idle[a] + Holding(stagedSeeks, a) + Holding(stagedProvides, a)
  BY DEF ProcessInput, Unlocked
<1>4. /\ stagedSeeks' =
           Drained(stagedSeeks, Of(stagedSeeks, a),
                   SeeksBehind(Only(stagedSeeks, Of(stagedSeeks, a))),
                   afterIdle)
      /\ stagedProvides' =
           Drained(stagedProvides, Of(stagedProvides, a),
                   ProvidesBehind(Only(stagedProvides, Of(stagedProvides, a))),
                   afterSeeks)
      /\ idle' = [idle EXCEPT ![a] = idle[a] - i]
  BY DEF ProcessInput
<1>5. /\ i \in Nat /\ s \in Nat /\ p \in Nat
      /\ afterIdle \in Nat /\ afterSeeks \in Nat
      /\ i + s + p = amount
      /\ i <= idle[a]
      /\ s <= Holding(stagedSeeks, a) /\ p <= Holding(stagedProvides, a)
  BY <1>2, <1>3 DEF Least
<1> HIDE DEF afterIdle, afterSeeks
<1>6. /\ Sum(stagedSeeks') = Sum(stagedSeeks) - s
      /\ Holding(stagedSeeks', a) = Holding(stagedSeeks, a) - s
      /\ \A b : b # a => Holding(stagedSeeks', b) = Holding(stagedSeeks, b)
  BY <1>1, <1>4, <1>5, BehindIsOrder, DrainedHolding
<1>7. /\ Sum(stagedProvides') = Sum(stagedProvides) - p
      /\ Holding(stagedProvides', a) = Holding(stagedProvides, a) - p
      /\ \A b : b # a => Holding(stagedProvides', b) = Holding(stagedProvides, b)
  BY <1>1, <1>4, <1>5, BehindIsOrder, DrainedHolding
<1>8. ASSUME NEW b \in Account
      PROVE  /\ Holding(stagedSeeks', b) = Holding(stagedSeeks, b)
                                             - (IF b = a THEN s ELSE 0)
             /\ Holding(stagedProvides', b) = Holding(stagedProvides, b)
                                             - (IF b = a THEN p ELSE 0)
  <2>1. Holding(stagedSeeks, b) \in Nat /\ Holding(stagedProvides, b) \in Nat
    BY <1>1, HoldingType
  <2> HIDE DEF s, p
  <2> QED
    BY <1>6, <1>7, <2>1
<1>9. amount <= Unlocked(a)
  BY DEF ProcessInput
<1> HIDE DEF i, s, p
<1>10. i \in Nat /\ s \in Nat /\ p \in Nat
  BY <1>5
<1> USE <1>10
<1> WITNESS i \in Nat, s \in Nat, p \in Nat
<1> QED
  BY <1>4, <1>5, <1>6, <1>7, <1>8, <1>9

-----------------------------------------------------------------------------
(***************************************************************************)
(* No operation loses or creates a millisat.                               *)
(***************************************************************************)
\* A new or an empty table owes nothing; neither does an idle balance of zero.
LEMMA ConservationInit == Init => Conservation
<1> SUFFICES ASSUME Init PROVE Conservation
  OBVIOUS
<1>1. Total(idle) = 0
  <2>1. \A a \in DOMAIN idle : idle[a] = 0
    BY DEF Init
  <2> QED
    BY <2>1, TotalZero
<1>2. /\ Sum(stagedSeeks) = 0 /\ Sum(stagedProvides) = 0
      /\ Sum(cycle.lockedSeeks) = 0 /\ Sum(cycle.lockedProvides) = 0
  BY NothingIsEmpty DEF Init, NoCycle
<1>3. escrow = 0
  BY DEF Init
<1> QED
  BY <1>1, <1>2, <1>3 DEF Conservation, Liabilities

\* What the terms of the liabilities are.
LEMMA LiabilitiesType ==
    ASSUME TypeOK
    PROVE  /\ IsAmounts(idle) /\ DOMAIN idle = Account
           /\ Total(idle) \in Nat
           /\ Sum(stagedSeeks) \in Nat /\ Sum(stagedProvides) \in Nat
           /\ Sum(cycle.lockedSeeks) \in Nat /\ Sum(cycle.lockedProvides) \in Nat
<1>1. IsAmounts(idle) /\ DOMAIN idle = Account
  BY PoolAssumption DEF TypeOK, IsAmounts
<1>2. /\ IsQueue(stagedSeeks) /\ IsQueue(stagedProvides)
      /\ IsQueue(cycle.lockedSeeks) /\ IsQueue(cycle.lockedProvides)
  <2>1. IsItem(SeekItem) /\ IsItem(ProvideItem)
    BY DEF IsItem
  <2> QED
    BY <2>1, QueueOfIsQueue DEF TypeOK
<1> QED
  BY <1>1, <1>2, TotalType, SumType

\* Every step keeps the books: a deposit and a withdrawal move the escrow and
\* the liabilities alike, a turnover moves neither.
LEMMA ConservationStep ==
    ASSUME TypeOK, Conservation, [Next]_vars
    PROVE  Conservation'
<1>1. /\ nextSeek \in Nat /\ nextProvide \in Nat
      /\ IsItem(SeekItem) /\ IsItem(ProvideItem)
      /\ IsQueueOf(stagedSeeks, SeekItem, nextSeek)
      /\ IsQueueOf(stagedProvides, ProvideItem, nextProvide)
  BY DEF TypeOK, IsItem
<1>2. /\ IsAmounts(idle) /\ DOMAIN idle = Account
      /\ Total(idle) \in Nat
      /\ Sum(stagedSeeks) \in Nat /\ Sum(stagedProvides) \in Nat
      /\ Sum(cycle.lockedSeeks) \in Nat /\ Sum(cycle.lockedProvides) \in Nat
  BY LiabilitiesType
<1>3. escrow = Total(idle) + Sum(stagedSeeks) + Sum(stagedProvides)
                 + Sum(cycle.lockedSeeks) + Sum(cycle.lockedProvides)
  BY DEF Conservation, Liabilities
<1>4. ASSUME UNCHANGED <<idle, queues, cycle, escrow>>
      PROVE  Conservation'
  BY <1>4 DEF Conservation, Liabilities, queues
<1>5. ASSUME NEW a \in Account, NEW amount \in Deposits, Seek(a, amount)
      PROVE  Conservation'
  <2> DEFINE item == [account |-> a, amount |-> amount]
  <2>1. amount \in Nat /\ item \in SeekItem /\ item.amount = amount
    BY PoolAssumption DEF SeekItem
  <2>2. /\ stagedSeeks' = Add(stagedSeeks, nextSeek, item)
        /\ escrow' = escrow + amount
        /\ UNCHANGED <<idle, stagedProvides, cycle>>
    BY <1>5 DEF Seek
  <2> HIDE DEF item
  <2>3. Sum(stagedSeeks') = Sum(stagedSeeks) + amount
    BY <1>1, <2>1, <2>2, AddSum
  <2> QED
    BY <1>2, <1>3, <2>1, <2>2, <2>3 DEF Conservation, Liabilities
<1>6. ASSUME NEW a \in Account, NEW amount \in Deposits,
             NEW feeRate \in FeeRates, Provide(a, amount, feeRate)
      PROVE  Conservation'
  <2> DEFINE item == [account |-> a, amount |-> amount, minFeeRate |-> feeRate]
  <2>1. amount \in Nat /\ item \in ProvideItem /\ item.amount = amount
    <3>1. amount \in Nat /\ feeRate \in 0 .. MaxFeeRate
      BY <1>6, PoolAssumption DEF Provide
    <3> QED
      BY <3>1 DEF ProvideItem
  <2>2. /\ stagedProvides' = Add(stagedProvides, nextProvide, item)
        /\ escrow' = escrow + amount
        /\ UNCHANGED <<idle, stagedSeeks, cycle>>
    BY <1>6 DEF Provide
  <2> HIDE DEF item
  <2>3. Sum(stagedProvides') = Sum(stagedProvides) + amount
    BY <1>1, <2>1, <2>2, AddSum
  <2> QED
    BY <1>2, <1>3, <2>1, <2>2, <2>3 DEF Conservation, Liabilities
<1>7. ASSUME NEW a \in Account, NEW bps \in Bps, CancelRenewal(a, bps)
      PROVE  Conservation'
  BY <1>4, <1>7 DEF CancelRenewal
<1>8. ASSUME NEW a \in Account, UndoCancelRenewal(a)
      PROVE  Conservation'
  BY <1>4, <1>8 DEF UndoCancelRenewal
<1>9. ASSUME NEW a \in Account, NEW amount \in Withdrawals,
             ProcessInput(a, amount)
      PROVE  Conservation'
  <2>1. PICK i \in Nat, s \in Nat, p \in Nat :
          /\ i + s + p = amount
          /\ i <= idle[a]
          /\ idle' = [idle EXCEPT ![a] = idle[a] - i]
          /\ Sum(stagedSeeks') = Sum(stagedSeeks) - s
          /\ Sum(stagedProvides') = Sum(stagedProvides) - p
    BY <1>9, WithdrawalTakes
  <2>2. UNCHANGED cycle /\ escrow' = escrow - amount
    BY <1>9 DEF ProcessInput
  <2>3. Total(idle') = Total(idle) - i
    <3> DEFINE new == idle'
    <3>1. /\ DOMAIN new = DOMAIN idle /\ new[a] = idle[a] - i
          /\ \A b \in DOMAIN idle \ {a} : new[b] = idle[b]
      BY <1>2, <2>1
    <3> HIDE DEF new
    <3>2. Total(new) = Total(idle) - i
      BY <1>2, <2>1, <3>1, TotalTakeOne
    <3> QED
      BY <3>2 DEF new
  <2> QED
    BY <1>2, <1>3, <2>1, <2>2, <2>3 DEF Conservation, Liabilities
<1>10. ASSUME NEW newPrice \in Prices, Turnover(newPrice), halted' = "no"
       PROVE  Conservation'
  <2>1. PICK paidSeeks, paidProvides, seeks, provides, locked, feeRate, gross,
             pay :
          Turned(newPrice, paidSeeks, paidProvides, seeks, provides, locked,
                 feeRate, gross, pay)
    BY <1>10, TurnoverComputes
  <2>2. Liabilities' = Liabilities
    BY <2>1, TurnedConserves, Zenon
  <2>3. escrow' = escrow
    BY <2>1 DEF Turned
  <2> QED
    BY <2>2, <2>3 DEF Conservation
<1>11. CASE UNCHANGED vars
  BY <1>4, <1>11 DEF vars, queues
<1>12. CASE Next
  BY <1>4, <1>5, <1>6, <1>7, <1>8, <1>9, <1>10, <1>12, StepCases
<1> QED
  BY <1>11, <1>12

\* The escrow is exactly what the tables of the ledger add up to, in every
\* reachable state: audit() never halts the consensus.
THEOREM BooksBalance == Spec => []Conservation
<1>1. Init => Conservation
  BY ConservationInit
<1>2. TypeOK /\ Conservation /\ [Next]_vars => Conservation'
  BY ConservationStep
<1> QED
  BY <1>1, <1>2, TypeCorrect, PTL DEF Spec

-----------------------------------------------------------------------------
(***************************************************************************)
(* The pool as a custodian.                                                *)
(***************************************************************************)
\* The part of an item that waits and the part that is locked are the same item.
OneItem ==
    /\ \A s \in DOMAIN stagedSeeks \cap DOMAIN cycle.lockedSeeks :
         stagedSeeks[s].account = cycle.lockedSeeks[s].account
    /\ \A p \in DOMAIN stagedProvides \cap DOMAIN cycle.lockedProvides :
         /\ stagedProvides[p].account = cycle.lockedProvides[p].account
         /\ stagedProvides[p].minFeeRate = cycle.lockedProvides[p].minFeeRate

\* Two tables that got new amounts from one agree on all else.
LEMMA ReamountedAgree ==
    ASSUME NEW next \in Nat, NEW Item, IsItem(Item),
           NEW old, IsQueueOf(old, Item, next),
           NEW new, Reamounted(new, old), NEW other, Reamounted(other, old)
    PROVE  \A s \in DOMAIN new \cap DOMAIN other :
             /\ new[s].account = other[s].account
             /\ Item = ProvideItem => new[s].minFeeRate = other[s].minFeeRate
BY ReamountedType

\* New items get numbers that nothing has, and a turnover splits items in two.
THEOREM ItemsStayWhole == Spec => []OneItem
<1>1. Init => OneItem
  <2> SUFFICES ASSUME Init PROVE OneItem
    OBVIOUS
  <2>1. DOMAIN cycle.lockedSeeks = {} /\ DOMAIN cycle.lockedProvides = {}
    BY DEF Init, NoCycle, Nothing
  <2> QED
    BY <2>1 DEF OneItem
<1>2. TypeOK /\ OneItem /\ [Next]_vars => OneItem'
  <2> SUFFICES ASSUME TypeOK, OneItem, [Next]_vars PROVE OneItem'
    OBVIOUS
  <2>1. /\ nextSeek \in Nat /\ nextProvide \in Nat
        /\ IsItem(SeekItem) /\ IsItem(ProvideItem)
        /\ IsQueueOf(stagedSeeks, SeekItem, nextSeek)
        /\ IsQueueOf(stagedProvides, ProvideItem, nextProvide)
        /\ DOMAIN cycle.lockedSeeks \subseteq 0 .. nextSeek - 1
        /\ DOMAIN cycle.lockedProvides \subseteq 0 .. nextProvide - 1
    BY DEF TypeOK, IsItem, IsQueueOf
  <2>2. UNCHANGED <<queues, cycle>> => OneItem'
    BY DEF OneItem, queues
  <2>3. ASSUME NEW a \in Account, NEW amount \in Deposits, Seek(a, amount)
        PROVE  OneItem'
    <3> DEFINE item == [account |-> a, amount |-> amount]
    <3>1. /\ DOMAIN Add(stagedSeeks, nextSeek, item)
               = DOMAIN stagedSeeks \cup {nextSeek}
          /\ \A s \in DOMAIN stagedSeeks : s # nextSeek =>
               Add(stagedSeeks, nextSeek, item)[s] = stagedSeeks[s]
      BY DEF Add
    <3>2. nextSeek \notin 0 .. nextSeek - 1
      BY <2>1
    <3>3. /\ stagedSeeks' = Add(stagedSeeks, nextSeek, item)
          /\ UNCHANGED <<stagedProvides, cycle>>
      BY <2>3 DEF Seek
    <3> HIDE DEF item
    <3> QED
      BY <2>1, <3>1, <3>2, <3>3 DEF OneItem
  <2>4. ASSUME NEW a \in Account, NEW amount \in Deposits,
               NEW feeRate \in FeeRates, Provide(a, amount, feeRate)
        PROVE  OneItem'
    <3> DEFINE item ==
                 [account |-> a, amount |-> amount, minFeeRate |-> feeRate]
    <3>1. /\ DOMAIN Add(stagedProvides, nextProvide, item)
               = DOMAIN stagedProvides \cup {nextProvide}
          /\ \A s \in DOMAIN stagedProvides : s # nextProvide =>
               Add(stagedProvides, nextProvide, item)[s] = stagedProvides[s]
      BY DEF Add
    <3>2. nextProvide \notin 0 .. nextProvide - 1
      BY <2>1
    <3>3. /\ stagedProvides' = Add(stagedProvides, nextProvide, item)
          /\ UNCHANGED <<stagedSeeks, cycle>>
      BY <2>4 DEF Provide
    <3> HIDE DEF item
    <3> QED
      BY <2>1, <3>1, <3>2, <3>3 DEF OneItem
  <2>5. ASSUME NEW a \in Account, NEW amount \in Withdrawals,
               ProcessInput(a, amount)
        PROVE  OneItem'
    <3>1. /\ Reamounted(stagedSeeks', stagedSeeks)
          /\ Reamounted(stagedProvides', stagedProvides)
          /\ UNCHANGED cycle
      BY <2>5, WithdrawalParts
    <3>2. /\ \A s \in DOMAIN stagedSeeks' :
               /\ s \in DOMAIN stagedSeeks
               /\ stagedSeeks'[s].account = stagedSeeks[s].account
          /\ \A p \in DOMAIN stagedProvides' :
               /\ p \in DOMAIN stagedProvides
               /\ stagedProvides'[p].account = stagedProvides[p].account
               /\ stagedProvides'[p].minFeeRate = stagedProvides[p].minFeeRate
      BY <2>1, <3>1, ReamountedType
    <3> QED
      BY <3>1, <3>2 DEF OneItem
  <2>6. ASSUME NEW newPrice \in Prices, Turnover(newPrice), halted' = "no"
        PROVE  OneItem'
    <3>1. PICK seeks, provides :
            /\ IsQueueOf(seeks, SeekItem, nextSeek)
            /\ IsQueueOf(provides, ProvideItem, nextProvide)
            /\ Reamounted(stagedSeeks', seeks)
            /\ Reamounted(stagedProvides', provides)
            /\ Reamounted(cycle'.lockedSeeks, seeks)
            /\ Reamounted(cycle'.lockedProvides, provides)
      BY <2>6, TurnoverParts
    <3> QED
      BY <2>1, <3>1, ReamountedAgree DEF OneItem
  <2>7. CASE UNCHANGED vars
    BY <2>2, <2>7 DEF vars, queues
  <2>8. CASE Next
    BY <2>2, <2>3, <2>4, <2>5, <2>6, <2>8, StepCases
       DEF CancelRenewal, UndoCancelRenewal
  <2> QED
    BY <2>7, <2>8
<1> QED
  BY <1>1, <1>2, TypeCorrect, PTL DEF Spec

\* What accounts hold in a table is together all that is in it.
LEMMA HoldingsSum ==
    ASSUME NEW next \in Nat, NEW Item, IsItem(Item),
           NEW items, IsQueueOf(items, Item, next),
           NEW h, DOMAIN h = Account,
           \A a \in Account : h[a] = Holding(items, a)
    PROVE  IsAmounts(h) /\ Total(h) = Sum(items)
<1> DEFINE f     == Amounts(items)
           owner == [s \in DOMAIN items |-> items[s].account]
<1>1. IsQueue(items)
  BY QueueOfIsQueue
<1>2. IsAmounts(f) /\ DOMAIN f = DOMAIN items
  BY <1>1, SumType
<1>3. \A s \in DOMAIN f : owner[s] \in Account
  <2>1. \A s \in DOMAIN items : items[s] \in Item
    BY DEF IsQueueOf
  <2> QED
    BY <1>2, <2>1, ItemType
<1>4. ASSUME NEW a \in Account
      PROVE  h[a] = Total(Only(f, {s \in DOMAIN f : owner[s] = a}))
  <2> DEFINE own == Of(items, a)
  <2>1. own = {s \in DOMAIN f : owner[s] = a}
    BY <1>2 DEF Of
  <2>2. Amounts(Only(items, own)) = Only(f, own)
    BY <1>2 DEF Amounts, Only
  <2> QED
    BY <2>1, <2>2 DEF Holding, Sum
<1> HIDE DEF f, owner
<1>5. IsAmounts(h) /\ Total(h) = Total(f)
  BY <1>2, <1>3, <1>4, TotalByGroup, PoolAssumption
<1> QED
  BY <1>5 DEF Sum, f

\* The terms of the refinement mapping.
Free == [a \in Account |-> Unlocked(a)]

Balance == [a \in Account |-> Unlocked(a) + LockedOf(a)]

Exposed == {a \in Account : \/ Has(cycle.lockedSeeks, a)
                            \/ Has(cycle.lockedProvides, a)}

\* What accounts have is what the pool owes, in numbers of millisats.
BalancesAdded ==
    /\ IsAmounts(Balance) /\ Total(Balance) = Liabilities
    /\ \A a \in Account : Unlocked(a) \in Nat /\ LockedOf(a) \in Nat

\* The balances of the accounts are what the pool owes.
LEMMA BalancesAreOwed == TypeOK => BalancesAdded
<1> SUFFICES ASSUME TypeOK PROVE BalancesAdded
  OBVIOUS
<1> DEFINE ss == [a \in Account |-> Holding(stagedSeeks, a)]
           sp == [a \in Account |-> Holding(stagedProvides, a)]
           ls == [a \in Account |-> Holding(cycle.lockedSeeks, a)]
           lp == [a \in Account |-> Holding(cycle.lockedProvides, a)]
           one   == [a \in Account |-> idle[a] + ss[a]]
           two   == [a \in Account |-> one[a] + sp[a]]
           locks == [a \in Account |-> ls[a] + lp[a]]
           all   == [a \in Account |-> two[a] + locks[a]]
<1>1. /\ nextSeek \in Nat /\ nextProvide \in Nat
      /\ IsItem(SeekItem) /\ IsItem(ProvideItem)
      /\ IsQueueOf(stagedSeeks, SeekItem, nextSeek)
      /\ IsQueueOf(stagedProvides, ProvideItem, nextProvide)
      /\ IsQueueOf(cycle.lockedSeeks, SeekItem, nextSeek)
      /\ IsQueueOf(cycle.lockedProvides, ProvideItem, nextProvide)
  BY DEF TypeOK, IsItem
<1>2. \A a : /\ Holding(stagedSeeks, a) \in Nat
             /\ Holding(stagedProvides, a) \in Nat
             /\ Holding(cycle.lockedSeeks, a) \in Nat
             /\ Holding(cycle.lockedProvides, a) \in Nat
  BY <1>1, HoldingType
<1>3. \A a \in Account : idle[a] \in Nat
  BY DEF TypeOK
<1>4. \A a \in Account : Unlocked(a) \in Nat /\ LockedOf(a) \in Nat
  BY <1>2, <1>3 DEF Unlocked, LockedOf
<1>5. /\ DOMAIN ss = Account /\ DOMAIN sp = Account
      /\ DOMAIN ls = Account /\ DOMAIN lp = Account
      /\ \A a \in Account : /\ ss[a] = Holding(stagedSeeks, a)
                            /\ sp[a] = Holding(stagedProvides, a)
                            /\ ls[a] = Holding(cycle.lockedSeeks, a)
                            /\ lp[a] = Holding(cycle.lockedProvides, a)
  OBVIOUS
<1>6. Balance = all
  BY <1>2, <1>3 DEF Balance, Unlocked, LockedOf
<1> HIDE DEF ss, sp, ls, lp
<1>7. /\ IsAmounts(ss) /\ Total(ss) = Sum(stagedSeeks)
      /\ IsAmounts(ls) /\ Total(ls) = Sum(cycle.lockedSeeks)
  BY <1>1, <1>5, HoldingsSum
<1>8. /\ IsAmounts(sp) /\ Total(sp) = Sum(stagedProvides)
      /\ IsAmounts(lp) /\ Total(lp) = Sum(cycle.lockedProvides)
  BY <1>1, <1>5, HoldingsSum
<1>9. /\ IsAmounts(idle) /\ DOMAIN idle = Account /\ Total(idle) \in Nat
      /\ Sum(stagedSeeks) \in Nat /\ Sum(stagedProvides) \in Nat
      /\ Sum(cycle.lockedSeeks) \in Nat /\ Sum(cycle.lockedProvides) \in Nat
  BY LiabilitiesType
<1>10. /\ IsAmounts(one) /\ DOMAIN one = Account
       /\ Total(one) = Total(idle) + Total(ss)
  BY <1>5, <1>7, <1>9, TotalPointwise
<1> HIDE DEF one
<1>11. /\ IsAmounts(two) /\ DOMAIN two = Account
       /\ Total(two) = Total(one) + Total(sp)
  BY <1>5, <1>8, <1>10, TotalPointwise
<1>12. /\ IsAmounts(locks) /\ DOMAIN locks = Account
       /\ Total(locks) = Total(ls) + Total(lp)
  BY <1>5, <1>7, <1>8, TotalPointwise
<1> HIDE DEF two, locks
<1>13. IsAmounts(all) /\ Total(all) = Total(two) + Total(locks)
  BY <1>11, <1>12, TotalPointwise
<1> HIDE DEF all
<1>14. Total(all) = Liabilities
  BY <1>7, <1>8, <1>9, <1>10, <1>11, <1>12, <1>13 DEF Liabilities
<1> QED
  BY <1>4, <1>6, <1>13, <1>14 DEF BalancesAdded

\* Who has nothing in a table holds nothing of it.
LEMMA HoldingNone ==
    ASSUME NEW items, NEW a, ~Has(items, a)
    PROVE  Holding(items, a) = 0
<1>1. Of(items, a) = {}
  BY DEF Has
<1>2. DOMAIN Amounts(Only(items, Of(items, a))) = {}
  BY <1>1 DEF Amounts, Only
<1> QED
  BY <1>2, TotalEmpty DEF Holding, Sum

\* Who has the same items with the same amounts holds the same.
LEMMA HoldingSame ==
    ASSUME NEW old, NEW new, NEW a, Of(new, a) = Of(old, a),
           \A s \in Of(old, a) : new[s].amount = old[s].amount
    PROVE  Holding(new, a) = Holding(old, a)
<1> DEFINE own == Of(old, a)
<1>1. own \subseteq DOMAIN old /\ own \subseteq DOMAIN new
  BY DEF Of
<1>2. Amounts(Only(new, own)) = Amounts(Only(old, own))
  BY <1>1 DEF Amounts, Only
<1> QED
  BY <1>2 DEF Holding, Sum

\* Giving an item a new amount leaves it its account.
LEMMA AccountStays ==
    ASSUME NEW Item, IsItem(Item), NEW x \in Item, NEW n
    PROVE  [x EXCEPT !.amount = n].account = x.account
BY DEF IsItem, SeekItem, ProvideItem

\* Restaging the locks of others leaves alone what an account has staged.
LEMMA RestagedUntouched ==
    ASSUME NEW next \in Nat, NEW Item, IsItem(Item),
           NEW staged, IsQueueOf(staged, Item, next),
           NEW locked, NEW a, ~Has(locked, a),
           \A s \in DOMAIN staged \cap DOMAIN locked :
             staged[s].account = locked[s].account
    PROVE  LET all == Restaged(staged, locked)
           IN  /\ Of(all, a) = Of(staged, a)
               /\ \A s \in Of(staged, a) : all[s] = staged[s]
<1> DEFINE all == Restaged(staged, locked)
<1>1. \A s \in DOMAIN locked : locked[s].account # a
  BY DEF Has, Of
<1>2. /\ DOMAIN all = DOMAIN staged \cup DOMAIN locked
      /\ \A s \in DOMAIN all :
           /\ s \notin DOMAIN locked => all[s] = staged[s]
           /\ s \in DOMAIN locked /\ s \notin DOMAIN staged =>
                all[s] = locked[s]
           /\ s \in DOMAIN locked /\ s \in DOMAIN staged =>
                all[s] = [staged[s] EXCEPT
                            !.amount = staged[s].amount + locked[s].amount]
  BY DEF Restaged
<1> HIDE DEF all
<1>3. ASSUME NEW s \in DOMAIN locked, s \in DOMAIN staged
      PROVE  all[s].account = locked[s].account
  <2>1. all[s] = [staged[s] EXCEPT
                    !.amount = staged[s].amount + locked[s].amount]
    BY <1>2, <1>3
  <2>2. staged[s] \in Item
    BY <1>3 DEF IsQueueOf
  <2>3. all[s].account = staged[s].account
    BY <2>1, <2>2, AccountStays
  <2> QED
    BY <1>3, <2>3
<1>4. \A s \in DOMAIN all :
        \/ s \in DOMAIN locked /\ all[s].account = locked[s].account
        \/ s \notin DOMAIN locked /\ s \in DOMAIN staged /\ all[s] = staged[s]
  BY <1>2, <1>3
<1>5. \A s \in Of(staged, a) : s \notin DOMAIN locked
  BY <1>1 DEF Of
<1>6. \A s \in Of(staged, a) : s \in DOMAIN all /\ all[s] = staged[s]
  BY <1>2, <1>5 DEF Of
<1>7. Of(all, a) = Of(staged, a)
  BY <1>1, <1>4, <1>6 DEF Of
<1> QED
  BY <1>6, <1>7 DEF all

\* A walk that does not reach an account's items leaves them.
LEMMA LeftUntouched ==
    ASSUME NEW items, IsQueue(items), NEW a, NEW before, NEW want,
           \A s \in DOMAIN items : want[s] \in Int,
           \A s \in DOMAIN items : \A n :
             [items[s] EXCEPT !.amount = n].account = items[s].account,
           \A s \in Of(items, a) : s \notin Reached(items, before, want)
    PROVE  LET left == Left(items, before, want)
           IN  /\ Of(left, a) = Of(items, a)
               /\ \A s \in Of(items, a) : left[s].amount = items[s].amount
<1> DEFINE left  == Left(items, before, want)
           taken == Taken(items, before, want)
<1>1. /\ DOMAIN left \subseteq DOMAIN items
      /\ \A s \in DOMAIN left :
           left[s] = [items[s] EXCEPT !.amount = @ - taken[s]]
  BY LeftType
<1>2. \A s \in Of(items, a) : s \in DOMAIN left /\ taken[s] = 0
  BY DEF Left, Taken, Of
<1> HIDE DEF left, taken
<1>3. \A s \in Of(items, a) : left[s].amount = items[s].amount
  <2> SUFFICES ASSUME NEW s \in Of(items, a)
               PROVE  left[s].amount = items[s].amount
    OBVIOUS
  <2>1. s \in DOMAIN items /\ s \in DOMAIN left /\ taken[s] = 0
    BY <1>2 DEF Of
  <2>2. "amount" \in DOMAIN items[s] /\ items[s].amount \in Nat
    BY <2>1 DEF IsQueue
  <2>3. left[s] = [items[s] EXCEPT !.amount = items[s].amount - taken[s]]
    BY <1>1, <2>1
  <2>4. left[s].amount = items[s].amount - taken[s]
    BY <2>2, <2>3
  <2> QED
    BY <2>1, <2>2, <2>4
<1>4. \A s \in DOMAIN left : left[s].account = items[s].account
  BY ZenonT(40), <1>1
<1>5. Of(left, a) = Of(items, a)
  BY <1>1, <1>2, <1>4 DEF Of
<1> QED
  BY <1>3, <1>5 DEF left

\* A turnover does nothing to what an account has staged as seeks that has no
\* seek locked before nor after.
LEMMA SeeksUntouched ==
    ASSUME TypeOK, OneItem, NEW a,
           NEW newPrice, NEW paidSeeks, NEW paidProvides, NEW seeks,
           NEW provides, NEW locked, NEW feeRate, NEW gross, NEW pay,
           Turned(newPrice, paidSeeks, paidProvides, seeks, provides, locked,
                  feeRate, gross, pay),
           ~Has(cycle.lockedSeeks, a), ~Has(cycle'.lockedSeeks, a)
    PROVE  /\ Refund(paidSeeks, NewerOwn(paidSeeks), a) = 0
           /\ Holding(stagedSeeks', a) = Holding(stagedSeeks, a)
<1> DEFINE renewed == Renewed(paidSeeks, NewerOwn(paidSeeks))
           covered == Covered(seeks, locked)
<1>1. /\ nextSeek \in Nat /\ IsItem(SeekItem)
      /\ IsQueueOf(stagedSeeks, SeekItem, nextSeek)
      /\ IsQueueOf(cycle.lockedSeeks, SeekItem, nextSeek)
  BY DEF TypeOK, IsItem
<1>2. /\ IsQueueOf(paidSeeks, SeekItem, nextSeek)
      /\ Reamounted(paidSeeks, cycle.lockedSeeks)
      /\ IsQueueOf(renewed, SeekItem, nextSeek)
      /\ IsQueueOf(seeks, SeekItem, nextSeek)
      /\ IsQueueOf(gross, SeekItem, nextSeek)
      /\ Reamounted(gross, seeks)
      /\ IsQueueOf(locked, ProvideItem, nextProvide)
      /\ feeRate \in 0 .. B - 1
      /\ \A p \in DOMAIN locked : locked[p].minFeeRate \in 0 .. B - 1
  BY TurnedTypes, Zenon
<1>3. /\ seeks = Restaged(stagedSeeks, renewed)
      /\ gross = GrossLockedSeeks(seeks, locked)
      /\ cycle'.lockedSeeks = NetLockedSeeks(gross, feeRate)
      /\ stagedSeeks' = Left(seeks, Older(seeks), covered)
  BY DEF Turned, UnlockedSeeks
<1>4. Of(paidSeeks, a) = {}
  <2>1. \A s \in DOMAIN paidSeeks :
          /\ s \in DOMAIN cycle.lockedSeeks
          /\ paidSeeks[s].account = cycle.lockedSeeks[s].account
    BY <1>1, <1>2, ReamountedType
  <2> QED
    BY <2>1 DEF Has, Of
<1>5. Refund(paidSeeks, NewerOwn(paidSeeks), a) = 0
  <2> DEFINE taken == Taken(paidSeeks, NewerOwn(paidSeeks),
                            OwnersToCancel(paidSeeks))
  <2>1. DOMAIN Only(taken, Of(paidSeeks, a)) = {}
    BY <1>4 DEF Only
  <2> QED
    BY <2>1, TotalEmpty DEF Refund
<1>6. Reamounted(renewed, paidSeeks)
  BY <1>1, <1>2, RenewedReamounts
<1> HIDE DEF renewed, covered
<1>7. \A s \in DOMAIN renewed :
        /\ s \in DOMAIN cycle.lockedSeeks
        /\ renewed[s].account = cycle.lockedSeeks[s].account
  BY <1>1, <1>2, <1>6, ReamountedType
<1>8. /\ Of(seeks, a) = Of(stagedSeeks, a)
      /\ \A s \in Of(stagedSeeks, a) : seeks[s] = stagedSeeks[s]
  <2>1. ~Has(renewed, a)
    BY <1>7 DEF Has, Of
  <2>2. \A s \in DOMAIN stagedSeeks \cap DOMAIN renewed :
          stagedSeeks[s].account = renewed[s].account
    BY <1>7 DEF OneItem
  <2>3. seeks = Restaged(stagedSeeks, renewed)
    BY <1>3
  <2> QED
    BY <1>1, <2>3, <2>1, <2>2, RestagedUntouched
<1>9. /\ IsQueue(seeks)
      /\ \A s \in DOMAIN seeks : covered[s] \in Int
  <2>1. IsQueue(locked) /\ IsQueue(seeks)
    BY <1>1, <1>2, QueueOfIsQueue DEF TypeOK, IsItem
  <2> QED
    BY <1>2, <2>1, CoveredType DEF covered
<1>10. \A s \in Of(seeks, a) : s \notin Reached(seeks, Older(seeks), covered)
  <2>1. DOMAIN gross = Reached(seeks, Older(seeks), covered)
    BY <1>3 DEF GrossLockedSeeks, covered
  <2>2. feeRate \in 0 .. B
    BY <1>2, MatchingAssumption
  <2>3. /\ Reamounted(NetLockedSeeks(gross, feeRate), gross)
        /\ DOMAIN NetLockedSeeks(gross, feeRate) = DOMAIN gross
    BY <1>1, <1>2, <2>2, NetReamounts
  <2>4. \A s \in DOMAIN gross :
          NetLockedSeeks(gross, feeRate)[s].account = seeks[s].account
    BY <1>1, <1>2, <2>3, ReamountedType
  <2> QED
    BY <1>3, <2>1, <2>3, <2>4 DEF Has, Of
<1>11. /\ Of(stagedSeeks', a) = Of(seeks, a)
       /\ \A s \in Of(seeks, a) : stagedSeeks'[s].amount = seeks[s].amount
  <2>1. \A s \in DOMAIN seeks : \A n :
          [seeks[s] EXCEPT !.amount = n].account = seeks[s].account
    BY <1>1, <1>2, AccountStays DEF IsQueueOf
  <2> QED
    BY <1>3, <1>9, <1>10, <2>1, LeftUntouched
<1>12. Holding(stagedSeeks', a) = Holding(stagedSeeks, a)
  <2> DEFINE new == stagedSeeks'
  <2>1. /\ Of(new, a) = Of(stagedSeeks, a)
        /\ \A s \in Of(stagedSeeks, a) : new[s].amount = stagedSeeks[s].amount
    BY <1>8, <1>11
  <2> HIDE DEF new
  <2>2. Holding(new, a) = Holding(stagedSeeks, a)
    BY <2>1, HoldingSame
  <2> QED
    BY <2>2 DEF new
<1> QED
  BY <1>5, <1>12

\* The same for provides.
LEMMA ProvidesUntouched ==
    ASSUME TypeOK, OneItem, NEW a,
           NEW newPrice, NEW paidSeeks, NEW paidProvides, NEW seeks,
           NEW provides, NEW locked, NEW feeRate, NEW gross, NEW pay,
           Turned(newPrice, paidSeeks, paidProvides, seeks, provides, locked,
                  feeRate, gross, pay),
           ~Has(cycle.lockedProvides, a), ~Has(cycle'.lockedProvides, a)
    PROVE  /\ Refund(paidProvides, DearerOwn(paidProvides), a) = 0
           /\ a \notin DOMAIN pay
           /\ Holding(stagedProvides', a) = Holding(stagedProvides, a)
<1> DEFINE renewed == Renewed(paidProvides, DearerOwn(paidProvides))
           wanted  == Wanted(seeks, provides)
<1>1. /\ nextProvide \in Nat /\ IsItem(ProvideItem)
      /\ IsQueueOf(stagedProvides, ProvideItem, nextProvide)
      /\ IsQueueOf(cycle.lockedProvides, ProvideItem, nextProvide)
  BY DEF TypeOK, IsItem
<1>2. /\ IsQueueOf(paidProvides, ProvideItem, nextProvide)
      /\ Reamounted(paidProvides, cycle.lockedProvides)
      /\ IsQueueOf(renewed, ProvideItem, nextProvide)
      /\ IsQueueOf(seeks, SeekItem, nextSeek)
      /\ IsQueueOf(provides, ProvideItem, nextProvide)
      /\ IsProvides(provides)
      /\ IsQueueOf(locked, ProvideItem, nextProvide)
      /\ Reamounted(locked, provides)
      /\ PaysOut(pay, locked, Total(Fees(gross, feeRate)))
  BY TurnedTypes, Zenon
<1>3. /\ provides = Restaged(stagedProvides, renewed)
      /\ locked = LockedProvides(seeks, provides)
      /\ cycle'.lockedProvides = locked
      /\ stagedProvides' = Left(provides, Cheaper(provides), wanted)
  BY DEF Turned, UnlockedProvides
<1>4. Of(paidProvides, a) = {}
  <2>1. \A s \in DOMAIN paidProvides :
          /\ s \in DOMAIN cycle.lockedProvides
          /\ paidProvides[s].account = cycle.lockedProvides[s].account
    BY <1>1, <1>2, ReamountedType
  <2> QED
    BY <2>1 DEF Has, Of
<1>5. Refund(paidProvides, DearerOwn(paidProvides), a) = 0
  <2> DEFINE taken == Taken(paidProvides, DearerOwn(paidProvides),
                            OwnersToCancel(paidProvides))
  <2>1. DOMAIN Only(taken, Of(paidProvides, a)) = {}
    BY <1>4 DEF Only
  <2> QED
    BY <2>1, TotalEmpty DEF Refund
<1>6. Reamounted(renewed, paidProvides)
  BY <1>1, <1>2, RenewedReamounts
<1> HIDE DEF renewed, wanted
<1>7. \A s \in DOMAIN renewed :
        /\ s \in DOMAIN cycle.lockedProvides
        /\ renewed[s].account = cycle.lockedProvides[s].account
  BY <1>1, <1>2, <1>6, ReamountedType
<1>8. /\ Of(provides, a) = Of(stagedProvides, a)
      /\ \A s \in Of(stagedProvides, a) : provides[s] = stagedProvides[s]
  <2>1. ~Has(renewed, a)
    BY <1>7 DEF Has, Of
  <2>2. \A s \in DOMAIN stagedProvides \cap DOMAIN renewed :
          stagedProvides[s].account = renewed[s].account
    BY <1>7 DEF OneItem
  <2>3. provides = Restaged(stagedProvides, renewed)
    BY <1>3
  <2> QED
    BY <1>1, <2>3, <2>1, <2>2, RestagedUntouched
<1>9. /\ IsQueue(provides)
      /\ \A s \in DOMAIN provides : wanted[s] \in Int
  <2>1. IsQueue(provides) /\ IsQueue(seeks)
    BY <1>1, <1>2, QueueOfIsQueue DEF TypeOK, IsItem
  <2> QED
    BY <1>2, <2>1, WantedType DEF wanted
<1>10. \A s \in DOMAIN locked : locked[s].account # a
  BY <1>3 DEF Has, Of
<1>11. \A s \in Of(provides, a) :
         s \notin Reached(provides, Cheaper(provides), wanted)
  <2>1. DOMAIN locked = Reached(provides, Cheaper(provides), wanted)
    BY <1>3 DEF LockedProvides, wanted
  <2>2. \A s \in DOMAIN locked : locked[s].account = provides[s].account
    BY <1>1, <1>2, ReamountedType
  <2> QED
    BY <1>10, <2>1, <2>2 DEF Of
<1>12. /\ Of(stagedProvides', a) = Of(provides, a)
       /\ \A s \in Of(provides, a) :
            stagedProvides'[s].amount = provides[s].amount
  <2>1. \A s \in DOMAIN provides : \A n :
          [provides[s] EXCEPT !.amount = n].account = provides[s].account
    BY <1>1, <1>2, AccountStays DEF IsQueueOf
  <2> QED
    BY <1>3, <1>9, <1>11, <2>1, LeftUntouched
<1>13. Holding(stagedProvides', a) = Holding(stagedProvides, a)
  <2> DEFINE new == stagedProvides'
  <2>1. /\ Of(new, a) = Of(stagedProvides, a)
        /\ \A s \in Of(stagedProvides, a) :
             new[s].amount = stagedProvides[s].amount
    BY <1>8, <1>12
  <2> HIDE DEF new
  <2>2. Holding(new, a) = Holding(stagedProvides, a)
    BY <2>1, HoldingSame
  <2> QED
    BY <2>2 DEF new
<1>14. a \notin DOMAIN pay
  BY <1>2, <1>10 DEF PaysOut, Owners
<1> QED
  BY <1>5, <1>13, <1>14

\* In terms of the promise: nothing moves.
LEMMA CustodyStutters ==
    ASSUME UNCHANGED <<idle, queues, cycle>>
    PROVE  UNCHANGED <<Balance, Free, Exposed>>
BY DEF queues, Balance, Free, Exposed, Unlocked, LockedOf

\* A map changed at one key.
LEMMA ChangedOne ==
    ASSUME NEW D, NEW f, f = [x \in D |-> f[x]], NEW g, g = [x \in D |-> g[x]],
           NEW x \in D, NEW v, g[x] = v, \A y \in D \ {x} : g[y] = f[y]
    PROVE  g = [f EXCEPT ![x] = v]
OBVIOUS

\* A deposit is free balance.
LEMMA CustodyDeposit ==
    ASSUME TypeOK, NEW a \in Account, NEW amount \in Nat, UNCHANGED <<idle, cycle>>,
           \A b \in Account :
             Holding(stagedSeeks', b) + Holding(stagedProvides', b)
               = Holding(stagedSeeks, b) + Holding(stagedProvides, b)
                   + (IF b = a THEN amount ELSE 0),
           \A b \in Account : /\ Holding(stagedSeeks', b) \in Nat
                              /\ Holding(stagedProvides', b) \in Nat
    PROVE  /\ Balance' = [Balance EXCEPT ![a] = @ + amount]
           /\ Free' = [Free EXCEPT ![a] = @ + amount]
           /\ UNCHANGED Exposed
<1>1. /\ nextSeek \in Nat /\ nextProvide \in Nat
      /\ IsItem(SeekItem) /\ IsItem(ProvideItem)
  BY DEF TypeOK, IsItem
<1>2. \A b : /\ Holding(stagedSeeks, b) \in Nat
             /\ Holding(stagedProvides, b) \in Nat
  BY <1>1, HoldingType DEF TypeOK
<1>3. \A b \in Account : idle[b] \in Nat /\ LockedOf(b) \in Nat
  BY BalancesAreOwed DEF TypeOK, BalancesAdded
<1>4. \A b \in Account : LockedOf(b)' = LockedOf(b)
  BY DEF LockedOf
<1>5. \A b \in Account :
        Unlocked(b)' = Unlocked(b) + (IF b = a THEN amount ELSE 0)
  BY <1>2, <1>3 DEF Unlocked
<1>6. \A b \in Account : Unlocked(b) \in Nat
  BY BalancesAreOwed DEF BalancesAdded
<1>7. Free' = [Free EXCEPT ![a] = @ + amount]
  <2> DEFINE new == Free'
  <2>1. /\ Free = [b \in Account |-> Free[b]] /\ new = [b \in Account |-> new[b]]
        /\ \A b \in Account : Free[b] = Unlocked(b) /\ new[b] = Unlocked(b)'
    BY DEF Free
  <2>2. /\ new[a] = Free[a] + amount
        /\ \A b \in Account \ {a} : new[b] = Free[b]
    BY <1>5, <1>6, <2>1
  <2> HIDE DEF new
  <2>3. new = [Free EXCEPT ![a] = Free[a] + amount]
    BY <2>1, <2>2, ChangedOne
  <2> QED
    BY <2>3 DEF new
<1>8. Balance' = [Balance EXCEPT ![a] = @ + amount]
  <2> DEFINE new == Balance'
  <2>1. /\ Balance = [b \in Account |-> Balance[b]]
        /\ new = [b \in Account |-> new[b]]
        /\ \A b \in Account : /\ Balance[b] = Unlocked(b) + LockedOf(b)
                              /\ new[b] = Unlocked(b)' + LockedOf(b)'
    BY DEF Balance
  <2>2. /\ new[a] = Balance[a] + amount
        /\ \A b \in Account \ {a} : new[b] = Balance[b]
    BY <1>3, <1>4, <1>5, <1>6, <2>1
  <2> HIDE DEF new
  <2>3. new = [Balance EXCEPT ![a] = Balance[a] + amount]
    BY <2>1, <2>2, ChangedOne
  <2> QED
    BY <2>3 DEF new
<1> QED
  BY <1>7, <1>8 DEF Exposed

\* A withdrawal is taken from free balance.
LEMMA CustodyWithdrawal ==
    ASSUME TypeOK, NEW a \in Account, NEW amount \in Withdrawals,
           ProcessInput(a, amount)
    PROVE  /\ amount <= Free[a]
           /\ Balance' = [Balance EXCEPT ![a] = @ - amount]
           /\ Free' = [Free EXCEPT ![a] = @ - amount]
           /\ UNCHANGED Exposed
<1>1. PICK i \in Nat, s \in Nat, p \in Nat :
        /\ i + s + p = amount
        /\ amount <= Unlocked(a)
        /\ i <= idle[a]
        /\ idle' = [idle EXCEPT ![a] = idle[a] - i]
        /\ s <= Holding(stagedSeeks, a) /\ p <= Holding(stagedProvides, a)
        /\ \A b \in Account :
             /\ Holding(stagedSeeks', b) = Holding(stagedSeeks, b)
                                             - (IF b = a THEN s ELSE 0)
             /\ Holding(stagedProvides', b) = Holding(stagedProvides, b)
                                             - (IF b = a THEN p ELSE 0)
  BY WithdrawalTakes
<1>2. UNCHANGED cycle
  BY DEF ProcessInput
<1>3. /\ nextSeek \in Nat /\ nextProvide \in Nat
      /\ IsItem(SeekItem) /\ IsItem(ProvideItem)
  BY DEF TypeOK, IsItem
<1>4. \A b : /\ Holding(stagedSeeks, b) \in Nat
             /\ Holding(stagedProvides, b) \in Nat
  BY <1>3, HoldingType DEF TypeOK
<1>5. /\ \A b \in Account : idle[b] \in Nat
      /\ \A b \in Account : LockedOf(b) \in Nat /\ Unlocked(b) \in Nat
  BY BalancesAreOwed DEF TypeOK, BalancesAdded
<1>6. \A b \in Account : LockedOf(b)' = LockedOf(b)
  BY <1>2 DEF LockedOf
<1>7. \A b \in Account : idle'[b] = idle[b] - (IF b = a THEN i ELSE 0)
  <2>1. DOMAIN idle = Account
    BY DEF TypeOK
  <2>2. /\ idle'[a] = idle[a] - i
        /\ \A b \in Account \ {a} : idle'[b] = idle[b]
    BY <1>1, <2>1
  <2> QED
    BY <1>5, <2>2
<1>8. amount \in Nat
  BY PoolAssumption
<1>9. \A b \in Account :
        Unlocked(b)' = Unlocked(b) - (IF b = a THEN amount ELSE 0)
  BY <1>1, <1>4, <1>5, <1>7, <1>8 DEF Unlocked
<1>10. Free' = [Free EXCEPT ![a] = @ - amount]
  <2> DEFINE new == Free'
  <2>1. /\ Free = [b \in Account |-> Free[b]] /\ new = [b \in Account |-> new[b]]
        /\ \A b \in Account : Free[b] = Unlocked(b) /\ new[b] = Unlocked(b)'
    BY DEF Free
  <2>2. /\ new[a] = Free[a] - amount
        /\ \A b \in Account \ {a} : new[b] = Free[b]
    BY <1>5, <1>8, <1>9, <2>1
  <2> HIDE DEF new
  <2>3. new = [Free EXCEPT ![a] = Free[a] - amount]
    BY <2>1, <2>2, ChangedOne
  <2> QED
    BY <2>3 DEF new
<1>11. Balance' = [Balance EXCEPT ![a] = @ - amount]
  <2> DEFINE new == Balance'
  <2>1. /\ Balance = [b \in Account |-> Balance[b]]
        /\ new = [b \in Account |-> new[b]]
        /\ \A b \in Account : /\ Balance[b] = Unlocked(b) + LockedOf(b)
                              /\ new[b] = Unlocked(b)' + LockedOf(b)'
    BY DEF Balance
  <2>2. /\ new[a] = Balance[a] - amount
        /\ \A b \in Account \ {a} : new[b] = Balance[b]
    BY <1>5, <1>6, <1>8, <1>9, <2>1
  <2> HIDE DEF new
  <2>3. new = [Balance EXCEPT ![a] = Balance[a] - amount]
    BY <2>1, <2>2, ChangedOne
  <2> QED
    BY <2>3 DEF new
<1>12. amount <= Free[a]
  BY <1>1 DEF Free
<1> QED
  BY <1>2, <1>10, <1>11, <1>12 DEF Exposed

\* A turnover keeps the sum of all balances, and keeps to itself whoever has no
\* lock.
LEMMA CustodyTurnover ==
    ASSUME TypeOK, TypeOK', OneItem,
           NEW newPrice \in Prices, Turnover(newPrice), halted' = "no"
    PROVE  /\ Balance' \in [Account -> 0 .. Total(Balance)]
           /\ Free' \in [Account -> 0 .. Total(Balance)]
           /\ Total(Balance') = Total(Balance)
           /\ \A a \in Account :
                /\ Free'[a] <= Balance'[a]
                /\ a \notin Exposed' => Free'[a] = Balance'[a]
                /\ a \notin Exposed \cup Exposed' => Balance'[a] = Balance[a]
<1>1. PICK paidSeeks, paidProvides, seeks, provides, locked, feeRate, gross,
           pay :
        Turned(newPrice, paidSeeks, paidProvides, seeks, provides, locked,
               feeRate, gross, pay)
  BY TurnoverComputes
<1>2. Liabilities' = Liabilities
  BY <1>1, TurnedConserves, Zenon
<1>3. /\ IsAmounts(Balance) /\ Total(Balance) = Liabilities
      /\ \A a \in Account : Unlocked(a) \in Nat /\ LockedOf(a) \in Nat
  BY BalancesAreOwed DEF BalancesAdded
<1>4. (/\ IsAmounts(Balance) /\ Total(Balance) = Liabilities
       /\ \A a \in Account : Unlocked(a) \in Nat /\ LockedOf(a) \in Nat)'
  <2>1. BalancesAdded'
    BY BalancesAreOwed, TypeOK', PTL
  <2> QED
    BY <2>1 DEF BalancesAdded
<1>5. Total(Balance') = Total(Balance)
  BY <1>2, <1>3, <1>4
<1>6. /\ DOMAIN Balance' = Account /\ DOMAIN Free' = Account
      /\ Balance' = [a \in Account |-> Balance'[a]]
      /\ Free' = [a \in Account |-> Free'[a]]
      /\ \A a \in Account : /\ Balance'[a] = Unlocked(a)' + LockedOf(a)'
                            /\ Free'[a] = Unlocked(a)'
  BY DEF Balance, Free
<1>7. \A a \in Account : /\ Balance'[a] \in Nat /\ Free'[a] \in Nat
                         /\ Free'[a] <= Balance'[a]
                         /\ Balance'[a] <= Total(Balance)
  <2> DEFINE new == Balance'
  <2>1. \A a \in Account : new[a] <= Total(new)
    <3>1. IsAmounts(new) /\ DOMAIN new = Account
      BY <1>4, <1>6
    <3> HIDE DEF new
    <3> QED
      BY <3>1, TotalAtLeast
  <2>2. \A a \in Account : Balance'[a] <= Total(Balance)
    BY <1>5, <2>1
  <2>3. \A a \in Account : Unlocked(a)' \in Nat /\ LockedOf(a)' \in Nat
    BY <1>4
  <2> QED
    BY <1>6, <2>2, <2>3
<1>8. Total(Balance) \in Nat
  BY <1>3, TotalType
<1>9. Balance' \in [Account -> 0 .. Total(Balance)]
  <2>1. \A a \in Account : Balance'[a] \in 0 .. Total(Balance)
    BY <1>7, <1>8
  <2> QED
    BY <1>6, <2>1
<1>10. Free' \in [Account -> 0 .. Total(Balance)]
  <2>1. \A a \in Account : Free'[a] \in 0 .. Total(Balance)
    BY <1>7, <1>8
  <2> QED
    BY <1>6, <2>1
<1>11. ASSUME NEW a \in Account, a \notin Exposed'
       PROVE  LockedOf(a)' = 0
  <2> DEFINE seeksNow == cycle'.lockedSeeks
             providesNow == cycle'.lockedProvides
  <2>1. ~Has(seeksNow, a) /\ ~Has(providesNow, a)
    BY <1>11 DEF Exposed
  <2> HIDE DEF seeksNow, providesNow
  <2>2. Holding(seeksNow, a) = 0 /\ Holding(providesNow, a) = 0
    BY <2>1, HoldingNone
  <2> QED
    BY <2>2 DEF LockedOf, seeksNow, providesNow
<1>12. ASSUME NEW a \in Account, a \notin Exposed'
       PROVE  Free'[a] = Balance'[a]
  BY <1>4, <1>6, <1>11, <1>12
<1>13. ASSUME NEW a \in Account, a \notin Exposed, a \notin Exposed'
       PROVE  Balance'[a] = Balance[a]
  <2>1. /\ ~Has(cycle.lockedSeeks, a) /\ ~Has(cycle.lockedProvides, a)
        /\ ~Has(cycle'.lockedSeeks, a) /\ ~Has(cycle'.lockedProvides, a)
    BY <1>13 DEF Exposed
  <2>2. Refund(paidSeeks, NewerOwn(paidSeeks), a) = 0
        /\ Holding(stagedSeeks', a) = Holding(stagedSeeks, a)
    BY <1>1, <2>1, SeeksUntouched
  <2>3. /\ Refund(paidProvides, DearerOwn(paidProvides), a) = 0
        /\ a \notin DOMAIN pay
        /\ Holding(stagedProvides', a) = Holding(stagedProvides, a)
    BY <1>1, <2>1, ProvidesUntouched
  <2>4. idle'[a] = idle[a] + 0 + 0 + 0
    BY <1>1, <2>2, <2>3 DEF Turned
  <2>5. Unlocked(a)' = Unlocked(a)
    <3>1. idle[a] \in Nat
      BY DEF TypeOK
    <3> QED
      BY <2>2, <2>3, <2>4, <3>1 DEF Unlocked
  <2>6. LockedOf(a) = 0
    BY <2>1, HoldingNone DEF LockedOf
  <2>7. LockedOf(a)' = 0
    BY <1>11, <1>13
  <2> QED
    BY <1>3, <1>6, <2>5, <2>6, <2>7 DEF Balance
<1> QED
  BY <1>5, <1>7, <1>9, <1>10, <1>12, <1>13

\* Every account's free balance is part of its balance, at the start nothing.
LEMMA CustodyInit == Init => C!Init
<1> SUFFICES ASSUME Init PROVE C!Init
  OBVIOUS
<1>1. \A a : /\ ~Has(stagedSeeks, a) /\ ~Has(stagedProvides, a)
             /\ ~Has(cycle.lockedSeeks, a) /\ ~Has(cycle.lockedProvides, a)
  BY NothingIsEmpty DEF Init, NoCycle, Has
<1>2. \A a \in Account : Unlocked(a) = 0 /\ LockedOf(a) = 0
  <2>1. \A a \in Account : idle[a] = 0
    BY DEF Init
  <2>2. \A a : /\ Holding(stagedSeeks, a) = 0 /\ Holding(stagedProvides, a) = 0
               /\ Holding(cycle.lockedSeeks, a) = 0
               /\ Holding(cycle.lockedProvides, a) = 0
    BY <1>1, HoldingNone
  <2> QED
    BY <2>1, <2>2 DEF Unlocked, LockedOf
<1> QED
  BY <1>1, <1>2 DEF C!Init

\* A total is the same number in both modules.
LEMMA CustodyTotal ==
    ASSUME NEW f
    PROVE  C!Total(f) = Total(f)
BY DEF C!Total, C!Coins, C!Cardinality, Total, Coins, Cardinality

\* Every step of the pool is a step of the custodian, or none.
LEMMA CustodyStep ==
    ASSUME TypeOK, TypeOK', OneItem, [Next]_vars
    PROVE  C!Next \/ UNCHANGED <<Balance, Free, Exposed>>
<1> DEFINE Steps == C!Next \/ UNCHANGED <<Balance, Free, Exposed>>
<1>1. /\ nextSeek \in Nat /\ nextProvide \in Nat
      /\ IsItem(SeekItem) /\ IsItem(ProvideItem)
      /\ IsQueueOf(stagedSeeks, SeekItem, nextSeek)
      /\ IsQueueOf(stagedProvides, ProvideItem, nextProvide)
  BY DEF TypeOK, IsItem
<1>2. \A b : /\ Holding(stagedSeeks, b) \in Nat
             /\ Holding(stagedProvides, b) \in Nat
  BY <1>1, HoldingType
<1>3. ASSUME UNCHANGED <<idle, queues, cycle>>
      PROVE  Steps
  BY <1>3, CustodyStutters
<1>4. ASSUME NEW a \in Account, NEW amount \in Deposits,
             Balance' = [Balance EXCEPT ![a] = @ + amount],
             Free' = [Free EXCEPT ![a] = @ + amount], UNCHANGED Exposed
      PROVE  Steps
  <2>1. C!Deposit(a, amount)
    BY <1>4 DEF C!Deposit, Balance, Free, Exposed
  <2> QED
    BY <2>1 DEF C!Next
<1>5. ASSUME NEW a \in Account, NEW amount \in Deposits, Seek(a, amount)
      PROVE  Steps
  <2> DEFINE item == [account |-> a, amount |-> amount]
  <2>1. amount \in Nat /\ item \in SeekItem /\ item.amount = amount
          /\ item.account = a
    BY PoolAssumption DEF SeekItem
  <2>2. /\ stagedSeeks' = Add(stagedSeeks, nextSeek, item)
        /\ UNCHANGED <<idle, stagedProvides, cycle>>
    BY <1>5 DEF Seek
  <2> HIDE DEF item
  <2>3. \A b : Holding(stagedSeeks', b) = Holding(stagedSeeks, b)
                 + (IF a = b THEN amount ELSE 0)
    BY <1>1, <2>1, <2>2, AddSum
  <2>4. \A b \in Account :
          /\ Holding(stagedSeeks', b) \in Nat
          /\ Holding(stagedProvides', b) \in Nat
          /\ Holding(stagedSeeks', b) + Holding(stagedProvides', b)
               = Holding(stagedSeeks, b) + Holding(stagedProvides, b)
                   + (IF b = a THEN amount ELSE 0)
    BY <1>2, <2>1, <2>2, <2>3
  <2>5. /\ Balance' = [Balance EXCEPT ![a] = @ + amount]
        /\ Free' = [Free EXCEPT ![a] = @ + amount]
        /\ UNCHANGED Exposed
    BY <2>1, <2>2, <2>4, CustodyDeposit
  <2> QED
    BY <1>4, <2>5
<1>6. ASSUME NEW a \in Account, NEW amount \in Deposits,
             NEW feeRate \in FeeRates, Provide(a, amount, feeRate)
      PROVE  Steps
  <2> DEFINE item == [account |-> a, amount |-> amount, minFeeRate |-> feeRate]
  <2>1. amount \in Nat /\ item \in ProvideItem /\ item.amount = amount
          /\ item.account = a
    <3>1. amount \in Nat /\ feeRate \in 0 .. MaxFeeRate
      BY <1>6, PoolAssumption DEF Provide
    <3> QED
      BY <3>1 DEF ProvideItem
  <2>2. /\ stagedProvides' = Add(stagedProvides, nextProvide, item)
        /\ UNCHANGED <<idle, stagedSeeks, cycle>>
    BY <1>6 DEF Provide
  <2> HIDE DEF item
  <2>3. \A b : Holding(stagedProvides', b) = Holding(stagedProvides, b)
                 + (IF a = b THEN amount ELSE 0)
    BY <1>1, <2>1, <2>2, AddSum
  <2>4. \A b \in Account :
          /\ Holding(stagedSeeks', b) \in Nat
          /\ Holding(stagedProvides', b) \in Nat
          /\ Holding(stagedSeeks', b) + Holding(stagedProvides', b)
               = Holding(stagedSeeks, b) + Holding(stagedProvides, b)
                   + (IF b = a THEN amount ELSE 0)
    BY <1>2, <2>1, <2>2, <2>3
  <2>5. /\ Balance' = [Balance EXCEPT ![a] = @ + amount]
        /\ Free' = [Free EXCEPT ![a] = @ + amount]
        /\ UNCHANGED Exposed
    BY <2>1, <2>2, <2>4, CustodyDeposit
  <2> QED
    BY <1>4, <2>5
<1>7. ASSUME NEW a \in Account, NEW bps \in Bps, CancelRenewal(a, bps)
      PROVE  Steps
  BY <1>3, <1>7 DEF CancelRenewal
<1>8. ASSUME NEW a \in Account, UndoCancelRenewal(a)
      PROVE  Steps
  BY <1>3, <1>8 DEF UndoCancelRenewal
<1>9. ASSUME NEW a \in Account, NEW amount \in Withdrawals,
             ProcessInput(a, amount)
      PROVE  Steps
  <2>1. /\ amount <= Free[a]
        /\ Balance' = [Balance EXCEPT ![a] = @ - amount]
        /\ Free' = [Free EXCEPT ![a] = @ - amount]
        /\ UNCHANGED Exposed
    BY <1>9, CustodyWithdrawal
  <2>2. C!Withdraw(a, amount)
    BY <2>1 DEF C!Withdraw, Balance, Free, Exposed
  <2> QED
    BY <2>2 DEF C!Next
<1>10. ASSUME NEW newPrice \in Prices, Turnover(newPrice), halted' = "no"
       PROVE  Steps
  <2>1. /\ Balance' \in [Account -> 0 .. Total(Balance)]
        /\ Free' \in [Account -> 0 .. Total(Balance)]
        /\ Total(Balance') = Total(Balance)
        /\ \A a \in Account :
             /\ Free'[a] <= Balance'[a]
             /\ a \notin Exposed' => Free'[a] = Balance'[a]
             /\ a \notin Exposed \cup Exposed' => Balance'[a] = Balance[a]
    BY <1>10, CustodyTurnover
  <2>2. Exposed' \in SUBSET Account
    BY DEF Exposed
  <2>3. C!Rebalance
    <3> DEFINE new == Balance'
    <3>1. C!Total(Balance) = Total(Balance) /\ C!Total(new) = Total(new)
      BY CustodyTotal
    <3> QED
      BY <2>1, <2>2, <3>1 DEF C!Rebalance, Balance, Free, Exposed
  <2> QED
    BY <2>3 DEF C!Next
<1>11. CASE UNCHANGED vars
  BY <1>3, <1>11 DEF vars, queues
<1>12. CASE Next
  BY <1>3, <1>5, <1>6, <1>7, <1>8, <1>9, <1>10, <1>12, StepCases
<1> QED
  BY <1>11, <1>12

\* Whatever the prices, the fees and the roundings, the pool keeps the promise of
\* a custodian: every item of consensus is a deposit, a withdrawal from what is
\* free, or a move that keeps the sum of all balances and does not touch who has
\* no lock.
THEOREM PoolIsCustodian == Spec => ImplementsCustody
<1>1. Init => C!Init
  BY CustodyInit
<1>2. TypeOK /\ TypeOK' /\ OneItem /\ [Next]_vars
        => [C!Next]_<<[a \in Account |-> Unlocked(a) + LockedOf(a)],
                      [a \in Account |-> Unlocked(a)],
                      {a \in Account : \/ Has(cycle.lockedSeeks, a)
                                       \/ Has(cycle.lockedProvides, a)}>>
  BY CustodyStep DEF Balance, Free, Exposed
<1> QED
  BY <1>1, <1>2, TypeCorrect, ItemsStayWhole, PTL
     DEF Spec, ImplementsCustody, C!Spec

-----------------------------------------------------------------------------
(***************************************************************************)
(* What a settlement pays a seek.                                          *)
(***************************************************************************)
\* A positive factor on both sides may be left out.
LEMMA CancelFactor ==
    ASSUME NEW k \in Nat, NEW m \in Nat, NEW n \in Nat, k * m < k * n
    PROVE  m < n
<1> SUFFICES ASSUME n <= m PROVE FALSE
  OBVIOUS
<1>1. k * n <= k * m
  BY SMT
<1>2. k * n \in Nat /\ k * m \in Nat
  BY SMT
<1> QED
  BY <1>1, <1>2

\* A share rounded down of a pool rounded up: what it misses is less than one
\* millisat at the new price.
LEMMA ShareKeepsValue ==
    ASSUME NEW S \in Nat, NEW sp \in Nat, NEW w \in Nat, NEW np \in Nat \ {0},
           NEW pool \in Nat, NEW share \in Nat,
           S * sp <= np * pool, pool * w < S * share + S
    PROVE  w * sp < (share + 1) * np
<1>1. /\ S * sp \in Nat /\ np * pool \in Nat /\ pool * w \in Nat
      /\ w * sp \in Nat /\ (share + 1) * np \in Nat /\ S * share + S \in Nat
  BY SMT
<1>2. (S * sp) * w <= (np * pool) * w
  BY <1>1, SMT
<1>3. np * (pool * w) < np * (S * share + S)
  <2> DEFINE a == pool * w
             b == S * share + S
  <2>1. a \in Nat /\ b \in Nat /\ a < b
    BY <1>1
  <2> HIDE DEF a, b
  <2>2. np * a < np * b
    BY <2>1, SMT
  <2> QED
    BY <2>2 DEF a, b
<1>4. /\ (S * sp) * w = S * (w * sp)
      /\ (np * pool) * w = np * (pool * w)
      /\ np * (S * share + S) = S * ((share + 1) * np)
  BY SMT
<1>5. S * (w * sp) < S * ((share + 1) * np)
  <2>1. /\ S * (w * sp) \in Nat /\ np * (pool * w) \in Nat
        /\ S * ((share + 1) * np) \in Nat
    BY <1>1, SMT
  <2> QED
    BY <1>2, <1>3, <1>4, <2>1
<1> QED
  BY <1>1, <1>5, CancelFactor

\* Every share is at least the exact one, rounded down.
LEMMA PayoutsAtLeast ==
    ASSUME NEW weight, IsAmounts(weight), NEW pool \in Nat,
           ~DividesByZero(weight, pool),
           NEW pay \in Payouts(weight, pool), NEW x \in DOMAIN weight
    PROVE  /\ pay[x] \in Nat
           /\ pool * weight[x] < Total(weight) * pay[x] + Total(weight)
<1> DEFINE T      == Total(weight)
           shares == Shares(weight, pool)
           rest   == pool - Total(shares)
<1>1. T \in Nat \ {0} /\ weight[x] \in Nat /\ pool * weight[x] \in Nat
  <2>1. T # 0
    BY DEF DividesByZero
  <2>2. T \in Nat
    BY TotalType
  <2>3. weight[x] \in Nat
    BY DEF IsAmounts
  <2> QED
    BY <2>1, <2>2, <2>3
<1>2. /\ shares[x] \in Nat
      /\ pool * weight[x] < T * shares[x] + T
  <2>1. shares[x] = (pool * weight[x]) \div T
    BY DEF Shares
  <2> HIDE DEF T, shares
  <2> QED
    BY <1>1, <2>1, DivBounds
<1>3. IsAmounts(shares) /\ rest \in Nat
  <2>1. IsAmounts(shares) /\ Total(shares) <= pool
    BY <1>1, SharesWithinPool
  <2> HIDE DEF shares
  <2> QED
    BY <2>1, TotalType
<1>4. PICK lucky \in DOMAIN weight : pay = ShareOut(weight, pool, lucky)
  BY DEF Payouts
<1>5. pay = [shares EXCEPT ![lucky] = @ + rest] /\ DOMAIN shares = DOMAIN weight
  BY <1>4 DEF ShareOut, Shares
<1> HIDE DEF shares, rest, T
<1>6. pay[x] \in Nat /\ shares[x] <= pay[x]
  BY <1>2, <1>3, <1>5
<1>7. T * shares[x] <= T * pay[x]
  <2> DEFINE a == shares[x]
             b == pay[x]
  <2>1. a \in Nat /\ b \in Nat /\ a <= b
    BY <1>2, <1>6
  <2> HIDE DEF a, b
  <2>2. T * a <= T * b
    BY <1>1, <2>1, SMT
  <2> QED
    BY <2>2 DEF a, b
<1>8. T * shares[x] \in Nat /\ T * pay[x] \in Nat
  BY <1>1, <1>2, <1>6, SMT
<1> QED
  BY <1>1, <1>2, <1>6, <1>7, <1>8 DEF T

\* Whatever is locked, at whatever price: settling it keeps its value.
LEMMA SettlingKeepsValue == TypeOK => SeeksKeepValue
<1> SUFFICES ASSUME TypeOK,
                    NEW newPrice \in Prices,
                    ~DividesByZero(Amounts(cycle.lockedSeeks),
                                   SeeksPool(newPrice)),
                    NEW paid \in SettledSeeks(newPrice), NEW s \in DOMAIN paid,
                    ProvidesPool(newPrice) # 0
             PROVE  (paid[s].amount + 1) * newPrice
                       > cycle.lockedSeeks[s].amount * cycle.startPrice
  BY DEF SeeksKeepValue
<1> DEFINE items == cycle.lockedSeeks
           S     == Sum(items)
           sp    == cycle.startPrice
           pool  == SeeksPool(newPrice)
           owed  == CeilDiv(S * sp, newPrice)
<1>1. newPrice \in Nat \ {0} /\ sp \in Nat
  BY PoolAssumption DEF TypeOK
<1>2. /\ pool \in Nat /\ ProvidesPool(newPrice) \in Nat
      /\ IsAmounts(Amounts(items))
  BY <1>1, PoolsType
<1>3. IsQueue(items)
  BY QueueOfIsQueue DEF TypeOK, IsItem
<1>4. /\ S \in Nat /\ S = Total(Amounts(items))
      /\ DOMAIN Amounts(items) = DOMAIN items
  BY <1>3, SumType DEF Sum
<1>5. S * sp \in Nat
  BY <1>1, <1>4
<1>6. S * sp <= newPrice * pool
  <2>1. pool = owed
    <3>1. pool = Least(owed, LockedSum)
      BY DEF SeeksPool
    <3>2. LockedSum - pool # 0
      BY DEF ProvidesPool
    <3> HIDE DEF pool, owed
    <3>3. owed \in Nat
      BY <1>1, <1>5, CeilDivBounds DEF owed
    <3>4. CASE owed <= LockedSum
      BY <3>1, <3>4 DEF Least
    <3>5. CASE ~(owed <= LockedSum)
      <4>1. pool = LockedSum
        BY <3>1, <3>5 DEF Least
      <4> QED
        BY <1>2, <3>2, <4>1
    <3> QED
      BY <3>4, <3>5
  <2>2. S * sp <= newPrice * owed
    <3> HIDE DEF S, sp
    <3> QED
      BY <1>1, <1>5, CeilDivBounds
  <2> HIDE DEF pool, owed
  <2> QED
    BY <2>1, <2>2
<1>7. PICK pay \in Payouts(Amounts(items), pool) : paid = SetAmounts(items, pay)
  BY DEF SettledSeeks
<1>8. /\ s \in DOMAIN items
      /\ s \in DOMAIN Amounts(items)
      /\ Amounts(items)[s] = items[s].amount
      /\ items[s].amount \in Nat
      /\ paid[s] = [items[s] EXCEPT !.amount = pay[s]]
      /\ "amount" \in DOMAIN items[s]
  <2>1. s \in DOMAIN items /\ paid[s] = [items[s] EXCEPT !.amount = pay[s]]
    BY <1>7 DEF SetAmounts
  <2> QED
    BY <1>3, <2>1 DEF Amounts, IsQueue
<1>9. paid[s].amount = pay[s]
  BY <1>8
<1>10. pay[s] \in Nat /\ pool * items[s].amount < S * pay[s] + S
  <2> DEFINE weight == Amounts(items)
  <2>1. ~DividesByZero(weight, pool) /\ s \in DOMAIN weight
        /\ IsAmounts(weight) /\ pay \in Payouts(weight, pool)
        /\ weight[s] = items[s].amount /\ S = Total(weight)
    BY <1>2, <1>4, <1>7, <1>8
  <2> HIDE DEF weight, pool, S
  <2>2. /\ pay[s] \in Nat
        /\ pool * weight[s] < Total(weight) * pay[s] + Total(weight)
    BY <1>2, <2>1, PayoutsAtLeast
  <2> QED
    BY <2>1, <2>2
<1>11. items[s].amount * sp < (pay[s] + 1) * newPrice
  <2> DEFINE w     == items[s].amount
             share == pay[s]
  <2>1. w \in Nat /\ share \in Nat /\ pool * w < S * share + S
    BY <1>8, <1>10
  <2> HIDE DEF w, share, pool, S, sp
  <2>2. w * sp < (share + 1) * newPrice
    BY <1>1, <1>2, <1>4, <1>6, <2>1, ShareKeepsValue
  <2> QED
    BY <2>2 DEF w, share
<1>12. items[s].amount * sp \in Nat /\ (pay[s] + 1) * newPrice \in Nat
  BY <1>1, <1>8, <1>10, SMT
<1> QED
  BY <1>9, <1>11, <1>12

\* So it does in every reachable state.
THEOREM ValueIsKept == Spec => []SeeksKeepValue
BY TypeCorrect, SettlingKeepsValue, PTL

-----------------------------------------------------------------------------
(***************************************************************************)
(* In which order the auction takes the items of a queue.                  *)
(***************************************************************************)
\* Who is locked is locked before who waits.
LEMMA AuctionKeepsOrder ==
    ASSUME NEW n \in Nat, NEW m \in Nat,
           NEW seeks, IsQueueOf(seeks, SeekItem, n),
           NEW provides, IsQueueOf(provides, ProvideItem, m),
           IsProvides(provides)
    PROVE  LET locked == LockedProvides(seeks, provides)
               gross  == GrossLockedSeeks(seeks, locked)
               waitingSeeks    == UnlockedSeeks(seeks, locked)
               waitingProvides == UnlockedProvides(seeks, provides)
           IN  /\ \A s \in DOMAIN waitingSeeks, t \in DOMAIN gross : t <= s
               /\ \A p \in DOMAIN waitingProvides, q \in DOMAIN locked :
                    /\ p \in DOMAIN provides /\ q \in DOMAIN provides
                    /\ p \notin Cheaper(provides)[q]
<1> DEFINE locked  == LockedProvides(seeks, provides)
           gross   == GrossLockedSeeks(seeks, locked)
           covered == Covered(seeks, locked)
           wanted  == Wanted(seeks, provides)
           waitingSeeks    == UnlockedSeeks(seeks, locked)
           waitingProvides == UnlockedProvides(seeks, provides)
<1>1. IsItem(SeekItem) /\ IsItem(ProvideItem)
  BY DEF IsItem
<1>2. IsQueue(seeks) /\ IsQueue(provides)
  BY <1>1, QueueOfIsQueue
<1>0. DOMAIN seeks \subseteq Int /\ DOMAIN provides \subseteq Int
  BY DEF IsQueueOf
<1>3. /\ IsOrder(DOMAIN seeks, Older(seeks))
      /\ IsOrder(DOMAIN provides, Cheaper(provides))
      /\ \A s \in DOMAIN seeks : s \in Int
  BY <1>0, OlderIsOrder, CheaperIsOrder
<1>4. /\ \A p \in DOMAIN provides : wanted[p] \in Int
      /\ \A p \in DOMAIN provides :
           wanted[p] = CollateralNeeded(Sum(seeks), provides[p].minFeeRate)
  BY <1>2, WantedType DEF Wanted
<1>5. /\ IsQueue(locked)
      /\ \A p \in DOMAIN locked : locked[p].minFeeRate \in 0 .. B - 1
  BY <1>2, LockedProvidesType
<1>6. PICK w \in Nat : \A s \in DOMAIN seeks : covered[s] = w
  <2> HIDE DEF locked
  <2> QED
    BY <1>5, CoveredType
<1>7. /\ DOMAIN gross = Reached(seeks, Older(seeks), covered)
      /\ DOMAIN locked = Reached(provides, Cheaper(provides), wanted)
      /\ waitingSeeks = Left(seeks, Older(seeks), covered)
      /\ waitingProvides = Left(provides, Cheaper(provides), wanted)
  BY DEF GrossLockedSeeks, LockedProvides, UnlockedSeeks, UnlockedProvides
<1> HIDE DEF gross, covered, wanted, waitingSeeks, waitingProvides, locked
<1>8. ASSUME NEW s \in DOMAIN waitingSeeks, NEW t \in DOMAIN gross
      PROVE  t <= s
  <2>1. s \in DOMAIN seeks /\ t \in DOMAIN seeks
    BY <1>7 DEF Left, Reached
  <2>2. ASSUME s < t PROVE FALSE
    <3>1. s \in Older(seeks)[t]
      BY <2>1, <2>2 DEF Older
    <3>2. covered[t] <= covered[s] /\ \A x \in DOMAIN seeks : covered[x] \in Int
      BY <1>6, <2>1
    <3>3. t \notin Reached(seeks, Older(seeks), covered)
      BY <1>2, <1>3, <1>7, <2>1, <3>1, <3>2, WalkStops
    <3> QED
      BY <1>7, <3>3
  <2> QED
    BY <1>3, <2>1, <2>2
<1>9. ASSUME NEW p \in DOMAIN waitingProvides, NEW q \in DOMAIN locked
      PROVE  /\ p \in DOMAIN provides /\ q \in DOMAIN provides
             /\ p \notin Cheaper(provides)[q]
  <2>1. p \in DOMAIN provides /\ q \in DOMAIN provides
    BY <1>7 DEF Left, Reached
  <2>2. ASSUME p \in Cheaper(provides)[q] PROVE FALSE
    <3>1. /\ provides[p].minFeeRate \in 0 .. B
          /\ provides[q].minFeeRate \in 0 .. B
          /\ provides[p].minFeeRate <= provides[q].minFeeRate
      BY <2>1, <2>2, MatchingAssumption DEF Cheaper, IsProvides
    <3>2. Sum(seeks) \in Nat
      BY <1>2, SumType
    <3>3. wanted[q] <= wanted[p]
      BY <1>4, <2>1, <3>1, <3>2, DearerNeedsLess
    <3>4. q \notin Reached(provides, Cheaper(provides), wanted)
      BY <1>2, <1>3, <1>4, <1>7, <2>1, <2>2, <3>3, WalkStops
    <3> QED
      BY <1>7, <3>4
  <2> QED
    BY <2>1, <2>2
<1> QED
  BY <1>8, <1>9 DEF gross, waitingSeeks, waitingProvides, locked

-----------------------------------------------------------------------------
(***************************************************************************)
(* Both queues are served in their order.                                  *)
(***************************************************************************)
\* Numbers given out before the last turnover are below the mark, and both
\* queues are in order.
OrderInv == provideMark <= nextProvide /\ PrioritiesHold

\* After a turnover both queues are in order.
LEMMA TurnoverKeepsOrder ==
    ASSUME TypeOK, NEW newPrice \in Prices, Turnover(newPrice), halted' = "no"
    PROVE  OrderInv'
<1>1. PICK paidSeeks, paidProvides, seeks, provides, locked, feeRate, gross,
           pay :
        Turned(newPrice, paidSeeks, paidProvides, seeks, provides, locked,
               feeRate, gross, pay)
  BY TurnoverComputes
<1>2. /\ IsQueueOf(seeks, SeekItem, nextSeek)
      /\ IsQueueOf(provides, ProvideItem, nextProvide)
      /\ IsProvides(provides)
      /\ Reamounted(locked, provides)
      /\ IsQueueOf(gross, SeekItem, nextSeek)
      /\ feeRate \in 0 .. B - 1
  BY <1>1, TurnedTypes, Zenon
<1>3. /\ nextSeek \in Nat /\ nextProvide \in Nat
      /\ IsItem(SeekItem) /\ IsItem(ProvideItem)
  BY DEF TypeOK, IsItem
<1>4. /\ stagedSeeks' = UnlockedSeeks(seeks, locked)
      /\ stagedProvides' = UnlockedProvides(seeks, provides)
      /\ locked = LockedProvides(seeks, provides)
      /\ gross = GrossLockedSeeks(seeks, locked)
      /\ cycle'.lockedSeeks = NetLockedSeeks(gross, feeRate)
      /\ cycle'.lockedProvides = locked
      /\ provideMark' = nextProvide /\ nextProvide' = nextProvide
  BY <1>1 DEF Turned
<1>5. /\ \A s \in DOMAIN stagedSeeks', t \in DOMAIN gross : t <= s
      /\ \A p \in DOMAIN stagedProvides', q \in DOMAIN locked :
           /\ p \in DOMAIN provides /\ q \in DOMAIN provides
           /\ p \notin Cheaper(provides)[q]
  BY <1>2, <1>3, <1>4, AuctionKeepsOrder
<1>6. DOMAIN cycle'.lockedSeeks = DOMAIN gross
  BY <1>4 DEF NetLockedSeeks
<1>7. Reamounted(stagedProvides', provides)
  BY <1>2, <1>3, <1>4, LocksType
<1>8. ASSUME NEW p \in DOMAIN stagedProvides',
             NEW q \in DOMAIN cycle'.lockedProvides
      PROVE  \/ cycle'.lockedProvides[q].minFeeRate
                  < stagedProvides'[p].minFeeRate
             \/ /\ cycle'.lockedProvides[q].minFeeRate
                     = stagedProvides'[p].minFeeRate
                /\ q <= p
  <2>1. /\ p \in DOMAIN provides /\ q \in DOMAIN provides
        /\ p \notin Cheaper(provides)[q]
    BY <1>4, <1>5
  <2>2. stagedProvides'[p].minFeeRate = provides[p].minFeeRate
    BY <1>2, <1>3, <1>7, ReamountedType
  <2>3. cycle'.lockedProvides[q].minFeeRate = provides[q].minFeeRate
    BY <1>2, <1>3, <1>4, ReamountedType
  <2>4. /\ p \in Int /\ q \in Int
        /\ provides[p].minFeeRate \in Int /\ provides[q].minFeeRate \in Int
    <3>1. DOMAIN provides \subseteq 0 .. nextProvide - 1
      BY <1>2 DEF IsQueueOf
    <3> QED
      BY <1>2, <2>1, <3>1, MatchingAssumption DEF IsProvides
  <2>5. /\ ~(provides[p].minFeeRate < provides[q].minFeeRate)
        /\ ~(provides[p].minFeeRate = provides[q].minFeeRate /\ p < q)
    BY <2>1 DEF Cheaper
  <2> QED
    BY <2>2, <2>3, <2>4, <2>5
<1>9. OldestSeeksFirst'
  BY <1>5, <1>6 DEF OldestSeeksFirst
<1>10. CheapestProvidesFirst'
  BY <1>8 DEF CheapestProvidesFirst
<1> QED
  BY <1>3, <1>4, <1>9, <1>10 DEF OrderInv, PrioritiesHold

\* Both queues are served in their order for any number of accounts, deposits
\* and cycles: a deposit gets a number above all, a withdrawal only removes, and
\* an auction that left something of an item has taken nothing behind it.
THEOREM QueuesInOrder == Spec => []PrioritiesHold
<1>1. Init => OrderInv
  <2> SUFFICES ASSUME Init PROVE OrderInv
    OBVIOUS
  <2>1. DOMAIN stagedSeeks = {} /\ DOMAIN stagedProvides = {}
    BY DEF Init, Nothing
  <2> QED
    BY <2>1
       DEF Init, OrderInv, PrioritiesHold, OldestSeeksFirst,
           CheapestProvidesFirst
<1>2. TypeOK /\ OrderInv /\ [Next]_vars => OrderInv'
  <2> SUFFICES ASSUME TypeOK, OrderInv, [Next]_vars PROVE OrderInv'
    OBVIOUS
  <2> USE DEF PrioritiesHold
  <2>0. /\ nextSeek \in Nat /\ nextProvide \in Nat /\ provideMark \in Nat
        /\ IsItem(SeekItem) /\ IsItem(ProvideItem)
        /\ IsQueueOf(stagedSeeks, SeekItem, nextSeek)
        /\ IsQueueOf(stagedProvides, ProvideItem, nextProvide)
        /\ DOMAIN cycle.lockedSeeks \subseteq 0 .. nextSeek - 1
    BY DEF TypeOK, IsItem, IsQueueOf
  <2>1. OldestSeeksFirst /\ CheapestProvidesFirst /\ provideMark <= nextProvide
    BY DEF OrderInv
  <2>2. ASSUME UNCHANGED <<stagedSeeks, cycle>> PROVE OldestSeeksFirst'
    BY <2>1, <2>2 DEF OldestSeeksFirst
  <2>3. ASSUME UNCHANGED <<stagedProvides, cycle, provideMark>>
        PROVE  CheapestProvidesFirst'
    BY <2>1, <2>3 DEF CheapestProvidesFirst
  <2>4. ASSUME NEW a \in Account, NEW amount \in Deposits, Seek(a, amount)
        PROVE  OrderInv'
    <3> DEFINE item == [account |-> a, amount |-> amount]
    <3>1. DOMAIN Add(stagedSeeks, nextSeek, item)
            = DOMAIN stagedSeeks \cup {nextSeek}
      BY DEF Add
    <3>2. /\ stagedSeeks' = Add(stagedSeeks, nextSeek, item)
          /\ UNCHANGED <<stagedProvides, cycle, provideMark, nextProvide>>
      BY <2>4 DEF Seek
    <3> HIDE DEF item
    <3>3. \A t \in DOMAIN cycle.lockedSeeks : t <= nextSeek
      BY <2>0
    <3>4. OldestSeeksFirst'
      BY <2>1, <3>1, <3>2, <3>3 DEF OldestSeeksFirst
    <3> QED
      BY <2>1, <2>3, <3>2, <3>4 DEF OrderInv
  <2>5. ASSUME NEW a \in Account, NEW amount \in Deposits,
               NEW feeRate \in FeeRates, Provide(a, amount, feeRate)
        PROVE  OrderInv'
    <3> DEFINE item ==
                 [account |-> a, amount |-> amount, minFeeRate |-> feeRate]
    <3>1. /\ DOMAIN Add(stagedProvides, nextProvide, item)
               = DOMAIN stagedProvides \cup {nextProvide}
          /\ \A p \in DOMAIN stagedProvides : p # nextProvide =>
               Add(stagedProvides, nextProvide, item)[p] = stagedProvides[p]
      BY DEF Add
    <3>2. /\ stagedProvides' = Add(stagedProvides, nextProvide, item)
          /\ nextProvide' = nextProvide + 1
          /\ UNCHANGED <<stagedSeeks, cycle, provideMark>>
      BY <2>5 DEF Provide
    <3> HIDE DEF item
    <3>3. ~(nextProvide < provideMark)
      BY <2>0, <2>1
    <3>4. CheapestProvidesFirst'
      BY <2>1, <3>1, <3>2, <3>3 DEF CheapestProvidesFirst
    <3>5. provideMark' <= nextProvide'
      BY <2>0, <2>1, <3>2
    <3> QED
      BY <2>2, <3>2, <3>4, <3>5 DEF OrderInv
  <2>6. ASSUME NEW a \in Account, NEW amount \in Withdrawals,
               ProcessInput(a, amount)
        PROVE  OrderInv'
    <3>1. /\ Reamounted(stagedSeeks', stagedSeeks)
          /\ Reamounted(stagedProvides', stagedProvides)
          /\ UNCHANGED <<cycle, provideMark, nextProvide>>
      BY <2>6, WithdrawalParts
    <3>2. /\ DOMAIN stagedSeeks' \subseteq DOMAIN stagedSeeks
          /\ \A p \in DOMAIN stagedProvides' :
               /\ p \in DOMAIN stagedProvides
               /\ stagedProvides'[p].minFeeRate = stagedProvides[p].minFeeRate
      BY <2>0, <3>1, ReamountedType DEF Reamounted
    <3>3. OldestSeeksFirst'
      BY <2>1, <3>1, <3>2 DEF OldestSeeksFirst
    <3>4. CheapestProvidesFirst'
      BY <2>1, <3>1, <3>2 DEF CheapestProvidesFirst
    <3> QED
      BY <2>1, <3>1, <3>3, <3>4 DEF OrderInv
  <2>7. ASSUME NEW newPrice \in Prices, Turnover(newPrice), halted' = "no"
        PROVE  OrderInv'
    BY <2>7, TurnoverKeepsOrder
  <2>8. ASSUME UNCHANGED <<queues, cycle, provideMark, nextProvide>>
        PROVE  OrderInv'
    BY <2>1, <2>2, <2>3, <2>8 DEF OrderInv, queues
  <2>9. CASE UNCHANGED vars
    BY <2>8, <2>9 DEF vars, queues
  <2>10. CASE Next
    BY <2>4, <2>5, <2>6, <2>7, <2>8, <2>10, StepCases
       DEF CancelRenewal, UndoCancelRenewal, queues
  <2> QED
    BY <2>9, <2>10
<1>3. OrderInv => PrioritiesHold
  BY DEF OrderInv
<1> QED
  BY <1>1, <1>2, <1>3, TypeCorrect, PTL DEF Spec

-----------------------------------------------------------------------------
(***************************************************************************)
(* The auction clears the market.                                          *)
(***************************************************************************)
\* A quotient rounded down reaches whatever times the divisor is not above the
\* dividend, and one rounded up stays below whatever reaches it.
LEMMA QuotientReaches ==
    ASSUME NEW n \in Nat, NEW d \in Nat \ {0}, NEW k \in Nat, k * d <= n
    PROVE  k <= n \div d
<1> DEFINE q == n \div d
<1>1. q \in Nat /\ n < d * q + d
  BY DivBounds
<1> HIDE DEF q
<1>2. d * k < d * (q + 1)
  <2>1. /\ d * (q + 1) = d * q + d /\ d * q \in Nat
        /\ d * k = k * d /\ d * k \in Nat
    BY <1>1, SMT
  <2> QED
    BY <1>1, <2>1
<1>3. k < q + 1
  BY <1>1, <1>2, CancelFactor
<1> QED
  BY <1>1, <1>3 DEF q

\* Collateral enough for some seeks covers them.
LEMMA CollateralCovers ==
    ASSUME NEW S \in Nat, NEW L \in Nat, NEW rate \in 0 .. B - 1,
           CollateralNeeded(S, rate) <= L
    PROVE  S <= SeeksCovered(L, rate)
<1> USE MatchingAssumption
<1> DEFINE c    == B - rate
           side == S * c * CollProvider
           unit == B * CollSeeker
           need == CeilDiv(side, unit)
<1>1. c \in Nat \ {0}
  OBVIOUS
<1> HIDE DEF c
<1>2. /\ S * c \in Nat /\ side \in Nat /\ unit \in Nat \ {0}
      /\ c * CollProvider \in Nat \ {0} /\ L * CollSeeker * B \in Nat
  <2>1. S * c \in Nat /\ unit \in Nat \ {0} /\ c * CollProvider \in Nat \ {0}
    BY <1>1, SMT
  <2>2. side \in Nat
    BY <2>1, SMT
  <2>3. L * CollSeeker \in Nat
    BY SMT
  <2>4. L * CollSeeker * B \in Nat
    BY <2>3, SMT
  <2> QED
    BY <2>1, <2>2, <2>4
<1>3. need \in Nat /\ side <= unit * need
  <2> HIDE DEF side, unit
  <2> QED
    BY <1>2, CeilDivBounds
<1>4. need <= L
  BY DEF CollateralNeeded, c
<1>5. unit * need <= unit * L
  <2> HIDE DEF unit, need
  <2> QED
    BY <1>2, <1>3, <1>4, SMT
<1>6. S * (c * CollProvider) = side /\ unit * L = L * CollSeeker * B
  BY <1>1, SMT
<1>7. S * (c * CollProvider) <= L * CollSeeker * B
  <2>1. unit * need \in Nat
    <3> HIDE DEF unit, need
    <3> QED
      BY <1>2, <1>3, SMT
  <2> HIDE DEF side, unit, need
  <2> QED
    BY <1>2, <1>3, <1>5, <1>6, <2>1
<1>8. S <= (L * CollSeeker * B) \div (c * CollProvider)
  <2> DEFINE n == L * CollSeeker * B
             d == c * CollProvider
  <2>1. n \in Nat /\ d \in Nat \ {0} /\ S * d <= n
    BY <1>2, <1>7
  <2> HIDE DEF n, d
  <2>2. S <= n \div d
    BY <2>1, QuotientReaches
  <2> QED
    BY <2>2 DEF n, d
<1> QED
  BY <1>8 DEF SeeksCovered, c

\* If something is left of a provide that asks for the going rate or less, then
\* nothing is left of the seeks.
LEMMA AuctionClears ==
    ASSUME NEW n \in Nat, NEW m \in Nat,
           NEW seeks, IsQueueOf(seeks, SeekItem, n),
           NEW provides, IsQueueOf(provides, ProvideItem, m),
           IsProvides(provides),
           NEW p \in DOMAIN UnlockedProvides(seeks, provides),
           provides[p].minFeeRate
             <= EffectiveFeeRate(LockedProvides(seeks, provides))
    PROVE  Sum(UnlockedSeeks(seeks, LockedProvides(seeks, provides))) = 0
<1> DEFINE locked  == LockedProvides(seeks, provides)
           rate    == EffectiveFeeRate(locked)
           wanted  == Wanted(seeks, provides)
           covered == Covered(seeks, locked)
           cover   == SeeksCovered(Sum(locked), rate)
           waiting == UnlockedProvides(seeks, provides)
           ptaken  == Taken(provides, Cheaper(provides), wanted)
           staken  == Taken(seeks, Older(seeks), covered)
           S       == Sum(seeks)
<1>1. IsQueue(seeks) /\ IsQueue(provides)
  BY QueueOfIsQueue DEF IsItem
<1>0. DOMAIN seeks \subseteq Int /\ DOMAIN provides \subseteq Int
  BY DEF IsQueueOf
<1>2. /\ IsOrder(DOMAIN seeks, Older(seeks))
      /\ IsOrder(DOMAIN provides, Cheaper(provides))
  BY <1>0, OlderIsOrder, CheaperIsOrder
<1>3. S \in Nat
  BY <1>1, SumType
<1>4. /\ \A q \in DOMAIN provides : wanted[q] \in Nat
      /\ \A q \in DOMAIN provides :
           wanted[q] = CollateralNeeded(S, provides[q].minFeeRate)
  BY <1>1, WantedType DEF Wanted
<1>5. /\ IsQueue(locked) /\ Sum(locked) \in Nat
      /\ \A q \in DOMAIN locked : locked[q].minFeeRate \in 0 .. B - 1
  BY <1>1, LockedProvidesType, SumType
<1>6. /\ rate \in 0 .. B - 1 /\ cover \in Nat
      /\ \A s \in DOMAIN seeks : covered[s] = cover
  <2> HIDE DEF locked
  <2> QED
    BY <1>5, CoveredType
<1>7. /\ waiting = Left(provides, Cheaper(provides), wanted)
      /\ p \in DOMAIN provides
  BY DEF UnlockedProvides, Left
<1>8. Total(ptaken) = Sum(locked)
  <2>1. Sum(provides) = Sum(locked) + Sum(waiting)
    BY <1>1, AuctionSplits
  <2>2. Sum(provides) = Total(ptaken) + Sum(waiting)
    <3>1. \A q \in DOMAIN provides : wanted[q] \in Int
      BY <1>4
    <3> HIDE DEF wanted
    <3> QED
      BY <1>1, <1>7, <3>1, LeftSplits
  <2>3. Sum(waiting) \in Nat /\ Sum(provides) \in Nat /\ Total(ptaken) \in Nat
    <3>1. \A q \in DOMAIN provides : wanted[q] \in Int
      BY <1>4
    <3> HIDE DEF wanted, waiting
    <3> QED
      BY <1>1, <1>7, <3>1, LeftType, TakenType, SumType, TotalType
  <2> HIDE DEF waiting, ptaken, locked
  <2> QED
    BY <1>5, <2>1, <2>2, <2>3
<1>9. wanted[p] <= Total(ptaken)
  <2>1. ASSUME NEW q \in DOMAIN provides, q \in Cheaper(provides)[p]
        PROVE  wanted[p] <= wanted[q]
    <3>1. /\ provides[p].minFeeRate \in 0 .. B
          /\ provides[q].minFeeRate \in 0 .. B
          /\ provides[q].minFeeRate <= provides[p].minFeeRate
      BY <1>7, <2>1, MatchingAssumption DEF Cheaper, IsProvides
    <3> HIDE DEF wanted, S
    <3> QED
      BY <1>3, <1>4, <1>7, <3>1, DearerNeedsLess
  <2>2. \A q \in DOMAIN provides : wanted[q] \in Int
    BY <1>4
  <2>3. p \in DOMAIN Left(provides, Cheaper(provides), wanted)
    BY <1>7
  <2> HIDE DEF wanted
  <2> QED
    BY <1>1, <1>2, <2>1, <2>2, <2>3, WalkTakesEnough
<1>10. CollateralNeeded(S, rate) <= Sum(locked)
  <2>1. /\ provides[p].minFeeRate \in 0 .. B /\ rate \in 0 .. B
        /\ provides[p].minFeeRate <= rate
    BY <1>6, <1>7, MatchingAssumption DEF IsProvides
  <2> HIDE DEF S, rate, locked, wanted, ptaken
  <2>2. CollateralNeeded(S, rate) <= CollateralNeeded(S, provides[p].minFeeRate)
    BY <1>3, <2>1, DearerNeedsLess
  <2>3. /\ CollateralNeeded(S, rate) \in Nat
        /\ CollateralNeeded(S, provides[p].minFeeRate) \in Nat
    BY <1>3, <2>1, CollateralNeededType
  <2> QED
    BY <1>4, <1>5, <1>7, <1>8, <1>9, <2>2, <2>3
<1>11. S <= cover
  <2> HIDE DEF S, rate, locked
  <2> QED
    BY <1>3, <1>5, <1>6, <1>10, CollateralCovers
<1>12. Total(staken) = S
  <2> HIDE DEF cover, covered
  <2>1. Total(staken) = Least(cover, Sum(seeks))
    BY <1>1, <1>2, <1>6, WalkTakesExactly
  <2> QED
    BY <1>3, <1>6, <1>11, <2>1 DEF Least
<1>13. Sum(seeks) = Total(staken) + Sum(UnlockedSeeks(seeks, locked))
  <2>1. \A s \in DOMAIN seeks : covered[s] \in Int
    BY <1>6
  <2> HIDE DEF covered, locked
  <2>2. Sum(seeks) = Total(staken) + Sum(Left(seeks, Older(seeks), covered))
    BY <1>1, <2>1, LeftSplits
  <2> QED
    BY <2>2 DEF UnlockedSeeks, covered
<1>14. Sum(UnlockedSeeks(seeks, locked)) \in Nat
  <2>1. \A s \in DOMAIN seeks : covered[s] \in Int
    BY <1>6
  <2> HIDE DEF covered, locked
  <2>2. Sum(Left(seeks, Older(seeks), covered)) \in Nat
    BY <1>1, <2>1, LeftType, SumType
  <2> QED
    BY <2>2 DEF UnlockedSeeks, covered
<1> HIDE DEF staken, locked
<1>15. Sum(UnlockedSeeks(seeks, locked)) = 0
  BY <1>3, <1>12, <1>13, <1>14
<1> QED
  BY <1>15 DEF locked

\* Steps other than a turnover keep the number of the cycle.
LEMMA OtherStepsKeepCycle ==
    ASSUME [Next]_vars, TurnoverStep
    PROVE  \E newPrice \in Prices : Turnover(newPrice) /\ halted' = "no"
<1>1. cycle' # cycle
  BY DEF TurnoverStep
<1> QED
  BY <1>1, StepCases
     DEF vars, Seek, Provide, CancelRenewal, UndoCancelRenewal, ProcessInput

\* No seek waits for want of collateral that could be had at the going rate.
THEOREM MarketAlwaysClears == Spec => MarketClears
<1>1. TypeOK /\ [Next]_vars
        => [TurnoverStep /\ Sum(stagedSeeks') > 0 =>
              \A p \in DOMAIN stagedProvides' :
                stagedProvides'[p].minFeeRate > cycle'.feeRate]_vars
  <2> SUFFICES ASSUME TypeOK, [Next]_vars, TurnoverStep,
                      Sum(stagedSeeks') > 0, NEW p \in DOMAIN stagedProvides'
               PROVE  stagedProvides'[p].minFeeRate > cycle'.feeRate
    OBVIOUS
  <2>1. PICK newPrice \in Prices : Turnover(newPrice) /\ halted' = "no"
    BY OtherStepsKeepCycle
  <2>2. PICK paidSeeks, paidProvides, seeks, provides, locked, feeRate, gross,
             pay :
          Turned(newPrice, paidSeeks, paidProvides, seeks, provides, locked,
                 feeRate, gross, pay)
    BY <2>1, TurnoverComputes
  <2>3. /\ IsQueueOf(seeks, SeekItem, nextSeek)
        /\ IsQueueOf(provides, ProvideItem, nextProvide)
        /\ IsProvides(provides)
        /\ feeRate \in 0 .. B - 1
    BY <2>2, TurnedTypes, Zenon
  <2>4. /\ nextSeek \in Nat /\ nextProvide \in Nat
        /\ IsItem(SeekItem) /\ IsItem(ProvideItem)
    BY DEF TypeOK, IsItem
  <2>5. /\ stagedSeeks' = UnlockedSeeks(seeks, locked)
        /\ stagedProvides' = UnlockedProvides(seeks, provides)
        /\ locked = LockedProvides(seeks, provides)
        /\ feeRate = EffectiveFeeRate(locked)
        /\ cycle'.feeRate = feeRate
    BY <2>2 DEF Turned
  <2>6. Reamounted(stagedProvides', provides)
    BY <2>3, <2>4, <2>5, LocksType
  <2>7. /\ p \in DOMAIN provides
        /\ stagedProvides'[p].minFeeRate = provides[p].minFeeRate
    BY <2>3, <2>4, <2>6, ReamountedType
  <2>8. ~(provides[p].minFeeRate <= feeRate)
    BY <2>3, <2>4, <2>5, AuctionClears
  <2>9. provides[p].minFeeRate \in Int /\ feeRate \in Int
    BY <2>3, <2>7, MatchingAssumption DEF IsProvides
  <2> QED
    BY <2>5, <2>7, <2>8, <2>9
<1> QED
  BY <1>1, TypeCorrect, PTL DEF Spec, MarketClears

-----------------------------------------------------------------------------
(***************************************************************************)
(* What is recorded of a seek.                                             *)
(***************************************************************************)
\* A cancellation visits an item only of an account that has something to
\* cancel, and what it takes as a whole is not renewed.
LEMMA CancelledIsDropped ==
    ASSUME TypeOK, NEW next \in Nat, NEW Item, IsItem(Item),
           NEW items, IsQueueOf(items, Item, next), NEW behind,
           NEW s \in Reached(items, behind, OwnersToCancel(items))
    PROVE  /\ s \in DOMAIN items
           /\ items[s].account \in DOMAIN cancellations
           /\ Taken(items, behind, OwnersToCancel(items))[s] = items[s].amount
                => s \notin DOMAIN Renewed(items, behind)
<1> DEFINE want  == OwnersToCancel(items)
           taken == Taken(items, behind, want)
           left  == Left(items, behind, want)
<1>1. s \in DOMAIN items /\ Ahead(items, behind, s) < want[s]
  BY DEF Reached
<1>2. IsQueue(items)
  BY QueueOfIsQueue
<1>3. want[s] \in Nat /\ Ahead(items, behind, s) \in Nat
  <2>1. want[s] \in Nat
    BY <1>1, ToCancelType
  <2>2. Ahead(items, behind, s) \in Nat
    BY <1>2, OnlyType DEF Ahead
  <2> QED
    BY <2>1, <2>2
<1>4. want[s] # 0
  BY <1>1, <1>3
<1>5. want[s] = ToCancel(items, items[s].account)
  BY <1>1 DEF OwnersToCancel
<1>6. items[s].account \in DOMAIN cancellations
  BY <1>4, <1>5 DEF ToCancel
<1>7. ASSUME taken[s] = items[s].amount
      PROVE  s \notin DOMAIN Renewed(items, behind)
  <2>1. items[s].amount \in Nat
    BY <1>1, <1>2 DEF IsQueue
  <2>2. s \in Reached(items, behind, want) /\ ~(taken[s] < items[s].amount)
    BY <1>7, <2>1
  <2>3. s \notin DOMAIN left
    BY <2>2 DEF Left
  <2>4. DOMAIN Renewed(items, behind) \subseteq DOMAIN left
    BY DEF Renewed, Only
  <2> QED
    BY <2>3, <2>4
<1> QED
  BY <1>1, <1>6, <1>7

\* What a cancellation closes has lost a seek that is not locked nor staged
\* again: its account has nothing staged.
LEMMA ClosedIsGone ==
    ASSUME TypeOK, OneItem, CancellationBacked, MetadataTruthful,
           NEW newPrice, NEW paidSeeks, NEW paidProvides, NEW seeks,
           NEW provides, NEW locked, NEW feeRate, NEW gross, NEW pay,
           Turned(newPrice, paidSeeks, paidProvides, seeks, provides, locked,
                  feeRate, gross, pay),
           NEW m \in DOMAIN seekMetadata,
           MetadataAfterCancelling(paidSeeks)[m].fullyWithdrawn
    PROVE  \E s \in DOMAIN txid : txid[s] = m /\ s \notin DOMAIN seeks
<1> DEFINE behind  == NewerOwn(paidSeeks)
           want    == OwnersToCancel(paidSeeks)
           taken   == Taken(paidSeeks, behind, want)
           visited == Reached(paidSeeks, behind, want)
           renewed == Renewed(paidSeeks, behind)
           meta    == MetadataAfterCancelling(paidSeeks)
           part    == Total(Only(taken, OfTx(paidSeeks, m)))
           all     == \E s \in visited :
                        txid[s] = m /\ taken[s] = paidSeeks[s].amount
<1>1. /\ IsQueueOf(paidSeeks, SeekItem, nextSeek)
      /\ Reamounted(paidSeeks, cycle.lockedSeeks)
  BY TurnedTypes, Zenon
<1>2. /\ nextSeek \in Nat /\ IsItem(SeekItem)
      /\ IsQueueOf(stagedSeeks, SeekItem, nextSeek)
      /\ IsQueueOf(cycle.lockedSeeks, SeekItem, nextSeek)
      /\ seekMetadata[m] \in Metadata
  BY DEF TypeOK, IsItem, IsQueueOf
<1>3. DOMAIN seeks = DOMAIN stagedSeeks \cup DOMAIN renewed
  <2>1. seeks = Restaged(stagedSeeks, renewed)
    BY DEF Turned
  <2> HIDE DEF renewed
  <2> QED
    BY <2>1 DEF Restaged
<1>4. DOMAIN renewed \subseteq DOMAIN paidSeeks
      /\ DOMAIN paidSeeks \subseteq DOMAIN cycle.lockedSeeks
  <2>1. Reamounted(renewed, paidSeeks)
    BY <1>1, <1>2, RenewedReamounts
  <2> HIDE DEF renewed
  <2> QED
    BY <1>1, <2>1 DEF Reamounted
<1>5. seekMetadata[m].fullyWithdrawn \/ all
  <2>1. meta[m] = [seekMetadata[m] EXCEPT !.withdrawn = @ + part,
                                          !.fullyWithdrawn = @ \/ all]
    BY DEF MetadataAfterCancelling
  <2>2. "fullyWithdrawn" \in DOMAIN seekMetadata[m]
    BY <1>2 DEF Metadata
  <2> HIDE DEF all, part, meta
  <2>3. meta[m].fullyWithdrawn = (seekMetadata[m].fullyWithdrawn \/ all)
    BY <2>1, <2>2
  <2>4. meta[m].fullyWithdrawn
    BY DEF meta
  <2> QED
    BY <2>3, <2>4
<1>6. CASE seekMetadata[m].fullyWithdrawn
  BY <1>3, <1>4, <1>6 DEF MetadataTruthful
<1>7. CASE all
  <2>1. PICK s \in visited : txid[s] = m /\ taken[s] = paidSeeks[s].amount
    BY <1>7
  <2>2. /\ s \in DOMAIN paidSeeks
        /\ paidSeeks[s].account \in DOMAIN cancellations
        /\ s \notin DOMAIN renewed
    BY <1>1, <1>2, <2>1, CancelledIsDropped
  <2>3. paidSeeks[s].account = cycle.lockedSeeks[s].account
    BY <1>1, <1>2, <2>2, ReamountedType
  <2>4. s \notin DOMAIN stagedSeeks
    <3> SUFFICES ASSUME s \in DOMAIN stagedSeeks PROVE FALSE
      OBVIOUS
    <3>1. stagedSeeks[s].account = cycle.lockedSeeks[s].account
      BY <1>4, <2>2 DEF OneItem
    <3>2. Has(stagedSeeks, paidSeeks[s].account)
      BY <2>3, <3>1 DEF Has, Of
    <3> QED
      BY <2>2, <3>2 DEF CancellationBacked
  <2>5. s \in DOMAIN txid
    BY <1>1, <2>2 DEF TypeOK, IsQueueOf
  <2> QED
    BY <1>3, <2>1, <2>2, <2>4, <2>5
<1> QED
  BY <1>5, <1>6, <1>7

\* A turnover opens a record for what it locks, and a seek that is gone is not
\* among what it puts back.
LEMMA TurnoverKeepsMetadata ==
    ASSUME TypeOK, OneItem, CancellationBacked, MetadataTruthful,
           NEW newPrice \in Prices, Turnover(newPrice), halted' = "no"
    PROVE  MetadataTruthful'
<1>1. PICK paidSeeks, paidProvides, seeks, provides, locked, feeRate, gross,
           pay :
        Turned(newPrice, paidSeeks, paidProvides, seeks, provides, locked,
               feeRate, gross, pay)
  BY TurnoverComputes
<1> DEFINE old    == MetadataAfterCancelling(paidSeeks)
           new    == MetadataAfterLocking(old, gross, feeRate)
           opened == {txid[s] : s \in DOMAIN gross}
<1>2. /\ IsQueueOf(paidSeeks, SeekItem, nextSeek)
      /\ IsQueueOf(seeks, SeekItem, nextSeek)
      /\ IsQueueOf(provides, ProvideItem, nextProvide)
      /\ Reamounted(gross, seeks)
  BY <1>1, TurnedTypes, Zenon
<1>3. nextSeek \in Nat /\ nextProvide \in Nat
  BY DEF TypeOK
<1>4. DOMAIN gross \subseteq DOMAIN seeks
  BY <1>2 DEF Reamounted
<1>5. DOMAIN stagedSeeks' \subseteq DOMAIN seeks
  <2>1. locked = LockedProvides(seeks, provides)
        /\ stagedSeeks' = UnlockedSeeks(seeks, locked)
    BY <1>1 DEF Turned
  <2>2. Reamounted(stagedSeeks', seeks)
    BY <1>2, <1>3, <2>1, LocksType
  <2> QED
    BY <2>2 DEF Reamounted
<1>6. /\ seekMetadata' = new
      /\ DOMAIN cycle'.lockedSeeks = DOMAIN gross
      /\ UNCHANGED txid
  BY <1>1 DEF Turned, NetLockedSeeks, TransactionEnds
<1>7. DOMAIN old = DOMAIN seekMetadata
  BY DEF MetadataAfterCancelling
<1>8. ASSUME NEW m \in DOMAIN old, old[m].fullyWithdrawn
      PROVE  \E s \in DOMAIN txid : txid[s] = m /\ s \notin DOMAIN seeks
  BY <1>1, <1>7, <1>8, ClosedIsGone
<1>9. IsQueueOf(old, Metadata, nextSeek)
  BY <1>2, MetadataCancellingType
<1> HIDE DEF old
<1>10. DOMAIN new = DOMAIN old \cup opened
  BY DEF MetadataAfterLocking
<1>11. ASSUME NEW m \in DOMAIN old
       PROVE  new[m].fullyWithdrawn = old[m].fullyWithdrawn
  <2> DEFINE n == Total(Only(Fees(gross, feeRate), OfTx(gross, m)))
  <2>1. "fullyWithdrawn" \in DOMAIN old[m]
    BY <1>9 DEF IsQueueOf, Metadata
  <2>2. new[m] = [old[m] EXCEPT !.feesPaid = @ + n]
    BY DEF MetadataAfterLocking
  <2> HIDE DEF n, new
  <2> QED
    BY <2>1, <2>2
<1>12. ASSUME NEW m \in DOMAIN new \ DOMAIN old
       PROVE  ~new[m].fullyWithdrawn
  BY <1>10 DEF MetadataAfterLocking
<1> HIDE DEF new
<1>13. ASSUME NEW m \in DOMAIN new, new[m].fullyWithdrawn
       PROVE  \E s \in DOMAIN txid :
                txid[s] = m
                /\ s \notin DOMAIN stagedSeeks' \cup DOMAIN gross
  BY <1>4, <1>5, <1>8, <1>11, <1>12, <1>13
<1> QED
  BY <1>6, <1>10, <1>13 DEF MetadataTruthful

\* Metadata tells the truth for any number of accounts, deposits and cycles: a
\* seek that a cancellation has emptied does not come back, because its account
\* has nothing staged and its number is not given out again.  Other seeks of
\* its transaction, whose record it closes, may still be there.
THEOREM MetadataIsTrue == Spec => []MetadataTruthful
<1>1. Init => MetadataTruthful
  <2> SUFFICES ASSUME Init PROVE MetadataTruthful
    OBVIOUS
  <2>1. DOMAIN cycle.lockedSeeks = {} /\ DOMAIN seekMetadata = {}
    BY DEF Init, NoCycle, Nothing
  <2> QED
    BY <2>1 DEF MetadataTruthful
<1>2. TypeOK /\ OneItem /\ CancellationBacked /\ MetadataTruthful /\ [Next]_vars
        => MetadataTruthful'
  <2> SUFFICES ASSUME TypeOK, OneItem, CancellationBacked, MetadataTruthful,
                      [Next]_vars
               PROVE  MetadataTruthful'
    OBVIOUS
  <2>1. ASSUME UNCHANGED <<cycle, seekMetadata>>,
               DOMAIN txid \subseteq DOMAIN txid',
               \A s \in DOMAIN txid :
                 /\ txid'[s] = txid[s]
                 /\ s \in DOMAIN stagedSeeks' => s \in DOMAIN stagedSeeks
        PROVE  MetadataTruthful'
    <3>1. DOMAIN cycle.lockedSeeks \subseteq DOMAIN txid
      BY DEF TypeOK, IsQueueOf
    <3> QED
      BY <2>1, <3>1 DEF MetadataTruthful
  <2>2. ASSUME NEW a \in Account, NEW amount \in Deposits, Seek(a, amount)
        PROVE  MetadataTruthful'
    <3> DEFINE item == [account |-> a, amount |-> amount]
    <3>1. DOMAIN Add(stagedSeeks, nextSeek, item)
            = DOMAIN stagedSeeks \cup {nextSeek}
      BY DEF Add
    <3>2. /\ stagedSeeks' = Add(stagedSeeks, nextSeek, item)
          /\ UNCHANGED <<cycle, seekMetadata>>
      BY <2>2 DEF Seek
    <3>3. DOMAIN txid = 0 .. nextSeek - 1 /\ nextSeek \in Nat
      BY DEF TypeOK
    <3>4. nextSeek \notin DOMAIN txid
      BY <3>3
    <3>5. /\ DOMAIN txid \subseteq DOMAIN txid'
          /\ \A s \in DOMAIN txid : txid'[s] = txid[s]
      BY <2>2, TxidsType
    <3> HIDE DEF item
    <3> QED
      BY <2>1, <3>1, <3>2, <3>4, <3>5
  <2>3. ASSUME NEW a \in Account, NEW amount \in Withdrawals,
               ProcessInput(a, amount)
        PROVE  MetadataTruthful'
    <3>1. Reamounted(stagedSeeks', stagedSeeks)
          /\ UNCHANGED <<cycle, seekMetadata, txid>>
      BY <2>3, WithdrawalParts DEF ProcessInput, TransactionEnds
    <3> QED
      BY <2>1, <3>1 DEF Reamounted
  <2>4. ASSUME NEW newPrice \in Prices, Turnover(newPrice), halted' = "no"
        PROVE  MetadataTruthful'
    BY <2>4, TurnoverKeepsMetadata
  <2>5. ASSUME UNCHANGED <<stagedSeeks, cycle, seekMetadata, txid>>
        PROVE  MetadataTruthful'
    BY <2>1, <2>5
  <2>6. CASE UNCHANGED vars
    BY <2>5, <2>6 DEF vars
  <2>7. CASE Next
    BY <2>2, <2>3, <2>4, <2>5, <2>7, StepCases
       DEF Provide, CancelRenewal, UndoCancelRenewal, TransactionEnds, queues
  <2> QED
    BY <2>6, <2>7
<1> QED
  BY <1>1, <1>2, TypeCorrect, ItemsStayWhole, CancellationsBacked, PTL DEF Spec

-----------------------------------------------------------------------------
(***************************************************************************)
(* Who cancels everything leaves.                                          *)
(***************************************************************************)
\* Who wants all there is of an account's items gets all of each.
LEMMA EverythingTaken ==
    ASSUME NEW items, IsQueue(items), NEW a, NEW before, NEW want,
           \A s \in DOMAIN items : want[s] \in Int,
           \A s \in Of(items, a) :
             /\ want[s] = Holding(items, a)
             /\ before[s] \subseteq Of(items, a) \ {s}
    PROVE  \A s \in Of(items, a) :
             Taken(items, before, want)[s] = items[s].amount
<1> SUFFICES ASSUME NEW s \in Of(items, a)
             PROVE  Taken(items, before, want)[s] = items[s].amount
  OBVIOUS
<1> DEFINE own   == Only(items, Of(items, a))
           front == Only(items, before[s])
           after == Only(own, DOMAIN own \ before[s])
<1>1. s \in DOMAIN items /\ items[s].amount \in Nat
  BY DEF Of, IsQueue
<1>2. /\ IsQueue(own) /\ DOMAIN own = Of(items, a)
      /\ Holding(items, a) = Sum(own)
  <2>1. IsQueue(own) /\ DOMAIN own = Of(items, a) \cap DOMAIN items
    BY OnlyType
  <2> QED
    BY <2>1 DEF Of, Holding
<1>3. Only(own, before[s]) = front
  BY DEF Only, Of
<1>4. Sum(own) = Sum(front) + Sum(after)
  <2> HIDE DEF own
  <2>1. Sum(own) = Sum(Only(own, before[s])) + Sum(after)
    BY <1>2, SumSplit
  <2> QED
    BY <1>3, <2>1
<1>5. IsQueue(after) /\ s \in DOMAIN after /\ after[s] = items[s]
  <2>1. s \notin before[s] /\ s \in DOMAIN own /\ own[s] = items[s]
    BY <1>1, <1>2 DEF Only
  <2> HIDE DEF own
  <2> QED
    BY <1>2, <2>1, OnlyType DEF Only
<1>6. items[s].amount <= Sum(after)
  <2> HIDE DEF after
  <2>1. /\ IsAmounts(Amounts(after)) /\ s \in DOMAIN Amounts(after)
        /\ Amounts(after)[s] = items[s].amount
    BY <1>5, SumType DEF Amounts
  <2> QED
    BY <2>1, TotalAtLeast DEF Sum
<1>7. /\ Sum(front) \in Nat /\ Sum(after) \in Nat
      /\ Ahead(items, before, s) = Sum(front)
  <2>1. Sum(front) \in Nat
    BY OnlyType
  <2>2. Sum(after) \in Nat
    BY <1>5, SumType
  <2> QED
    BY <2>1, <2>2 DEF Ahead
<1>8. Ahead(items, before, s) + items[s].amount <= want[s] /\ want[s] \in Int
  <2>1. want[s] = Sum(own)
    BY <1>2
  <2> HIDE DEF own, front, after
  <2> QED
    BY <1>1, <1>4, <1>6, <1>7, <2>1
<1>9. /\ Taken(items, before, want)[s] \in Nat
      /\ Taken(items, before, want)[s] <= items[s].amount
  BY <1>1, TakenType
<1> HIDE DEF own, front, after
<1>10. CASE items[s].amount = 0
  BY <1>9, <1>10
<1>11. CASE items[s].amount # 0
  <2> DEFINE ahead == Ahead(items, before, s)
  <2>1. ahead < want[s] /\ ahead \in Nat
    BY <1>1, <1>7, <1>8, <1>11
  <2>2. Taken(items, before, want)[s] = Least(want[s] - ahead, items[s].amount)
    BY <1>1, <2>1 DEF Taken, Reached
  <2> HIDE DEF ahead
  <2>3. items[s].amount <= want[s] - ahead
    BY <1>1, <1>8, <2>1 DEF ahead
  <2> QED
    BY <1>1, <1>8, <2>1, <2>2, <2>3 DEF Least
<1> QED
  BY <1>10, <1>11

\* An account whose items are all empty holds nothing.
LEMMA HoldingOfEmpty ==
    ASSUME NEW items, NEW a, \A s \in Of(items, a) : items[s].amount = 0
    PROVE  Holding(items, a) = 0
<1> DEFINE own == Only(items, Of(items, a))
<1>1. \A s \in DOMAIN Amounts(own) : Amounts(own)[s] = 0
  BY DEF Amounts, Only, Of
<1> QED
  BY <1>1, TotalZero DEF Holding, Sum

\* All in units of the whole is all.
LEMMA AllOfIt ==
    ASSUME NEW n \in Nat, NEW d \in Nat \ {0}
    PROVE  CeilDiv(n * d, d) = n
<1> DEFINE q == CeilDiv(n * d, d)
           p == n * d
<1>1. p \in Nat /\ p = d * n
  BY SMT
<1>2. q \in Nat /\ p <= d * q /\ d * q < p + d
  <2> HIDE DEF p
  <2> QED
    BY <1>1, CeilDivBounds
<1> HIDE DEF q, p
<1>3. d * q \in Nat /\ d * n \in Nat
  BY <1>2, SMT
<1>4. ~(q < n)
  <2> SUFFICES ASSUME q < n PROVE FALSE
    OBVIOUS
  <2>1. d * (q + 1) <= d * n
    <3>1. q + 1 <= n
      BY <1>2
    <3> DEFINE r == q + 1
    <3>2. r \in Nat /\ r <= n
      BY <1>2, <3>1
    <3> HIDE DEF r
    <3>3. d * r <= d * n
      BY <3>2, SMT
    <3> QED
      BY <3>3 DEF r
  <2>2. d * (q + 1) = d * q + d
    BY <1>2, SMT
  <2> QED
    BY <1>1, <1>2, <1>3, <2>1, <2>2
<1>5. ~(n < q)
  <2> SUFFICES ASSUME n < q PROVE FALSE
    OBVIOUS
  <2>1. d * (n + 1) <= d * q
    <3> DEFINE r == n + 1
    <3>1. r \in Nat /\ r <= q
      BY <1>2
    <3> HIDE DEF r
    <3>2. d * r <= d * q
      BY <1>2, <3>1, SMT
    <3> QED
      BY <3>2 DEF r
  <2>2. d * (n + 1) = d * n + d
    BY SMT
  <2> QED
    BY <1>1, <1>2, <1>3, <2>1, <2>2
<1>6. q = n
  BY <1>2, <1>4, <1>5
<1> QED
  BY <1>6 DEF q, p

\* A full cancellation leaves nothing in what it renews.
LEMMA FullCancellationTakesAll ==
    ASSUME TypeOK, NEW next \in Nat, NEW Item, IsItem(Item),
           NEW items, IsQueueOf(items, Item, next),
           NEW behind,
           \A s \in DOMAIN items :
             behind[s] \subseteq Of(items, items[s].account) \ {s},
           NEW a \in DOMAIN cancellations, cancellations[a] = BpsUnit
    PROVE  \A s \in Of(Renewed(items, behind), a) :
             Renewed(items, behind)[s].amount = 0
<1> DEFINE want    == OwnersToCancel(items)
           taken   == Taken(items, behind, want)
           left    == Left(items, behind, want)
           renewed == Renewed(items, behind)
<1>1. IsQueue(items) /\ Holding(items, a) \in Nat
  BY QueueOfIsQueue, HoldingType
<1>2. ToCancel(items, a) = Holding(items, a)
  <2>1. BpsUnit \in Nat \ {0}
    BY PoolAssumption
  <2>2. ToCancel(items, a) = CeilDiv(Holding(items, a) * BpsUnit, BpsUnit)
    BY DEF ToCancel
  <2> QED
    BY <1>1, <2>1, <2>2, AllOfIt
<1>3. /\ \A s \in DOMAIN items : want[s] \in Int
      /\ \A s \in Of(items, a) : want[s] = Holding(items, a)
  <2>1. \A s \in DOMAIN items : want[s] \in Nat
    BY ToCancelType
  <2>2. \A s \in Of(items, a) : want[s] = Holding(items, a)
    BY <1>2 DEF Of, OwnersToCancel
  <2> HIDE DEF want
  <2> QED
    BY <2>1, <2>2
<1>4. \A s \in Of(items, a) : behind[s] \subseteq Of(items, a) \ {s}
  BY DEF Of
<1>5. \A s \in Of(items, a) : taken[s] = items[s].amount
  <2> HIDE DEF want
  <2> QED
    BY <1>1, <1>3, <1>4, EverythingTaken
<1>6. /\ DOMAIN renewed \subseteq DOMAIN left
      /\ \A s \in DOMAIN renewed : renewed[s] = left[s]
  BY DEF Renewed, Only
<1>7. Reamounted(renewed, items)
  BY RenewedReamounts
<1> SUFFICES ASSUME NEW s \in Of(renewed, a) PROVE renewed[s].amount = 0
  OBVIOUS
<1>8. s \in DOMAIN renewed /\ renewed[s].account = a
  BY DEF Of
<1> HIDE DEF renewed
<1>9. /\ s \in Of(items, a) /\ items[s].amount \in Nat
      /\ "amount" \in DOMAIN items[s]
  <2>1. s \in DOMAIN items /\ items[s].account = a
    BY <1>7, <1>8, ReamountedType
  <2> QED
    BY <1>1, <2>1 DEF Of, IsQueue
<1>10. left[s] = [items[s] EXCEPT !.amount = @ - taken[s]]
  <2> HIDE DEF want
  <2> QED
    BY <1>1, <1>3, <1>6, <1>8, LeftType
<1>11. renewed[s] = left[s] /\ taken[s] = items[s].amount
  BY <1>5, <1>6, <1>8, <1>9
<1> HIDE DEF left, taken, want
<1> QED
  BY <1>9, <1>10, <1>11

\* An account with nothing staged has nothing in a restaged queue but what was
\* renewed of its locks.
LEMMA RestagedEmpty ==
    ASSUME NEW next \in Nat, NEW Item, IsItem(Item),
           NEW staged, IsQueueOf(staged, Item, next),
           NEW renewed, IsQueueOf(renewed, Item, next),
           NEW a, ~Has(staged, a),
           \A s \in Of(renewed, a) : renewed[s].amount = 0
    PROVE  \A s \in Of(Restaged(staged, renewed), a) :
             Restaged(staged, renewed)[s].amount = 0
<1> DEFINE all == Restaged(staged, renewed)
<1> SUFFICES ASSUME NEW s \in Of(all, a) PROVE all[s].amount = 0
  OBVIOUS
<1>1. s \in DOMAIN all /\ all[s].account = a
  BY DEF Of
<1>2. DOMAIN all = DOMAIN staged \cup DOMAIN renewed
  BY DEF Restaged
<1>3. \A t \in DOMAIN staged : staged[t].account # a
  BY DEF Has, Of
<1>4. s \notin DOMAIN staged
  <2> SUFFICES ASSUME s \in DOMAIN staged PROVE FALSE
    OBVIOUS
  <2>1. CASE s \notin DOMAIN renewed
    BY <1>1, <1>2, <1>3, <2>1 DEF Restaged
  <2>2. CASE s \in DOMAIN renewed
    <3> DEFINE n == staged[s].amount + renewed[s].amount
    <3>1. all[s] = [staged[s] EXCEPT !.amount = n]
      BY <1>2, <2>2 DEF Restaged
    <3>2. n \in Nat
      <4>1. IsQueue(staged) /\ IsQueue(renewed)
        BY QueueOfIsQueue
      <4>2. staged[s].amount \in Nat /\ renewed[s].amount \in Nat
        BY <2>2, <4>1 DEF IsQueue
      <4> QED
        BY <4>2
    <3> HIDE DEF all, n
    <3>3. [staged[s] EXCEPT !.amount = n].account = staged[s].account
      BY <3>2, ItemType DEF IsQueueOf
    <3> QED
      BY <1>1, <1>3, <3>1, <3>3
  <2> QED
    BY <2>1, <2>2
<1>5. s \in DOMAIN renewed /\ all[s] = renewed[s]
  BY <1>1, <1>2, <1>4 DEF Restaged
<1> HIDE DEF all
<1> QED
  BY <1>1, <1>5 DEF Of

\* No table that gets its amounts from another one holds more of an item.
Dwindled(new, old) ==
    \A s \in DOMAIN new :
        /\ s \in DOMAIN old
        /\ new[s].account = old[s].account
        /\ new[s].amount \in Nat
        /\ new[s].amount <= old[s].amount

\* Less of nothing is nothing.
LEMMA DwindledHolding ==
    ASSUME NEW new, NEW old, Dwindled(new, old),
           NEW a, \A s \in Of(old, a) : old[s].amount = 0
    PROVE  Holding(new, a) = 0
<1>1. ASSUME NEW s \in Of(new, a) PROVE new[s].amount = 0
  <2>1. /\ s \in Of(old, a) /\ new[s].amount \in Nat
        /\ new[s].amount <= old[s].amount
    BY <1>1 DEF Of, Dwindled
  <2> QED
    BY <2>1
<1> QED
  BY <1>1, HoldingOfEmpty

\* Whatever an auction does with an item, it does not become more.
LEMMA AuctionDwindles ==
    ASSUME NEW n \in Nat, NEW m \in Nat,
           NEW seeks, IsQueueOf(seeks, SeekItem, n),
           NEW provides, IsQueueOf(provides, ProvideItem, m),
           IsProvides(provides)
    PROVE  LET locked  == LockedProvides(seeks, provides)
               gross   == GrossLockedSeeks(seeks, locked)
               feeRate == EffectiveFeeRate(locked)
           IN  /\ Dwindled(locked, provides)
               /\ Dwindled(UnlockedProvides(seeks, provides), provides)
               /\ Dwindled(NetLockedSeeks(gross, feeRate), seeks)
               /\ Dwindled(UnlockedSeeks(seeks, locked), seeks)
<1> DEFINE locked  == LockedProvides(seeks, provides)
           gross   == GrossLockedSeeks(seeks, locked)
           feeRate == EffectiveFeeRate(locked)
           wanted  == Wanted(seeks, provides)
           covered == Covered(seeks, locked)
           net     == NetLockedSeeks(gross, feeRate)
           uprov   == UnlockedProvides(seeks, provides)
           useek   == UnlockedSeeks(seeks, locked)
<1>1. IsItem(SeekItem) /\ IsItem(ProvideItem)
  BY DEF IsItem
<1>2. IsQueue(seeks) /\ IsQueue(provides)
  BY <1>1, QueueOfIsQueue
<1>3. /\ Reamounted(locked, provides)
      /\ Reamounted(uprov, provides)
      /\ Reamounted(gross, seeks)
      /\ Reamounted(useek, seeks)
      /\ feeRate \in 0 .. B - 1
  BY LocksType
<1>4. /\ \A p \in DOMAIN locked :
           p \in DOMAIN provides /\ locked[p].account = provides[p].account
      /\ \A p \in DOMAIN uprov :
           p \in DOMAIN provides /\ uprov[p].account = provides[p].account
      /\ \A s \in DOMAIN gross :
           s \in DOMAIN seeks /\ gross[s].account = seeks[s].account
      /\ \A s \in DOMAIN useek :
           s \in DOMAIN seeks /\ useek[s].account = seeks[s].account
      /\ IsQueueOf(gross, SeekItem, n)
  <2> HIDE DEF locked, uprov, gross, useek
  <2>1. /\ IsQueueOf(gross, SeekItem, n)
        /\ \A s \in DOMAIN gross :
             s \in DOMAIN seeks /\ gross[s].account = seeks[s].account
    BY <1>1, <1>3, ReamountedType
  <2>2. \A s \in DOMAIN useek :
          s \in DOMAIN seeks /\ useek[s].account = seeks[s].account
    BY <1>1, <1>3, ReamountedType
  <2>3. \A p \in DOMAIN locked :
          p \in DOMAIN provides /\ locked[p].account = provides[p].account
    BY <1>1, <1>3, ReamountedType
  <2>4. \A p \in DOMAIN uprov :
          p \in DOMAIN provides /\ uprov[p].account = provides[p].account
    BY <1>1, <1>3, ReamountedType
  <2> QED
    BY <2>1, <2>2, <2>3, <2>4
<1>5. /\ IsQueue(locked)
      /\ \A p \in DOMAIN locked : locked[p].minFeeRate \in 0 .. B - 1
      /\ \A p \in DOMAIN locked : \E k \in Nat :
           /\ k <= provides[p].amount
           /\ locked[p] = [provides[p] EXCEPT !.amount = k]
  BY <1>2, LockedProvidesType
<1>6. /\ \A p \in DOMAIN provides : wanted[p] \in Int
      /\ \A s \in DOMAIN seeks : covered[s] \in Int
  <2>1. \A p \in DOMAIN provides : wanted[p] \in Int
    BY <1>2, WantedType
  <2> HIDE DEF locked
  <2>2. \A s \in DOMAIN seeks : covered[s] \in Int
    BY <1>5, CoveredType
  <2> QED
    BY <2>1, <2>2
<1>7. ASSUME NEW items, IsQueue(items), NEW before, NEW want,
             \A s \in DOMAIN items : want[s] \in Int,
             NEW s \in DOMAIN Left(items, before, want)
      PROVE  LET left == Left(items, before, want)
             IN  left[s].amount \in Nat /\ left[s].amount <= items[s].amount
  <2> DEFINE left  == Left(items, before, want)
             taken == Taken(items, before, want)
  <2>1. /\ s \in DOMAIN items
        /\ left[s] = [items[s] EXCEPT !.amount = @ - taken[s]]
    BY <1>7, LeftType
  <2>2. taken[s] \in Nat /\ taken[s] <= items[s].amount
    BY <1>7, <2>1, TakenType
  <2>3. "amount" \in DOMAIN items[s] /\ items[s].amount \in Nat
    BY <1>7, <2>1 DEF IsQueue
  <2> HIDE DEF left, taken
  <2>4. left[s].amount = items[s].amount - taken[s]
    BY <2>1, <2>3
  <2>5. left[s].amount \in Nat /\ left[s].amount <= items[s].amount
    BY <2>2, <2>3, <2>4
  <2> QED
    BY <2>5 DEF left
<1>8. Dwindled(locked, provides)
  <2> HIDE DEF locked
  <2>1. ASSUME NEW p \in DOMAIN locked
        PROVE  /\ locked[p].amount \in Nat
               /\ locked[p].amount <= provides[p].amount
    <3>1. PICK k \in Nat : /\ k <= provides[p].amount
                           /\ locked[p] = [provides[p] EXCEPT !.amount = k]
      BY <1>5
    <3>2. "amount" \in DOMAIN provides[p]
      BY <1>2, <1>4 DEF IsQueue
    <3> QED
      BY <3>1, <3>2
  <2> QED
    BY <1>4, <2>1 DEF Dwindled
<1>9. Dwindled(uprov, provides)
  <2>1. \A p \in DOMAIN uprov :
          uprov[p].amount \in Nat /\ uprov[p].amount <= provides[p].amount
    <3> HIDE DEF wanted
    <3> QED
      BY <1>2, <1>6, <1>7 DEF UnlockedProvides, wanted
  <2> HIDE DEF uprov
  <2> QED
    BY <1>4, <2>1 DEF Dwindled
<1>10. Dwindled(useek, seeks)
  <2>1. \A s \in DOMAIN useek :
          useek[s].amount \in Nat /\ useek[s].amount <= seeks[s].amount
    <3> HIDE DEF locked
    <3> QED
      BY <1>2, <1>6, <1>7 DEF UnlockedSeeks
  <2> HIDE DEF useek
  <2> QED
    BY <1>4, <2>1 DEF Dwindled
<1>11. Dwindled(net, seeks)
  <2>1. feeRate \in 0 .. B
    BY <1>3, MatchingAssumption
  <2>2. /\ DOMAIN gross \subseteq DOMAIN seeks
        /\ \A s \in DOMAIN gross : \E k \in Nat :
             /\ k <= seeks[s].amount
             /\ gross[s] = [seeks[s] EXCEPT !.amount = k]
    <3> HIDE DEF locked
    <3> QED
      BY <1>2, <1>5, GrossLockedSeeksType
  <2> HIDE DEF gross, feeRate
  <2>3. /\ Reamounted(net, gross)
        /\ DOMAIN net = DOMAIN gross
        /\ \A s \in DOMAIN gross :
             net[s].amount = gross[s].amount - Fee(gross[s].amount, feeRate)
    BY <1>4, <2>1, NetReamounts
  <2> HIDE DEF net
  <2>4. \A s \in DOMAIN net : net[s].account = gross[s].account
    BY <1>1, <1>4, <2>3, ReamountedType
  <2>5. ASSUME NEW s \in DOMAIN gross
        PROVE  net[s].amount \in Nat /\ net[s].amount <= seeks[s].amount
    <3>1. PICK k \in Nat : /\ k <= seeks[s].amount
                           /\ gross[s] = [seeks[s] EXCEPT !.amount = k]
      BY <2>2
    <3>2. "amount" \in DOMAIN seeks[s] /\ seeks[s].amount \in Nat
      BY <1>2, <2>2 DEF IsQueue
    <3>3. gross[s].amount = k
      BY <3>1, <3>2
    <3>4. Fee(k, feeRate) \in Nat /\ Fee(k, feeRate) <= k
      BY <2>1, FeeType
    <3> QED
      BY <2>3, <3>1, <3>2, <3>3, <3>4
  <2> QED
    BY <1>4, <2>3, <2>4, <2>5 DEF Dwindled
<1> QED
  BY <1>8, <1>9, <1>10, <1>11

\* An account that cancels everything has nothing in either queue.
LEMMA ExitsQueues ==
    ASSUME TypeOK, CancellationBacked,
           NEW newPrice, NEW paidSeeks, NEW paidProvides, NEW seeks,
           NEW provides, NEW locked, NEW feeRate, NEW gross, NEW pay,
           Turned(newPrice, paidSeeks, paidProvides, seeks, provides, locked,
                  feeRate, gross, pay),
           NEW a \in DOMAIN cancellations, cancellations[a] = BpsUnit
    PROVE  /\ \A s \in Of(seeks, a) : seeks[s].amount = 0
           /\ \A p \in Of(provides, a) : provides[p].amount = 0
<1> DEFINE seeksLeft == Renewed(paidSeeks, NewerOwn(paidSeeks))
           provsLeft == Renewed(paidProvides, DearerOwn(paidProvides))
<1>1. /\ IsQueueOf(paidSeeks, SeekItem, nextSeek)
      /\ IsQueueOf(paidProvides, ProvideItem, nextProvide)
      /\ IsQueueOf(seeksLeft, SeekItem, nextSeek)
      /\ IsQueueOf(provsLeft, ProvideItem, nextProvide)
  BY TurnedTypes, Zenon
<1>2. /\ nextSeek \in Nat /\ nextProvide \in Nat
      /\ IsItem(SeekItem) /\ IsItem(ProvideItem)
      /\ IsQueueOf(stagedSeeks, SeekItem, nextSeek)
      /\ IsQueueOf(stagedProvides, ProvideItem, nextProvide)
  BY DEF TypeOK, IsItem
<1>3. ~Has(stagedSeeks, a) /\ ~Has(stagedProvides, a)
  BY DEF CancellationBacked
<1>4. \A s \in DOMAIN paidSeeks :
        NewerOwn(paidSeeks)[s]
          \subseteq Of(paidSeeks, paidSeeks[s].account) \ {s}
  <2>1. \A s \in DOMAIN paidSeeks : s \in Int
    BY <1>1, <1>2 DEF IsQueueOf
  <2> QED
    BY <2>1 DEF NewerOwn, Of
<1>5. \A p \in DOMAIN paidProvides :
        DearerOwn(paidProvides)[p]
          \subseteq Of(paidProvides, paidProvides[p].account) \ {p}
  <2>1. \A p \in DOMAIN paidProvides :
          p \in Int /\ paidProvides[p].minFeeRate \in Int
    BY <1>1, <1>2, PoolAssumption DEF IsQueueOf, ProvideItem
  <2>2. \A p \in DOMAIN paidProvides : p \notin Cheaper(paidProvides)[p]
    BY <2>1 DEF Cheaper
  <2> QED
    BY <2>2 DEF DearerOwn, Of
<1>6. \A s \in Of(seeksLeft, a) : seeksLeft[s].amount = 0
  BY <1>1, <1>2, <1>4, FullCancellationTakesAll
<1>7. \A p \in Of(provsLeft, a) : provsLeft[p].amount = 0
  BY <1>1, <1>2, <1>5, FullCancellationTakesAll
<1>8. /\ seeks = Restaged(stagedSeeks, seeksLeft)
      /\ provides = Restaged(stagedProvides, provsLeft)
  BY DEF Turned
<1> HIDE DEF seeksLeft, provsLeft
<1>9. \A s \in Of(seeks, a) : seeks[s].amount = 0
  BY <1>1, <1>2, <1>3, <1>6, <1>8, RestagedEmpty
<1>10. \A p \in Of(provides, a) : provides[p].amount = 0
  BY <1>1, <1>2, <1>3, <1>7, <1>8, RestagedEmpty
<1> QED
  BY <1>9, <1>10

\* Cancelling everything is final, however many locks the account has and
\* however its payouts were rounded.
THEOREM FullCancellationIsFinal == Spec => FullCancellationExits
<1>1. TypeOK /\ CancellationBacked /\ [Next]_vars
        => [TurnoverStep =>
              \A a \in DOMAIN cancellations :
                cancellations[a] = BpsUnit =>
                  /\ Holding(stagedSeeks', a) = 0
                  /\ Holding(stagedProvides', a) = 0
                  /\ Holding(cycle'.lockedSeeks, a) = 0
                  /\ Holding(cycle'.lockedProvides, a) = 0]_vars
  <2> SUFFICES ASSUME TypeOK, CancellationBacked, [Next]_vars, TurnoverStep,
                      NEW a \in DOMAIN cancellations, cancellations[a] = BpsUnit
               PROVE  /\ Holding(stagedSeeks', a) = 0
                      /\ Holding(stagedProvides', a) = 0
                      /\ Holding(cycle'.lockedSeeks, a) = 0
                      /\ Holding(cycle'.lockedProvides, a) = 0
    OBVIOUS
  <2>1. PICK newPrice \in Prices : Turnover(newPrice) /\ halted' = "no"
    BY OtherStepsKeepCycle
  <2>2. PICK paidSeeks, paidProvides, seeks, provides, locked, feeRate, gross,
             pay :
          Turned(newPrice, paidSeeks, paidProvides, seeks, provides, locked,
                 feeRate, gross, pay)
    BY <2>1, TurnoverComputes
  <2>3. /\ IsQueueOf(seeks, SeekItem, nextSeek)
        /\ IsQueueOf(provides, ProvideItem, nextProvide)
        /\ IsProvides(provides)
    BY <2>2, TurnedTypes, Zenon
  <2>4. nextSeek \in Nat /\ nextProvide \in Nat
    BY DEF TypeOK
  <2>5. /\ locked = LockedProvides(seeks, provides)
        /\ feeRate = EffectiveFeeRate(locked)
        /\ gross = GrossLockedSeeks(seeks, locked)
        /\ stagedSeeks' = UnlockedSeeks(seeks, locked)
        /\ stagedProvides' = UnlockedProvides(seeks, provides)
        /\ cycle'.lockedSeeks = NetLockedSeeks(gross, feeRate)
        /\ cycle'.lockedProvides = locked
    BY <2>2 DEF Turned
  <2>6. /\ Dwindled(stagedSeeks', seeks)
        /\ Dwindled(stagedProvides', provides)
        /\ Dwindled(cycle'.lockedSeeks, seeks)
        /\ Dwindled(cycle'.lockedProvides, provides)
    BY <2>3, <2>4, <2>5, AuctionDwindles
  <2>7. /\ \A s \in Of(seeks, a) : seeks[s].amount = 0
        /\ \A p \in Of(provides, a) : provides[p].amount = 0
    BY <2>2, ExitsQueues
  <2> QED
    BY <2>6, <2>7, DwindledHolding
<1> QED
  BY <1>1, TypeCorrect, CancellationsBacked, PTL
     DEF Spec, FullCancellationExits

=============================================================================
