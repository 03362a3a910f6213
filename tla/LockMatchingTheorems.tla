------------------------ MODULE LockMatchingTheorems ------------------------
(***************************************************************************)
(* What holds of the operators of Msats and LockMatching for all amounts,  *)
(* queues, fee rates and ratios: totals are natural numbers, grow with the *)
(* amounts, add up and scale; a pool shared pro rata is given away         *)
(* entirely and nothing but it; a walk over a queue takes what it wants,   *)
(* or all there is; what an auction locks is collateralised, and it takes  *)
(* the items of a queue in their order.                                    *)
(*                                                                         *)
(* A total is the cardinality of a set, so that each fact about totals is  *)
(* one about finite sets: a subset, a union, an injection.                 *)
(***************************************************************************)
EXTENDS LockMatching, FiniteSetTheorems, FunctionTheorems, TLAPS

IsAmounts(f) ==
    /\ IsFiniteSet(DOMAIN f)
    /\ \A x \in DOMAIN f : f[x] \in Nat

\* A coin of f is a key and the coin's number.
LEMMA CoinsMember ==
    ASSUME NEW f, NEW c
    PROVE  c \in Coins(f) <=>
             \E x \in DOMAIN f : \E i \in 1 .. f[x] : c = <<x, i>>
  BY DEF Coins

\* Finitely many amounts stand for finitely many coins: settle_locks and the
\* others add up what is in a table without a bound on it.
LEMMA TotalType ==
    ASSUME NEW f, IsAmounts(f)
    PROVE  IsFiniteSet(Coins(f)) /\ Total(f) \in Nat
<1> DEFINE pile  == [x \in DOMAIN f |-> {x} \X (1 .. f[x])]
           piles == {{x} \X (1 .. f[x]) : x \in DOMAIN f}
<1>1. pile \in Surjection(DOMAIN f, piles)
  BY DEF Surjection
<1>2. IsFiniteSet(piles)
  BY <1>1, FS_Surjection DEF IsAmounts
<1>3. ASSUME NEW P \in piles
      PROVE  IsFiniteSet(P)
  <2>1. PICK x \in DOMAIN f : P = {x} \X (1 .. f[x])
    BY <1>3
  <2>2. IsFiniteSet({x})
    BY FS_Singleton
  <2>3. f[x] \in Int
    BY DEF IsAmounts
  <2>4. IsFiniteSet(1 .. f[x])
    BY <2>3, FS_Interval
  <2> QED
    BY <2>1, <2>2, <2>4, FS_Product
<1>4. IsFiniteSet(Coins(f))
  BY <1>2, <1>3, FS_UNION DEF Coins
<1> QED
  BY <1>4, FS_CardinalityType DEF Total

\* Nothing amounts to nothing.
LEMMA TotalEmpty ==
    ASSUME NEW f, DOMAIN f = {}
    PROVE  Total(f) = 0
<1>1. Coins(f) = {}
  BY CoinsMember
<1> QED
  BY <1>1, FS_EmptySet DEF Total

\* Amounts that are as large key by key are as large in total.
LEMMA TotalMonotone ==
    ASSUME NEW f, NEW g, IsAmounts(f), IsAmounts(g),
           DOMAIN f \subseteq DOMAIN g,
           \A x \in DOMAIN f : f[x] <= g[x]
    PROVE  Total(f) <= Total(g)
<1>1. Coins(f) \subseteq Coins(g)
  BY CoinsMember DEF IsAmounts
<1> QED
  BY <1>1, TotalType, FS_Subset DEF Total

\* A key's amount is part of the total.
LEMMA TotalAtLeast ==
    ASSUME NEW f, IsAmounts(f), NEW x \in DOMAIN f
    PROVE  f[x] <= Total(f)
<1> DEFINE number == [i \in 1 .. f[x] |-> <<x, i>>]
<1>1. f[x] \in Nat
  BY DEF IsAmounts
<1>2. number \in Injection(1 .. f[x], Coins(f))
  <2>1. number \in [1 .. f[x] -> Coins(f)]
    BY CoinsMember
  <2> QED
    BY <2>1 DEF Injection, IsInjective
<1>3. Cardinality(1 .. f[x]) = f[x]
  BY <1>1, FS_Interval
<1>4. Cardinality(1 .. f[x]) <= Cardinality(Coins(f))
  BY <1>2, TotalType, FS_Injection
<1> QED
  BY <1>3, <1>4 DEF Total

\* Two parts of the keys make up the whole.
LEMMA TotalSplit ==
    ASSUME NEW f, NEW g, NEW h, IsAmounts(f), IsAmounts(g), IsAmounts(h),
           DOMAIN f = DOMAIN g \cup DOMAIN h,
           DOMAIN g \cap DOMAIN h = {},
           \A x \in DOMAIN g : f[x] = g[x],
           \A x \in DOMAIN h : f[x] = h[x]
    PROVE  Total(f) = Total(g) + Total(h)
<1>1. Coins(f) = Coins(g) \cup Coins(h)
  BY CoinsMember
<1>2. Coins(g) \cap Coins(h) = {}
  BY CoinsMember
<1>3. Cardinality(Coins(g) \cup Coins(h))
        = Cardinality(Coins(g)) + Cardinality(Coins(h)) - 0
  BY <1>2, TotalType, FS_Union, FS_EmptySet
<1> QED
  BY <1>1, <1>3, TotalType DEF Total

\* Totals add up: the coins of f + g are those of f, and those of g numbered
\* after them.
LEMMA TotalPlus ==
    ASSUME NEW f, NEW g, NEW h, IsAmounts(f), IsAmounts(g), IsAmounts(h),
           DOMAIN f = DOMAIN g, DOMAIN h = DOMAIN g,
           \A x \in DOMAIN f : h[x] = f[x] + g[x]
    PROVE  Total(h) = Total(f) + Total(g)
<1> DEFINE upper == {c \in Coins(h) : c[2] > f[c[1]]}
           raise == [c \in Coins(g) |-> <<c[1], f[c[1]] + c[2]>>]
<1>1. Coins(h) = Coins(f) \cup upper
  BY CoinsMember DEF IsAmounts
<1>2. Coins(f) \cap upper = {}
  BY CoinsMember DEF IsAmounts
<1>3. raise \in Bijection(Coins(g), upper)
  <2>1. raise \in [Coins(g) -> upper]
    BY CoinsMember DEF IsAmounts
  <2>2. \A c, d \in Coins(g) : raise[c] = raise[d] => c = d
    BY CoinsMember DEF IsAmounts
  <2>3. \A u \in upper : \E c \in Coins(g) : raise[c] = u
    <3>1. TAKE u \in upper
    <3>2. PICK x \in DOMAIN h : \E i \in 1 .. h[x] : u = <<x, i>>
      BY CoinsMember
    <3>3. PICK i \in 1 .. h[x] : u = <<x, i>>
      BY <3>2
    <3>4. i - f[x] \in 1 .. g[x]
      BY <3>3 DEF IsAmounts
    <3>5. <<x, i - f[x]>> \in Coins(g)
      BY <3>4, CoinsMember
    <3> QED
      BY <3>3, <3>5 DEF IsAmounts
  <2> QED
    BY <2>1, <2>2, <2>3 DEF Bijection, Injection, Surjection, IsInjective
<1>4. IsFiniteSet(upper) /\ Cardinality(upper) = Cardinality(Coins(g))
  BY <1>3, TotalType, FS_Bijection DEF ExistsBijection
<1>5. Cardinality(Coins(f) \cup upper)
        = Cardinality(Coins(f)) + Cardinality(upper) - 0
  BY <1>2, <1>4, TotalType, FS_Union, FS_EmptySet
<1> QED
  BY <1>1, <1>4, <1>5, TotalType DEF Total

\* One key only.
LEMMA TotalOne ==
    ASSUME NEW f, NEW x, DOMAIN f = {x}, f[x] \in Nat
    PROVE  Total(f) = f[x]
<1>1. Coins(f) = {x} \X (1 .. f[x])
  BY CoinsMember
<1>2. IsFiniteSet({x}) /\ Cardinality({x}) = 1
  BY FS_Singleton
<1>3. IsFiniteSet(1 .. f[x]) /\ Cardinality(1 .. f[x]) = f[x]
  BY FS_Interval
<1>4. Cardinality({x} \X (1 .. f[x])) = 1 * f[x]
  BY ZenonT(40), <1>2, <1>3, FS_Product
<1> QED
  BY <1>1, <1>4 DEF Total

\* Amounts of zero amount to nothing.
LEMMA TotalZero ==
    ASSUME NEW f, \A x \in DOMAIN f : f[x] = 0
    PROVE  Total(f) = 0
<1>1. Coins(f) = {}
  BY CoinsMember
<1> QED
  BY <1>1, FS_EmptySet DEF Total

\* Adding to one amount adds to the total.
LEMMA TotalAddOne ==
    ASSUME NEW f, IsAmounts(f), NEW x \in DOMAIN f, NEW n \in Nat,
           NEW g, DOMAIN g = DOMAIN f, g[x] = f[x] + n,
           \A y \in DOMAIN f \ {x} : g[y] = f[y]
    PROVE  IsAmounts(g) /\ Total(g) = Total(f) + n
<1> DEFINE h    == [y \in DOMAIN f |-> IF y = x THEN n ELSE 0]
           one  == [y \in {x} |-> n]
           rest == [y \in DOMAIN f \ {x} |-> 0]
<1>1. IsAmounts(g) /\ IsAmounts(h)
  BY DEF IsAmounts
<1>2. IsAmounts(one) /\ IsAmounts(rest)
  BY FS_Singleton, FS_RemoveElement DEF IsAmounts
<1>3. Total(one) = n /\ Total(rest) = 0
  BY TotalOne, TotalZero
<1>4. Total(h) = Total(one) + Total(rest)
  BY <1>1, <1>2, TotalSplit
<1>5. Total(g) = Total(f) + Total(h)
  BY <1>1, TotalPlus DEF IsAmounts
<1> QED
  BY <1>1, <1>3, <1>4, <1>5, TotalType

\* A set of naturals with something in it has a least element: the form in which
\* induction is used below.
LEMMA LeastNumber ==
    ASSUME NEW S \in SUBSET Nat, S # {}
    PROVE  \E n \in S : \A m \in S : n <= m
<1> DEFINE less == OpToRel(<, Nat)
<1>1. \A m, n \in Nat : m < n => <<m, n>> \in less
  BY DEF OpToRel
<1>2. IsWellFoundedOn(less, Nat)
  BY NatLessThanWellFounded
<1> HIDE DEF less
<1>3. \E n \in S : \A m \in S : ~ (<<m, n>> \in less)
  BY <1>2, WFMin
<1>4. PICK n \in S : \A m \in S : ~ (<<m, n>> \in less)
  BY <1>3
<1>5. \A m \in S : ~ (m < n)
  BY <1>1, <1>4, Zenon
<1>6. \A m \in S : n <= m
  BY <1>5
<1> QED
  BY <1>6

\* A bounded set of naturals with something in it has a greatest element.
LEMMA GreatestNumber ==
    ASSUME NEW k \in Nat, NEW S, S \subseteq 0 .. k, S # {}
    PROVE  \E m \in S : \A n \in S : n <= m
<1> DEFINE below == {k - n : n \in S}
<1>1. \A n \in S : n \in Nat /\ k - n \in Nat
  OBVIOUS
<1>2. below \in SUBSET Nat
  <2>1. \A d \in below : d \in Nat
    BY <1>1
  <2> QED
    BY <2>1
<1>3. PICK n \in S : TRUE
  OBVIOUS
<1>4. k - n \in below
  BY <1>3
<1>5. below # {}
  BY <1>4
<1>6. PICK d \in below : \A e \in below : d <= e
  <2> HIDE DEF below
  <2> QED
    BY <1>2, <1>5, LeastNumber
<1>7. PICK m \in S : d = k - m
  BY <1>6
<1>8. \A i \in S : k - m <= k - i
  BY <1>6, <1>7
<1>9. \A i \in S : i <= m
  BY <1>1, <1>8
<1> QED
  BY <1>9

Times(k, f) == [x \in DOMAIN f |-> k * f[x]]

\* Totals scale.
LEMMA TotalScale ==
    ASSUME NEW f, IsAmounts(f), NEW k \in Nat
    PROVE  IsAmounts(Times(k, f)) /\ Total(Times(k, f)) = k * Total(f)
<1> DEFINE Wrong == {n \in Nat : Total(Times(n, f)) # n * Total(f)}
<1>1. ASSUME NEW n \in Nat
      PROVE  IsAmounts(Times(n, f))
  BY DEF IsAmounts, Times
<1>2. SUFFICES ASSUME Wrong # {}
               PROVE  FALSE
  BY <1>1
<1>3. PICK n \in Wrong : \A m \in Wrong : n <= m
  <2>1. Wrong \in SUBSET Nat
    OBVIOUS
  <2> HIDE DEF Wrong
  <2> QED
    BY <1>2, <2>1, LeastNumber
<1>4. CASE n = 0
  <2>1. Total(Times(0, f)) = 0
    BY TotalZero DEF Times, IsAmounts
  <2> QED
    BY <1>4, <2>1, TotalType
<1>5. CASE n # 0
  <2>1. n - 1 \in Nat /\ n - 1 \notin Wrong
    BY <1>3, <1>5
  <2>2. Total(Times(n - 1, f)) = (n - 1) * Total(f)
    BY <2>1
  <2>3. \A x \in DOMAIN f : Times(n, f)[x] = Times(n - 1, f)[x] + f[x]
    <3>1. \A a \in Nat : n * a = (n - 1) * a + a
      BY <2>1
    <3> QED
      BY <3>1 DEF Times, IsAmounts
  <2>4. Total(Times(n, f)) = Total(Times(n - 1, f)) + Total(f)
    <3>1. DOMAIN Times(n, f) = DOMAIN f /\ DOMAIN Times(n - 1, f) = DOMAIN f
      BY DEF Times
    <3> QED
      BY <1>1, <2>1, <2>3, <3>1, TotalPlus
  <2>5. n * Total(f) = (n - 1) * Total(f) + Total(f)
    BY <2>1, TotalType
  <2> QED
    BY <2>2, <2>4, <2>5
<1> QED
  BY <1>4, <1>5

-----------------------------------------------------------------------------
\* A quotient rounded down, as Rust divides unsigned integers.
LEMMA DivBounds ==
    ASSUME NEW n \in Nat, NEW d \in Nat \ {0}
    PROVE  /\ n \div d \in Nat
           /\ d * (n \div d) <= n
           /\ n < d * (n \div d) + d
  BY SMT

\* ceil_division is the least multiple of the divisor that reaches the dividend.
LEMMA CeilDivBounds ==
    ASSUME NEW n \in Nat, NEW d \in Nat \ {0}
    PROVE  /\ CeilDiv(n, d) \in Nat
           /\ n <= d * CeilDiv(n, d)
           /\ d * CeilDiv(n, d) < n + d
  BY SMT DEF CeilDiv

\* The rounded shares never exceed the pool.
LEMMA SharesWithinPool ==
    ASSUME NEW weight, IsAmounts(weight), NEW pool \in Nat,
           Total(weight) # 0
    PROVE  /\ IsAmounts(Shares(weight, pool))
           /\ Total(Shares(weight, pool)) <= pool
<1> DEFINE T      == Total(weight)
           shares == Shares(weight, pool)
<1>1. T \in Nat \ {0}
  BY TotalType
<1>2. ASSUME NEW x \in DOMAIN weight
      PROVE  shares[x] \in Nat /\ T * shares[x] <= pool * weight[x]
  <2>1. pool * weight[x] \in Nat
    BY DEF IsAmounts
  <2>2. shares[x] = (pool * weight[x]) \div T
    BY DEF Shares
  <2> HIDE DEF T, shares
  <2> QED
    BY <1>1, <2>1, <2>2, DivBounds
<1>3. DOMAIN shares = DOMAIN weight
  BY DEF Shares
<1> HIDE DEF T, shares
<1>4. IsAmounts(shares)
  BY <1>2, <1>3 DEF IsAmounts
<1>5. Total(Times(T, shares)) <= Total(Times(pool, weight))
  <2>1. IsAmounts(Times(T, shares)) /\ IsAmounts(Times(pool, weight))
    BY <1>1, <1>4, TotalScale
  <2>2. /\ DOMAIN Times(T, shares) \subseteq DOMAIN Times(pool, weight)
        /\ \A x \in DOMAIN Times(T, shares) :
             Times(T, shares)[x] <= Times(pool, weight)[x]
    BY <1>2, <1>3 DEF Times
  <2> QED
    BY <2>1, <2>2, TotalMonotone
<1>6. T * Total(shares) <= pool * T
  BY <1>1, <1>4, <1>5, TotalScale DEF T
<1>7. Total(shares) \in Nat
  BY <1>4, TotalType
<1>8. Total(shares) <= pool
  BY <1>1, <1>6, <1>7
<1> QED
  BY <1>4, <1>8 DEF shares

\* What is shared is all of the pool, and every share is a natural number,
\* whoever gets the rest.
LEMMA ShareOutType ==
    ASSUME NEW weight, IsAmounts(weight), NEW pool \in Nat,
           Total(weight) # 0, NEW lucky \in DOMAIN weight
    PROVE  /\ IsAmounts(ShareOut(weight, pool, lucky))
           /\ DOMAIN ShareOut(weight, pool, lucky) = DOMAIN weight
           /\ Total(ShareOut(weight, pool, lucky)) = pool
<1> DEFINE shares == Shares(weight, pool)
           rest   == pool - Total(shares)
           out    == ShareOut(weight, pool, lucky)
<1>1. IsAmounts(shares) /\ Total(shares) \in Nat /\ Total(shares) <= pool
  BY SharesWithinPool, TotalType
<1>2. DOMAIN shares = DOMAIN weight
  BY DEF Shares
<1>3. rest \in Nat
  BY <1>1
<1>4. out = [shares EXCEPT ![lucky] = @ + rest]
  BY DEF ShareOut
<1> HIDE DEF shares, out
<1>5. /\ DOMAIN out = DOMAIN shares
      /\ out[lucky] = shares[lucky] + rest
      /\ \A y \in DOMAIN shares \ {lucky} : out[y] = shares[y]
  <2>1. shares[lucky] \in Nat
    BY <1>1, <1>2 DEF IsAmounts
  <2> QED
    BY <1>2, <1>4
<1>6. IsAmounts(out) /\ Total(out) = Total(shares) + rest
  BY <1>1, <1>2, <1>3, <1>5, TotalAddOne
<1> QED
  BY <1>1, <1>2, <1>5, <1>6 DEF out

\* settle_locks and distribute_fees_and_write_cycle give away exactly what they
\* set out to, unless they would divide by zero.
THEOREM PayoutsAreExact ==
    ASSUME NEW weight, IsAmounts(weight), NEW pool \in Nat,
           ~DividesByZero(weight, pool),
           NEW pay \in Payouts(weight, pool)
    PROVE  /\ IsAmounts(pay)
           /\ DOMAIN pay = DOMAIN weight
           /\ Total(pay) = pool
<1>1. CASE DOMAIN weight = {}
  BY <1>1, TotalEmpty DEF Payouts, DividesByZero
<1>2. CASE DOMAIN weight # {}
  <2>1. Total(weight) # 0
    BY <1>2 DEF DividesByZero
  <2>2. PICK lucky \in DOMAIN weight : pay = ShareOut(weight, pool, lucky)
    BY <1>2 DEF Payouts
  <2> QED
    BY <2>1, <2>2, ShareOutType
<1> QED
  BY <1>1, <1>2

-----------------------------------------------------------------------------
(***************************************************************************)
(* Queues.                                                                 *)
(***************************************************************************)
IsQueue(items) ==
    /\ IsFiniteSet(DOMAIN items)
    /\ \A s \in DOMAIN items :
         "amount" \in DOMAIN items[s] /\ items[s].amount \in Nat

\* A queue has a sum.
LEMMA SumType ==
    ASSUME NEW items, IsQueue(items)
    PROVE  /\ IsAmounts(Amounts(items))
           /\ DOMAIN Amounts(items) = DOMAIN items
           /\ Sum(items) \in Nat
<1>1. IsAmounts(Amounts(items))
  BY DEF IsQueue, IsAmounts, Amounts
<1> QED
  BY <1>1, TotalType DEF Sum, Amounts

\* Part of a queue is a queue, and no larger.
LEMMA OnlyType ==
    ASSUME NEW items, IsQueue(items), NEW S
    PROVE  /\ IsQueue(Only(items, S))
           /\ DOMAIN Only(items, S) = S \cap DOMAIN items
           /\ Sum(Only(items, S)) \in Nat
           /\ Sum(Only(items, S)) <= Sum(items)
<1> DEFINE part == Only(items, S)
<1>1. DOMAIN part = S \cap DOMAIN items
  BY DEF Only
<1>2. \A s \in DOMAIN part : part[s] = items[s]
  BY DEF Only
<1>3. IsFiniteSet(DOMAIN part)
  BY <1>1, FS_Intersection DEF IsQueue
<1> HIDE DEF part
<1>4. IsQueue(part)
  BY <1>1, <1>2, <1>3 DEF IsQueue
<1>5. Total(Amounts(part)) <= Total(Amounts(items))
  <2>1. IsAmounts(Amounts(part)) /\ IsAmounts(Amounts(items))
    BY <1>4, SumType
  <2>2. /\ DOMAIN Amounts(part) \subseteq DOMAIN Amounts(items)
        /\ \A s \in DOMAIN Amounts(part) :
             Amounts(part)[s] <= Amounts(items)[s]
    BY <1>1, <1>2 DEF Amounts, IsQueue
  <2> QED
    BY <2>1, <2>2, TotalMonotone
<1> QED
  BY <1>1, <1>4, <1>5, SumType DEF Sum, part

\* A walk takes from each item at most its amount, and nothing from an item it
\* does not reach.
LEMMA TakenType ==
    ASSUME NEW items, IsQueue(items), NEW before, NEW want,
           \A s \in DOMAIN items : want[s] \in Int
    PROVE  /\ DOMAIN Taken(items, before, want) = DOMAIN items
           /\ \A s \in DOMAIN items :
                /\ Taken(items, before, want)[s] \in Nat
                /\ Taken(items, before, want)[s] <= items[s].amount
           /\ IsAmounts(Taken(items, before, want))
<1>1. ASSUME NEW s \in DOMAIN items
      PROVE  /\ Taken(items, before, want)[s] \in Nat
             /\ Taken(items, before, want)[s] <= items[s].amount
  <2>1. Ahead(items, before, s) \in Nat
    BY OnlyType DEF Ahead
  <2>2. want[s] \in Int /\ items[s].amount \in Nat
    BY DEF IsQueue
  <2>3. s \in Reached(items, before, want) =>
          want[s] - Ahead(items, before, s) > 0
    BY <2>1, <2>2 DEF Reached
  <2> QED
    BY <2>1, <2>2, <2>3 DEF Taken, Least
<1>2. DOMAIN Taken(items, before, want) = DOMAIN items
  BY DEF Taken
<1> QED
  BY <1>1, <1>2 DEF IsAmounts, IsQueue

\* What a walk leaves is a queue of the same items with smaller amounts.
LEMMA LeftType ==
    ASSUME NEW items, IsQueue(items), NEW before, NEW want,
           \A s \in DOMAIN items : want[s] \in Int
    PROVE  LET left  == Left(items, before, want)
               taken == Taken(items, before, want)
           IN  /\ IsQueue(left)
               /\ DOMAIN left \subseteq DOMAIN items
               /\ \A s \in DOMAIN left :
                    left[s] = [items[s] EXCEPT !.amount = @ - taken[s]]
               /\ \A s \in DOMAIN items \ DOMAIN left :
                    taken[s] = items[s].amount
<1> DEFINE left  == Left(items, before, want)
           taken == Taken(items, before, want)
<1>1. DOMAIN left = {s \in DOMAIN items :
                       \/ s \notin Reached(items, before, want)
                       \/ taken[s] < items[s].amount}
  BY DEF Left
<1>2. \A s \in DOMAIN left :
        left[s] = [items[s] EXCEPT !.amount = @ - taken[s]]
  BY DEF Left
<1>3. \A s \in DOMAIN items :
        taken[s] \in Nat /\ taken[s] <= items[s].amount
  BY TakenType
<1> HIDE DEF left, taken
<1>4. IsFiniteSet(DOMAIN left)
  BY <1>1, FS_Subset DEF IsQueue
<1>5. \A s \in DOMAIN items :
        "amount" \in DOMAIN items[s] /\ items[s].amount \in Nat
  BY DEF IsQueue
<1>6. ASSUME NEW s \in DOMAIN left
      PROVE  "amount" \in DOMAIN left[s] /\ left[s].amount \in Nat
  <2>1. s \in DOMAIN items
    BY <1>1
  <2>2. left[s].amount = items[s].amount - taken[s]
    BY <1>2, <1>5, <2>1
  <2>3. DOMAIN left[s] = DOMAIN items[s]
    BY <1>2
  <2> QED
    BY <1>3, <1>5, <2>1, <2>2, <2>3
<1>7. \A s \in DOMAIN items \ DOMAIN left : taken[s] = items[s].amount
  BY <1>1, <1>3, <1>5
<1> QED
  BY <1>1, <1>2, <1>4, <1>6, <1>7 DEF IsQueue, left, taken

\* A walk takes no more in all than it wanted at the last item it reached.
LEMMA WalkTakesAtMost ==
    ASSUME NEW items, IsQueue(items), NEW before, NEW want,
           \A s \in DOMAIN items : want[s] \in Int,
           NEW m \in Reached(items, before, want), m \notin before[m],
           \A s \in Reached(items, before, want) \ {m} : s \in before[m]
    PROVE  Total(Taken(items, before, want)) <= want[m]
<1> DEFINE taken == Taken(items, before, want)
           front == DOMAIN items \cap before[m]
           lo    == [s \in front |-> taken[s]]
           hi    == [s \in DOMAIN items \ front |-> taken[s]]
           none  == [s \in DOMAIN items \ front |-> 0]
           ahead == Only(items, before[m])
<1>1. m \in DOMAIN items \ front
  BY DEF Reached
<1>2. /\ DOMAIN taken = DOMAIN items
      /\ IsAmounts(taken)
      /\ \A s \in DOMAIN items :
           taken[s] \in Nat /\ taken[s] <= items[s].amount
  BY TakenType
<1>3. taken[m] <= want[m] - Sum(ahead)
  <2>1. taken[m] = Least(want[m] - Sum(ahead), items[m].amount)
    BY <1>1 DEF Taken, Ahead
  <2>2. Sum(ahead) \in Nat /\ items[m].amount \in Nat /\ want[m] \in Int
    BY <1>1, OnlyType DEF IsQueue
  <2> QED
    BY <2>1, <2>2 DEF Least
<1>4. \A s \in DOMAIN items \ front : s # m => taken[s] = 0
  BY DEF Taken
<1> HIDE DEF taken
<1>5. IsFiniteSet(front) /\ IsFiniteSet(DOMAIN items \ front)
  BY FS_Intersection, FS_Difference DEF IsQueue
<1>6. IsAmounts(lo) /\ IsAmounts(hi) /\ IsAmounts(none)
  BY <1>2, <1>5 DEF IsAmounts
<1>7. Total(taken) = Total(lo) + Total(hi)
  <2>1. DOMAIN taken = DOMAIN lo \cup DOMAIN hi
    BY <1>2
  <2> QED
    BY <1>2, <1>6, <2>1, TotalSplit
<1>8. Total(hi) = taken[m]
  <2>1. Total(none) = 0
    BY TotalZero
  <2>2. hi[m] = none[m] + taken[m]
    BY <1>1, <1>2
  <2>3. \A s \in DOMAIN none \ {m} : hi[s] = none[s]
    BY <1>4
  <2>4. Total(hi) = Total(none) + taken[m]
    BY <1>1, <1>2, <1>6, <2>2, <2>3, TotalAddOne
  <2> QED
    BY <1>1, <1>2, <2>1, <2>4
<1>9. Total(lo) <= Total(Amounts(ahead))
  <2>1. IsAmounts(Amounts(ahead))
    BY OnlyType, SumType
  <2>2. \A s \in front : lo[s] <= Amounts(ahead)[s]
    BY <1>2 DEF Amounts, Only
  <2>3. DOMAIN lo \subseteq DOMAIN Amounts(ahead)
    BY DEF Amounts, Only
  <2> QED
    BY <1>6, <2>1, <2>2, <2>3, TotalMonotone
<1>10. /\ Total(lo) \in Nat /\ Sum(ahead) \in Nat
       /\ taken[m] \in Nat /\ want[m] \in Int
  BY <1>1, <1>2, <1>6, TotalType, OnlyType
<1>11. Total(lo) + taken[m] <= want[m]
  <2> HIDE DEF lo, ahead
  <2> QED
    BY <1>3, <1>9, <1>10 DEF Sum
<1> QED
  BY <1>7, <1>8, <1>11 DEF taken

-----------------------------------------------------------------------------
(***************************************************************************)
(* Totals of parts, and of what one of them gains or loses.                *)
(***************************************************************************)
\* A table that has the amounts of f where f is not zero.
LEMMA SumOf ==
    ASSUME NEW items, NEW f, IsAmounts(f),
           DOMAIN items \subseteq DOMAIN f,
           \A s \in DOMAIN items : items[s].amount = f[s],
           \A s \in DOMAIN f \ DOMAIN items : f[s] = 0
    PROVE  Sum(items) = Total(f)
<1> DEFINE some == Amounts(items)
           none == [s \in DOMAIN f \ DOMAIN items |-> 0]
<1>1. DOMAIN some = DOMAIN items /\ \A s \in DOMAIN items : some[s] = f[s]
  BY DEF Amounts
<1>2. IsFiniteSet(DOMAIN items) /\ IsFiniteSet(DOMAIN f \ DOMAIN items)
  BY FS_Subset, FS_Difference DEF IsAmounts
<1> HIDE DEF some
<1>3. IsAmounts(some) /\ IsAmounts(none)
  BY <1>1, <1>2 DEF IsAmounts
<1>4. Total(none) = 0
  BY TotalZero
<1>5. DOMAIN none = DOMAIN f \ DOMAIN items /\ \A s \in DOMAIN none : f[s] = none[s]
  OBVIOUS
<1>6. Total(f) = Total(some) + Total(none)
  <2> HIDE DEF none
  <2>1. DOMAIN f = DOMAIN some \cup DOMAIN none /\ DOMAIN some \cap DOMAIN none = {}
    BY <1>1, <1>5
  <2>2. \A s \in DOMAIN some : f[s] = some[s]
    BY <1>1
  <2> QED
    BY <1>3, <1>5, <2>1, <2>2, TotalSplit
<1>7. Total(some) \in Nat
  BY <1>3, TotalType
<1> QED
  BY <1>4, <1>6, <1>7 DEF Sum, some

\* What is in one part of a table and in the other.
LEMMA SumSplit ==
    ASSUME NEW items, IsQueue(items), NEW S
    PROVE  Sum(items) = Sum(Only(items, S)) + Sum(Only(items, DOMAIN items \ S))
<1> DEFINE in  == Only(items, S)
           out == Only(items, DOMAIN items \ S)
<1>1. /\ DOMAIN in = S \cap DOMAIN items
      /\ DOMAIN out = DOMAIN items \ S
      /\ \A s \in DOMAIN in : in[s] = items[s]
      /\ \A s \in DOMAIN out : out[s] = items[s]
  BY DEF Only
<1>2. IsQueue(in) /\ IsQueue(out)
  BY OnlyType
<1> HIDE DEF in, out
<1>3. /\ IsAmounts(Amounts(items)) /\ DOMAIN Amounts(items) = DOMAIN items
      /\ IsAmounts(Amounts(in)) /\ DOMAIN Amounts(in) = DOMAIN in
      /\ IsAmounts(Amounts(out)) /\ DOMAIN Amounts(out) = DOMAIN out
  BY <1>2, SumType
<1>4. /\ \A s \in DOMAIN in : Amounts(items)[s] = Amounts(in)[s]
      /\ \A s \in DOMAIN out : Amounts(items)[s] = Amounts(out)[s]
  BY <1>1 DEF Amounts
<1>5. /\ DOMAIN items = DOMAIN in \cup DOMAIN out
      /\ DOMAIN in \cap DOMAIN out = {}
  BY <1>1
<1> QED
  BY <1>3, <1>4, <1>5, TotalSplit DEF Sum, in, out

\* Taking from one amount takes from the total.
LEMMA TotalTakeOne ==
    ASSUME NEW f, IsAmounts(f), NEW x \in DOMAIN f, NEW n \in Nat, n <= f[x],
           NEW g, DOMAIN g = DOMAIN f, g[x] = f[x] - n,
           \A y \in DOMAIN f \ {x} : g[y] = f[y]
    PROVE  IsAmounts(g) /\ Total(g) = Total(f) - n
<1>1. f[x] \in Nat /\ IsAmounts(g)
  BY DEF IsAmounts
<1>2. /\ f[x] = g[x] + n /\ x \in DOMAIN g /\ DOMAIN f = DOMAIN g
      /\ \A y \in DOMAIN g \ {x} : f[y] = g[y]
  BY <1>1
<1>3. Total(f) = Total(g) + n
  BY <1>1, <1>2, TotalAddOne
<1> QED
  BY <1>1, <1>3, TotalType

\* Two sets of amounts for the same keys, added up.
LEMMA TotalPointwise ==
    ASSUME NEW D, NEW f, IsAmounts(f), DOMAIN f = D,
           NEW g, IsAmounts(g), DOMAIN g = D
    PROVE  LET h == [x \in D |-> f[x] + g[x]]
           IN  IsAmounts(h) /\ DOMAIN h = D /\ Total(h) = Total(f) + Total(g)
<1> DEFINE h == [x \in D |-> f[x] + g[x]]
<1>1. IsAmounts(h) /\ DOMAIN h = D /\ \A x \in D : h[x] = f[x] + g[x]
  BY DEF IsAmounts
<1> HIDE DEF h
<1> QED
  BY <1>1, TotalPlus DEF h

\* Keys whose amounts are put together: every key of f belongs to one group, and
\* g has for each group the total of what its members have.
LEMMA TotalByGroup ==
    ASSUME NEW f, IsAmounts(f), NEW G, IsFiniteSet(G),
           NEW group, \A x \in DOMAIN f : group[x] \in G,
           NEW g, DOMAIN g = G,
           \A a \in G : g[a] = Total(Only(f, {x \in DOMAIN f : group[x] = a}))
    PROVE  IsAmounts(g) /\ Total(g) = Total(f)
<1> DEFINE part(a)  == Only(f, {x \in DOMAIN f : group[x] = a})
           count(a) == CHOOSE h : h \in Bijection(1 .. g[a], Coins(part(a)))
           coin     == [c \in Coins(g) |-> count(c[1])[c[2]]]
<1>1. ASSUME NEW a \in G
      PROVE  IsAmounts(part(a))
  <2>1. DOMAIN part(a) = {x \in DOMAIN f : group[x] = a}
    BY DEF Only
  <2>2. IsFiniteSet(DOMAIN part(a))
    BY <2>1, FS_Subset DEF IsAmounts
  <2>3. \A x \in DOMAIN part(a) : part(a)[x] = f[x] /\ x \in DOMAIN f
    BY DEF Only
  <2> QED
    BY <2>2, <2>3 DEF IsAmounts
<1>2. ASSUME NEW a \in G
      PROVE  /\ g[a] \in Nat
             /\ count(a) \in Bijection(1 .. g[a], Coins(part(a)))
  <2>1. g[a] = Cardinality(Coins(part(a)))
    BY DEF Total
  <2>2. g[a] \in Nat /\ \E h : h \in Bijection(1 .. g[a], Coins(part(a)))
    BY <1>1, <2>1, TotalType, FS_CardinalityType DEF ExistsBijection
  <2> QED
    BY <2>2
<1>3. IsAmounts(g)
  BY <1>2 DEF IsAmounts
<1>4. ASSUME NEW c
      PROVE  c \in Coins(f) <=> \E a \in G : c \in Coins(part(a))
  <2>1. ASSUME NEW a \in G, c \in Coins(part(a))
        PROVE  c \in Coins(f)
    BY <2>1, CoinsMember DEF Only
  <2>2. ASSUME c \in Coins(f)
        PROVE  \E a \in G : c \in Coins(part(a))
    <3>1. PICK x \in DOMAIN f : \E i \in 1 .. f[x] : c = <<x, i>>
      BY <2>2, CoinsMember
    <3>2. x \in DOMAIN part(group[x]) /\ part(group[x])[x] = f[x]
      BY DEF Only
    <3>3. c \in Coins(part(group[x]))
      BY <3>1, <3>2, CoinsMember
    <3> QED
      BY <3>3
  <2> QED
    BY <2>1, <2>2
<1>5. ASSUME NEW a \in G, NEW c \in Coins(part(a))
      PROVE  group[c[1]] = a
  BY <1>5, CoinsMember DEF Only
<1> HIDE DEF part, count
<1>6. coin \in Bijection(Coins(g), Coins(f))
  <2>1. ASSUME NEW c \in Coins(g)
        PROVE  /\ c[1] \in G /\ c[2] \in 1 .. g[c[1]] /\ c = <<c[1], c[2]>>
               /\ coin[c] = count(c[1])[c[2]]
               /\ coin[c] \in Coins(part(c[1]))
               /\ coin[c] \in Coins(f)
    <3>1. c[1] \in G /\ c[2] \in 1 .. g[c[1]] /\ c = <<c[1], c[2]>>
      BY CoinsMember
    <3>2. coin[c] \in Coins(part(c[1]))
      BY <1>2, <3>1 DEF Bijection, Injection
    <3> QED
      BY <1>4, <3>1, <3>2
  <2>2. ASSUME NEW c \in Coins(g), NEW d \in Coins(g), coin[c] = coin[d]
        PROVE  c = d
    <3>1. c[1] = d[1]
      BY <1>5, <2>1, <2>2
    <3>2. c[2] = d[2]
      BY <1>2, <2>1, <2>2, <3>1 DEF Bijection, Injection, IsInjective
    <3> QED
      BY <2>1, <3>1, <3>2
  <2>3. ASSUME NEW e \in Coins(f)
        PROVE  \E c \in Coins(g) : coin[c] = e
    <3>1. PICK a \in G : e \in Coins(part(a))
      BY <1>4
    <3>2. PICK i \in 1 .. g[a] : count(a)[i] = e
      BY <1>2, <3>1 DEF Bijection, Surjection
    <3>3. <<a, i>> \in Coins(g)
      BY <3>2, CoinsMember
    <3> QED
      BY <3>2, <3>3
  <2>4. coin \in [Coins(g) -> Coins(f)]
    BY <2>1
  <2> HIDE DEF coin
  <2> QED
    BY <2>2, <2>3, <2>4 DEF Bijection, Injection, Surjection, IsInjective
<1>7. Cardinality(Coins(f)) = Cardinality(Coins(g))
  BY <1>3, <1>6, TotalType, FS_Bijection DEF ExistsBijection
<1> QED
  BY <1>3, <1>7 DEF Total

\* A walk splits a queue into what it takes and what it leaves.
LEMMA LeftSplits ==
    ASSUME NEW items, IsQueue(items), NEW before, NEW want,
           \A s \in DOMAIN items : want[s] \in Int
    PROVE  Sum(items) = Total(Taken(items, before, want))
                          + Sum(Left(items, before, want))
<1> DEFINE left  == Left(items, before, want)
           taken == Taken(items, before, want)
           rest  == [s \in DOMAIN items |->
                       IF s \in DOMAIN left THEN left[s].amount ELSE 0]
           some  == Amounts(left)
           none  == [s \in DOMAIN items \ DOMAIN left |-> 0]
<1>1. /\ IsQueue(left) /\ DOMAIN left \subseteq DOMAIN items
      /\ \A s \in DOMAIN left :
           left[s] = [items[s] EXCEPT !.amount = @ - taken[s]]
      /\ \A s \in DOMAIN items \ DOMAIN left : taken[s] = items[s].amount
  BY LeftType
<1>2. /\ IsAmounts(taken) /\ DOMAIN taken = DOMAIN items
      /\ \A s \in DOMAIN items :
           taken[s] \in Nat /\ taken[s] <= items[s].amount
  BY TakenType
<1> HIDE DEF left, taken
<1>3. \A s \in DOMAIN items :
        "amount" \in DOMAIN items[s] /\ items[s].amount \in Nat
  BY DEF IsQueue
<1>4. IsAmounts(some) /\ DOMAIN some = DOMAIN left
  BY <1>1, SumType
<1>5. /\ IsAmounts(none) /\ IsAmounts(rest)
  <2>1. IsFiniteSet(DOMAIN items \ DOMAIN left)
    BY FS_Difference DEF IsQueue
  <2>2. \A s \in DOMAIN left : left[s].amount \in Nat
    BY <1>1 DEF IsQueue
  <2> QED
    BY <2>1, <2>2 DEF IsAmounts, IsQueue
<1>6. Total(rest) = Total(some) + Total(none)
  <2>1. DOMAIN rest = DOMAIN some \cup DOMAIN none
    BY <1>1, <1>4
  <2>2. \A s \in DOMAIN some : rest[s] = some[s]
    BY <1>1, <1>4 DEF Amounts
  <2>3. \A s \in DOMAIN none : rest[s] = none[s]
    OBVIOUS
  <2>4. DOMAIN some \cap DOMAIN none = {}
    BY <1>4
  <2> HIDE DEF rest, some, none
  <2> QED
    BY <1>4, <1>5, <2>1, <2>2, <2>3, <2>4, TotalSplit
<1>7. Total(none) = 0
  BY TotalZero
<1>8. \A s \in DOMAIN items : items[s].amount = taken[s] + rest[s]
  <2>1. ASSUME NEW s \in DOMAIN left
        PROVE  left[s].amount = items[s].amount - taken[s]
    BY <1>1, <1>3
  <2> QED
    BY <1>1, <1>2, <1>3, <2>1
<1>9. Total(Amounts(items)) = Total(taken) + Total(rest)
  <2>1. /\ IsAmounts(Amounts(items)) /\ DOMAIN Amounts(items) = DOMAIN items
        /\ \A s \in DOMAIN items : Amounts(items)[s] = items[s].amount
    BY SumType DEF Amounts
  <2> HIDE DEF rest
  <2>2. DOMAIN rest = DOMAIN items
    BY DEF rest
  <2> QED
    BY <1>2, <1>5, <1>8, <2>1, <2>2, TotalPlus
<1>10. Total(some) \in Nat
  BY <1>4, TotalType
<1> QED
  BY <1>6, <1>7, <1>9, <1>10 DEF Sum, left, taken

-----------------------------------------------------------------------------
(***************************************************************************)
(* Walks in an order.                                                      *)
(***************************************************************************)
\* before[s] is what comes before s in a strict total order on S.
IsOrder(S, before) ==
    /\ \A s \in S : s \notin before[s]
    /\ \A s, t \in S : s = t \/ s \in before[t] \/ t \in before[s]
    /\ \A r, s, t \in S : r \in before[s] /\ s \in before[t] => r \in before[t]

\* What comes earlier has fewer before it.
LEMMA OrderRank ==
    ASSUME NEW S, IsFiniteSet(S), NEW before, IsOrder(S, before)
    PROVE  /\ \A s \in S : /\ Cardinality(S \cap before[s]) \in Nat
                           /\ Cardinality(S \cap before[s]) <= Cardinality(S)
           /\ \A s, t \in S : s \in before[t] =>
                Cardinality(S \cap before[s]) < Cardinality(S \cap before[t])
<1>1. ASSUME NEW s \in S
      PROVE  /\ IsFiniteSet(S \cap before[s])
             /\ Cardinality(S \cap before[s]) \in Nat
             /\ Cardinality(S \cap before[s]) <= Cardinality(S)
  BY FS_Intersection, FS_CardinalityType
<1>2. ASSUME NEW s \in S, NEW t \in S, s \in before[t]
      PROVE  Cardinality(S \cap before[s]) < Cardinality(S \cap before[t])
  <2>1. S \cap before[s] \subseteq S \cap before[t]
    BY <1>2 DEF IsOrder
  <2>2. S \cap before[s] # S \cap before[t]
    BY <1>2 DEF IsOrder
  <2>3. /\ Cardinality(S \cap before[s]) <= Cardinality(S \cap before[t])
        /\ Cardinality(S \cap before[s]) # Cardinality(S \cap before[t])
    BY <1>1, <2>1, <2>2, FS_Subset
  <2>4. /\ Cardinality(S \cap before[s]) \in Nat
        /\ Cardinality(S \cap before[t]) \in Nat
    BY <1>1
  <2> QED
    BY <2>3, <2>4
<1> QED
  BY <1>1, <1>2

\* Among some items of an order one comes first.
LEMMA OrderFirst ==
    ASSUME NEW S, IsFiniteSet(S), NEW before, IsOrder(S, before),
           NEW T, T \subseteq S, T # {}
    PROVE  \E m \in T : \A s \in T \ {m} : m \in before[s]
<1> DEFINE rank(s) == Cardinality(S \cap before[s])
           ranks   == {rank(s) : s \in T}
<1>1. /\ \A s \in S : rank(s) \in Nat
      /\ \A s, t \in S : s \in before[t] => rank(s) < rank(t)
  BY OrderRank
<1> HIDE DEF rank
<1>2. ranks \in SUBSET Nat /\ ranks # {}
  BY <1>1
<1>3. PICK n \in ranks : \A k \in ranks : n <= k
  BY <1>2, LeastNumber
<1>4. PICK m \in T : rank(m) = n
  BY <1>3
<1>5. ASSUME NEW s \in T \ {m}
      PROVE  m \in before[s]
  <2>1. rank(m) <= rank(s)
    BY <1>3, <1>4
  <2>2. s \notin before[m]
    BY <1>1, <2>1
  <2> QED
    BY <2>2 DEF IsOrder
<1> QED
  BY <1>5

\* And one comes last.
LEMMA OrderLast ==
    ASSUME NEW S, IsFiniteSet(S), NEW before, IsOrder(S, before),
           NEW T, T \subseteq S, T # {}
    PROVE  \E m \in T : \A s \in T \ {m} : s \in before[m]
<1> DEFINE rank(s) == Cardinality(S \cap before[s])
           ranks   == {rank(s) : s \in T}
<1>1. /\ Cardinality(S) \in Nat
      /\ \A s \in S : rank(s) \in 0 .. Cardinality(S)
      /\ \A s, t \in S : s \in before[t] => rank(s) < rank(t)
  BY OrderRank, FS_CardinalityType
<1> HIDE DEF rank
<1>2. ranks \subseteq 0 .. Cardinality(S) /\ ranks # {}
  BY <1>1
<1>3. PICK n \in ranks : \A k \in ranks : k <= n
  <2> HIDE DEF ranks
  <2> QED
    BY <1>1, <1>2, GreatestNumber
<1>4. PICK m \in T : rank(m) = n
  BY <1>3
<1>5. ASSUME NEW s \in T \ {m}
      PROVE  s \in before[m]
  <2>1. rank(s) <= rank(m)
    BY <1>3, <1>4
  <2>2. m \notin before[s]
    BY <1>1, <2>1
  <2> QED
    BY <2>2 DEF IsOrder
<1> QED
  BY <1>5

\* A walk that emptied everything before an item has taken all that, and what
\* it took from the item.
LEMMA WalkTakesAhead ==
    ASSUME NEW items, IsQueue(items), NEW before, NEW want,
           \A s \in DOMAIN items : want[s] \in Int,
           NEW m \in DOMAIN items, m \notin before[m],
           \A s \in DOMAIN items \cap before[m] :
             Taken(items, before, want)[s] = items[s].amount
    PROVE  Ahead(items, before, m) + Taken(items, before, want)[m]
             <= Total(Taken(items, before, want))
<1> DEFINE taken == Taken(items, before, want)
           ahead == Only(items, before[m])
           front == DOMAIN items \cap before[m]
           one   == [s \in {m} |-> taken[m]]
           both  == [s \in front \cup {m} |-> taken[s]]
<1>1. /\ IsAmounts(taken) /\ DOMAIN taken = DOMAIN items
      /\ taken[m] \in Nat /\ \A s \in DOMAIN items : taken[s] \in Nat
  BY TakenType
<1>2. /\ IsAmounts(Amounts(ahead)) /\ DOMAIN Amounts(ahead) = front
      /\ \A s \in front : Amounts(ahead)[s] = items[s].amount
  <2>1. IsQueue(ahead) /\ DOMAIN ahead = front
    BY OnlyType
  <2> QED
    BY <2>1, SumType DEF Amounts, Only
<1>3. \A s \in front : taken[s] = items[s].amount
  OBVIOUS
<1> HIDE DEF taken, ahead
<1>4. IsFiniteSet(front \cup {m}) /\ m \notin front
  <2>1. IsFiniteSet(front)
    BY FS_Intersection DEF IsQueue
  <2> QED
    BY <2>1, FS_AddElement
<1>5. /\ IsAmounts(both) /\ IsAmounts(one) /\ Total(one) = taken[m]
  <2>1. IsFiniteSet({m})
    BY FS_Singleton
  <2> QED
    BY <1>1, <1>4, <2>1, TotalOne DEF IsAmounts
<1>6. Total(both) = Total(Amounts(ahead)) + Total(one)
  <2>1. \A s \in front : both[s] = Amounts(ahead)[s]
    BY <1>2, <1>3
  <2>2. \A s \in {m} : both[s] = one[s]
    OBVIOUS
  <2>3. DOMAIN both = front \cup {m} /\ DOMAIN one = {m}
    OBVIOUS
  <2> HIDE DEF both, one, front
  <2> QED
    BY <1>2, <1>4, <1>5, <2>1, <2>2, <2>3, TotalSplit
<1>7. Total(both) <= Total(taken)
  <2>1. DOMAIN both \subseteq DOMAIN taken /\ \A s \in DOMAIN both : both[s] <= taken[s]
    BY <1>1
  <2> QED
    BY <1>1, <1>5, <2>1, TotalMonotone
<1>8. Ahead(items, before, m) = Total(Amounts(ahead))
  BY DEF Ahead, Sum, ahead
<1> QED
  BY <1>5, <1>6, <1>7, <1>8 DEF taken

\* A walk that left something of an item has taken what it wanted there, if it
\* did not want less before.
LEMMA WalkTakesEnough ==
    ASSUME NEW items, IsQueue(items),
           NEW before, IsOrder(DOMAIN items, before),
           NEW want, \A s \in DOMAIN items : want[s] \in Int,
           NEW p \in DOMAIN Left(items, before, want),
           \A q \in DOMAIN items : q \in before[p] => want[p] <= want[q]
    PROVE  want[p] <= Total(Taken(items, before, want))
<1> DEFINE taken == Taken(items, before, want)
           left  == Left(items, before, want)
           T     == {q \in DOMAIN left : q = p \/ q \in before[p]}
<1>1. /\ DOMAIN left \subseteq DOMAIN items
      /\ \A s \in DOMAIN items \ DOMAIN left : taken[s] = items[s].amount
  BY LeftType
<1>2. \A s \in DOMAIN left : \/ s \notin Reached(items, before, want)
                             \/ taken[s] < items[s].amount
  BY DEF Left
<1>3. /\ IsAmounts(taken)
      /\ \A s \in DOMAIN items : taken[s] \in Nat
  BY TakenType
<1>4. T \subseteq DOMAIN items /\ T # {}
  BY <1>1
<1>5. PICK m \in T : \A s \in T \ {m} : m \in before[s]
  <2> HIDE DEF T
  <2> QED
    BY <1>4, OrderFirst DEF IsQueue
<1>6. m \in DOMAIN items /\ p \in DOMAIN items
  BY <1>1
<1>7. \A s \in DOMAIN items \cap before[m] : taken[s] = items[s].amount
  <2> SUFFICES ASSUME NEW s \in DOMAIN items \cap before[m], s \in DOMAIN left
               PROVE  FALSE
    BY <1>1
  <2>1. s \in before[p]
    BY <1>6 DEF IsOrder
  <2>2. s \in T /\ s # m
    BY <1>6, <2>1 DEF IsOrder
  <2> QED
    BY <1>5, <1>6, <2>2 DEF IsOrder
<1>8. Ahead(items, before, m) + taken[m] <= Total(taken)
  BY <1>6, <1>7, WalkTakesAhead DEF IsOrder
<1>9. want[m] <= Ahead(items, before, m) + taken[m]
  <2>1. /\ Ahead(items, before, m) \in Nat /\ taken[m] \in Nat
        /\ want[m] \in Int /\ items[m].amount \in Nat
    BY <1>3, <1>6, OnlyType DEF Ahead, IsQueue
  <2>2. CASE m \notin Reached(items, before, want)
    <3>1. ~ (Ahead(items, before, m) < want[m])
      BY <1>6, <2>2 DEF Reached
    <3> QED
      BY <2>1, <3>1
  <2>3. CASE m \in Reached(items, before, want) /\ taken[m] < items[m].amount
    <3>1. taken[m] = Least(want[m] - Ahead(items, before, m), items[m].amount)
      BY <1>6, <2>3 DEF Taken
    <3> HIDE DEF taken
    <3> QED
      BY <2>1, <2>3, <3>1 DEF Least
  <2> QED
    BY <1>2, <2>2, <2>3
<1>10. want[p] <= want[m]
  BY <1>6
<1>11. /\ Total(taken) \in Nat /\ Ahead(items, before, m) \in Nat
       /\ taken[m] \in Nat /\ want[m] \in Int /\ want[p] \in Int
  BY <1>3, <1>6, TotalType, OnlyType DEF Ahead
<1> HIDE DEF taken
<1> QED
  BY <1>8, <1>9, <1>10, <1>11 DEF taken

\* A walk that wants the same all the way takes it, or everything there is.
LEMMA WalkTakesExactly ==
    ASSUME NEW items, IsQueue(items),
           NEW before, IsOrder(DOMAIN items, before),
           NEW w \in Nat, NEW want, \A s \in DOMAIN items : want[s] = w
    PROVE  Total(Taken(items, before, want)) = Least(w, Sum(items))
<1> DEFINE taken   == Taken(items, before, want)
           left    == Left(items, before, want)
           reached == Reached(items, before, want)
<1>1. \A s \in DOMAIN items : want[s] \in Int
  OBVIOUS
<1>2. IsAmounts(taken) /\ Total(taken) \in Nat
  BY <1>1, TakenType, TotalType
<1>3. IsQueue(left) /\ Sum(left) \in Nat /\ DOMAIN left \subseteq DOMAIN items
  BY <1>1, LeftType, SumType
<1>4. Sum(items) = Total(taken) + Sum(left)
  BY <1>1, LeftSplits
<1>5. Total(taken) <= w
  <2>1. CASE reached = {}
    <3>1. \A s \in DOMAIN taken : taken[s] = 0
      BY <2>1 DEF Taken
    <3> HIDE DEF taken
    <3> QED
      BY <3>1, TotalZero
  <2>2. CASE reached # {}
    <3>1. reached \subseteq DOMAIN items
      BY DEF Reached
    <3>2. PICK m \in reached : \A s \in reached \ {m} : s \in before[m]
      <4> HIDE DEF reached
      <4> QED
        BY <2>2, <3>1, OrderLast DEF IsQueue
    <3>3. m \notin before[m] /\ want[m] = w
      BY <3>1 DEF IsOrder
    <3> QED
      BY <1>1, <3>2, <3>3, WalkTakesAtMost
  <2> QED
    BY <2>1, <2>2
<1>6. \/ w <= Total(taken)
      \/ Sum(left) = 0
  <2>1. CASE DOMAIN left = {}
    <3>1. DOMAIN Amounts(left) = {}
      BY <2>1 DEF Amounts
    <3> QED
      BY <3>1, TotalEmpty DEF Sum
  <2>2. CASE DOMAIN left # {}
    <3>1. PICK p \in DOMAIN left : TRUE
      BY <2>2
    <3>2. \A q \in DOMAIN items : want[p] <= want[q]
      BY <1>3
    <3>3. want[p] <= Total(taken) /\ want[p] = w
      BY <1>1, <1>3, <3>2, WalkTakesEnough
    <3> QED
      BY <3>3
  <2> QED
    BY <2>1, <2>2
<1> HIDE DEF taken, left
<1> QED
  BY <1>2, <1>3, <1>4, <1>5, <1>6 DEF Least, taken

-----------------------------------------------------------------------------
(***************************************************************************)
(* What the auction of a turnover guarantees for every queue of seeks and  *)
(* provides, every fee rate and every collateral ratio.                    *)
(***************************************************************************)
\* What the auction needs to know of a queue of provides.
IsProvides(provides) ==
    /\ IsQueue(provides)
    /\ \A p \in DOMAIN provides :
         /\ "minFeeRate" \in DOMAIN provides[p]
         /\ provides[p].minFeeRate \in 0 .. B

\* The collateral that seeks need is a natural number, and none is needed when
\* the fee takes all of them.
LEMMA CollateralNeededType ==
    ASSUME NEW n \in Nat, NEW rate \in 0 .. B
    PROVE  /\ CollateralNeeded(n, rate) \in Nat
           /\ rate = B => CollateralNeeded(n, rate) = 0
<1> USE MatchingAssumption
<1>1. B - rate \in Nat /\ n * (B - rate) \in Nat
  OBVIOUS
<1>2. n * (B - rate) * CollProvider \in Nat
  BY <1>1
<1>3. B * CollSeeker \in Nat \ {0}
  OBVIOUS
<1>4. CollateralNeeded(n, rate) \in Nat
  BY <1>2, <1>3, CeilDivBounds DEF CollateralNeeded
<1>5. ASSUME rate = B
      PROVE  CollateralNeeded(n, rate) = 0
  <2>1. n * (B - rate) * CollProvider = 0
    BY <1>5
  <2>2. CeilDiv(0, B * CollSeeker) = 0
    BY <1>3 DEF CeilDiv
  <2> QED
    BY <2>1, <2>2 DEF CollateralNeeded
<1> QED
  BY <1>4, <1>5

\* What the auction wants when it stands at a provide.
LEMMA WantedType ==
    ASSUME NEW seeks, IsQueue(seeks), NEW provides, IsProvides(provides)
    PROVE  /\ DOMAIN Wanted(seeks, provides) = DOMAIN provides
           /\ \A p \in DOMAIN provides :
                /\ Wanted(seeks, provides)[p] \in Nat
                /\ provides[p].minFeeRate = B =>
                     Wanted(seeks, provides)[p] = 0
<1>1. ASSUME NEW p \in DOMAIN provides
      PROVE  /\ CollateralNeeded(Sum(seeks), provides[p].minFeeRate) \in Nat
             /\ provides[p].minFeeRate = B =>
                  CollateralNeeded(Sum(seeks), provides[p].minFeeRate) = 0
  <2>1. Sum(seeks) \in Nat /\ provides[p].minFeeRate \in 0 .. B
    BY SumType DEF IsProvides
  <2> QED
    BY <2>1, CollateralNeededType
<1> QED
  BY <1>1 DEF Wanted

\* A locked provide is a staged one with at most its amount, and asks for less
\* than the whole of a seek.
LEMMA LockedProvidesType ==
    ASSUME NEW seeks, IsQueue(seeks), NEW provides, IsProvides(provides)
    PROVE  LET locked == LockedProvides(seeks, provides)
           IN  /\ IsQueue(locked)
               /\ DOMAIN locked \subseteq DOMAIN provides
               /\ \A p \in DOMAIN locked :
                    /\ \E n \in Nat :
                         /\ n <= provides[p].amount
                         /\ locked[p] = [provides[p] EXCEPT !.amount = n]
                    /\ locked[p].minFeeRate = provides[p].minFeeRate
                    /\ locked[p].minFeeRate \in 0 .. B - 1
<1> DEFINE wanted  == Wanted(seeks, provides)
           before  == Cheaper(provides)
           taken   == Taken(provides, before, wanted)
           reached == Reached(provides, before, wanted)
           locked  == LockedProvides(seeks, provides)
<1>1. \A p \in DOMAIN provides :
        /\ wanted[p] \in Nat
        /\ provides[p].minFeeRate = B => wanted[p] = 0
  BY WantedType
<1>2. \A p \in DOMAIN provides :
        taken[p] \in Nat /\ taken[p] <= provides[p].amount
  BY <1>1, TakenType DEF IsProvides
<1>3. reached \subseteq DOMAIN provides
  BY DEF Reached
<1>4. /\ DOMAIN locked = reached
      /\ \A p \in reached : locked[p] = [provides[p] EXCEPT !.amount = taken[p]]
  BY DEF LockedProvides
<1>5. ASSUME NEW p \in reached
      PROVE  provides[p].minFeeRate \in 0 .. B - 1
  <2>1. Ahead(provides, before, p) < wanted[p]
    BY <1>5 DEF Reached
  <2>2. Ahead(provides, before, p) \in Nat
    BY OnlyType DEF Ahead, IsProvides
  <2>3. provides[p].minFeeRate \in 0 .. B /\ provides[p].minFeeRate # B
    BY <1>1, <1>3, <2>1, <2>2 DEF IsProvides
  <2> QED
    BY <2>3, MatchingAssumption
<1> HIDE DEF wanted, before, taken, reached, locked
<1>6. IsFiniteSet(DOMAIN locked)
  BY <1>3, <1>4, FS_Subset DEF IsProvides, IsQueue
<1>7. ASSUME NEW p \in reached
      PROVE  /\ DOMAIN locked[p] = DOMAIN provides[p]
             /\ "amount" \in DOMAIN provides[p]
             /\ locked[p].amount = taken[p]
             /\ locked[p].minFeeRate = provides[p].minFeeRate
  <2>1. "amount" \in DOMAIN provides[p]
    BY <1>3 DEF IsProvides, IsQueue
  <2>2. locked[p] = [provides[p] EXCEPT !.amount = taken[p]]
    BY <1>4
  <2>3. "minFeeRate" \in DOMAIN provides[p]
    BY <1>3 DEF IsProvides
  <2> QED
    BY <2>1, <2>2, <2>3
<1>8. IsQueue(locked)
  BY <1>2, <1>3, <1>4, <1>6, <1>7 DEF IsQueue
<1>9. \A p \in reached : \E n \in Nat :
        /\ n <= provides[p].amount
        /\ locked[p] = [provides[p] EXCEPT !.amount = n]
  BY <1>2, <1>3, <1>4
<1> QED
  BY <1>3, <1>4, <1>5, <1>7, <1>8, <1>9 DEF locked

\* The fee rate of a cycle is one that some locked provide asks for, or zero,
\* and none asks for more.
LEMMA EffectiveFeeRateType ==
    ASSUME NEW locked, NEW M \in Nat,
           \A p \in DOMAIN locked : locked[p].minFeeRate \in 0 .. M
    PROVE  /\ EffectiveFeeRate(locked) \in 0 .. M
           /\ \/ EffectiveFeeRate(locked) = 0
              \/ \E p \in DOMAIN locked :
                   EffectiveFeeRate(locked) = locked[p].minFeeRate
<1> DEFINE rates == {locked[p].minFeeRate : p \in DOMAIN locked} \cup {0}
           below == {M - r : r \in rates}
<1>1. rates \subseteq 0 .. M /\ 0 \in rates
  OBVIOUS
<1>2. below \in SUBSET Nat /\ below # {}
  BY <1>1
<1>3. PICK n \in below : \A m \in below : n <= m
  <2> HIDE DEF below
  <2> QED
    BY <1>2, LeastNumber
<1>4. PICK r \in rates : n = M - r
  BY <1>3
<1>5. \A q \in rates : r >= q
  <2>1. \A q \in rates : n <= M - q
    BY <1>3
  <2> HIDE DEF rates
  <2> QED
    BY <1>1, <1>4, <2>1
<1>6. Max(rates) \in rates
  <2> HIDE DEF rates
  <2> QED
    BY <1>4, <1>5 DEF Max
<1>7. EffectiveFeeRate(locked) = Max(rates)
  BY DEF EffectiveFeeRate
<1> HIDE DEF below
<1> QED
  BY <1>1, <1>6, <1>7

\* The seeks that collateral covers: rounded down, so that it does cover them.
LEMMA SeeksCoveredType ==
    ASSUME NEW n \in Nat, NEW rate \in 0 .. B - 1
    PROVE  /\ SeeksCovered(n, rate) \in Nat
           /\ SeeksCovered(n, rate) * (B - rate) * CollProvider
                <= n * CollSeeker * B
<1> USE MatchingAssumption
<1>1. B - rate \in Nat \ {0}
  OBVIOUS
<1>2. (B - rate) * CollProvider \in Nat \ {0}
  BY <1>1
<1>3. n * CollSeeker * B \in Nat
  OBVIOUS
<1>4. /\ SeeksCovered(n, rate) \in Nat
      /\ ((B - rate) * CollProvider) * SeeksCovered(n, rate)
           <= n * CollSeeker * B
  BY <1>2, <1>3, DivBounds DEF SeeksCovered
<1>5. SeeksCovered(n, rate) * (B - rate) * CollProvider
        = ((B - rate) * CollProvider) * SeeksCovered(n, rate)
  BY <1>1, <1>4
<1> QED
  BY <1>4, <1>5

\* The fee is rounded up and still no more than what it is taken from.
LEMMA FeeType ==
    ASSUME NEW amount \in Nat, NEW rate \in 0 .. B
    PROVE  /\ Fee(amount, rate) \in Nat
           /\ Fee(amount, rate) <= amount
           /\ amount * rate <= B * Fee(amount, rate)
<1> USE MatchingAssumption
<1>1. amount * rate \in Nat
  OBVIOUS
<1>2. /\ Fee(amount, rate) \in Nat
      /\ amount * rate <= B * Fee(amount, rate)
      /\ B * Fee(amount, rate) < amount * rate + B
  BY <1>1, CeilDivBounds DEF Fee
<1>3. amount * rate <= amount * B
  OBVIOUS
<1>4. B * Fee(amount, rate) < B * (amount + 1)
  BY <1>1, <1>2, <1>3
<1>5. Fee(amount, rate) < amount + 1
  BY <1>2, <1>4
<1> QED
  BY <1>2, <1>5

\* What the locked provides cover is one number for all seeks.
LEMMA CoveredType ==
    ASSUME NEW seeks, NEW locked, IsQueue(locked),
           \A p \in DOMAIN locked : locked[p].minFeeRate \in 0 .. B - 1
    PROVE  LET cover == SeeksCovered(Sum(locked), EffectiveFeeRate(locked))
           IN  /\ EffectiveFeeRate(locked) \in 0 .. B - 1
               /\ cover \in Nat
               /\ DOMAIN Covered(seeks, locked) = DOMAIN seeks
               /\ \A s \in DOMAIN seeks : Covered(seeks, locked)[s] = cover
<1>1. B - 1 \in Nat
  BY MatchingAssumption
<1>2. EffectiveFeeRate(locked) \in 0 .. B - 1
  BY <1>1, EffectiveFeeRateType
<1>3. SeeksCovered(Sum(locked), EffectiveFeeRate(locked)) \in Nat
  BY <1>2, SumType, SeeksCoveredType
<1> QED
  BY <1>2, <1>3 DEF Covered

\* A locked seek is a staged one with at most its amount, and what is left
\* waiting is a queue of the same seeks.
LEMMA GrossLockedSeeksType ==
    ASSUME NEW seeks, IsQueue(seeks), NEW locked, IsQueue(locked),
           \A p \in DOMAIN locked : locked[p].minFeeRate \in 0 .. B - 1
    PROVE  LET gross == GrossLockedSeeks(seeks, locked)
           IN  /\ IsQueue(gross)
               /\ DOMAIN gross \subseteq DOMAIN seeks
               /\ \A s \in DOMAIN gross : \E n \in Nat :
                    /\ n <= seeks[s].amount
                    /\ gross[s] = [seeks[s] EXCEPT !.amount = n]
               /\ \A s \in DOMAIN gross : gross[s].amount =
                    Taken(seeks, Older(seeks), Covered(seeks, locked))[s]
<1> DEFINE covered == Covered(seeks, locked)
           before  == Older(seeks)
           taken   == Taken(seeks, before, covered)
           reached == Reached(seeks, before, covered)
           gross   == GrossLockedSeeks(seeks, locked)
<1>1. \A s \in DOMAIN seeks : covered[s] \in Nat
  BY CoveredType
<1>2. \A s \in DOMAIN seeks : taken[s] \in Nat /\ taken[s] <= seeks[s].amount
  BY <1>1, TakenType
<1>3. reached \subseteq DOMAIN seeks
  BY DEF Reached
<1>4. /\ DOMAIN gross = reached
      /\ \A s \in reached : gross[s] = [seeks[s] EXCEPT !.amount = taken[s]]
  BY DEF GrossLockedSeeks
<1> HIDE DEF covered, before, taken, reached, gross
<1>5. IsFiniteSet(DOMAIN gross)
  BY <1>3, <1>4, FS_Subset DEF IsQueue
<1>6. ASSUME NEW s \in reached
      PROVE  /\ DOMAIN gross[s] = DOMAIN seeks[s]
             /\ "amount" \in DOMAIN seeks[s]
             /\ gross[s].amount = taken[s]
  <2>1. "amount" \in DOMAIN seeks[s]
    BY <1>3 DEF IsQueue
  <2>2. gross[s] = [seeks[s] EXCEPT !.amount = taken[s]]
    BY <1>4
  <2> QED
    BY <2>1, <2>2
<1>7. IsQueue(gross)
  BY <1>2, <1>3, <1>4, <1>5, <1>6 DEF IsQueue
<1>8. \A s \in reached : \E n \in Nat :
        /\ n <= seeks[s].amount
        /\ gross[s] = [seeks[s] EXCEPT !.amount = n]
  BY <1>2, <1>3, <1>4
<1> QED
  BY <1>3, <1>4, <1>6, <1>7, <1>8 DEF gross, taken, before, covered

\* The seeks that are locked are no more than the collateral covers: the while
\* loop stops at the first seek it can lock only in part.
LEMMA GrossWithinCover ==
    ASSUME NEW k \in Nat,
           NEW seeks, IsQueue(seeks), DOMAIN seeks \subseteq 0 .. k,
           NEW locked, IsQueue(locked),
           \A p \in DOMAIN locked : locked[p].minFeeRate \in 0 .. B - 1
    PROVE  Sum(GrossLockedSeeks(seeks, locked))
             <= SeeksCovered(Sum(locked), EffectiveFeeRate(locked))
<1> DEFINE covered == Covered(seeks, locked)
           before  == Older(seeks)
           taken   == Taken(seeks, before, covered)
           reached == Reached(seeks, before, covered)
           gross   == GrossLockedSeeks(seeks, locked)
           cover   == SeeksCovered(Sum(locked), EffectiveFeeRate(locked))
<1>1. cover \in Nat /\ \A s \in DOMAIN seeks : covered[s] = cover
  BY CoveredType
<1>2. reached \subseteq DOMAIN seeks
  BY DEF Reached
<1>3. DOMAIN gross = reached
  BY DEF GrossLockedSeeks
<1>4. /\ IsQueue(gross)
      /\ \A s \in DOMAIN gross : gross[s].amount = taken[s]
  BY GrossLockedSeeksType
<1>5. IsAmounts(taken) /\ DOMAIN taken = DOMAIN seeks
  BY <1>1, TakenType
<1>6. Sum(gross) <= Total(taken)
  <2> HIDE DEF taken, gross, reached
  <2>1. /\ IsAmounts(Amounts(gross))
        /\ DOMAIN Amounts(gross) \subseteq DOMAIN taken
        /\ \A s \in DOMAIN Amounts(gross) : Amounts(gross)[s] <= taken[s]
    <3>1. /\ IsAmounts(Amounts(gross))
          /\ DOMAIN Amounts(gross) = DOMAIN gross
      BY <1>4, SumType
    <3>2. \A s \in DOMAIN gross : Amounts(gross)[s] = taken[s]
      BY <1>4 DEF Amounts
    <3>3. \A s \in DOMAIN seeks : taken[s] \in Nat
      BY <1>5 DEF IsAmounts
    <3> QED
      BY <1>2, <1>3, <1>5, <3>1, <3>2, <3>3
  <2> QED
    BY <1>5, <2>1, TotalMonotone DEF Sum
<1>7. CASE reached = {}
  <2>1. Amounts(gross) = [s \in {} |-> gross[s].amount]
    BY <1>3, <1>7 DEF Amounts
  <2>2. Sum(gross) = 0
    BY <2>1, TotalEmpty DEF Sum
  <2> QED
    BY <1>1, <2>2
<1>8. CASE reached # {}
  <2>1. PICK m \in reached : \A s \in reached : s <= m
    <3>1. reached \subseteq 0 .. k
      BY <1>2
    <3> HIDE DEF reached
    <3> QED
      BY <1>8, <3>1, GreatestNumber
  <2>2. m \in DOMAIN seeks /\ m \in Nat
    BY <1>2, <2>1
  <2>3. before[m] = {t \in DOMAIN seeks : t < m}
    BY <2>2 DEF Older
  <2>4. m \notin before[m]
    BY <2>2, <2>3
  <2>5. \A s \in reached \ {m} : s \in before[m]
    <3>1. \A s \in reached \ {m} : s \in DOMAIN seeks /\ s \in Nat /\ s <= m
      BY <1>2, <2>1
    <3> QED
      BY <2>2, <2>3, <3>1
  <2>6. \A s \in DOMAIN seeks : covered[s] \in Int
    BY <1>1
  <2>7. Total(taken) <= covered[m]
    <3> HIDE DEF covered, before
    <3> QED
      BY <2>1, <2>4, <2>5, <2>6, WalkTakesAtMost
  <2> QED
    <3>1. Total(taken) <= cover
      BY <1>1, <2>2, <2>7
    <3>2. Sum(gross) \in Nat /\ Total(taken) \in Nat
      BY <1>4, <1>5, SumType, TotalType
    <3>3. Sum(gross) <= cover
      <4> HIDE DEF gross, taken, cover
      <4> QED
        BY <1>1, <1>6, <3>1, <3>2
    <3> QED
      BY <3>3
<1> QED
  BY <1>7, <1>8

\* However the amounts and the fees round, the locked provides cover what is
\* locked of the seeks after their fees at the collateral ratio.
THEOREM LocksAreCollateralised ==
    ASSUME NEW k \in Nat,
           NEW seeks, IsQueue(seeks), DOMAIN seeks \subseteq 0 .. k,
           NEW locked, IsQueue(locked),
           \A p \in DOMAIN locked : locked[p].minFeeRate \in 0 .. B - 1,
           NEW net, DOMAIN net = DOMAIN GrossLockedSeeks(seeks, locked),
           \A s \in DOMAIN net :
             LET gross == GrossLockedSeeks(seeks, locked)[s].amount
             IN  net[s].amount = gross - Fee(gross, EffectiveFeeRate(locked))
    PROVE  Sum(net) * CollProvider <= Sum(locked) * CollSeeker
<1> USE MatchingAssumption
<1> DEFINE gross == GrossLockedSeeks(seeks, locked)
           rate  == EffectiveFeeRate(locked)
           cover == SeeksCovered(Sum(locked), rate)
<1>1. rate \in 0 .. B - 1 /\ cover \in Nat
  BY CoveredType
<1>2. /\ Sum(locked) \in Nat
      /\ cover * (B - rate) * CollProvider <= Sum(locked) * CollSeeker * B
  BY <1>1, SumType, SeeksCoveredType
<1>3. Sum(gross) <= cover
  BY GrossWithinCover
<1>4. /\ IsAmounts(Amounts(gross)) /\ DOMAIN Amounts(gross) = DOMAIN gross
      /\ Sum(gross) \in Nat
  BY GrossLockedSeeksType, SumType
<1>5. \A s \in DOMAIN gross : gross[s].amount \in Nat
  BY GrossLockedSeeksType DEF IsQueue
<1>6. \A s \in DOMAIN net :
        net[s].amount = gross[s].amount - Fee(gross[s].amount, rate)
  OBVIOUS
<1> HIDE DEF gross, rate, cover
<1>7. ASSUME NEW s \in DOMAIN net
      PROVE  /\ net[s].amount \in Nat
             /\ B * net[s].amount <= (B - rate) * gross[s].amount
  <2>1. DOMAIN net = DOMAIN gross
    BY DEF gross
  <2>2. gross[s].amount \in Nat /\ rate \in 0 .. B
    BY <1>1, <1>5, <2>1
  <2>3. /\ Fee(gross[s].amount, rate) \in Nat
        /\ Fee(gross[s].amount, rate) <= gross[s].amount
        /\ gross[s].amount * rate <= B * Fee(gross[s].amount, rate)
    BY <2>2, FeeType
  <2> QED
    BY <1>6, <2>2, <2>3
<1>8. IsAmounts(Amounts(net)) /\ DOMAIN Amounts(net) = DOMAIN gross
  BY <1>4, <1>7 DEF IsAmounts, Amounts, gross
<1>9. B * Sum(net) <= (B - rate) * Sum(gross)
  <2>1. B - rate \in Nat
    BY <1>1
  <2>2. /\ IsAmounts(Times(B, Amounts(net)))
        /\ Total(Times(B, Amounts(net))) = B * Sum(net)
    BY <1>8, TotalScale DEF Sum
  <2>3. /\ IsAmounts(Times(B - rate, Amounts(gross)))
        /\ Total(Times(B - rate, Amounts(gross))) = (B - rate) * Sum(gross)
    BY <1>4, <2>1, TotalScale DEF Sum
  <2>4. \A s \in DOMAIN gross :
          Times(B, Amounts(net))[s] <= Times(B - rate, Amounts(gross))[s]
    BY <1>7, <1>8 DEF Times, Amounts, gross
  <2>5. /\ DOMAIN Times(B, Amounts(net)) = DOMAIN gross
        /\ DOMAIN Times(B - rate, Amounts(gross)) = DOMAIN gross
    BY <1>4, <1>8 DEF Times
  <2> QED
    BY <2>2, <2>3, <2>4, <2>5, TotalMonotone
<1>10. Sum(net) \in Nat
  BY <1>8, TotalType DEF Sum
<1>11. B * (Sum(net) * CollProvider) <= B * (Sum(locked) * CollSeeker)
  <2>1. (B - rate) * Sum(gross) <= (B - rate) * cover
    BY <1>1, <1>3, <1>4
  <2>2. (B * Sum(net)) * CollProvider <= ((B - rate) * cover) * CollProvider
    BY <1>1, <1>9, <1>10, <1>4, <2>1
  <2>3. cover * (B - rate) * CollProvider = ((B - rate) * cover) * CollProvider
    BY <1>1
  <2>4. /\ Sum(locked) * CollSeeker * B = B * (Sum(locked) * CollSeeker)
        /\ (B * Sum(net)) * CollProvider = B * (Sum(net) * CollProvider)
    BY <1>2, <1>10
  <2>5. /\ ((B - rate) * cover) * CollProvider \in Nat
        /\ B * (Sum(locked) * CollSeeker) \in Nat
        /\ B * (Sum(net) * CollProvider) \in Nat
    BY <1>1, <1>2, <1>10
  <2> QED
    BY <1>2, <2>2, <2>3, <2>4, <2>5
<1>12. Sum(net) * CollProvider \in Nat /\ Sum(locked) * CollSeeker \in Nat
  BY <1>2, <1>10
<1> QED
  BY <1>11, <1>12

-----------------------------------------------------------------------------
(***************************************************************************)
(* The orders of the two queues, and what they mean for the walks over     *)
(* them.                                                                   *)
(***************************************************************************)
\* A walk that left something of an item has stopped there: it reached none of
\* those behind it that do not want more.
LEMMA WalkStops ==
    ASSUME NEW items, IsQueue(items),
           NEW before, IsOrder(DOMAIN items, before),
           NEW want, \A s \in DOMAIN items : want[s] \in Int,
           NEW s \in DOMAIN Left(items, before, want),
           NEW t \in DOMAIN items, s \in before[t], want[t] <= want[s]
    PROVE  t \notin Reached(items, before, want)
<1> SUFFICES ASSUME t \in Reached(items, before, want) PROVE FALSE
  OBVIOUS
<1> DEFINE taken == Taken(items, before, want)
           front == Only(items, before[s])
           part  == Only(items, before[t])
           both  == [x \in (DOMAIN front) \cup {s} |-> items[x].amount]
           some  == Amounts(front)
           one   == [x \in {s} |-> items[s].amount]
<1>1. s \in DOMAIN items
  BY DEF Left
<1>2. /\ Ahead(items, before, s) \in Nat /\ Ahead(items, before, t) \in Nat
      /\ items[s].amount \in Nat
  BY <1>1, OnlyType DEF Ahead, IsQueue
<1>3. Ahead(items, before, s) + items[s].amount <= Ahead(items, before, t)
  <2>1. /\ IsQueue(front) /\ IsQueue(part)
        /\ DOMAIN front = before[s] \cap DOMAIN items
        /\ DOMAIN part = before[t] \cap DOMAIN items
        /\ \A x \in DOMAIN front : front[x] = items[x]
        /\ \A x \in DOMAIN part : part[x] = items[x]
    <3>1. IsQueue(front) /\ DOMAIN front = before[s] \cap DOMAIN items
      BY OnlyType
    <3>2. IsQueue(part) /\ DOMAIN part = before[t] \cap DOMAIN items
      BY OnlyType
    <3> QED
      BY <3>1, <3>2 DEF Only
  <2>2. s \notin DOMAIN front /\ DOMAIN front \cup {s} \subseteq DOMAIN part
    BY <1>1, <2>1 DEF IsOrder
  <2> HIDE DEF front, part
  <2>3. /\ IsAmounts(some) /\ DOMAIN some = DOMAIN front
        /\ \A x \in DOMAIN front : some[x] = items[x].amount
    BY <2>1, SumType DEF Amounts
  <2>4. /\ IsAmounts(Amounts(part)) /\ DOMAIN Amounts(part) = DOMAIN part
        /\ \A x \in DOMAIN part : Amounts(part)[x] = items[x].amount
    BY <2>1, SumType DEF Amounts
  <2>5. IsAmounts(one) /\ DOMAIN one = {s} /\ one[s] = items[s].amount
    BY <1>2, FS_Singleton DEF IsAmounts
  <2>6. DOMAIN both = DOMAIN front \cup {s}
        /\ \A x \in DOMAIN both : both[x] = items[x].amount
    OBVIOUS
  <2>7. IsAmounts(both)
    <3>1. IsFiniteSet(DOMAIN both)
      BY <2>2, <2>4, <2>6, FS_Subset DEF IsAmounts
    <3>2. \A x \in DOMAIN both : both[x] \in Nat
      BY <2>2, <2>4, <2>6 DEF IsAmounts
    <3> QED
      BY <3>1, <3>2 DEF IsAmounts
  <2>8. Total(one) = items[s].amount
    BY <1>2, <2>5, TotalOne
  <2> HIDE DEF both, some, one
  <2>9. Total(both) = Total(some) + Total(one)
    BY <2>2, <2>3, <2>5, <2>6, <2>7, TotalSplit
  <2>10. Total(both) <= Total(Amounts(part))
    <3>1. DOMAIN both \subseteq DOMAIN Amounts(part)
      BY <2>2, <2>4, <2>6
    <3> QED
      BY <2>2, <2>4, <2>6, <2>7, <3>1, TotalMonotone DEF IsAmounts
  <2> QED
    BY <2>8, <2>9, <2>10 DEF Ahead, Sum, front, part, some
<1>4. Ahead(items, before, t) < want[t]
  BY DEF Reached
<1>5. \/ s \notin Reached(items, before, want)
      \/ taken[s] < items[s].amount
  BY DEF Left
<1>6. want[s] \in Int /\ want[t] \in Int
  BY <1>1
<1>7. s \in Reached(items, before, want)
  BY <1>1, <1>2, <1>3, <1>4, <1>6 DEF Reached
<1>8. taken[s] = Least(want[s] - Ahead(items, before, s), items[s].amount)
  BY <1>1, <1>7 DEF Taken
<1> HIDE DEF taken
<1>9. want[s] - Ahead(items, before, s) < items[s].amount
  BY <1>2, <1>5, <1>6, <1>7, <1>8 DEF Least
<1> QED
  BY <1>2, <1>3, <1>4, <1>6, <1>9

\* Items of a queue are totally ordered by their number.
LEMMA OlderIsOrder ==
    ASSUME NEW seeks, DOMAIN seeks \subseteq Int
    PROVE  IsOrder(DOMAIN seeks, Older(seeks))
<1>1. \A s \in DOMAIN seeks : s \in Int
  OBVIOUS
<1> QED
  BY <1>1 DEF IsOrder, Older

\* Provides are totally ordered by fee rate, then number.
LEMMA CheaperIsOrder ==
    ASSUME NEW provides, IsProvides(provides),
           DOMAIN provides \subseteq Int
    PROVE  IsOrder(DOMAIN provides, Cheaper(provides))
<1>1. \A p \in DOMAIN provides : p \in Int /\ provides[p].minFeeRate \in Int
  BY MatchingAssumption DEF IsProvides
<1> QED
  BY <1>1 DEF IsOrder, Cheaper

\* A greater dividend gives no smaller quotient, rounded up.
LEMMA CeilDivMonotone ==
    ASSUME NEW m \in Nat, NEW n \in Nat, NEW d \in Nat \ {0}, m <= n
    PROVE  CeilDiv(m, d) <= CeilDiv(n, d)
<1> DEFINE a == CeilDiv(m, d)
           b == CeilDiv(n, d)
<1>1. a \in Nat /\ b \in Nat /\ n <= d * b /\ d * a < m + d
  BY CeilDivBounds
<1> HIDE DEF a, b
<1>2. SUFFICES ASSUME b + 1 <= a PROVE FALSE
  BY <1>1 DEF a, b
<1>3. d * (b + 1) <= d * a
  BY <1>1, <1>2, SMT
<1>4. d * (b + 1) = d * b + d /\ d * a \in Nat /\ d * b \in Nat
  BY <1>1, SMT
<1> QED
  BY <1>1, <1>3, <1>4

\* The higher the fee rate, the less collateral is needed.
LEMMA DearerNeedsLess ==
    ASSUME NEW n \in Nat, NEW low \in 0 .. B, NEW high \in 0 .. B, low <= high
    PROVE  CollateralNeeded(n, high) <= CollateralNeeded(n, low)
<1> USE MatchingAssumption
<1> DEFINE h == n * (B - high) * CollProvider
           l == n * (B - low) * CollProvider
<1>1. h \in Nat /\ l \in Nat
  <2>1. B - high \in Nat /\ B - low \in Nat
    OBVIOUS
  <2>2. n * (B - high) \in Nat /\ n * (B - low) \in Nat
    BY <2>1, SMT
  <2> QED
    BY <2>2, SMT
<1>2. h <= l
  <2> DEFINE x == B - high
             y == B - low
  <2>1. x \in Nat /\ y \in Nat /\ x <= y
    OBVIOUS
  <2> HIDE DEF x, y
  <2>2. n * x <= n * y /\ n * x \in Nat /\ n * y \in Nat
    BY <2>1, SMT
  <2>3. n * x * CollProvider <= n * y * CollProvider
    BY <2>2, SMT
  <2> QED
    BY <2>3 DEF x, y
<1>3. B * CollSeeker \in Nat \ {0}
  OBVIOUS
<1> HIDE DEF h, l
<1>4. CeilDiv(h, B * CollSeeker) <= CeilDiv(l, B * CollSeeker)
  BY <1>1, <1>2, <1>3, CeilDivMonotone
<1> QED
  BY <1>4 DEF CollateralNeeded, h, l

=============================================================================
