---------------------------- MODULE WalletProofs ----------------------------
(***************************************************************************)
(* What holds of a client's money for every value of the constants.        *)
(*                                                                         *)
(* What the bridge computes backwards from fees: an invoice that remits    *)
(* outstanding fees never costs more than they are, and the maximum told   *)
(* to a user is never less than what can be sent, and can itself be sent   *)
(* where no gateway takes a second fee (SpendLimits).                      *)
(*                                                                         *)
(* Joins, an instance of Federations: a join gives a federation a client   *)
(* of its own, the one that is saved.                                      *)
(*                                                                         *)
(* Fees, an instance of FediFees: its fees are reserved once, charged once *)
(* and covered.                                                            *)
(*                                                                         *)
(* Text and History, instances of TransactionText and TransactionList:     *)
(* what the history shows is so, and its list is the log's.                *)
(*                                                                         *)
(* And what MCWallet, which this module extends, asks of them as they run  *)
(* side by side.                                                           *)
(*                                                                         *)
(* The provers do little arithmetic with products: each product that is    *)
(* needed has a step of its own.                                           *)
(***************************************************************************)
EXTENDS MCWallet, LockMatchingTheorems, Sequences

\* A quotient rounded down, as Rust divides unsigned integers.
LEMMA Quotient ==
    ASSUME NEW n \in Nat, NEW d \in Nat \ {0}
    PROVE  /\ n \div d \in Nat
           /\ d * (n \div d) <= n
           /\ n < d * (n \div d) + d
  BY SMT

\* Products of naturals are naturals.
LEMMA Products ==
    ASSUME NEW a \in Nat, NEW b \in Nat
    PROVE  a * b \in Nat
  BY SMT

\* A greater factor gives a greater product.
LEMMA ProductsGrow ==
    ASSUME NEW a \in Nat, NEW b \in Nat, NEW c \in Nat, a <= b
    PROVE  c * a <= c * b
  BY SMT

\* Parts of a MILLION, rounded up.
DivCeil(n) == CeilDiv(n, MILLION)

\* Rounding up gives the least number whose multiple reaches the dividend.
LEMMA DivCeilIsLeast ==
    ASSUME NEW n \in Nat
    PROVE  /\ DivCeil(n) \in Nat
           /\ MILLION * DivCeil(n) >= n
           /\ \A k \in Nat : n <= MILLION * k => DivCeil(n) <= k
<1>1. MILLION \in Nat \ {0}
  BY SpendLimitsAssumption
<1> DEFINE q == DivCeil(n)
<1>3. q \in Nat /\ n <= MILLION * q /\ MILLION * q < n + MILLION
  BY <1>1, CeilDivBounds DEF DivCeil
<1> HIDE DEF q
<1>5. MILLION * q \in Nat
  BY <1>1, <1>3, Products
<1>7. ASSUME NEW k \in Nat, n <= MILLION * k PROVE q <= k
  <2>1. SUFFICES ASSUME k + 1 <= q PROVE FALSE
    BY <1>3, SMT
  <2>2. MILLION * (k + 1) <= MILLION * q
    BY <1>1, <1>3, <2>1, ProductsGrow
  <2>3. MILLION * (k + 1) = MILLION * k + MILLION
    BY <1>1, SMT
  <2>4. MILLION * k \in Nat
    BY <1>1, Products
  <2> QED
    BY <1>1, <1>3, <1>5, <1>7, <2>2, <2>3, <2>4, SMT
<1> QED
  BY <1>3, <1>7 DEF q

-----------------------------------------------------------------------------
\* Every amount above what get_max_spendable_amount gives costs more than the
\* balance.
LEMMA MaxIsMost ==
    ASSUME NEW b \in Nat, NEW f \in Nat, NEW base \in Nat, NEW p \in Nat,
           base <= b,
           NEW x \in Nat, MaxSpendable(b, f, base, p) < x
    PROVE  Cost(x, f, base, p) > b
<1> DEFINE rest == b - base
           most == MaxSpendable(b, f, base, p)
           all  == MILLION + f + p
           u    == DivCeil(x * f)
           v    == DivCeil(x * p)
<1>1. MILLION \in Nat \ {0} /\ all \in Nat \ {0}
  BY SpendLimitsAssumption
<1>2. rest \in Nat /\ b = base + rest
  OBVIOUS
<1>3. most = (rest * MILLION) \div all
  BY DEF MaxSpendable
<1>4. x * f \in Nat /\ x * p \in Nat /\ rest * MILLION \in Nat /\ MILLION * x \in Nat
  BY <1>1, <1>2, Products
<1>5. /\ u \in Nat /\ MILLION * u >= x * f
      /\ v \in Nat /\ MILLION * v >= x * p
  BY <1>4, DivCeilIsLeast
<1>6. Cost(x, f, base, p) = x + u + (base + v)
  BY DEF Cost, FediFee, GatewayFee, DivCeil
<1> HIDE DEF rest, all, u, v
<1>7. most \in Nat /\ rest * MILLION < all * most + all
  BY <1>1, <1>3, <1>4, Quotient
<1> HIDE DEF most
<1>8. rest * MILLION < all * x
  <2>1. all * (most + 1) <= all * x
    <3>1. most + 1 \in Nat /\ most + 1 <= x
      BY <1>7, SMT DEF most
    <3> QED
      BY <1>1, <3>1, ProductsGrow
  <2>2. all * (most + 1) = all * most + all
    BY <1>1, <1>7, SMT
  <2>3. all * most \in Nat /\ all * x \in Nat
    BY <1>1, <1>7, Products
  <2> QED
    BY <1>1, <1>4, <1>7, <2>1, <2>2, <2>3, SMT
<1>9. all * x = MILLION * x + x * f + x * p
  BY <1>1, SMT DEF all
<1>10. SUFFICES ASSUME x + u + v <= rest PROVE FALSE
  BY <1>2, <1>5, <1>6, SMT
<1>11. MILLION * (x + u + v) <= MILLION * rest
  <2>1. x + u + v \in Nat
    BY <1>5, SMT
  <2> QED
    BY <1>1, <1>2, <1>10, <2>1, ProductsGrow
<1>12. MILLION * (x + u + v) = MILLION * x + MILLION * u + MILLION * v
  BY <1>1, <1>5, SMT
<1>13. MILLION * u \in Nat /\ MILLION * v \in Nat
  BY <1>1, <1>5, Products
<1>14. MILLION * rest = rest * MILLION
  BY <1>1, <1>2, SMT
<1> QED
  BY <1>4, <1>5, <1>8, <1>9, <1>11, <1>12, <1>13, <1>14, SMT

\* Without a gateway's fee, every amount up to it can be paid.
LEMMA MaxIsAccepted ==
    ASSUME NEW b \in Nat, NEW f \in Nat,
           NEW x \in Nat, x <= MaxSpendable(b, f, 0, 0)
    PROVE  Cost(x, f, 0, 0) <= b
<1> DEFINE most == MaxSpendable(b, f, 0, 0)
           all  == MILLION + f
           u    == DivCeil(x * f)
<1>1. MILLION \in Nat \ {0} /\ all \in Nat \ {0}
  BY SpendLimitsAssumption
<1>2. most = (b * MILLION) \div all
  BY <1>1 DEF MaxSpendable
<1>3. x * f \in Nat /\ b * MILLION \in Nat /\ MILLION * x \in Nat
  BY <1>1, Products
<1> HIDE DEF all
<1>4. most \in Nat /\ all * most <= b * MILLION
  BY <1>1, <1>2, <1>3, Quotient
<1>5. all * x <= all * most
  <2>1. x <= most
    OBVIOUS
  <2> HIDE DEF most
  <2> QED
    BY <1>1, <1>4, <2>1, ProductsGrow
<1> HIDE DEF most
<1>6. all * x = MILLION * x + x * f
  BY <1>1, SMT DEF all
<1>7. MILLION * x + x * f <= b * MILLION
  <2>1. all * most \in Nat
    BY <1>1, <1>4, Products
  <2> QED
    BY <1>3, <1>4, <1>5, <1>6, <2>1, SMT
<1>8. MILLION * b = b * MILLION
  BY <1>1, SMT
<1>9. x <= b
  <2>1. SUFFICES ASSUME b + 1 <= x PROVE FALSE
    BY SMT
  <2>2. MILLION * (b + 1) <= MILLION * x
    BY <1>1, <2>1, ProductsGrow
  <2>3. MILLION * (b + 1) = MILLION * b + MILLION
    BY <1>1, SMT
  <2> QED
    BY <1>1, <1>3, <1>7, <1>8, <2>2, <2>3, SMT
<1>10. x * f <= MILLION * (b - x)
  <2>1. MILLION * (b - x) = MILLION * b - MILLION * x
    BY <1>1, SMT
  <2> QED
    BY <1>3, <1>7, <1>8, <2>1, SMT
<1>11. u \in Nat /\ u <= b - x
  <2>1. b - x \in Nat
    BY <1>9, SMT
  <2> QED
    BY <1>3, <1>10, <2>1, DivCeilIsLeast
<1>12. DivCeil(0) = 0
  BY DivCeilIsLeast, <1>1, SMT
<1>13. Cost(x, f, 0, 0) = x + u + (0 + DivCeil(x * 0))
  BY DEF Cost, FediFee, GatewayFee, DivCeil
<1>14. x * 0 = 0
  OBVIOUS
<1> HIDE DEF u
<1> QED
  BY <1>9, <1>11, <1>12, <1>13, <1>14, SMT

-----------------------------------------------------------------------------
\* What is told is in sats: it never exceeds what can be sent, in msats, and a
\* sat more does.
LEMMA Sats ==
    ASSUME NEW m \in Nat
    PROVE  /\ m \div MsatsPerSat \in Nat
           /\ (m \div MsatsPerSat) * MsatsPerSat \in Nat
           /\ (m \div MsatsPerSat) * MsatsPerSat <= m
           /\ m \div MsatsPerSat <= m
           /\ (m \div MsatsPerSat + 1) * MsatsPerSat \in Nat
           /\ m < (m \div MsatsPerSat + 1) * MsatsPerSat
<1> DEFINE q == m \div MsatsPerSat
<1>1. MsatsPerSat \in Nat \ {0}
  BY SpendLimitsAssumption
<1>2. q \in Nat /\ MsatsPerSat * q <= m /\ m < MsatsPerSat * q + MsatsPerSat
  BY <1>1, Quotient
<1> HIDE DEF q
<1>3. MsatsPerSat * q \in Nat
  BY <1>1, <1>2, Products
<1>4. q * MsatsPerSat = MsatsPerSat * q
  BY <1>1, <1>2, SMT
<1>5. (q + 1) * MsatsPerSat = MsatsPerSat * q + MsatsPerSat
  BY <1>1, <1>2, SMT
<1>6. MsatsPerSat * q >= q
  <2>1. q * 1 <= q * MsatsPerSat
    BY <1>1, <1>2, ProductsGrow
  <2> QED
    BY <1>2, <1>4, <2>1, SMT
<1>7. /\ q \in Nat
      /\ q * MsatsPerSat \in Nat
      /\ q * MsatsPerSat <= m
      /\ q <= m
      /\ (q + 1) * MsatsPerSat \in Nat
      /\ m < (q + 1) * MsatsPerSat
  BY <1>1, <1>2, <1>3, <1>4, <1>5, <1>6, SMT
<1> QED
  BY <1>7 DEF q

\* The maximum is a natural.
LEMMA MaxType ==
    ASSUME NEW b \in Nat, NEW f \in Nat, NEW base \in Nat, NEW p \in Nat, base <= b
    PROVE  /\ MaxSpendable(b, f, base, p) \in Nat
           /\ MaxSpendable(b, f, base, p) <= b
<1> DEFINE rest == b - base
           most == MaxSpendable(b, f, base, p)
           all  == MILLION + f + p
<1>1. MILLION \in Nat \ {0} /\ all \in Nat \ {0} /\ MILLION <= all
  BY SpendLimitsAssumption
<1>2. rest \in Nat /\ rest <= b
  OBVIOUS
<1>3. most = (rest * MILLION) \div all
  BY DEF MaxSpendable
<1>4. rest * MILLION \in Nat
  BY <1>1, <1>2, Products
<1> HIDE DEF rest, all
<1>5. most \in Nat /\ all * most <= rest * MILLION
  BY <1>1, <1>3, <1>4, Quotient
<1> HIDE DEF most
<1>6. MILLION * most <= all * most
  <2>1. most * MILLION <= most * all
    BY <1>1, <1>5, ProductsGrow
  <2>2. most * MILLION = MILLION * most /\ most * all = all * most
    BY <1>1, <1>5, SMT
  <2> QED
    BY <2>1, <2>2
<1>7. most <= rest
  <2>1. SUFFICES ASSUME rest + 1 <= most PROVE FALSE
    BY <1>2, <1>5, SMT
  <2>2. MILLION * (rest + 1) <= MILLION * most
    BY <1>1, <1>2, <1>5, <2>1, ProductsGrow
  <2>3. MILLION * (rest + 1) = rest * MILLION + MILLION
    BY <1>1, <1>2, SMT
  <2>4. MILLION * most \in Nat /\ all * most \in Nat
    BY <1>1, <1>5, Products
  <2> QED
    BY <1>1, <1>4, <1>5, <1>6, <2>2, <2>3, <2>4, SMT
<1>8. most \in Nat /\ most <= b
  BY <1>2, <1>5, <1>7, SMT
<1> QED
  BY <1>8 DEF most

\* So is a cost.
LEMMA CostType ==
    ASSUME NEW x \in Nat, NEW f \in Nat, NEW base \in Nat, NEW p \in Nat
    PROVE  Cost(x, f, base, p) \in Nat
<1>1. x * f \in Nat /\ x * p \in Nat
  BY Products
<1>2. DivCeil(x * f) \in Nat /\ DivCeil(x * p) \in Nat
  BY <1>1, DivCeilIsLeast
<1> QED
  BY <1>2, SMT DEF Cost, FediFee, GatewayFee, DivCeil

-----------------------------------------------------------------------------
\* What TypeOK says of the variables, as the lemmas above need it.
LEMMA Naturals ==
    ASSUME TypeOK
    PROVE  /\ balance \in Nat /\ balance <= MaxBalance /\ MaxBalance \in Nat
           /\ fediPpm \in Nat /\ gateway.base \in Nat /\ gateway.ppm \in Nat
<1>1. balance \in Nat /\ balance <= MaxBalance /\ MaxBalance \in Nat
  BY SpendLimitsAssumption DEF TypeOK
<1>2. fediPpm \in Nat
  BY SpendLimitsAssumption DEF TypeOK
<1>3. gateway.base \in Bases /\ gateway.ppm \in Rates
  BY DEF TypeOK
<1>4. gateway.base \in Nat /\ gateway.ppm \in Nat
  BY <1>3, SpendLimitsAssumption
<1> QED
  BY <1>1, <1>2, <1>4

\* The state's types: no payment takes the balance below zero, and what is told
\* is never above the largest balance.
THEOREM TypesHold == Spec => []TypeOK
<1>1. Init => TypeOK
  BY SpendLimitsAssumption DEF Init, TypeOK, Nothing
<1>2. TypeOK /\ [Next]_vars => TypeOK'
  <2> SUFFICES ASSUME TypeOK, [Next]_vars PROVE TypeOK'
    OBVIOUS
  <2>1. ASSUME NEW amount \in 1 .. MaxBalance + 1, Pay(amount)
        PROVE  TypeOK'
    <3>1. amount \in Nat
      BY Naturals
    <3>2. CostOf(amount) \in Nat
      BY <3>1, CostType, Naturals DEF CostOf
    <3>3. balance' \in 0 .. MaxBalance
      BY <2>1, <3>2, Naturals DEF Pay
    <3> QED
      BY <2>1, <3>3 DEF Pay, TypeOK
  <2>2. ASSUME NEW amount \in 1 .. MaxBalance + 1, Refuse(amount)
        PROVE  TypeOK'
    <3>1. CASE balance < gateway.base
      BY <2>2, <3>1 DEF Refuse, TypeOK
    <3>2. CASE gateway.base <= balance
      <4> DEFINE most == MaxSpendable(balance, fediPpm, gateway.base, gateway.ppm)
      <4>1. most \in Nat /\ most <= balance
        BY <3>2, Naturals, MaxType
      <4> HIDE DEF most
      <4>2. most \div MsatsPerSat \in Nat /\ most \div MsatsPerSat <= most
        BY <4>1, Sats
      <4>3. most \div MsatsPerSat \in 0 .. MaxBalance
        BY <4>1, <4>2, Naturals
      <4>4. told' = most \div MsatsPerSat
        BY <2>2, <3>2, Naturals DEF Refuse, most
      <4> QED
        BY <2>2, <4>3, <4>4 DEF Refuse, TypeOK
    <3> QED
      BY <3>1, <3>2, Naturals
  <2>3. CASE Other
    BY <2>3, SpendLimitsAssumption DEF Other, TypeOK
  <2>4. CASE UNCHANGED vars
    BY <2>4 DEF vars, TypeOK
  <2> QED
    BY <2>1, <2>2, <2>3, <2>4 DEF Next
<1> QED
  BY <1>1, <1>2, PTL DEF Spec

\* InsufficientBalance tells the user the most that can be sent, whatever the
\* balance, the fees and their rates are: a sat more is refused.
THEOREM ToldIsAlwaysTheMost == Spec => []ToldIsTheMost
<1>1. Init => ToldIsTheMost
  BY DEF Init, ToldIsTheMost, Nothing
<1>2. TypeOK /\ ToldIsTheMost /\ [Next]_vars => ToldIsTheMost'
  <2> SUFFICES ASSUME TypeOK, ToldIsTheMost, [Next]_vars PROVE ToldIsTheMost'
    OBVIOUS
  <2>1. ASSUME NEW amount \in 1 .. MaxBalance + 1, Refuse(amount)
        PROVE  ToldIsTheMost'
    <3>1. CASE balance < gateway.base
      BY <2>1, <3>1 DEF Refuse, ToldIsTheMost, Overflow
    <3>2. CASE gateway.base <= balance
      <4> DEFINE most == MaxSpendable(balance, fediPpm, gateway.base, gateway.ppm)
                 more == (most \div MsatsPerSat + 1) * MsatsPerSat
      <4>1. most \in Nat
        BY <3>2, Naturals, MaxType
      <4>2. more \in Nat /\ most < more
        BY <4>1, Sats
      <4>3. told' = most \div MsatsPerSat
        BY <2>1, <3>2, Naturals DEF Refuse
      <4> HIDE DEF more
      <4>4. CostOf(more) > balance
        BY <3>2, <4>2, Naturals, MaxIsMost DEF CostOf
      <4> QED
        BY <2>1, <4>3, <4>4 DEF Refuse, ToldIsTheMost, CostOf, more
    <3> QED
      BY <3>1, <3>2, Naturals
  <2>2. ASSUME NEW amount \in 1 .. MaxBalance + 1, Pay(amount)
        PROVE  ToldIsTheMost'
    BY <2>2 DEF Pay, ToldIsTheMost, Nothing
  <2>3. CASE Other
    BY <2>3 DEF Other, ToldIsTheMost, Nothing
  <2>4. CASE UNCHANGED vars
    BY <2>4 DEF vars, ToldIsTheMost, CostOf
  <2> QED
    BY <2>1, <2>2, <2>3, <2>4 DEF Next
<1> QED
  BY <1>1, <1>2, TypesHold, PTL DEF Spec

\* Where no gateway takes a fee (ecash, the stability pool), what the user is
\* told can be sent is accepted.  With a gateway it may not be: both fees are
\* rounded up.
THEOREM ToldIsAlwaysAccepted == Spec => []ToldIsAccepted
<1>1. Init => ToldIsAccepted
  BY DEF Init, ToldIsAccepted, Nothing
<1>2. TypeOK /\ ToldIsAccepted /\ [Next]_vars => ToldIsAccepted'
  <2> SUFFICES ASSUME TypeOK, ToldIsAccepted, [Next]_vars PROVE ToldIsAccepted'
    OBVIOUS
  <2>1. ASSUME NEW amount \in 1 .. MaxBalance + 1, Refuse(amount)
        PROVE  ToldIsAccepted'
    <3> SUFFICES ASSUME gateway = NoGateway
                 PROVE  CostOf(told' * MsatsPerSat) <= balance
      BY <2>1 DEF Refuse, ToldIsAccepted, CostOf
    <3> DEFINE most == MaxSpendable(balance, fediPpm, 0, 0)
               all  == (most \div MsatsPerSat) * MsatsPerSat
    <3>1. gateway.base = 0 /\ gateway.ppm = 0
      BY DEF NoGateway
    <3>2. most \in Nat
      BY Naturals, MaxType
    <3>3. all \in Nat /\ all <= most
      BY <3>2, Sats
    <3>4. told' = most \div MsatsPerSat
      BY <2>1, <3>1, Naturals DEF Refuse
    <3> HIDE DEF all
    <3>5. Cost(all, fediPpm, 0, 0) <= balance
      BY <3>3, Naturals, MaxIsAccepted
    <3> QED
      BY <3>1, <3>4, <3>5 DEF CostOf, all
  <2>2. ASSUME NEW amount \in 1 .. MaxBalance + 1, Pay(amount)
        PROVE  ToldIsAccepted'
    BY <2>2 DEF Pay, ToldIsAccepted, Nothing
  <2>3. CASE Other
    BY <2>3 DEF Other, ToldIsAccepted, Nothing
  <2>4. CASE UNCHANGED vars
    BY <2>4 DEF vars, ToldIsAccepted, CostOf
  <2> QED
    BY <2>1, <2>2, <2>3, <2>4 DEF Next
<1> QED
  BY <1>1, <1>2, TypesHold, PTL DEF Spec

\* All together: the most that is told is exactly the maximum.
THEOREM ToldIsAlwaysExact == Spec => []ToldIsExact
<1>1. TypeOK /\ ToldIsTheMost /\ ToldIsAccepted <=> ToldIsExact
  BY DEF ToldIsExact
<1> QED
  BY <1>1, TypesHold, ToldIsAlwaysTheMost, ToldIsAlwaysAccepted, PTL

-----------------------------------------------------------------------------
(* Federations *)

\* Every join under way is for a federation and a database of its own, which
\* nothing else uses yet.
OfItsOwn(j) ==
    /\ \A k \in Joiners \ {j} :
         join[k] # Joins!Idle =>
             join[k].fed # join[j].fed /\ join[k].db # join[j].db
    /\ join[j].at = "joining" =>
         /\ running[join[j].fed] = 0
         /\ \A f \in Feds : running[f] # join[j].db /\ saved[f] # join[j].db

JoinsInv ==
    /\ prefix \in Nat
    /\ saved \in [Feds -> Nat] /\ running \in [Feds -> Nat]
    /\ \A f \in Feds : saved[f] <= prefix /\ running[f] <= prefix
    /\ leaving \subseteq Feds
    /\ join = [j \in Joiners |-> join[j]]
    /\ \A j \in Joiners :
         \/ join[j] = Joins!Idle
         \/ /\ join[j] \in [at : {"joining", "joined"}, fed : Feds, db : Nat \ {0}]
            /\ join[j].db <= prefix
            /\ OfItsOwn(j)
    /\ Joins!RunningIsSaved
    /\ \A f \in leaving : saved[f] = 0 /\ running[f] # 0
    /\ \A f, g \in Feds : f # g => running[f] = 0 \/ running[f] # running[g]

\* It holds at first.
LEMMA JoinsStart == Joins!Init => JoinsInv
  BY DEF Joins!Init, JoinsInv, Joins!Idle, Joins!RunningIsSaved

JoinVars == <<prefix, saved, running, leaving, join>>

\* The other steps leave alone what the invariant is about.
LEMMA JoinsUnchanged ==
    ASSUME JoinsInv, UNCHANGED JoinVars PROVE JoinsInv'
  BY DEF JoinsInv, JoinVars, OfItsOwn, Joins!RunningIsSaved

\* A join that ends leaves the others their own.
LEMMA JoinEnds ==
    ASSUME JoinsInv, NEW j \in Joiners, join' = [join EXCEPT ![j] = Joins!Idle],
           UNCHANGED <<prefix, saved, running, leaving>>
    PROVE  JoinsInv'
<1>1. /\ join' = [k \in Joiners |-> join'[k]]
      /\ join'[j] = Joins!Idle
      /\ \A k \in Joiners \ {j} : join'[k] = join[k]
  BY DEF JoinsInv
<1>2. ASSUME NEW k \in Joiners \ {j}, OfItsOwn(k) PROVE OfItsOwn(k)'
  BY <1>1, <1>2 DEF OfItsOwn
<1> QED
  BY <1>1, <1>2 DEF JoinsInv, Joins!RunningIsSaved

\* A join begins with a new database.
LEMMA JoinKeeps ==
    ASSUME JoinsInv, JoinsOverlap = FALSE,
           NEW j \in Joiners, NEW f \in Feds, Joins!Join(j, f)
    PROVE  JoinsInv'
<1> USE DEF Joins!Idle
<1>1. /\ join[j] = Joins!Idle /\ running[f] = 0
      /\ \A k \in Joiners : join[k] # Joins!Idle => join[k].fed # f
      /\ prefix' = prefix + 1
      /\ join' = [join EXCEPT ![j] =
                    [at |-> "joining", fed |-> f, db |-> prefix']]
      /\ UNCHANGED <<saved, running, leaving>>
  BY DEF Joins!Join, Joins!NotJoined
<1>2. /\ join' = [k \in Joiners |-> join'[k]]
      /\ join'[j] = [at |-> "joining", fed |-> f, db |-> prefix + 1]
      /\ \A k \in Joiners \ {j} : join'[k] = join[k]
  BY <1>1 DEF JoinsInv
<1>3. \A g \in Feds : running[g] <= prefix /\ saved[g] <= prefix
                       /\ running[g] \in Nat /\ saved[g] \in Nat
  BY DEF JoinsInv
<1>4. \A k \in Joiners \ {j} : join[k] # Joins!Idle =>
        /\ join[k] \in [at : {"joining", "joined"}, fed : Feds, db : Nat \ {0}]
        /\ join[k].db <= prefix /\ OfItsOwn(k)
  BY DEF JoinsInv
<1>5. OfItsOwn(j)'
  <2>1. \A k \in Joiners \ {j} : join'[k] # Joins!Idle =>
          join'[k].fed # join'[j].fed /\ join'[k].db # join'[j].db
    BY <1>1, <1>2, <1>4, prefix \in Nat DEF JoinsInv
  <2>2. /\ running'[join'[j].fed] = 0
        /\ \A g \in Feds : running'[g] # join'[j].db /\ saved'[g] # join'[j].db
    BY <1>1, <1>2, <1>3, prefix \in Nat DEF JoinsInv
  <2> QED
    BY <2>1, <2>2 DEF OfItsOwn
<1>6. ASSUME NEW k \in Joiners \ {j}, join[k] # Joins!Idle
      PROVE  OfItsOwn(k)'
  <2>1. OfItsOwn(k)
    BY <1>4, <1>6
  <2>2. join'[j].fed # join[k].fed /\ join'[j].db # join[k].db
    BY <1>1, <1>2, <1>4, <1>6, prefix \in Nat DEF JoinsInv
  <2> QED
    BY <1>1, <1>2, <2>1, <2>2 DEF OfItsOwn
<1>7. \A k \in Joiners :
        \/ join'[k] = Joins!Idle
        \/ /\ join'[k] \in [at : {"joining", "joined"}, fed : Feds, db : Nat \ {0}]
           /\ join'[k].db <= prefix'
           /\ OfItsOwn(k)'
  <2>1. /\ prefix \in Nat
        /\ \A k \in Joiners \ {j} : join[k] # Joins!Idle => join[k].db \in Nat
    BY <1>4 DEF JoinsInv
  <2>2. CASE TRUE
    <3>1. /\ join'[j] \in [at : {"joining", "joined"}, fed : Feds, db : Nat \ {0}]
          /\ join'[j].db <= prefix'
      BY <1>1, <1>2, <2>1
    <3>2. \A k \in Joiners \ {j} : join[k] # Joins!Idle => join'[k].db <= prefix'
      BY <1>1, <1>2, <1>4, <2>1
    <3> QED
      BY <1>2, <1>4, <1>5, <1>6, <3>1, <3>2
  <2> QED
    BY <2>2
<1> QED
  BY <1>1, <1>2, <1>3, <1>7 DEF JoinsInv, Joins!RunningIsSaved

\* A join succeeds: its client runs, and is saved.
LEMMA JoinedKeeps ==
    ASSUME JoinsInv, NEW j \in Joiners, Joins!Joined(j) PROVE JoinsInv'
<1> USE DEF Joins!Idle
<1> DEFINE f == join[j].fed
           p == join[j].db
<1>1. /\ join[j].at = "joining"
      /\ saved' = [saved EXCEPT ![f] = p]
      /\ running' = [running EXCEPT ![f] = IF @ = 0 THEN p ELSE @]
      /\ join' = [join EXCEPT ![j].at = "joined"]
      /\ UNCHANGED <<prefix, leaving>>
  BY DEF Joins!Joined, Joins!Insert
<1>2. /\ join[j] \in [at : {"joining", "joined"}, fed : Feds, db : Nat \ {0}]
      /\ p <= prefix /\ OfItsOwn(j)
  BY <1>1 DEF JoinsInv
<1>3. /\ f \in Feds /\ p \in Nat \ {0} /\ running[f] = 0
      /\ \A g \in Feds : running[g] # p /\ saved[g] # p
  BY <1>1, <1>2 DEF OfItsOwn
<1>4. /\ join' = [k \in Joiners |-> join'[k]]
      /\ join'[j] = [at |-> "joined", fed |-> f, db |-> p]
      /\ \A k \in Joiners \ {j} : join'[k] = join[k]
  BY <1>1, <1>2 DEF JoinsInv
<1>5. /\ saved' \in [Feds -> Nat] /\ running' \in [Feds -> Nat]
      /\ saved'[f] = p /\ running'[f] = p
      /\ \A g \in Feds \ {f} : saved'[g] = saved[g] /\ running'[g] = running[g]
  BY <1>1, <1>3 DEF JoinsInv
<1> HIDE DEF f, p
<1>6. f \notin leaving
  BY <1>3 DEF JoinsInv
<1>7. ASSUME NEW k \in Joiners \ {j}, join[k] # Joins!Idle
      PROVE  OfItsOwn(k)'
  <2>1. OfItsOwn(k)
    BY <1>7 DEF JoinsInv
  <2>2. join[k].fed # f /\ join[k].db # p
    BY <1>2, <1>7 DEF OfItsOwn, f, p
  <2>3. join[k].fed \in Feds
    BY <1>7 DEF JoinsInv
  <2> QED
    BY <1>4, <1>5, <2>1, <2>2, <2>3 DEF OfItsOwn, f, p
<1>8. OfItsOwn(j)'
  BY <1>2, <1>4 DEF OfItsOwn, f, p
<1>9. \A k \in Joiners :
        \/ join'[k] = Joins!Idle
        \/ /\ join'[k] \in [at : {"joining", "joined"}, fed : Feds, db : Nat \ {0}]
           /\ join'[k].db <= prefix'
           /\ OfItsOwn(k)'
  <2>1. /\ join'[j] \in [at : {"joining", "joined"}, fed : Feds, db : Nat \ {0}]
        /\ join'[j].db <= prefix'
    BY <1>1, <1>2, <1>3, <1>4 DEF p
  <2>2. \A k \in Joiners \ {j} : join[k] # Joins!Idle =>
          /\ join[k] \in [at : {"joining", "joined"}, fed : Feds, db : Nat \ {0}]
          /\ join[k].db <= prefix
    BY DEF JoinsInv
  <2> QED
    BY <1>1, <1>4, <1>7, <1>8, <2>1, <2>2
<1>10. \A g, h \in Feds : g # h => running'[g] = 0 \/ running'[g] # running'[h]
  <2>1. \A g, h \in Feds : g # h => running[g] = 0 \/ running[g] # running[h]
    BY DEF JoinsInv
  <2> QED
    BY <1>3, <1>5, <2>1
<1>11. \A g \in Feds : saved'[g] <= prefix /\ running'[g] <= prefix
  BY <1>2, <1>5 DEF JoinsInv, p
<1>12. /\ \A g \in Feds \ leaving : saved'[g] = running'[g]
       /\ \A g \in leaving : saved'[g] = 0 /\ running'[g] # 0
  <2>1. /\ \A g \in Feds \ leaving : saved[g] = running[g]
        /\ leaving \subseteq Feds
        /\ \A g \in leaving : saved[g] = 0 /\ running[g] # 0
    BY DEF JoinsInv, Joins!RunningIsSaved
  <2> QED
    BY <1>5, <1>6, <2>1
<1> QED
  BY <1>1, <1>4, <1>5, <1>9, <1>10, <1>11, <1>12
     DEF JoinsInv, Joins!RunningIsSaved

\* Leaving begins with the saved state, and ends with the running client.
LEMMA LeavingKeeps ==
    ASSUME JoinsInv, NEW f \in Feds, Joins!Forget(f) \/ Joins!Leave(f)
    PROVE  JoinsInv'
<1>1. /\ saved \in [Feds -> Nat] /\ running \in [Feds -> Nat]
      /\ prefix \in Nat /\ leaving \subseteq Feds
      /\ \A g \in Feds : saved[g] <= prefix /\ running[g] <= prefix
      /\ \A g \in Feds \ leaving : saved[g] = running[g]
      /\ \A g \in leaving : saved[g] = 0 /\ running[g] # 0
      /\ \A g, h \in Feds : g # h => running[g] = 0 \/ running[g] # running[h]
  BY DEF JoinsInv, Joins!RunningIsSaved
<1>2. /\ saved' \in [Feds -> Nat] /\ running' \in [Feds -> Nat]
      /\ leaving' \subseteq Feds
      /\ \A g \in Feds \ {f} : saved'[g] = saved[g] /\ running'[g] = running[g]
                              /\ (g \in leaving' <=> g \in leaving)
      /\ saved'[f] = 0 /\ running'[f] \in {0, running[f]}
      /\ f \in leaving' <=> running'[f] # 0
      /\ UNCHANGED <<prefix, join>>
  <2>1. CASE Joins!Forget(f)
    BY <1>1, <2>1 DEF Joins!Forget
  <2>2. CASE Joins!Leave(f)
    BY <1>1, <2>2 DEF Joins!Leave
  <2> QED
    BY <2>1, <2>2
<1>3. ASSUME NEW k \in Joiners, join[k].fed \in Feds,
             join[k].db \in Nat \ {0}, OfItsOwn(k)
      PROVE  OfItsOwn(k)'
  BY <1>1, <1>2, <1>3 DEF OfItsOwn
<1>4. \A k \in Joiners :
        \/ join'[k] = Joins!Idle
        \/ /\ join'[k] \in [at : {"joining", "joined"}, fed : Feds, db : Nat \ {0}]
           /\ join'[k].db <= prefix'
           /\ OfItsOwn(k)'
  BY <1>2, <1>3 DEF JoinsInv
<1>5. /\ \A g \in Feds : saved'[g] <= prefix /\ running'[g] <= prefix
      /\ \A g \in Feds \ leaving' : saved'[g] = running'[g]
      /\ \A g \in leaving' : saved'[g] = 0 /\ running'[g] # 0
      /\ \A g, h \in Feds : g # h => running'[g] = 0 \/ running'[g] # running'[h]
  BY <1>1, <1>2
<1> QED
  BY <1>2, <1>4, <1>5 DEF JoinsInv, Joins!RunningIsSaved

\* After a start of the app what is saved runs, and nothing is under way.
LEMMA JoinsRestart ==
    ASSUME JoinsInv, Joins!Restart PROVE JoinsInv'
<1>1. /\ running' = saved /\ leaving' = {} /\ UNCHANGED <<saved, prefix>>
      /\ join' = [j \in Joiners |-> Joins!Idle]
  BY DEF Joins!Restart
<1>2. /\ \A g \in Feds \ leaving : saved[g] = running[g]
      /\ \A g \in leaving : saved[g] = 0
      /\ \A g, h \in Feds : g # h => running[g] = 0 \/ running[g] # running[h]
  BY DEF JoinsInv, Joins!RunningIsSaved
<1>3. \A g, h \in Feds : g # h => saved[g] = 0 \/ saved[g] # saved[h]
  BY <1>2
<1>4. \A k \in Joiners : join'[k] = Joins!Idle
  BY <1>1
<1>5. join' = [k \in Joiners |-> join'[k]]
  BY <1>1
<1> QED
  BY <1>1, <1>3, <1>4, <1>5 DEF JoinsInv, Joins!RunningIsSaved

\* Every step keeps it, when joins do not overlap.
LEMMA JoinsStep ==
    ASSUME JoinsOverlap = FALSE, JoinsInv, [Joins!Next]_Joins!vars
    PROVE  JoinsInv'
<1>1. ASSUME NEW j \in Joiners, Joins!JoinFails(j) PROVE JoinsInv'
  BY <1>1, JoinEnds DEF Joins!JoinFails, Joins!bridge
<1>2. ASSUME NEW t \in Joins!Tasks, Joins!Refreshed(t) PROVE JoinsInv'
  <2>1. UNCHANGED <<prefix, saved, running, leaving>>
    BY <1>2 DEF Joins!Refreshed, Joins!bridge
  <2>2. CASE t \in Joiners
    BY <1>2, <2>1, <2>2, JoinEnds DEF Joins!Refreshed
  <2>3. CASE t \notin Joiners
    <3>1. UNCHANGED JoinVars
      BY <1>2, <2>1, <2>3 DEF Joins!Refreshed, JoinVars
    <3> QED
      BY <3>1, JoinsUnchanged
  <2> QED
    BY <2>2, <2>3
<1>3. ASSUME NEW f \in Feds,
             Joins!Receive(f) \/ Joins!MetadataArrives(f) \/ Joins!Switch(f)
      PROVE  JoinsInv'
  <2>1. UNCHANGED JoinVars
    BY <1>3 DEF Joins!Receive, Joins!MetadataArrives, Joins!Switch,
                Joins!bridge, JoinVars
  <2> QED
    BY <2>1, JoinsUnchanged
<1>4. ASSUME NEW t \in Joins!Tasks, Joins!Refresh(t) PROVE JoinsInv'
  <2>1. UNCHANGED JoinVars
    BY <1>4 DEF Joins!Refresh, Joins!bridge, JoinVars
  <2> QED
    BY <2>1, JoinsUnchanged
<1>5. CASE Joins!UpdateBalance
  <2>1. UNCHANGED JoinVars
    BY <1>5 DEF Joins!UpdateBalance, Joins!bridge, JoinVars
  <2> QED
    BY <2>1, JoinsUnchanged
<1>6. CASE UNCHANGED Joins!vars
  <2>1. UNCHANGED JoinVars
    BY <1>6 DEF Joins!vars, Joins!bridge, JoinVars
  <2> QED
    BY <2>1, JoinsUnchanged
<1> QED
  BY <1>1, <1>2, <1>3, <1>4, <1>5, <1>6, JoinKeeps, JoinedKeeps, LeavingKeeps,
     JoinsRestart DEF Joins!Next

\* The client that runs is the one the next start of the app will run
\* (join_federation_inner), for any number of federations, calls and restarts,
\* when joins do not overlap.
THEOREM WhatRunsIsSaved ==
    ASSUME JoinsOverlap = FALSE
    PROVE  Joins!Spec => []Joins!RunningIsSaved
<1>1. JoinsInv => Joins!RunningIsSaved
  BY DEF JoinsInv
<1> QED
  BY <1>1, JoinsStart, JoinsStep, PTL DEF Joins!Spec

\* No database serves two federations.
LEMMA JoinsKeepApart == JoinsInv => Joins!DatabasesAreApart
<1> SUFFICES ASSUME JoinsInv PROVE Joins!DatabasesAreApart
  OBVIOUS
<1>1. /\ saved \in [Feds -> Nat] /\ running \in [Feds -> Nat]
      /\ \A g \in Feds \ leaving : saved[g] = running[g]
      /\ \A g \in leaving : saved[g] = 0
      /\ \A g, h \in Feds : g # h => running[g] = 0 \/ running[g] # running[h]
  BY DEF JoinsInv, Joins!RunningIsSaved
<1> QED
  BY <1>1 DEF Joins!DatabasesAreApart

\* No database serves two federations, over joining, failing, leaving and
\* restarting, when joins do not overlap.
THEOREM DatabasesOfTheirOwn ==
    ASSUME JoinsOverlap = FALSE
    PROVE  Joins!Spec => []Joins!DatabasesAreApart
  BY JoinsKeepApart, JoinsStart, JoinsStep, PTL DEF Joins!Spec

Balances == 0 .. MaxActs

\* What is received is bounded by what has happened, and a refresh within a join
\* follows the join.
JoinTypes ==
    /\ Joins!TypeOK
    /\ \A p \in Joins!Databases : money[p] <= acts
    /\ join = [j \in Joiners |-> join[j]] /\ snap = [t \in Joins!Tasks |-> snap[t]]
    /\ \A j \in Joiners : snap[j].open => join[j].at = "joined"

\* The types, part by part.
LEMMA JoinTypesAre ==
    ASSUME Joins!FederationsAssumption, JoinTypes
    PROVE  /\ MaxPrefix \in Nat /\ MaxActs \in Nat
           /\ prefix \in 0 .. MaxPrefix /\ acts \in Balances
           /\ saved \in [Feds -> 0 .. prefix] /\ running \in [Feds -> 0 .. prefix]
           /\ money \in [Joins!Databases -> Balances]
           /\ leaving \subseteq Feds
           /\ \A j \in Joiners :
                \/ join[j] = Joins!Idle
                \/ join[j] \in [at : {"joining", "joined"}, fed : Feds, db : 1 .. prefix]
           /\ \A t \in Joins!Tasks : snap[t] \in [open : BOOLEAN, of : Joins!Lists]
           /\ events \in Seq([fed : Feds, balance : Balances])
           /\ federationList \in Joins!Lists
           /\ active \in Feds \cup {"none"} /\ mods \subseteq Feds
  BY DEF JoinTypes, Joins!TypeOK, Joins!FederationsAssumption, Balances

\* Balances are numbers, and bounded.
LEMMA MoneyIs ==
    ASSUME Joins!FederationsAssumption, JoinTypes
    PROVE  /\ acts \in Nat /\ MaxActs \in Nat
           /\ \A p \in Joins!Databases : money[p] \in Nat /\ money[p] <= acts
<1>1. /\ \A p \in Joins!Databases : money[p] <= acts
      /\ MaxActs \in Nat /\ acts \in 0 .. MaxActs
      /\ \A p \in Joins!Databases : money[p] \in 0 .. MaxActs
  BY JoinTypesAre DEF JoinTypes, Balances
<1> QED
  BY <1>1

\* A federationList is a balance for each of some federations.
LEMMA ListsAre ==
    ASSUME NEW S \in SUBSET Feds, NEW f, f = [g \in S |-> f[g]],
           \A g \in S : f[g] \in Balances
    PROVE  f \in Joins!Lists
  BY DEF Joins!Lists, Balances

\* And the other way round.
LEMMA ListIs ==
    ASSUME NEW f \in Joins!Lists
    PROVE  /\ DOMAIN f \in SUBSET Feds /\ f = [g \in DOMAIN f |-> f[g]]
           /\ \A g \in DOMAIN f : f[g] \in Balances
  BY DEF Joins!Lists, Balances

\* What the bridge answers, and what the app starts with, is a federationList.
LEMMA AnswerIsList ==
    ASSUME Joins!FederationsAssumption, JoinTypes, NEW db \in [Feds -> 0 .. prefix]
    PROVE  [f \in {g \in Feds : db[g] # 0} |-> money[db[f]]] \in Joins!Lists
<1> DEFINE S == {g \in Feds : db[g] # 0}
           answer == [f \in S |-> money[db[f]]]
<1>1. ASSUME NEW f \in S PROVE answer[f] \in Balances
  <2>1. db[f] \in Joins!Databases
    BY JoinTypesAre DEF Joins!Databases
  <2> QED
    BY <2>1, JoinTypesAre
<1>2. answer = [f \in S |-> answer[f]] /\ S \in SUBSET Feds
  OBVIOUS
<1> HIDE DEF answer
<1>3. answer \in Joins!Lists
  BY <1>1, <1>2, ListsAre
<1> QED
  BY <1>3 DEF answer

\* It holds at first.
LEMMA JoinTypesStart ==
    Joins!FederationsAssumption /\ Joins!Init => JoinTypes
<1> SUFFICES ASSUME Joins!FederationsAssumption, Joins!Init PROVE JoinTypes
  OBVIOUS
<1>1. MaxPrefix \in Nat /\ MaxActs \in Nat
  BY DEF Joins!FederationsAssumption
<1>2. Joins!NoList \in Joins!Lists
  <2>1. Joins!NoList = [g \in {} |-> Joins!NoList[g]]
    BY DEF Joins!NoList
  <2> QED
    BY <2>1, ListsAre
<1>3. events \in Seq([fed : Feds, balance : 0 .. MaxActs])
  BY DEF Joins!Init
<1>4. Joins!TypeOK
  BY <1>1, <1>2, <1>3 DEF Joins!Init, Joins!TypeOK, Joins!Asked
<1>5. (\A p \in Joins!Databases : money[p] <= acts) /\ join = [j \in Joiners |-> join[j]]
  BY DEF Joins!Init
<1>6. /\ snap = [t \in Joins!Tasks |-> snap[t]]
      /\ \A j \in Joiners : ~ snap[j].open
  BY DEF Joins!Init, Joins!Asked, Joins!Tasks
<1> QED
  BY <1>4, <1>5, <1>6 DEF JoinTypes

\* What the steps of joins leave alone.
Bank == <<money, acts, snap, events, active, mods>>
\* Every step keeps the types.
LEMMA JoinTypesStep ==
    ASSUME Joins!FederationsAssumption, JoinTypes, [Joins!Next]_Joins!vars
    PROVE  JoinTypes'
<1> USE DEF Balances
<1>1. ASSUME NEW j \in Joiners, NEW f \in Feds, Joins!Join(j, f) PROVE JoinTypes'
  <2>1. /\ prefix < MaxPrefix /\ prefix' = prefix + 1 /\ join[j] = Joins!Idle
        /\ join' = [join EXCEPT ![j] = [at |-> "joining", fed |-> f, db |-> prefix']]
        /\ UNCHANGED <<saved, running, Bank, leaving, federationList>>
    BY <1>1 DEF Joins!Join, Joins!redux, Bank
  <2>2. /\ prefix' \in 0 .. MaxPrefix
        /\ saved' \in [Feds -> 0 .. prefix'] /\ running' \in [Feds -> 0 .. prefix']
        /\ \A k \in Joiners :
             \/ join'[k] = Joins!Idle
             \/ join'[k] \in [at : {"joining", "joined"}, fed : Feds, db : 1 .. prefix']
    <3>1. prefix' \in 0 .. MaxPrefix /\ prefix' \in 1 .. prefix'
          /\ 0 .. prefix \subseteq 0 .. prefix' /\ 1 .. prefix \subseteq 1 .. prefix'
      BY <2>1, JoinTypesAre
    <3>2. saved' \in [Feds -> 0 .. prefix'] /\ running' \in [Feds -> 0 .. prefix']
      BY <2>1, <3>1, JoinTypesAre
    <3>3. ASSUME NEW k \in Joiners
          PROVE  \/ join'[k] = Joins!Idle
                 \/ join'[k] \in [at : {"joining", "joined"}, fed : Feds, db : 1 .. prefix']
      <4>1. join'[k] = IF k = j THEN [at |-> "joining", fed |-> f, db |-> prefix'] ELSE join[k]
        BY <2>1 DEF JoinTypes
      <4> QED
        BY <3>1, <4>1, JoinTypesAre
    <3> QED
      BY <3>1, <3>2, <3>3
  <2>3. Joins!TypeOK'
    BY <2>1, <2>2, JoinTypesAre DEF Joins!TypeOK, Bank
  <2>4. \A k \in Joiners : snap[k].open => join'[k] = join[k]
    BY <2>1 DEF JoinTypes, Joins!Idle
  <2> QED
    BY <2>1, <2>3, <2>4 DEF JoinTypes, Bank
<1>2. ASSUME NEW j \in Joiners, Joins!JoinFails(j) PROVE JoinTypes'
  <2>1. /\ join[j].at = "joining" /\ join' = [join EXCEPT ![j] = Joins!Idle]
        /\ UNCHANGED <<prefix, saved, running, Bank, leaving, federationList>>
    BY <1>2 DEF Joins!JoinFails, Joins!bridge, Joins!redux, Bank
  <2>3. Joins!TypeOK'
    BY <2>1, JoinTypesAre DEF Joins!TypeOK, Bank, JoinTypes
  <2>4. \A k \in Joiners : snap[k].open => join'[k] = join[k]
    BY <2>1 DEF JoinTypes
  <2> QED
    BY <2>1, <2>3, <2>4 DEF JoinTypes, Bank
<1>3. ASSUME NEW j \in Joiners, Joins!Joined(j) PROVE JoinTypes'
  <2>1. /\ join[j].at = "joining" /\ join' = [join EXCEPT ![j].at = "joined"]
        /\ Joins!Insert(j, join[j].fed, join[j].db)
        /\ UNCHANGED <<prefix, Bank, leaving, federationList>>
    BY <1>3 DEF Joins!Joined, Joins!redux, Bank
  <2>2. join[j] \in [at : {"joining", "joined"}, fed : Feds, db : 1 .. prefix]
    BY <2>1, JoinTypesAre DEF Joins!Idle
  <2>3. saved' \in [Feds -> 0 .. prefix] /\ running' \in [Feds -> 0 .. prefix]
    BY <2>1, <2>2, JoinTypesAre DEF Joins!Insert
  <2>4. join'[j] \in [at : {"joining", "joined"}, fed : Feds, db : 1 .. prefix]
    BY <2>1, <2>2 DEF JoinTypes
  <2>5. Joins!TypeOK'
    BY <2>1, <2>3, <2>4, JoinTypesAre DEF Joins!TypeOK, Bank, JoinTypes
  <2>6. \A k \in Joiners : snap[k].open => join'[k].at = "joined"
    BY <2>1 DEF JoinTypes
  <2> QED
    BY <2>1, <2>5, <2>6 DEF JoinTypes, Bank
<1>4. ASSUME NEW f \in Feds, Joins!Forget(f) PROVE JoinTypes'
  <2>1. /\ saved' = [saved EXCEPT ![f] = 0] /\ leaving' = leaving \cup {f}
        /\ acts < MaxActs /\ acts' = acts + 1
        /\ UNCHANGED <<prefix, running, money, join, snap, events, active, mods, federationList>>
    BY <1>4 DEF Joins!Forget, Joins!Act, Joins!redux
  <2>2. saved' \in [Feds -> 0 .. prefix] /\ acts' \in 0 .. MaxActs
    BY <2>1, JoinTypesAre
  <2>3. Joins!TypeOK'
    BY <2>1, <2>2, JoinTypesAre DEF Joins!TypeOK
  <2>4. \A p \in Joins!Databases : money[p] <= acts'
    BY <2>1, MoneyIs
  <2> QED
    BY <2>1, <2>3, <2>4 DEF JoinTypes
<1>5. ASSUME NEW f \in Feds, Joins!Leave(f) PROVE JoinTypes'
  <2>1. /\ leaving' = leaving \ {f} /\ running' = [running EXCEPT ![f] = 0]
        /\ federationList' = [g \in DOMAIN federationList \ {f} |-> federationList[g]]
        /\ active' \in DOMAIN federationList' \cup {"none", active}
        /\ mods' = mods \ {f}
        /\ UNCHANGED <<prefix, saved, money, join, snap, events, acts>>
    BY <1>5 DEF Joins!Leave
  <2>2. running' \in [Feds -> 0 .. prefix]
    BY <2>1, JoinTypesAre
  <2>3. federationList' \in Joins!Lists
    <3>1. /\ DOMAIN federationList' = DOMAIN federationList \ {f}
          /\ DOMAIN federationList' \in SUBSET Feds
          /\ federationList' = [g \in DOMAIN federationList' |-> federationList'[g]]
          /\ \A g \in DOMAIN federationList' : federationList'[g] \in Balances
      BY <2>1, JoinTypesAre, ListIs
    <3> QED
      BY <3>1, ListsAre
  <2>4. active' \in Feds \cup {"none"}
    BY <2>1, <2>3, JoinTypesAre, ListIs
  <2>5. Joins!TypeOK'
    BY <2>1, <2>2, <2>3, <2>4, JoinTypesAre DEF Joins!TypeOK
  <2> QED
    BY <2>1, <2>5 DEF JoinTypes
<1>6. ASSUME NEW f \in Feds, Joins!Receive(f) PROVE JoinTypes'
  <2> DEFINE p == running[f]
  <2>1. /\ p # 0 /\ acts < MaxActs /\ acts' = acts + 1
        /\ money' = [money EXCEPT ![p] = @ + 1]
        /\ events' = Append(events, [fed |-> f, balance |-> money'[p]])
        /\ UNCHANGED <<prefix, saved, running, leaving, join, snap, active, mods, federationList>>
    BY <1>6 DEF Joins!Receive, Joins!Act, Joins!redux
  <2>2. p \in Joins!Databases
    BY <2>1, JoinTypesAre DEF Joins!Databases
  <2> HIDE DEF p
  <2>3. /\ money'[p] \in 0 .. MaxActs /\ acts' \in 0 .. MaxActs
        /\ \A q \in Joins!Databases : money'[q] <= acts' /\ money'[q] \in 0 .. MaxActs
    <3>1. \A q \in Joins!Databases : money'[q] = IF q = p THEN money[q] + 1 ELSE money[q]
      BY <2>1, JoinTypesAre
    <3>2. \A q \in Joins!Databases : money'[q] \in Nat /\ money'[q] <= acts + 1
      BY <3>1, MoneyIs
    <3> QED
      BY <2>1, <2>2, <3>2, MoneyIs
  <2>4. money' \in [Joins!Databases -> 0 .. MaxActs]
    BY <2>1, <2>3, JoinTypesAre
  <2>5. events' \in Seq([fed : Feds, balance : 0 .. MaxActs])
    BY <2>1, <2>3, JoinTypesAre
  <2>6. Joins!TypeOK'
    BY <2>1, <2>3, <2>4, <2>5, JoinTypesAre DEF Joins!TypeOK
  <2> QED
    BY <2>1, <2>3, <2>6 DEF JoinTypes
<1>7. CASE Joins!UpdateBalance
  <2> DEFINE e == Head(events)
  <2>1. /\ events # <<>> /\ events' = Tail(events)
        /\ federationList' = [g \in DOMAIN federationList |->
                                 IF g = e.fed THEN e.balance ELSE federationList[g]]
        /\ UNCHANGED <<prefix, saved, running, money, leaving, join, snap, active, mods, acts>>
    BY <1>7 DEF Joins!UpdateBalance, Joins!bridge
  <2> DEFINE E == [fed : Feds, balance : Balances]
  <2>2. e \in E /\ events' \in Seq(E)
    <3>1. events \in Seq(E)
      BY JoinTypesAre
    <3> HIDE DEF E
    <3> QED
      BY <2>1, <3>1
  <2> HIDE DEF e
  <2>3. federationList' \in Joins!Lists
    <3>1. /\ DOMAIN federationList' = DOMAIN federationList
          /\ DOMAIN federationList' \in SUBSET Feds
          /\ federationList' = [g \in DOMAIN federationList' |-> federationList'[g]]
          /\ \A g \in DOMAIN federationList' : federationList'[g] \in Balances
      BY <2>1, <2>2, JoinTypesAre, ListIs
    <3> QED
      BY <3>1, ListsAre
  <2>4. Joins!TypeOK'
    BY <2>1, <2>2, <2>3, JoinTypesAre DEF Joins!TypeOK
  <2> QED
    BY <2>1, <2>4 DEF JoinTypes
<1>8. ASSUME NEW t \in Joins!Tasks, Joins!Refresh(t) PROVE JoinTypes'
  <2> DEFINE answer == [f \in Joins!Running |-> money[running[f]]]
  <2>1. /\ t \in Joiners => join[t].at = "joined"
        /\ snap' = [snap EXCEPT ![t] = [open |-> TRUE, of |-> answer]]
        /\ UNCHANGED <<prefix, saved, running, money, leaving, join, events, federationList,
                       active, mods, acts>>
    BY <1>8 DEF Joins!Refresh, Joins!bridge, Joins!redux
  <2>2. answer \in Joins!Lists
    BY JoinTypesAre, AnswerIsList DEF Joins!Running
  <2> HIDE DEF answer
  <2>3. \A u \in Joins!Tasks : snap'[u] \in [open : BOOLEAN, of : Joins!Lists]
    BY <2>1, <2>2, JoinTypesAre DEF JoinTypes
  <2>4. Joins!TypeOK'
    BY <2>1, <2>3, JoinTypesAre DEF Joins!TypeOK
  <2>5. \A j \in Joiners : snap'[j].open => join[j].at = "joined"
    BY <2>1 DEF JoinTypes, Joins!Tasks
  <2> QED
    BY <2>1, <2>4, <2>5 DEF JoinTypes
<1>9. ASSUME NEW t \in Joins!Tasks, Joins!Refreshed(t) PROVE JoinTypes'
  <2>1. /\ snap[t].open /\ federationList' = snap[t].of
        /\ snap' = [snap EXCEPT ![t] = Joins!Asked]
        /\ IF t \in Joiners
           THEN active' = join[t].fed /\ join' = [join EXCEPT ![t] = Joins!Idle]
           ELSE UNCHANGED <<active, join>>
        /\ UNCHANGED <<prefix, saved, running, money, leaving, events, mods, acts>>
    BY <1>9 DEF Joins!Refreshed, Joins!Listed, Joins!bridge
  <2>2. federationList' \in Joins!Lists
    BY <2>1, JoinTypesAre
  <2>3. Joins!Asked \in [open : BOOLEAN, of : Joins!Lists] /\ ~ Joins!Asked.open
    <3>1. Joins!NoList = [g \in {} |-> Joins!NoList[g]]
      BY DEF Joins!NoList
    <3>2. Joins!NoList \in Joins!Lists
      BY <3>1, ListsAre
    <3> QED
      BY <3>2 DEF Joins!Asked
  <2>4. \A u \in Joins!Tasks : snap'[u] \in [open : BOOLEAN, of : Joins!Lists]
    BY <2>1, <2>3, JoinTypesAre DEF JoinTypes
  <2>5. active' \in Feds \cup {"none"}
    <3>1. CASE t \in Joiners
      <4>1. join[t].at = "joined"
        BY <2>1, <3>1 DEF JoinTypes
      <4>2. join[t].fed \in Feds
        BY <3>1, <4>1, JoinTypesAre DEF Joins!Idle
      <4> QED
        BY <2>1, <3>1, <4>2
    <3>2. CASE t \notin Joiners
      BY <2>1, <3>2, JoinTypesAre
    <3> QED
      BY <3>1, <3>2
  <2>6. /\ join' = [j \in Joiners |-> join'[j]]
        /\ \A j \in Joiners : join'[j] = join[j] \/ (join'[j] = Joins!Idle /\ j = t)
    BY <2>1 DEF JoinTypes
  <2>7. Joins!TypeOK'
    BY <2>1, <2>2, <2>4, <2>5, <2>6, JoinTypesAre DEF Joins!TypeOK
  <2>8. \A j \in Joiners : snap'[j].open => join'[j].at = "joined"
    BY <2>1, <2>3, <2>6 DEF JoinTypes, Joins!Tasks
  <2> QED
    BY <2>1, <2>6, <2>7, <2>8 DEF JoinTypes
<1>10. ASSUME NEW f \in Feds, Joins!MetadataArrives(f) \/ Joins!Switch(f)
       PROVE  JoinTypes'
  <2>1. /\ active' \in {active, f} /\ mods' \subseteq mods \cup {f}
        /\ UNCHANGED <<prefix, saved, running, money, leaving, join, snap, events,
                       federationList, acts>>
    BY <1>10 DEF Joins!MetadataArrives, Joins!Switch, Joins!bridge
  <2>2. Joins!TypeOK'
    BY <2>1, JoinTypesAre DEF Joins!TypeOK
  <2> QED
    BY <2>1, <2>2 DEF JoinTypes
<1>11. CASE Joins!Restart
  <2>1. /\ acts < MaxActs /\ acts' = acts + 1
        /\ running' = saved /\ leaving' = {}
        /\ join' = [j \in Joiners |-> Joins!Idle]
        /\ snap' = [t \in Joins!Tasks |-> Joins!Asked]
        /\ events' = <<>>
        /\ federationList' = [f \in {g \in Feds : saved[g] # 0} |-> money[saved[f]]]
        /\ UNCHANGED <<prefix, saved, money, active, mods>>
    BY <1>11 DEF Joins!Restart, Joins!Act
  <2>2. federationList' \in Joins!Lists
    BY <2>1, JoinTypesAre, AnswerIsList
  <2>3. Joins!Asked \in [open : BOOLEAN, of : Joins!Lists] /\ ~ Joins!Asked.open
    <3>1. Joins!NoList = [g \in {} |-> Joins!NoList[g]]
      BY DEF Joins!NoList
    <3>2. Joins!NoList \in Joins!Lists
      BY <3>1, ListsAre
    <3> QED
      BY <3>2 DEF Joins!Asked
  <2>4. acts' \in 0 .. MaxActs /\ \A p \in Joins!Databases : money[p] <= acts'
    BY <2>1, MoneyIs
  <2>5. events' \in Seq([fed : Feds, balance : 0 .. MaxActs])
    BY <2>1
  <2>6. Joins!TypeOK'
    BY <2>1, <2>2, <2>3, <2>4, <2>5, JoinTypesAre DEF Joins!TypeOK
  <2> QED
    BY <2>1, <2>3, <2>4, <2>6 DEF JoinTypes, Joins!Tasks
<1>12. CASE UNCHANGED Joins!vars
  <2>1. UNCHANGED <<prefix, saved, running, money, leaving, join, snap, events, federationList,
                    active, mods, acts>>
    BY <1>12 DEF Joins!vars, Joins!bridge, Joins!redux
  <2> QED
    BY <2>1 DEF JoinTypes, Joins!TypeOK
<1> QED
  BY <1>1, <1>2, <1>3, <1>4, <1>5, <1>6, <1>7, <1>8, <1>9, <1>10, <1>11, <1>12
     DEF Joins!Next

\* A join gives a federation a client of its own, the one that is saved, and what
\* is listed and received stays well typed.
THEOREM JoinsAlwaysSafe ==
    ASSUME Joins!FederationsAssumption, JoinsOverlap = FALSE
    PROVE  Joins!Spec => [](Joins!TypeOK /\ Joins!JoinsAreSafe)
<1>1. JoinTypes => Joins!TypeOK
  BY DEF JoinTypes
<1>3. Joins!RunningIsSaved /\ Joins!DatabasesAreApart => Joins!JoinsAreSafe
  BY DEF Joins!JoinsAreSafe
<1>2. Joins!Spec => []JoinTypes
  BY JoinTypesStart, JoinTypesStep, PTL DEF Joins!Spec
<1> QED
  BY <1>1, <1>2, <1>3, WhatRunsIsSaved, DatabasesOfTheirOwn, PTL

-----------------------------------------------------------------------------
(* FediFees *)

\* FediFees adds up amounts as Msats does.
LEMMA SameTotal ==
    ASSUME NEW f PROVE Fees!Total(f) = Total(f)
  BY DEF Fees!Total, Fees!Coins, Total, Coins, Fees!Cardinality, Cardinality

\* Nor do they differ in what is finite.
LEMMA SameFinite ==
    ASSUME NEW S PROVE Fees!IsFiniteSet(S) <=> IsFiniteSet(S)
  BY DEF Fees!IsFiniteSet, IsFiniteSet

\* One more amount is added to a total.
LEMMA TotalWith ==
    ASSUME NEW f, IsAmounts(f), NEW x, x \notin DOMAIN f,
           NEW g, DOMAIN g = DOMAIN f \cup {x}, g[x] \in Nat,
           \A y \in DOMAIN f : g[y] = f[y]
    PROVE  IsAmounts(g) /\ Total(g) = Total(f) + g[x]
<1> DEFINE one == [y \in {x} |-> g[x]]
<1>1. IsFiniteSet({x}) /\ IsFiniteSet(DOMAIN f)
  BY FS_Singleton DEF IsAmounts
<1>2. IsFiniteSet(DOMAIN f \cup {x})
  BY <1>1, FS_Union
<1>3. IsAmounts(one) /\ DOMAIN one = {x} /\ one[x] = g[x]
  BY <1>1 DEF IsAmounts
<1>4. IsAmounts(g)
  BY <1>2 DEF IsAmounts
<1> HIDE DEF one
<1>5. Total(g) = Total(f) + Total(one)
  BY <1>3, <1>4, TotalSplit
<1>6. Total(one) = g[x]
  BY <1>3, TotalOne
<1> QED
  BY <1>4, <1>5, <1>6

\* The fees of one more operation.
LEMMA FeesAddUp ==
    ASSUME Fees!FediFeesAssumption, NEW S, S \subseteq Fees!Operations
    PROVE  /\ Fees!FeesOf(S) \in Nat
           /\ \A o \in Fees!Operations \ S :
                Fees!FeesOf(S \cup {o}) = Fees!FeesOf(S) + OperationFee[o]
<1> DEFINE f(T) == [o \in T |-> OperationFee[o]]
<1>0. IsFiniteSet(Fees!Operations)
  BY SameFinite DEF Fees!FediFeesAssumption
<1>1. \A T : Fees!FeesOf(T) = Total(f(T))
  BY SameTotal DEF Fees!FeesOf
<1>2. \A o \in Fees!Operations : OperationFee[o] \in Nat
  BY DEF Fees!FediFeesAssumption
<1>3. IsAmounts(f(S))
  BY <1>0, <1>2, FS_Subset DEF IsAmounts
<1> HIDE DEF f
<1>4. Total(f(S)) \in Nat
  BY <1>3, TotalType
<1>5. ASSUME NEW o \in Fees!Operations \ S
      PROVE  Total(f(S \cup {o})) = Total(f(S)) + OperationFee[o]
  <2>1. /\ DOMAIN f(S) = S /\ DOMAIN f(S \cup {o}) = DOMAIN f(S) \cup {o}
        /\ f(S \cup {o})[o] = OperationFee[o]
        /\ \A x \in DOMAIN f(S) : f(S \cup {o})[x] = f(S)[x]
    BY DEF f
  <2>2. o \notin DOMAIN f(S) /\ f(S \cup {o})[o] \in Nat
    BY <1>2, <2>1
  <2>3. Total(f(S \cup {o})) = Total(f(S)) + f(S \cup {o})[o]
    BY <1>3, <2>1, <2>2, TotalWith
  <2> QED
    BY <2>1, <2>3
<1> QED
  BY <1>1, <1>4, <1>5

\* What the counters rest on: a call goes through its steps before the operation
\* has a status, and a remittance is asked for above the threshold only.
CallInOrder(o) ==
    /\ status[o] # "none" => op[o] # "none"
    /\ calls[o] = "checked" => op[o] = "none" /\ o \in FeeSends
    /\ calls[o] = "funded" => status[o] = "none" /\ op[o] # "none"

Slots == 1 .. MaxRemits
RemitType == [of : Fees!Directions, fees : Nat,
              step : {"off", "begun", "paid", "waiting", "refunding"},
              payment : {"none", "active", "success", "failed"}]
CanBePaid(r) == r.step = "begun" \/ r.payment = "active" => Base <= r.fees

FeesInv ==
    /\ Fees!TypeOK
    /\ remits = [r \in Slots |-> remits[r]]
    /\ \A r \in Slots : CanBePaid(remits[r])
    /\ \A o \in Fees!Operations : CallInOrder(o)
    /\ Fees!PendingIsOfSends

\* It holds at first.
LEMMA FeesStart == Fees!FediFeesAssumption /\ Fees!Init => FeesInv
<1> SUFFICES ASSUME Fees!FediFeesAssumption, Fees!Init PROVE FeesInv
  OBVIOUS
<1>1. Fees!TypeOK /\ remits = [r \in Slots |-> remits[r]]
  BY DEF Fees!FediFeesAssumption, Fees!Init, Fees!TypeOK, Fees!NoRemit,
         Fees!Directions, Slots
<1>2. \A r \in Slots : CanBePaid(remits[r])
  BY DEF Fees!Init, Fees!NoRemit, Slots, CanBePaid
<1>3. \A o \in Fees!Operations : CallInOrder(o)
  BY DEF Fees!Init, CallInOrder
<1>4. Fees!PendingIsOfSends
  <2>1. {o \in FeeSends : status[o] = "pending"} = {}
    BY DEF Fees!Init, Fees!Operations
  <2>2. Fees!FeesOf({}) = 0
    <3>1. DOMAIN [o \in {} |-> OperationFee[o]] = {}
      OBVIOUS
    <3> QED
      BY <3>1, SameTotal, TotalEmpty DEF Fees!FeesOf
  <2> QED
    BY <2>1, <2>2 DEF Fees!PendingIsOfSends, Fees!Init
<1> QED
  BY <1>1, <1>2, <1>3, <1>4 DEF FeesInv

\* A step that leaves the statuses and the counter of sends alone.
LEMMA PendingStays ==
    ASSUME Fees!PendingIsOfSends, UNCHANGED <<pending, status>>
    PROVE  Fees!PendingIsOfSends'
  BY DEF Fees!PendingIsOfSends, Fees!FeesOf, Fees!Total, Fees!Coins

\* Calls and payments keep it.
LEMMA CallKeeps ==
    ASSUME Fees!FediFeesAssumption, FeesInv, NEW o \in Fees!Operations,
           \/ Fees!Check(o) \/ Fees!Fund(o) \/ Fees!BeginReceive(o)
           \/ Fees!Resolve(o) \/ Fees!TimeOut(o)
    PROVE  FeesInv'
<1> USE DEF FeesInv
<1>1. UNCHANGED <<status, pending, outstanding, checks, remits>>
  BY DEF Fees!Check, Fees!Fund, Fees!BeginReceive, Fees!Resolve, Fees!TimeOut
<1>2. /\ AmountIn[o] \in Nat
      /\ ecash \in Nat
      /\ op \in [Fees!Operations -> {"none", "active", "success", "failed"}]
      /\ calls \in [Fees!Operations -> {"none", "checked", "funded"}]
      /\ watching \subseteq Fees!Operations
  BY DEF Fees!FediFeesAssumption, Fees!TypeOK
<1>3. /\ ecash' \in Nat
      /\ op' \in [Fees!Operations -> {"none", "active", "success", "failed"}]
      /\ calls' \in [Fees!Operations -> {"none", "checked", "funded"}]
      /\ watching' \subseteq Fees!Operations
  BY <1>2 DEF Fees!Check, Fees!Fund, Fees!BeginReceive, Fees!Resolve, Fees!TimeOut
<1>4. Fees!TypeOK'
  BY <1>1, <1>3 DEF Fees!TypeOK
<1>5. ASSUME NEW p \in Fees!Operations PROVE CallInOrder(p)'
  <2>1. CallInOrder(p) /\ CallInOrder(o)
    OBVIOUS
  <2> QED
    BY <1>1, <1>2, <2>1
       DEF Fees!Check, Fees!Fund, Fees!BeginReceive, Fees!Resolve, Fees!TimeOut,
           CallInOrder
<1> QED
  BY <1>1, <1>4, <1>5, PendingStays DEF CanBePaid

PendingSends == {s \in FeeSends : status[s] = "pending"}

\* So does the write that reserves a fee.
LEMMA WritePendingKeeps ==
    ASSUME Fees!FediFeesAssumption, FeesInv, NEW o \in Fees!Operations,
           Fees!WritePending(o)
    PROVE  FeesInv'
<1> USE DEF FeesInv
<1>1. /\ calls[o] = "funded" /\ status[o] = "none" /\ op[o] # "none"
      /\ status' = [status EXCEPT ![o] = "pending"]
      /\ pending' = pending + Fees!Reserved(o)
      /\ calls' = [calls EXCEPT ![o] = "none"]
      /\ watching' = watching \cup {o}
      /\ UNCHANGED <<ecash, op, outstanding, checks, remits, crashes>>
  BY DEF Fees!WritePending, CallInOrder
<1>2. /\ OperationFee[o] \in Nat /\ pending \in Nat
      /\ FeeSends \subseteq Fees!Operations
      /\ status \in [Fees!Operations -> {"none", "pending", "success", "failed"}]
  BY DEF Fees!FediFeesAssumption, Fees!TypeOK, Fees!Operations
<1>0. pending' = IF o \in FeeSends THEN pending + OperationFee[o] ELSE pending
  BY <1>1, <1>2 DEF Fees!Reserved
<1>3. Fees!TypeOK'
  <2>1. pending' \in Nat
    BY <1>0, <1>2
  <2>2. /\ status' \in [Fees!Operations -> {"none", "pending", "success", "failed"}]
        /\ calls' \in [Fees!Operations -> {"none", "checked", "funded"}]
        /\ watching' \subseteq Fees!Operations
    BY <1>1, <1>2 DEF Fees!TypeOK
  <2> QED
    BY <1>1, <2>1, <2>2 DEF Fees!TypeOK
<1>4. ASSUME NEW p \in Fees!Operations PROVE CallInOrder(p)'
  <2>1. CallInOrder(p) /\ CallInOrder(o)
    OBVIOUS
  <2> QED
    BY <1>1, <1>2, <2>1 DEF CallInOrder, Fees!TypeOK
<1>5. Fees!PendingIsOfSends'
  <2>1. pending = Fees!FeesOf(PendingSends)
    BY DEF Fees!PendingIsOfSends, PendingSends
  <2>2. PendingSends' = IF o \in FeeSends THEN PendingSends \cup {o} ELSE PendingSends
    BY <1>1, <1>2 DEF PendingSends
  <2>3. o \notin PendingSends /\ PendingSends \subseteq Fees!Operations
    BY <1>1, <1>2 DEF PendingSends
  <2>4. Fees!FeesOf(PendingSends \cup {o}) = Fees!FeesOf(PendingSends) + OperationFee[o]
    BY <2>3, FeesAddUp
  <2>5. pending' = Fees!FeesOf(PendingSends')
    BY <1>0, <2>1, <2>2, <2>4
  <2> QED
    BY <2>5 DEF Fees!PendingIsOfSends, PendingSends, Fees!FeesOf, Fees!Total, Fees!Coins
<1> QED
  BY <1>1, <1>3, <1>4, <1>5 DEF CanBePaid

\* So does the write that ends a reservation: the fee is taken off a counter
\* that covers it.
LEMMA ObserveKeeps ==
    ASSUME Fees!FediFeesAssumption, FeesInv, NEW o \in Fees!Operations,
           Fees!Observe(o)
    PROVE  FeesInv'
<1> USE DEF FeesInv
<1>1. /\ op[o] \in {"success", "failed"}
      /\ watching' = watching \ {o}
      /\ status' = [status EXCEPT ![o] = IF @ = "pending" THEN op[o] ELSE @]
      /\ pending' = IF status[o] = "pending"
                    THEN Fees!Less(pending, Fees!Reserved(o)) ELSE pending
      /\ UNCHANGED <<ecash, op, calls, remits, crashes>>
  BY DEF Fees!Observe
<1>2. /\ OperationFee[o] \in Nat /\ pending \in Nat
      /\ outstanding \in [Fees!Directions -> Nat]
      /\ Fees!DirectionOf(o) \in Fees!Directions
      /\ FeeSends \subseteq Fees!Operations
      /\ status \in [Fees!Operations -> {"none", "pending", "success", "failed"}]
      /\ checks \subseteq Fees!Directions /\ watching \subseteq Fees!Operations
  BY DEF Fees!FediFeesAssumption, Fees!TypeOK, Fees!Operations, Fees!DirectionOf,
         Fees!Directions
<1>0. pending' = IF status[o] = "pending" /\ o \in FeeSends
                THEN Fees!Less(pending, OperationFee[o]) ELSE pending
  BY <1>1, <1>2 DEF Fees!Reserved, Fees!Less
<1>3. outstanding' \in [Fees!Directions -> Nat] /\ checks' \subseteq Fees!Directions
  BY <1>2 DEF Fees!Observe
<1>4. /\ pending' \in Nat
      /\ status' \in [Fees!Operations -> {"none", "pending", "success", "failed"}]
      /\ watching' \subseteq Fees!Operations
  BY <1>0, <1>1, <1>2 DEF Fees!Less
<1>5. Fees!TypeOK'
  BY <1>1, <1>3, <1>4 DEF Fees!TypeOK
<1>6. ASSUME NEW p \in Fees!Operations PROVE CallInOrder(p)'
  <2>1. CallInOrder(p) /\ CallInOrder(o)
    OBVIOUS
  <2> QED
    BY <1>1, <1>2, <2>1 DEF CallInOrder
<1>7. Fees!PendingIsOfSends'
  <2>1. pending = Fees!FeesOf(PendingSends)
    BY DEF Fees!PendingIsOfSends, PendingSends
  <2>2. pending' = Fees!FeesOf(PendingSends')
    <3>1. CASE o \in PendingSends
      <4>1. PendingSends' = PendingSends \ {o} /\ status[o] = "pending" /\ o \in FeeSends
        BY <1>1, <1>2, <3>1 DEF PendingSends
      <4>2. /\ PendingSends' \subseteq Fees!Operations
            /\ o \notin PendingSends'
            /\ PendingSends = PendingSends' \cup {o}
        BY <1>2, <3>1, <4>1 DEF PendingSends
      <4> DEFINE rest == PendingSends'
      <4> HIDE DEF rest
      <4>3. /\ Fees!FeesOf(rest) \in Nat
            /\ Fees!FeesOf(rest \cup {o}) = Fees!FeesOf(rest) + OperationFee[o]
        BY <4>2, FeesAddUp DEF rest
      <4>4. pending' = Fees!Less(pending, OperationFee[o])
        BY <1>0, <4>1
      <4>5. pending = Fees!FeesOf(rest) + OperationFee[o]
        BY <2>1, <4>2, <4>3 DEF rest
      <4>6. pending' = Fees!FeesOf(rest)
        BY <1>2, <4>3, <4>4, <4>5 DEF Fees!Less
      <4> QED
        BY <4>6 DEF rest
    <3>2. CASE o \notin PendingSends
      <4>1. PendingSends' = PendingSends /\ pending' = pending
        BY <1>0, <1>1, <1>2, <3>2 DEF PendingSends
      <4> QED
        BY <2>1, <4>1
    <3> QED
      BY <3>1, <3>2
  <2> QED
    BY <2>2 DEF Fees!PendingIsOfSends, PendingSends, Fees!FeesOf, Fees!Total, Fees!Coins
<1> QED
  BY <1>1, <1>5, <1>6, <1>7 DEF CanBePaid

\* remit_fedi_fee asks for an invoice of the outstanding fees less the fees of
\* the gateway: with these fees, the invoice takes no more than is outstanding.
THEOREM RemittanceIsCovered ==
    ASSUME Fees!FediFeesAssumption, NEW fees \in Nat, Base <= fees
    PROVE  Fees!RemittanceCost(fees) \in Nat /\ Fees!RemittanceCost(fees) <= fees
<1> DEFINE rest == fees - Base
           x    == Fees!RemittanceAmount(fees)
<1>0. Base \in Nat /\ Rate \in Nat
  BY DEF Fees!FediFeesAssumption
<1>1. MILLION \in Nat \ {0}
  BY SpendLimitsAssumption
<1>2. rest \in Nat /\ fees = Base + rest
  BY <1>0
<1> HIDE DEF rest
<1>3. x = (MILLION * rest) \div (MILLION + Rate)
  BY DEF Fees!RemittanceAmount, rest
<1>4. MILLION * rest \in Nat /\ MILLION + Rate \in Nat \ {0}
  BY <1>0, <1>1, <1>2, Products, SMT
<1>5. x \in Nat /\ (MILLION + Rate) * x <= MILLION * rest
  BY <1>3, <1>4, Quotient
<1> HIDE DEF x
<1>6. x * Rate \in Nat /\ MILLION * x \in Nat
  BY <1>0, <1>1, <1>5, Products
<1>7. MILLION * x + x * Rate <= MILLION * rest
  <2>1. (MILLION + Rate) * x = MILLION * x + x * Rate
    BY <1>0, <1>1, <1>5, SMT
  <2> QED
    BY <1>5, <2>1
<1>8. x <= rest
  <2>1. SUFFICES ASSUME rest + 1 <= x PROVE FALSE
    BY <1>2, <1>5, SMT
  <2>2. MILLION * (rest + 1) <= MILLION * x
    BY <1>1, <1>2, <1>5, <2>1, ProductsGrow
  <2>3. MILLION * (rest + 1) = MILLION * rest + MILLION
    BY <1>1, <1>2, SMT
  <2> QED
    BY <1>1, <1>4, <1>6, <1>7, <2>2, <2>3, SMT
<1>9. x * Rate <= MILLION * (rest - x)
  <2>1. MILLION * (rest - x) = MILLION * rest - MILLION * x
    BY <1>1, <1>2, <1>5, SMT
  <2> QED
    BY <1>4, <1>6, <1>7, <2>1, SMT
<1>10. DivCeil(x * Rate) \in Nat /\ DivCeil(x * Rate) <= rest - x
  <2>1. rest - x \in Nat
    BY <1>2, <1>5, <1>8, SMT
  <2> QED
    BY <1>6, <1>9, <2>1, DivCeilIsLeast
<1>11. Fees!RemittanceCost(fees) = x + Base + DivCeil(x * Rate)
  BY DEF Fees!RemittanceCost, Fees!CeilDiv, DivCeil, CeilDiv, x
<1> QED
  BY <1>0, <1>2, <1>5, <1>10, <1>11, SMT

\* A step of a remittance leaves the operations alone.
LEMMA RemittanceKeeps ==
    ASSUME FeesInv, UNCHANGED <<op, status, pending, calls, watching>>,
           ecash' \in Nat, outstanding' \in [Fees!Directions -> Nat],
           checks' \subseteq Fees!Directions,
           remits' = [r \in Slots |-> remits'[r]],
           \A r \in Slots : remits'[r] \in RemitType /\ CanBePaid(remits'[r])
    PROVE  FeesInv'
<1> USE DEF FeesInv
<1>1. Fees!TypeOK'
  BY DEF Fees!TypeOK, Slots, RemitType
<1>2. \A o \in Fees!Operations : CallInOrder(o)'
  BY DEF CallInOrder
<1>3. Fees!PendingIsOfSends'
  BY PendingStays
<1> QED
  BY <1>1, <1>2, <1>3 DEF CanBePaid, Slots

\* The first free slot is one.
LEMMA FreeSlot ==
    ASSUME Fees!FediFeesAssumption, Fees!Free # {}
    PROVE  Fees!Min(Fees!Free) \in Slots /\ remits[Fees!Min(Fees!Free)] = Fees!NoRemit
<1>1. Fees!Free \in SUBSET Nat
  BY DEF Fees!Free, Fees!FediFeesAssumption
<1>2. \E x \in Fees!Free : \A y \in Fees!Free : x <= y
  BY <1>1, LeastNumber
<1>3. Fees!Min(Fees!Free) \in Fees!Free
  BY <1>2 DEF Fees!Min
<1> QED
  BY <1>3 DEF Fees!Free, Slots

\* What the steps of remittances take from the invariant.
LEMMA Typed ==
    ASSUME Fees!FediFeesAssumption, FeesInv
    PROVE  /\ ecash \in Nat /\ outstanding \in [Fees!Directions -> Nat]
           /\ checks \subseteq Fees!Directions
           /\ remits = [r \in Slots |-> remits[r]]
           /\ \A r \in Slots : remits[r] \in RemitType /\ CanBePaid(remits[r])
           /\ Fees!NoRemit \in RemitType /\ CanBePaid(Fees!NoRemit)
           /\ Base \in Nat /\ Threshold \in Nat /\ Base <= Threshold
           /\ MaxRemits \in Nat
  BY DEF FeesInv, Fees!FediFeesAssumption, Fees!TypeOK, Slots, RemitType,
         CanBePaid, Fees!NoRemit, Fees!Directions

\* A remittance that begins keeps it.
LEMMA CheckThresholdKeeps ==
    ASSUME Fees!FediFeesAssumption, FeesInv, NEW d \in Fees!Directions,
           Fees!CheckThreshold(d)
    PROVE  FeesInv'
<1> DEFINE new == [of |-> d, fees |-> outstanding[d], step |-> "begun",
                   payment |-> "none"]
           free == Fees!Min(Fees!Free)
<1>1. /\ checks' = checks \ {d}
      /\ UNCHANGED <<ecash, op, status, pending, outstanding, calls, watching>>
      /\ \/ remits' = remits
         \/ outstanding[d] >= Threshold /\ Fees!Free # {}
            /\ remits' = [remits EXCEPT ![free] = new]
  BY DEF Fees!CheckThreshold
<1>2. outstanding[d] >= Threshold => new \in RemitType /\ CanBePaid(new)
  <2>1. outstanding[d] \in Nat
    BY Typed
  <2> QED
    BY <2>1, Typed DEF RemitType, CanBePaid
<1>3. Fees!Free # {} => free \in Slots
  BY FreeSlot
<1> HIDE DEF new, free
<1>4. remits' = [r \in Slots |-> remits'[r]]
  BY <1>1, Typed
<1>5. ASSUME NEW r \in Slots PROVE remits'[r] \in RemitType /\ CanBePaid(remits'[r])
  <2>1. \/ remits'[r] = remits[r]
        \/ outstanding[d] >= Threshold /\ remits'[r] = new
    BY <1>1, Typed
  <2> QED
    BY <1>2, <2>1, Typed
<1> QED
  BY <1>1, <1>4, <1>5, Typed, RemittanceKeeps

\* So do the steps of a remittance.
LEMMA RemittanceStepKeeps ==
    ASSUME Fees!FediFeesAssumption, FeesInv, NEW r \in Slots,
           Fees!OfRemittance(r)
    PROVE  FeesInv'
<1>1. /\ UNCHANGED <<op, status, pending, calls, watching, checks>>
      /\ \E new : remits' = [remits EXCEPT ![r] = new]
  BY DEF Fees!OfRemittance, Fees!PayRemittance, Fees!Settle,
         Fees!ResolveRemittance, Fees!ObserveRemittance, Fees!PutBack
<1> DEFINE cost == Fees!RemittanceCost(remits[r].fees)
<1>2. remits[r] \in RemitType /\ CanBePaid(remits[r])
  BY Typed
<1>3. Base <= remits[r].fees => cost \in Nat
  BY <1>2, RemittanceIsCovered DEF RemitType
<1> HIDE DEF cost
<1>4. /\ remits'[r] \in RemitType /\ CanBePaid(remits'[r])
      /\ ecash' \in Nat /\ outstanding' \in [Fees!Directions -> Nat]
  <2>1. CASE Fees!PayRemittance(r)
    BY <1>2, <1>3, <2>1, Typed DEF Fees!PayRemittance, cost, RemitType, CanBePaid
  <2>2. CASE Fees!Settle(r)
    BY <1>2, <2>2, Typed DEF Fees!Settle, Fees!Less, RemitType, CanBePaid
  <2>3. CASE Fees!ResolveRemittance(r)
    BY <1>2, <1>3, <2>3, Typed
       DEF Fees!ResolveRemittance, cost, RemitType, CanBePaid
  <2>4. CASE Fees!ObserveRemittance(r)
    BY <1>2, <2>4, Typed DEF Fees!ObserveRemittance, RemitType, CanBePaid
  <2>5. CASE Fees!PutBack(r)
    BY <1>2, <2>5, Typed DEF Fees!PutBack, RemitType, CanBePaid
  <2> QED
    BY <2>1, <2>2, <2>3, <2>4, <2>5 DEF Fees!OfRemittance
<1>5. /\ remits' = [x \in Slots |-> remits'[x]]
      /\ \A x \in Slots : x # r => remits'[x] = remits[x]
  BY <1>1, Typed
<1>6. \A x \in Slots : remits'[x] \in RemitType /\ CanBePaid(remits'[x])
  BY <1>4, <1>5, Typed
<1> QED
  BY <1>1, <1>4, <1>5, <1>6, Typed, RemittanceKeeps

\* So does a restart of the app.
LEMMA FeesRestart ==
    ASSUME Fees!FediFeesAssumption, FeesInv, Fees!Restart
    PROVE  FeesInv'
<1> USE DEF FeesInv
<1>1. /\ calls' = [o \in Fees!Operations |-> "none"]
      /\ watching' \subseteq Fees!Operations
      /\ checks' \subseteq Fees!Directions
      /\ UNCHANGED <<ecash, op, status, pending, outstanding>>
      /\ remits' = [r \in Slots |->
                      IF remits[r].payment = "none" THEN Fees!NoRemit
                      ELSE [remits[r] EXCEPT !.step = "off"]]
  BY DEF Fees!Restart, Slots
<1>2. \A r \in Slots : remits'[r] \in RemitType /\ CanBePaid(remits'[r])
  BY <1>1, Typed DEF RemitType, CanBePaid
<1>3. Fees!TypeOK'
  BY <1>1, <1>2 DEF Fees!TypeOK, Slots, RemitType
<1>4. \A o \in Fees!Operations : CallInOrder(o)'
  BY <1>1 DEF CallInOrder
<1>5. Fees!PendingIsOfSends'
  BY <1>1, PendingStays
<1> QED
  BY <1>1, <1>2, <1>3, <1>4, <1>5 DEF CanBePaid, Slots

\* Every step keeps it.
LEMMA FeesGoOn ==
    Fees!FediFeesAssumption /\ FeesInv /\ [Fees!Next]_Fees!vars => FeesInv'
<1> SUFFICES ASSUME Fees!FediFeesAssumption, FeesInv, [Fees!Next]_Fees!vars
             PROVE  FeesInv'
  OBVIOUS
<1>1. CASE UNCHANGED Fees!vars
  <2>1. UNCHANGED <<op, status, pending, calls, watching, ecash, outstanding,
                    checks, remits>>
    BY <1>1 DEF Fees!vars
  <2> QED
    BY <2>1, Typed, RemittanceKeeps
<1>2. ASSUME NEW o \in Fees!Operations, Fees!OfOperation(o) PROVE FeesInv'
  BY <1>2, CallKeeps, WritePendingKeeps, ObserveKeeps DEF Fees!OfOperation
<1>3. ASSUME NEW d \in Fees!Directions, Fees!CheckThreshold(d) PROVE FeesInv'
  BY <1>3, CheckThresholdKeeps
<1>4. ASSUME NEW r \in Slots, Fees!OfRemittance(r) PROVE FeesInv'
  BY <1>4, RemittanceStepKeeps
<1>5. CASE Fees!Restart
  BY <1>5, FeesRestart
<1> QED
  BY <1>1, <1>2, <1>3, <1>4, <1>5 DEF Fees!Next, Slots

\* The counter of pending fees is that of the sends under way.
THEOREM PendingAddsUp ==
    ASSUME Fees!FediFeesAssumption
    PROVE  Fees!Spec => [](Fees!TypeOK /\ Fees!PendingIsOfSends)
<1>1. FeesInv => Fees!TypeOK /\ Fees!PendingIsOfSends
  BY DEF FeesInv
<1> QED
  BY <1>1, FeesStart, FeesGoOn, PTL DEF Fees!Spec

\* The counter covers the fee of each send under way.
LEMMA PendingCovers ==
    ASSUME Fees!FediFeesAssumption, FeesInv,
           NEW o \in FeeSends, status[o] = "pending"
    PROVE  OperationFee[o] <= pending
<1> DEFINE rest == PendingSends \ {o}
<1>1. /\ rest \subseteq Fees!Operations /\ o \in Fees!Operations \ rest
      /\ PendingSends = rest \cup {o}
  BY DEF PendingSends, Fees!Operations
<1> HIDE DEF rest
<1>2. /\ Fees!FeesOf(rest) \in Nat
      /\ Fees!FeesOf(rest \cup {o}) = Fees!FeesOf(rest) + OperationFee[o]
  BY <1>1, FeesAddUp
<1>3. pending = Fees!FeesOf(PendingSends)
  BY DEF FeesInv, Fees!PendingIsOfSends, PendingSends
<1>4. OperationFee[o] \in Nat
  BY DEF Fees!FediFeesAssumption, Fees!Operations
<1> QED
  BY <1>1, <1>2, <1>3, <1>4

\* What the virtual balance still has to bear when a call is at its step.
ToBear(o) == IF calls[o] = "checked" THEN AmountIn[o] + OperationFee[o]
             ELSE IF calls[o] = "funded" THEN OperationFee[o] ELSE 0

CoveredInv ==
    /\ FeesInv
    /\ \A o, p \in FeeSends : calls[o] # "none" /\ calls[p] # "none" => o = p
    /\ \A o \in FeeSends : ToBear(o) <= Fees!VirtualBalance
    /\ Fees!NoOverdraft

OnlySends == FeeReceipts = {} /\ MaxRemits = 0

\* The balance bears its calls at first.
LEMMA CoveredStart == Fees!FediFeesAssumption /\ Fees!Init => CoveredInv
<1> SUFFICES ASSUME Fees!FediFeesAssumption, Fees!Init PROVE CoveredInv
  OBVIOUS
<1>1. FeesInv
  BY FeesStart
<1>2. /\ Fees!VirtualBalance >= 0
      /\ \A o \in FeeSends : calls[o] = "none"
  BY DEF Fees!Init, Fees!VirtualBalance, Fees!FediFeesAssumption,
         Fees!Directions, Fees!Operations
<1>3. Fees!VirtualBalance \in Int
  BY DEF Fees!Init, Fees!VirtualBalance, Fees!FediFeesAssumption,
         Fees!Directions
<1> QED
  BY <1>1, <1>2, <1>3 DEF CoveredInv, ToBear, Fees!NoOverdraft

\* What the steps below take from the invariant.
LEMMA CoveredTypes ==
    ASSUME Fees!FediFeesAssumption, FeesInv
    PROVE  /\ ecash \in Nat /\ pending \in Nat
           /\ outstanding \in [Fees!Directions -> Nat]
           /\ outstanding["send"] \in Nat /\ outstanding["receive"] \in Nat
           /\ calls \in [Fees!Operations -> {"none", "checked", "funded"}]
           /\ status \in [Fees!Operations -> {"none", "pending", "success", "failed"}]
           /\ \A o \in Fees!Operations : AmountIn[o] \in Nat /\ OperationFee[o] \in Nat
           /\ FeeSends \subseteq Fees!Operations
           /\ Fees!VirtualBalance \in Int
  BY DEF FeesInv, Fees!TypeOK, Fees!FediFeesAssumption, Fees!VirtualBalance,
         Fees!Directions, Fees!Operations

\* A step that leaves the calls as they are, and takes nothing from the balance.
LEMMA CoveredStays ==
    ASSUME Fees!FediFeesAssumption, CoveredInv, FeesInv', calls' = calls,
           Fees!VirtualBalance <= Fees!VirtualBalance',
           Fees!VirtualBalance' \in Int
    PROVE  CoveredInv'
<1>1. \A o \in FeeSends : ToBear(o)' = ToBear(o) /\ ToBear(o) \in Nat
  BY CoveredTypes DEF ToBear, CoveredInv
<1>2. Fees!VirtualBalance \in Int
  BY CoveredTypes DEF CoveredInv
<1>3. \A o \in FeeSends : ToBear(o)' <= Fees!VirtualBalance'
  BY <1>1, <1>2 DEF CoveredInv
<1>4. 0 <= Fees!VirtualBalance'
  BY <1>2 DEF CoveredInv, Fees!NoOverdraft
<1>5. Fees!NoOverdraft'
  BY <1>4 DEF Fees!NoOverdraft
<1> QED
  BY <1>3, <1>5 DEF CoveredInv

\* Every step of a client that only sends keeps it.
LEMMA CoveredStep ==
    ASSUME Fees!FediFeesAssumption, OnlySends, CoveredInv,
           [Fees!Next]_Fees!vars
    PROVE  CoveredInv'
<1>1. FeesInv /\ FeesInv'
  BY FeesGoOn DEF CoveredInv
<1> DEFINE vb == Fees!VirtualBalance
           out == outstanding["send"] + outstanding["receive"]
<1>2. /\ vb \in Int /\ vb' \in Int
      /\ vb = ecash - (out + pending) /\ vb' = ecash' - (out' + pending')
  <2>1. (ecash \in Nat /\ pending \in Nat /\ outstanding \in [Fees!Directions -> Nat])'
    BY <1>1 DEF FeesInv, Fees!TypeOK
  <2> QED
    BY <1>1, <2>1, CoveredTypes DEF Fees!VirtualBalance, Fees!Directions
<1>3. /\ out \in Nat /\ ecash \in Nat /\ pending \in Nat
      /\ calls \in [Fees!Operations -> {"none", "checked", "funded"}]
      /\ Fees!Operations = FeeSends
      /\ \A o \in FeeSends : AmountIn[o] \in Nat /\ OperationFee[o] \in Nat
  BY <1>1, CoveredTypes DEF OnlySends, Fees!Operations
<1>4. /\ \A o, p \in FeeSends : calls[o] # "none" /\ calls[p] # "none" => o = p
      /\ \A o \in FeeSends : calls[o] = "checked" => AmountIn[o] + OperationFee[o] <= vb
      /\ \A o \in FeeSends : calls[o] = "funded" => OperationFee[o] <= vb
      /\ 0 <= vb
  BY <1>2 DEF CoveredInv, ToBear, Fees!NoOverdraft
<1> HIDE DEF vb
<1>5. ASSUME calls' = calls, vb <= vb' PROVE CoveredInv'
  BY <1>1, <1>2, <1>5, CoveredStays DEF vb
<1>6. ASSUME NEW o \in FeeSends, calls' = [calls EXCEPT ![o] = calls'[o]],
             calls'[o] \in {"none", "checked", "funded"},
             \A p \in FeeSends : p # o => calls[p] = "none",
             calls'[o] = "checked" => AmountIn[o] + OperationFee[o] <= vb',
             calls'[o] = "funded" => OperationFee[o] <= vb',
             0 <= vb'
      PROVE  CoveredInv'
  <2>1. \A p \in FeeSends : p # o => calls'[p] = "none"
    BY <1>3, <1>6
  <2>2. \A p \in FeeSends : ToBear(p)' <= vb'
    BY <1>6, <2>1 DEF ToBear
  <2>3. Fees!NoOverdraft'
    BY <1>2, <1>6 DEF Fees!NoOverdraft, vb
  <2>4. (\A p, q \in FeeSends : calls[p] # "none" /\ calls[q] # "none" => p = q)'
    BY <2>1
  <2> QED
    BY <1>1, <2>2, <2>3, <2>4 DEF CoveredInv, vb
<1>7. CASE UNCHANGED Fees!vars
  <2>1. UNCHANGED <<ecash, pending, outstanding, calls>>
    BY <1>7 DEF Fees!vars
  <2> QED
    BY <1>2, <1>5, <2>1
<1>8. ASSUME NEW o \in FeeSends, Fees!Check(o) PROVE CoveredInv'
  <2>1. /\ \A p \in FeeSends : calls[p] = "none"
        /\ AmountIn[o] + OperationFee[o] <= vb
        /\ calls' = [calls EXCEPT ![o] = "checked"]
        /\ UNCHANGED <<ecash, pending, outstanding>>
    BY <1>8 DEF Fees!Check, vb
  <2>2. calls'[o] = "checked" /\ vb' = vb
    BY <1>2, <1>3, <2>1
  <2> QED
    BY <1>4, <1>6, <2>1, <2>2
<1>9. ASSUME NEW o \in FeeSends, Fees!Fund(o) PROVE CoveredInv'
  <2>1. /\ calls[o] = "checked" /\ ecash' = ecash - AmountIn[o]
        /\ calls' = [calls EXCEPT ![o] = "funded"]
        /\ UNCHANGED <<pending, outstanding>>
    BY <1>9 DEF Fees!Fund
  <2>2. calls'[o] = "funded" /\ vb' = vb - AmountIn[o]
    BY <1>2, <1>3, <2>1
  <2>3. OperationFee[o] <= vb' /\ 0 <= vb'
    BY <1>2, <1>3, <1>4, <2>1, <2>2
  <2> QED
    BY <1>4, <1>6, <2>1, <2>2, <2>3
<1>10. ASSUME NEW o \in FeeSends, Fees!WritePending(o) PROVE CoveredInv'
  <2>1. /\ calls[o] = "funded" /\ pending' = pending + OperationFee[o]
        /\ calls' = [calls EXCEPT ![o] = "none"]
        /\ UNCHANGED <<ecash, outstanding>>
    BY <1>10 DEF Fees!WritePending, Fees!Reserved
  <2>2. calls'[o] = "none" /\ vb' = vb - OperationFee[o]
    BY <1>2, <1>3, <2>1
  <2>3. 0 <= vb'
    BY <1>2, <1>3, <1>4, <2>1, <2>2
  <2> QED
    BY <1>4, <1>6, <2>1, <2>2, <2>3
<1>11. ASSUME NEW o \in FeeSends, Fees!Resolve(o) \/ Fees!TimeOut(o)
       PROVE  CoveredInv'
  <2>1. UNCHANGED <<calls, pending, outstanding>>
    BY <1>11 DEF Fees!Resolve, Fees!TimeOut
  <2>2. ecash <= ecash' /\ ecash' \in Nat
    BY <1>3, <1>11 DEF Fees!Resolve, Fees!TimeOut
  <2>3. vb <= vb'
    BY <1>2, <1>3, <2>1, <2>2
  <2> QED
    BY <1>5, <2>1, <2>3
<1>12. ASSUME NEW o \in FeeSends, Fees!Observe(o) PROVE CoveredInv'
  <2>1. UNCHANGED <<calls, ecash>>
    BY <1>12 DEF Fees!Observe
  <2>2. CASE status[o] # "pending"
    <3>1. UNCHANGED <<pending, outstanding>>
      BY <1>12, <2>2 DEF Fees!Observe
    <3> QED
      BY <1>2, <1>5, <2>1, <3>1
  <2>3. CASE status[o] = "pending"
    <3>1. OperationFee[o] <= pending
      BY <1>1, <2>3, PendingCovers
    <3>2. pending' = pending - OperationFee[o]
      BY <1>3, <1>12, <2>3, <3>1 DEF Fees!Observe, Fees!Less, Fees!Reserved
    <3>3. out' = out + OperationFee[o] \/ out' = out
      BY <1>1, <1>3, <1>12, CoveredTypes
         DEF Fees!Observe, Fees!DirectionOf, Fees!Directions
    <3>4. vb <= vb'
      BY <1>2, <1>3, <2>1, <3>2, <3>3
    <3> QED
      BY <1>5, <2>1, <3>4
  <2> QED
    BY <2>2, <2>3
<1>13. ASSUME NEW o \in Fees!Operations, Fees!OfOperation(o) PROVE CoveredInv'
  <2>1. o \in FeeSends /\ ~ Fees!BeginReceive(o)
    BY <1>3 DEF Fees!BeginReceive, OnlySends
  <2> QED
    BY <1>8, <1>9, <1>10, <1>11, <1>12, <1>13, <2>1 DEF Fees!OfOperation
<1>14. ASSUME NEW d \in Fees!Directions, Fees!CheckThreshold(d) PROVE CoveredInv'
  <2>1. UNCHANGED <<ecash, pending, outstanding, calls>>
    BY <1>14 DEF Fees!CheckThreshold
  <2> QED
    BY <1>2, <1>5, <2>1
<1>15. CASE Fees!Restart
  <2>1. /\ UNCHANGED <<ecash, pending, outstanding>>
        /\ calls' = [o \in FeeSends |-> "none"]
    BY <1>3, <1>15 DEF Fees!Restart
  <2>2. \A o \in FeeSends : calls'[o] = "none"
    BY <2>1
  <2>3. vb' = vb
    BY <1>2, <2>1
  <2>4. \A o \in FeeSends : ToBear(o)' <= vb'
    BY <1>2, <1>4, <2>2, <2>3 DEF ToBear
  <2>5. Fees!NoOverdraft'
    BY <1>2, <1>4, <2>3 DEF Fees!NoOverdraft, vb
  <2>6. (\A p, q \in FeeSends : calls[p] # "none" /\ calls[q] # "none" => p = q)'
    BY <2>2
  <2> QED
    BY <1>1, <2>4, <2>5, <2>6 DEF CoveredInv, vb
<1>16. \A r : ~ (r \in 1 .. MaxRemits)
  BY DEF OnlySends
<1> QED
  BY <1>7, <1>13, <1>14, <1>15, <1>16 DEF Fees!Next

\* The ecash covers the fees, when only sends are charged and nothing is remitted
\* meanwhile, however calls, payments, time-outs and restarts follow one another.
THEOREM SendsAreCovered ==
    ASSUME Fees!FediFeesAssumption, OnlySends
    PROVE  Fees!Spec => []Fees!NoOverdraft
<1>1. CoveredInv => Fees!NoOverdraft
  BY DEF CoveredInv
<1>2. CoveredInv /\ [Fees!Next]_Fees!vars => CoveredInv'
  BY CoveredStep
<1> QED
  BY <1>1, <1>2, CoveredStart, PTL DEF Fees!Spec

\* A remittance goes through its steps.
InStep(r) ==
    /\ r.step = "begun" => r.payment = "none"
    /\ r.step \in {"paid", "waiting"} => r.payment # "none"
    /\ r.step = "refunding" => r.payment = "failed"
    /\ r.step = "off" => r.payment \in {"none", "success"}

\* It holds the lock of its direction.
Locks(r) == r.step \in {"begun", "paid"}

\* Its fees were taken off, and not put back.
IsTakenOff(r) ==
    r.step \in {"waiting", "refunding"} \/ (r.step = "off" /\ r.payment = "success")
TakenOff(d) == {r \in Slots : remits[r].of = d /\ IsTakenOff(remits[r])}

Balanced(d) == outstanding[d] + Fees!RemittedOf(TakenOff(d)) = Fees!FeesOf(Fees!Charged(d))
LedgerInv ==
    /\ FeesInv
    /\ \A r \in Slots :
         /\ InStep(remits[r])
         /\ Locks(remits[r]) => remits[r].fees <= outstanding[remits[r].of]
    /\ \A r, s \in Slots :
         Locks(remits[r]) /\ Locks(remits[s]) /\ remits[r].of = remits[s].of => r = s
    /\ \A d \in Fees!Directions : Balanced(d)

\* While the books balance, nothing is charged twice: what was remitted has been
\* taken off, but for what is about to be.
LEMMA LedgerGivesOnce ==
    ASSUME Fees!FediFeesAssumption, LedgerInv PROVE Fees!ChargedOnce
<1> SUFFICES ASSUME NEW d \in Fees!Directions
             PROVE  outstanding[d] + Fees!RemittedOf(Fees!Remitted(d))
                    <= Fees!FeesOf(Fees!Charged(d)) + Fees!RemittedOf(Fees!Paid(d))
  BY DEF Fees!ChargedOnce
<1> DEFINE T == TakenOff(d)  P == Fees!Paid(d)  R == Fees!Remitted(d)
           f(S) == [r \in S |-> remits[r].fees]
<1>1. FeesInv /\ Balanced(d)
  BY DEF LedgerInv
<1>2. T \subseteq Slots /\ P \subseteq Slots /\ R \subseteq T \cup P
  BY DEF LedgerInv, InStep, TakenOff, IsTakenOff, Fees!Paid, Fees!Remitted, Slots,
         FeesInv, Fees!TypeOK
<1>3. P \cap T = {}
  BY DEF TakenOff, IsTakenOff, Fees!Paid
<1> HIDE DEF T, P, R
<1>4. \A S : Fees!RemittedOf(S) = Total(f(S))
  BY SameTotal DEF Fees!RemittedOf
<1>5. IsFiniteSet(Slots)
  <2>1. MaxRemits \in Nat
    BY <1>1, Typed
  <2> QED
    BY <2>1, FS_Interval DEF Slots
<1>6. \A S \in SUBSET Slots : IsAmounts(f(S))
  BY <1>1, <1>5, Typed, FS_Subset DEF IsAmounts, RemitType
<1>7. Total(f(T \cup P)) = Total(f(T)) + Total(f(P))
  <2>1. /\ DOMAIN f(T) = T /\ DOMAIN f(P) = P /\ DOMAIN f(T \cup P) = T \cup P
        /\ \A x \in T : f(T \cup P)[x] = f(T)[x]
        /\ \A x \in P : f(T \cup P)[x] = f(P)[x]
    OBVIOUS
  <2>2. IsAmounts(f(T)) /\ IsAmounts(f(P)) /\ IsAmounts(f(T \cup P))
    BY <1>2, <1>6
  <2> HIDE DEF f
  <2> QED
    BY <1>3, <2>1, <2>2, TotalSplit
<1>8. Total(f(R)) <= Total(f(T \cup P))
  <2>0. R \subseteq Slots /\ T \cup P \subseteq Slots
    BY <1>2
  <2>1. IsAmounts(f(R)) /\ IsAmounts(f(T \cup P))
    BY <2>0, <1>6
  <2>2. /\ DOMAIN f(R) = R /\ DOMAIN f(T \cup P) = T \cup P
        /\ \A r \in R : f(R)[r] = f(T \cup P)[r] /\ f(R)[r] \in Nat
    BY <1>1, <1>2, Typed DEF RemitType
  <2> HIDE DEF f
  <2>3. \A r \in DOMAIN f(R) : f(R)[r] <= f(T \cup P)[r]
    BY <2>2
  <2> QED
    BY <1>2, <2>1, <2>2, <2>3, TotalMonotone
<1>9. /\ Total(f(T)) \in Nat /\ Total(f(P)) \in Nat /\ Total(f(R)) \in Nat
  <2>1. R \subseteq Slots
    BY <1>2
  <2>2. IsAmounts(f(T)) /\ IsAmounts(f(P)) /\ IsAmounts(f(R))
    BY <1>2, <1>6, <2>1
  <2> HIDE DEF f
  <2> QED
    BY <2>2, TotalType
<1>10. outstanding[d] \in Nat
  BY <1>1, Typed
<1>11. outstanding[d] + Total(f(T)) = Fees!FeesOf(Fees!Charged(d))
  BY <1>1, <1>4 DEF Balanced, T
<1> HIDE DEF f
<1> QED
  BY <1>4, <1>7, <1>8, <1>9, <1>10, <1>11 DEF R, P

\* The fees of remittances, as a function of them.
FeesIn(m, S) == Total([r \in S |-> m[r].fees])
TakenOffIn(m, d) == {r \in Slots : m[r].of = d /\ IsTakenOff(m[r])}
Part(x, d) == IF x.of = d /\ IsTakenOff(x) THEN x.fees ELSE 0
HaveFees(m) == \A r \in Slots : m[r].fees \in Nat

\* The fees of one more remittance.
LEMMA FeesInWith ==
    ASSUME MaxRemits \in Nat, NEW m, HaveFees(m), NEW S, S \subseteq Slots
    PROVE  /\ FeesIn(m, S) \in Nat
           /\ \A r \in Slots \ S : FeesIn(m, S \cup {r}) = FeesIn(m, S) + m[r].fees
<1> DEFINE f(T) == [r \in T |-> m[r].fees]
<1>0. IsFiniteSet(Slots)
  BY FS_Interval DEF Slots
<1>1. \A T : FeesIn(m, T) = Total(f(T))
  BY DEF FeesIn
<1>2. \A r \in Slots : m[r].fees \in Nat
  BY DEF HaveFees
<1>3. IsAmounts(f(S))
  BY <1>0, <1>2, FS_Subset DEF IsAmounts
<1> HIDE DEF f
<1>4. Total(f(S)) \in Nat
  BY <1>3, TotalType
<1>5. ASSUME NEW r \in Slots \ S
      PROVE  Total(f(S \cup {r})) = Total(f(S)) + m[r].fees
  <2>1. /\ DOMAIN f(S) = S /\ DOMAIN f(S \cup {r}) = DOMAIN f(S) \cup {r}
        /\ f(S \cup {r})[r] = m[r].fees
        /\ \A x \in DOMAIN f(S) : f(S \cup {r})[x] = f(S)[x]
    BY DEF f
  <2>2. r \notin DOMAIN f(S) /\ f(S \cup {r})[r] \in Nat
    BY <1>2, <2>1
  <2>3. Total(f(S \cup {r})) = Total(f(S)) + f(S \cup {r})[r]
    BY <1>3, <2>1, <2>2, TotalWith
  <2> QED
    BY <2>1, <2>3
<1> QED
  BY <1>1, <1>4, <1>5

\* One remittance changes what is taken off by its part.
LEMMA PartChanges ==
    ASSUME MaxRemits \in Nat, NEW m, HaveFees(m), NEW n, HaveFees(n),
           NEW r \in Slots, \A x \in Slots : x # r => n[x] = m[x], NEW d
    PROVE  /\ FeesIn(m, TakenOffIn(m, d)) \in Nat
           /\ FeesIn(n, TakenOffIn(n, d)) \in Nat
           /\ FeesIn(n, TakenOffIn(n, d)) + Part(m[r], d)
                = FeesIn(m, TakenOffIn(m, d)) + Part(n[r], d)
<1> DEFINE rest == TakenOffIn(m, d) \ {r}
<1>1. /\ rest \subseteq Slots /\ r \in Slots \ rest
      /\ TakenOffIn(m, d) = IF m[r].of = d /\ IsTakenOff(m[r])
                            THEN rest \cup {r} ELSE rest
      /\ TakenOffIn(n, d) = IF n[r].of = d /\ IsTakenOff(n[r])
                            THEN rest \cup {r} ELSE rest
  BY DEF TakenOffIn
<1>2. [x \in rest |-> n[x].fees] = [x \in rest |-> m[x].fees]
  BY DEF TakenOffIn
<1>3. FeesIn(n, rest) = FeesIn(m, rest)
  BY <1>2 DEF FeesIn
<1> HIDE DEF rest
<1>4. /\ FeesIn(m, rest) \in Nat
      /\ FeesIn(m, rest \cup {r}) = FeesIn(m, rest) + m[r].fees
  BY <1>1, FeesInWith
<1>5. FeesIn(n, rest \cup {r}) = FeesIn(n, rest) + n[r].fees
  BY <1>1, FeesInWith
<1>6. m[r].fees \in Nat /\ n[r].fees \in Nat
  BY DEF HaveFees
<1>7. FeesIn(m, TakenOffIn(m, d)) = FeesIn(m, rest) + Part(m[r], d)
  BY <1>1, <1>4 DEF Part
<1>8. FeesIn(n, TakenOffIn(n, d)) = FeesIn(m, rest) + Part(n[r], d)
  BY <1>1, <1>3, <1>4, <1>5 DEF Part
<1>9. Part(m[r], d) \in Nat /\ Part(n[r], d) \in Nat
  BY <1>6 DEF Part
<1> QED
  BY <1>4, <1>7, <1>8, <1>9

\* The books, before and after a step.
LEMMA BalancedIs ==
    ASSUME NEW d
    PROVE  /\ Balanced(d) <=> outstanding[d] + FeesIn(remits, TakenOffIn(remits, d))
                                = Fees!FeesOf(Fees!Charged(d))
           /\ Balanced(d)' <=> outstanding'[d] + FeesIn(remits', TakenOffIn(remits', d))
                                = Fees!FeesOf(Fees!Charged(d))'
<1>1. Fees!RemittedOf(TakenOff(d)) = FeesIn(remits, TakenOffIn(remits, d))
  BY SameTotal DEF Fees!RemittedOf, FeesIn, TakenOff, TakenOffIn
<1>2. Fees!RemittedOf(TakenOff(d))' = FeesIn(remits', TakenOffIn(remits', d))
  BY SameTotal DEF Fees!RemittedOf, FeesIn, TakenOff, TakenOffIn
<1> QED
  BY <1>1, <1>2 DEF Balanced

\* The books balance at first.
LEMMA LedgerStart == Fees!FediFeesAssumption /\ Fees!Init => LedgerInv
<1> SUFFICES ASSUME Fees!FediFeesAssumption, Fees!Init PROVE LedgerInv
  OBVIOUS
<1>1. FeesInv
  BY FeesStart
<1>2. \A r \in Slots : remits[r] = Fees!NoRemit
  BY DEF Fees!Init, Slots
<1>3. \A r \in Slots : InStep(remits[r]) /\ ~ Locks(remits[r]) /\ ~ IsTakenOff(remits[r])
  BY <1>2 DEF Fees!NoRemit, InStep, Locks, IsTakenOff
<1>4. ASSUME NEW d \in Fees!Directions PROVE Balanced(d)
  <2>1. TakenOff(d) = {} /\ Fees!Charged(d) = {} /\ outstanding[d] = 0
    BY <1>3 DEF TakenOff, Fees!Charged, Fees!Init
  <2>2. Fees!FeesOf({}) = 0 /\ Fees!RemittedOf({}) = 0
    <3>1. DOMAIN [o \in {} |-> OperationFee[o]] = {} /\ DOMAIN [r \in {} |-> remits[r].fees] = {}
      OBVIOUS
    <3> QED
      BY <3>1, SameTotal, TotalEmpty DEF Fees!FeesOf, Fees!RemittedOf
  <2> QED
    BY <2>1, <2>2 DEF Balanced
<1> QED
  BY <1>1, <1>3, <1>4 DEF LedgerInv

\* A step of one remittance.
LEMMA LedgerKeeps ==
    ASSUME Fees!FediFeesAssumption, LedgerInv, FeesInv', status' = status,
           NEW r \in Slots, \A x \in Slots : x # r => remits'[x] = remits[x],
           InStep(remits'[r]),
           \A d \in Fees!Directions :
              outstanding'[d] + Part(remits'[r], d) = outstanding[d] + Part(remits[r], d),
           \A x \in Slots : Locks(remits'[x]) => remits'[x].fees <= outstanding'[remits'[x].of],
           \A x \in Slots : Locks(remits'[r]) /\ Locks(remits'[x]) /\ remits'[x].of = remits'[r].of
                            => x = r
    PROVE  LedgerInv'
<1>1. FeesInv /\ MaxRemits \in Nat /\ HaveFees(remits) /\ HaveFees(remits')
  <2>1. HaveFees(remits)
    BY Typed DEF LedgerInv, HaveFees, RemitType
  <2>2. HaveFees(remits')
    BY DEF FeesInv, Fees!TypeOK, HaveFees, Slots
  <2> QED
    BY <2>1, <2>2, Typed DEF LedgerInv
<1>2. ASSUME NEW d \in Fees!Directions PROVE Balanced(d)'
  <2> DEFINE old == FeesIn(remits, TakenOffIn(remits, d))
             new == FeesIn(remits', TakenOffIn(remits', d))
             p   == Part(remits[r], d)
             q   == Part(remits'[r], d)
  <2>1. old \in Nat /\ new \in Nat /\ new + p = old + q
    BY <1>1, PartChanges
  <2>2. p \in Nat /\ q \in Nat
    BY <1>1 DEF Part, HaveFees
  <2>3. outstanding[d] \in Nat /\ outstanding'[d] \in Nat
    BY <1>1 DEF FeesInv, Fees!TypeOK
  <2>4. outstanding'[d] + q = outstanding[d] + p
    OBVIOUS
  <2>5. outstanding[d] + old = Fees!FeesOf(Fees!Charged(d))
    BY BalancedIs DEF LedgerInv
  <2>6. Fees!FeesOf(Fees!Charged(d))' = Fees!FeesOf(Fees!Charged(d))
    BY DEF Fees!Charged, Fees!FeesOf, Fees!Total, Fees!Coins
  <2> HIDE DEF old, new, p, q
  <2>7. outstanding'[d] + new = outstanding[d] + old
    BY <2>1, <2>2, <2>3, <2>4
  <2> QED
    BY <2>5, <2>6, <2>7, BalancedIs DEF old, new
<1>3. \A x \in Slots : InStep(remits'[x])
  BY DEF LedgerInv
<1>4. ASSUME NEW x \in Slots, NEW y \in Slots, Locks(remits'[x]), Locks(remits'[y]),
             remits'[x].of = remits'[y].of
      PROVE  x = y
  BY <1>4 DEF LedgerInv
<1> QED
  BY <1>2, <1>3, <1>4 DEF LedgerInv, InStep, Locks

\* What the proofs below take from the invariant.
LEMMA LedgerFacts ==
    ASSUME Fees!FediFeesAssumption, LedgerInv
    PROVE  /\ FeesInv /\ outstanding \in [Fees!Directions -> Nat]
           /\ remits = [r \in Slots |-> remits[r]]
           /\ \A r \in Slots : remits[r] \in RemitType /\ InStep(remits[r])
           /\ \A r \in Slots : Locks(remits[r]) => remits[r].fees <= outstanding[remits[r].of]
           /\ \A r, s \in Slots : Locks(remits[r]) /\ Locks(remits[s])
                                  /\ remits[r].of = remits[s].of => r = s
  BY Typed DEF LedgerInv

\* A step that leaves the remittances and what is outstanding alone.
LEMMA LedgerStays ==
    ASSUME LedgerInv, FeesInv', UNCHANGED <<remits, outstanding>>,
           \A d \in Fees!Directions : Fees!Charged(d)' = Fees!Charged(d)
    PROVE  LedgerInv'
<1>1. ASSUME NEW d \in Fees!Directions PROVE Balanced(d)'
  <2>1. Fees!FeesOf(Fees!Charged(d))' = Fees!FeesOf(Fees!Charged(d))
    <3>1. Fees!Charged(d)' = Fees!Charged(d)
      OBVIOUS
    <3> HIDE DEF Fees!Charged
    <3> QED
      BY <3>1 DEF Fees!FeesOf, Fees!Total, Fees!Coins
  <2> QED
    BY <2>1, BalancedIs DEF LedgerInv
<1> QED
  BY <1>1 DEF LedgerInv, InStep, Locks

\* An operation that succeeds is charged.
LEMMA LedgerObserve ==
    ASSUME Fees!FediFeesAssumption, LedgerInv, FeesInv',
           NEW o \in Fees!Operations, Fees!Observe(o)
    PROVE  LedgerInv'
<1>1. /\ op[o] \in {"success", "failed"}
      /\ status' = [status EXCEPT ![o] = IF @ = "pending" THEN op[o] ELSE @]
      /\ remits' = remits
  BY DEF Fees!Observe
<1>2. /\ FeesInv /\ outstanding \in [Fees!Directions -> Nat]
      /\ status \in [Fees!Operations -> {"none", "pending", "success", "failed"}]
      /\ Fees!DirectionOf(o) \in Fees!Directions
      /\ OperationFee[o] \in Nat
  BY LedgerFacts DEF FeesInv, Fees!TypeOK, Fees!DirectionOf, Fees!Directions,
     Fees!FediFeesAssumption
<1>3. CASE ~ (status[o] = "pending" /\ op[o] = "success")
  <2>1. outstanding' = outstanding
    BY <1>3 DEF Fees!Observe
  <2>2. \A d \in Fees!Directions : Fees!Charged(d)' = Fees!Charged(d)
    BY <1>1, <1>2, <1>3 DEF Fees!Charged
  <2> QED
    BY <1>1, <2>1, <2>2, LedgerStays
<1>4. CASE status[o] = "pending" /\ op[o] = "success"
  <2> DEFINE own == Fees!DirectionOf(o)
  <2>1. outstanding' = [outstanding EXCEPT ![own] = @ + OperationFee[o]]
    BY <1>4 DEF Fees!Observe
  <2>2. ASSUME NEW d \in Fees!Directions PROVE Balanced(d)'
    <3> DEFINE before == Fees!Charged(d)
               taken  == FeesIn(remits, TakenOffIn(remits, d))
    <3>1. /\ before \subseteq Fees!Operations /\ o \notin before
          /\ Fees!Charged(d)' = IF d = own THEN before \cup {o} ELSE before
      BY <1>1, <1>2, <1>4 DEF Fees!Charged, Fees!DirectionOf
    <3>2. /\ Fees!FeesOf(before) \in Nat
          /\ Fees!FeesOf(before \cup {o}) = Fees!FeesOf(before) + OperationFee[o]
      BY <3>1, FeesAddUp
    <3>3. outstanding[d] + taken = Fees!FeesOf(before)
      BY BalancedIs DEF LedgerInv
    <3>4. taken \in Nat
      <4>1. TakenOffIn(remits, d) \subseteq Slots
        BY DEF TakenOffIn
      <4>2. MaxRemits \in Nat /\ HaveFees(remits)
        BY <1>2, Typed DEF HaveFees, RemitType
      <4> QED
        BY <4>1, <4>2, FeesInWith
    <3>5. Fees!FeesOf(Fees!Charged(d))'
            = IF d = own THEN Fees!FeesOf(before \cup {o}) ELSE Fees!FeesOf(before)
      <4> HIDE DEF before
      <4>1. Fees!FeesOf(Fees!Charged(d))'
              = Fees!FeesOf(IF d = own THEN before \cup {o} ELSE before)
        BY <3>1 DEF Fees!FeesOf, Fees!Total, Fees!Coins
      <4> QED
        BY <4>1
    <3>6. outstanding'[d] = IF d = own THEN outstanding[d] + OperationFee[o] ELSE outstanding[d]
      BY <1>2, <2>1
    <3>7. outstanding[d] \in Nat
      BY <1>2
    <3>8. FeesIn(remits', TakenOffIn(remits', d)) = taken
      BY <1>1
    <3> HIDE DEF before, taken, own
    <3>9. outstanding'[d] + taken = Fees!FeesOf(Fees!Charged(d))'
      BY <1>2, <3>2, <3>3, <3>4, <3>5, <3>6, <3>7
    <3> QED
      BY <3>8, <3>9, BalancedIs
  <2>3. \A d \in Fees!Directions : outstanding[d] <= outstanding'[d]
                                   /\ outstanding[d] \in Nat /\ outstanding'[d] \in Nat
    BY <1>2, <2>1
  <2>4. ASSUME NEW r \in Slots, Locks(remits[r])
        PROVE  remits[r].fees <= outstanding'[remits[r].of]
    <3>1. /\ remits[r].fees <= outstanding[remits[r].of]
          /\ remits[r].fees \in Nat /\ remits[r].of \in Fees!Directions
      BY <2>4, LedgerFacts DEF RemitType
    <3> QED
      BY <2>3, <3>1
  <2> QED
    BY <1>1, <2>2, <2>4 DEF LedgerInv, InStep, Locks
<1> QED
  BY <1>3, <1>4

\* A remittance that begins takes nothing off yet.
LEMMA LedgerCheckThreshold ==
    ASSUME Fees!FediFeesAssumption, LedgerInv, FeesInv',
           NEW d \in Fees!Directions, Fees!CheckThreshold(d)
    PROVE  LedgerInv'
<1> DEFINE new == [of |-> d, fees |-> outstanding[d], step |-> "begun",
                   payment |-> "none"]
           free == Fees!Min(Fees!Free)
<1>1. /\ UNCHANGED <<status, outstanding>>
      /\ \/ remits' = remits
         \/ /\ ~ Fees!Locked(d) /\ Fees!Free # {}
            /\ remits' = [remits EXCEPT ![free] = new]
  BY DEF Fees!CheckThreshold
<1>2. CASE remits' = remits
  <2>1. \A e \in Fees!Directions : Fees!Charged(e)' = Fees!Charged(e)
    BY <1>1 DEF Fees!Charged
  <2> QED
    BY <1>1, <1>2, <2>1, LedgerStays
<1>3. CASE /\ ~ Fees!Locked(d) /\ Fees!Free # {}
           /\ remits' = [remits EXCEPT ![free] = new]
  <2>1. free \in Slots /\ remits[free] = Fees!NoRemit
    BY <1>3, FreeSlot
  <2> HIDE DEF free
  <2>2. remits'[free] = new /\ \A x \in Slots : x # free => remits'[x] = remits[x]
    BY <1>3, <2>1, LedgerFacts
  <2>3. InStep(remits'[free]) /\ ~ IsTakenOff(remits'[free]) /\ ~ IsTakenOff(remits[free])
    BY <2>1, <2>2 DEF InStep, IsTakenOff, Fees!NoRemit
  <2>4. \A e \in Fees!Directions :
           outstanding'[e] + Part(remits'[free], e) = outstanding[e] + Part(remits[free], e)
    BY <1>1, <2>3 DEF Part
  <2>5. outstanding[d] \in Nat
    BY LedgerFacts
  <2>6. \A x \in Slots : Locks(remits'[x]) => remits'[x].fees <= outstanding'[remits'[x].of]
    BY <1>1, <2>2, <2>5, LedgerFacts
  <2>7. \A x \in Slots : remits[x].of = d => ~ Locks(remits[x])
    BY <1>3 DEF Fees!Locked, Locks, Slots
  <2>8. \A x \in Slots : Locks(remits'[free]) /\ Locks(remits'[x])
                         /\ remits'[x].of = remits'[free].of => x = free
    BY <2>2, <2>7
  <2> QED
    BY <1>1, <2>1, <2>2, <2>3, <2>4, <2>6, <2>8, LedgerKeeps
<1> QED
  BY <1>1, <1>2, <1>3

\* Fees are taken off once, and put back once if the remittance fails.
LEMMA LedgerRemittance ==
    ASSUME Fees!FediFeesAssumption, LedgerInv, FeesInv', NEW r \in Slots,
           Fees!OfRemittance(r)
    PROVE  LedgerInv'
<1>1. /\ status' = status
      /\ \E new : remits' = [remits EXCEPT ![r] = new]
  BY DEF Fees!OfRemittance, Fees!PayRemittance, Fees!Settle,
         Fees!ResolveRemittance, Fees!ObserveRemittance, Fees!PutBack
<1>2. \A x \in Slots : x # r => remits'[x] = remits[x]
  BY <1>1, LedgerFacts
<1>3. /\ remits = [x \in Slots |-> remits[x]]
      /\ remits[r] \in RemitType /\ InStep(remits[r])
      /\ outstanding \in [Fees!Directions -> Nat]
      /\ remits[r].of \in Fees!Directions /\ remits[r].fees \in Nat
      /\ outstanding[remits[r].of] \in Nat
      /\ Locks(remits[r]) => remits[r].fees <= outstanding[remits[r].of]
  BY LedgerFacts DEF RemitType
<1>4. /\ InStep(remits'[r])
      /\ Locks(remits'[r]) => /\ Locks(remits[r]) /\ remits'[r].of = remits[r].of
                              /\ remits'[r].fees = remits[r].fees
                              /\ outstanding' = outstanding
  <2>1. CASE Fees!PayRemittance(r)
    <3>1. /\ outstanding' = outstanding /\ remits[r].step = "begun"
          /\ \/ remits' = [remits EXCEPT ![r].step = "paid", ![r].payment = "active"]
             \/ remits' = [remits EXCEPT ![r] = Fees!NoRemit]
      BY <2>1 DEF Fees!PayRemittance
    <3>2. CASE remits' = [remits EXCEPT ![r] = Fees!NoRemit]
      <4>1. remits'[r] = Fees!NoRemit
        BY <1>3, <3>2
      <4>2. /\ Fees!NoRemit.step = "off" /\ Fees!NoRemit.payment = "none"
        BY DEF Fees!NoRemit
      <4> QED
        BY <4>1, <4>2 DEF InStep, Locks
    <3>3. CASE remits' = [remits EXCEPT ![r].step = "paid", ![r].payment = "active"]
      <4>1. /\ remits'[r].of = remits[r].of /\ remits'[r].fees = remits[r].fees
            /\ remits'[r].step = "paid" /\ remits'[r].payment = "active"
        BY <1>3, <3>3 DEF RemitType
      <4> QED
        BY <3>1, <4>1 DEF InStep, Locks
    <3> QED
      BY <3>1, <3>2, <3>3
  <2>2. CASE Fees!Settle(r)
    BY <1>3, <2>2 DEF Fees!Settle, InStep, Locks, RemitType
  <2>3. CASE Fees!ResolveRemittance(r)
    BY <1>3, <2>3 DEF Fees!ResolveRemittance, InStep, Locks, RemitType
  <2>4. CASE Fees!ObserveRemittance(r)
    BY <1>3, <2>4 DEF Fees!ObserveRemittance, InStep, Locks, RemitType
  <2>5. CASE Fees!PutBack(r)
    BY <1>3, <2>5 DEF Fees!PutBack, InStep, Locks, Fees!NoRemit, RemitType
  <2> QED
    BY <2>1, <2>2, <2>3, <2>4, <2>5 DEF Fees!OfRemittance
<1>5. ASSUME NEW d \in Fees!Directions
      PROVE  outstanding'[d] + Part(remits'[r], d) = outstanding[d] + Part(remits[r], d)
  <2>0. outstanding[d] \in Nat
    BY <1>3
  <2>1. CASE Fees!PayRemittance(r)
    <3>1. /\ outstanding' = outstanding /\ remits[r].step = "begun"
          /\ \/ remits' = [remits EXCEPT ![r].step = "paid", ![r].payment = "active"]
             \/ remits' = [remits EXCEPT ![r] = Fees!NoRemit]
      BY <2>1 DEF Fees!PayRemittance
    <3>2. ~ IsTakenOff(remits[r]) /\ ~ IsTakenOff(remits'[r])
      BY <1>3, <3>1 DEF IsTakenOff, Fees!NoRemit, RemitType
    <3> QED
      BY <3>1, <3>2 DEF Part
  <2>2. CASE Fees!Settle(r)
    <3>1. /\ ~ IsTakenOff(remits[r]) /\ IsTakenOff(remits'[r]) /\ Locks(remits[r])
          /\ remits'[r].of = remits[r].of /\ remits'[r].fees = remits[r].fees
      BY <1>3, <2>2 DEF Fees!Settle, IsTakenOff, Locks, RemitType
    <3>2. Fees!Less(outstanding[remits[r].of], remits[r].fees)
            = outstanding[remits[r].of] - remits[r].fees
      BY <1>3, <3>1 DEF Fees!Less
    <3>3. outstanding' = [outstanding EXCEPT ![remits[r].of] = @ - remits[r].fees]
      BY <2>2, <3>2 DEF Fees!Settle
    <3> QED
      BY <1>3, <2>0, <3>1, <3>3 DEF Part
  <2>3. CASE Fees!ResolveRemittance(r)
    <3>1. /\ remits'[r].of = remits[r].of /\ remits'[r].fees = remits[r].fees
          /\ IsTakenOff(remits'[r]) <=> IsTakenOff(remits[r])
          /\ outstanding' = outstanding
      BY <1>3, <2>3 DEF Fees!ResolveRemittance, IsTakenOff, InStep, RemitType
    <3> QED
      BY <3>1 DEF Part
  <2>4. CASE Fees!ObserveRemittance(r)
    <3>1. /\ remits'[r].of = remits[r].of /\ remits'[r].fees = remits[r].fees
          /\ IsTakenOff(remits'[r]) /\ IsTakenOff(remits[r])
          /\ outstanding' = outstanding
      BY <1>3, <2>4 DEF Fees!ObserveRemittance, IsTakenOff, RemitType
    <3> QED
      BY <3>1 DEF Part
  <2>5. CASE Fees!PutBack(r)
    <3>1. /\ IsTakenOff(remits[r]) /\ ~ IsTakenOff(remits'[r])
          /\ outstanding' = [outstanding EXCEPT ![remits[r].of] = @ + remits[r].fees]
      BY <1>3, <2>5 DEF Fees!PutBack, IsTakenOff, Fees!NoRemit, RemitType
    <3> QED
      BY <1>3, <2>0, <3>1 DEF Part
  <2> QED
    BY <2>1, <2>2, <2>3, <2>4, <2>5 DEF Fees!OfRemittance
<1>6. ASSUME NEW x \in Slots, Locks(remits'[x])
      PROVE  remits'[x].fees <= outstanding'[remits'[x].of]
  <2>1. CASE x = r
    BY <1>3, <1>4, <1>6, <2>1
  <2>2. CASE x # r
    <3> DEFINE d == remits[x].of
    <3>1. remits'[x] = remits[x] /\ Locks(remits[x])
      BY <1>2, <1>6, <2>2
    <3>2. /\ remits[x].fees <= outstanding[d] /\ remits[x].fees \in Nat
          /\ d \in Fees!Directions /\ outstanding[d] \in Nat
      BY <3>1, LedgerFacts DEF RemitType
    <3>3. ~ (Locks(remits[r]) /\ remits[r].of = d)
      BY <2>2, <3>1, LedgerFacts
    <3> HIDE DEF d
    <3>4. outstanding'[d] = outstanding[d] \/ outstanding'[d] = outstanding[d] + remits[r].fees
      BY <1>3, <3>2, <3>3
         DEF Fees!OfRemittance, Fees!PayRemittance, Fees!Settle, Locks,
             Fees!ResolveRemittance, Fees!ObserveRemittance, Fees!PutBack
    <3>5. outstanding[d] <= outstanding'[d] /\ outstanding'[d] \in Nat
      BY <1>3, <3>2, <3>4
    <3>6. remits[x].fees <= outstanding'[d]
      BY <3>2, <3>5
    <3> QED
      BY <3>1, <3>6 DEF d
  <2> QED
    BY <2>1, <2>2
<1>7. ASSUME NEW x \in Slots, Locks(remits'[r]), Locks(remits'[x]),
             remits'[x].of = remits'[r].of
      PROVE  x = r
  BY <1>2, <1>4, <1>7, LedgerFacts
<1> QED
  BY <1>1, <1>2, <1>4, <1>5, <1>6, <1>7, LedgerKeeps

NothingCrashes == MaxCrashes = 0

\* Every step keeps the books, while the app does not end.
LEMMA LedgerStep ==
    ASSUME Fees!FediFeesAssumption, NothingCrashes, LedgerInv, crashes = 0,
           [Fees!Next]_Fees!vars
    PROVE  LedgerInv' /\ crashes' = 0
<1>1. FeesInv /\ FeesInv'
  BY FeesGoOn DEF LedgerInv
<1>2. CASE UNCHANGED Fees!vars
  <2>1. UNCHANGED <<status, outstanding, remits, crashes>>
    BY <1>2 DEF Fees!vars
  <2>2. \A d \in Fees!Directions : Fees!Charged(d)' = Fees!Charged(d)
    BY <2>1 DEF Fees!Charged
  <2> QED
    BY <1>1, <2>1, <2>2, LedgerStays
<1>3. ASSUME NEW o \in Fees!Operations, Fees!OfOperation(o)
      PROVE  LedgerInv' /\ crashes' = 0
  <2>1. crashes' = 0
    BY <1>3 DEF Fees!OfOperation, Fees!Check, Fees!Fund, Fees!BeginReceive,
       Fees!Resolve, Fees!TimeOut, Fees!WritePending, Fees!Observe
  <2>2. CASE Fees!Observe(o)
    BY <1>1, <2>1, <2>2, LedgerObserve
  <2>3. CASE ~ Fees!Observe(o)
    <3>1. UNCHANGED <<outstanding, remits>>
      BY <1>3, <2>3 DEF Fees!OfOperation, Fees!Check, Fees!Fund,
         Fees!BeginReceive, Fees!Resolve, Fees!TimeOut, Fees!WritePending
    <3>2. \/ status' = status
          \/ status[o] # "success" /\ status' = [status EXCEPT ![o] = "pending"]
      <4>1. CASE Fees!WritePending(o)
        <5>1. CallInOrder(o)
          BY <1>1 DEF FeesInv
        <5> QED
          BY <4>1, <5>1 DEF Fees!WritePending, CallInOrder
      <4>2. CASE ~ Fees!WritePending(o)
        BY <1>3, <2>3, <4>2
           DEF Fees!OfOperation, Fees!Check, Fees!Fund, Fees!BeginReceive,
               Fees!Resolve, Fees!TimeOut
      <4> QED
        BY <4>1, <4>2
    <3>3. status \in [Fees!Operations -> {"none", "pending", "success", "failed"}]
      BY <1>1 DEF FeesInv, Fees!TypeOK
    <3>4. \A d \in Fees!Directions : Fees!Charged(d)' = Fees!Charged(d)
      BY <3>2, <3>3 DEF Fees!Charged
    <3> QED
      BY <1>1, <2>1, <3>1, <3>4, LedgerStays
  <2> QED
    BY <2>2, <2>3
<1>4. ASSUME NEW d \in Fees!Directions, Fees!CheckThreshold(d)
      PROVE  LedgerInv' /\ crashes' = 0
  BY <1>1, <1>4, LedgerCheckThreshold DEF Fees!CheckThreshold
<1>5. ASSUME NEW r \in Slots, Fees!OfRemittance(r)
      PROVE  LedgerInv' /\ crashes' = 0
  <2>1. crashes' = 0
    BY <1>5 DEF Fees!OfRemittance, Fees!PayRemittance, Fees!Settle,
       Fees!ResolveRemittance, Fees!ObserveRemittance, Fees!PutBack
  <2> QED
    BY <1>1, <1>5, <2>1, LedgerRemittance
<1>6. ~ Fees!Restart
  BY DEF Fees!Restart, NothingCrashes
<1> QED
  BY <1>2, <1>3, <1>4, <1>5, <1>6 DEF Fees!Next, Slots

\* Fees are charged once, while the app does not end.
THEOREM NothingIsChargedTwice ==
    ASSUME Fees!FediFeesAssumption, NothingCrashes
    PROVE  Fees!Spec => []Fees!ChargedOnce
<1> DEFINE Inv == LedgerInv /\ crashes = 0
<1>1. Fees!Init => Inv
  BY LedgerStart DEF Fees!Init
<1>2. Inv /\ [Fees!Next]_Fees!vars => Inv'
  BY LedgerStep
<1>3. Inv => Fees!ChargedOnce
  BY LedgerGivesOnce
<1> QED
  BY <1>1, <1>2, <1>3, PTL DEF Fees!Spec

-----------------------------------------------------------------------------
(* What the history says of an operation: TransactionText. *)

\* The states of each kind of operation, and that what follows a state is one.
LEMMA StatesAre ==
    /\ DOMAIN Text!Successors["lnSend"] =
          {"created", "funded", "waitingForRefund", "success", "refunded", "canceled"}
    /\ DOMAIN Text!Successors["lnReceive"] =
          {"created", "waitingForPayment", "funded", "awaitingFunds", "claimed", "canceled"}
    /\ DOMAIN Text!Successors["ecashSend"] = {"created", "success"}
    /\ DOMAIN Text!Successors["ecashReceive"] = {"created", "issuing", "done"}
    /\ DOMAIN Text!Successors["pegIn"] =
          {"waitingForTransaction", "waitingForConfirmation", "claimed"}
    /\ DOMAIN Text!Successors["spDeposit"] = {"created", "accepted", "locked"}
    /\ DOMAIN Text!Successors["spWithdrawal"] = {"created", "accepted", "success"}
  BY DEF Text!Successors

LEMMA KindsAre ==
    DOMAIN Text!Successors = {"lnSend", "lnReceive", "ecashSend", "ecashReceive", "pegIn",
                              "spDeposit", "spWithdrawal"}
  BY DEF Text!Successors

LEMMA SuccessorsAreStates ==
    ASSUME NEW k \in DOMAIN Text!Successors, NEW s \in DOMAIN Text!Successors[k],
           NEW t \in Text!Successors[k][s]
    PROVE  t \in DOMAIN Text!Successors[k]
<1>1. CASE k = "lnSend"
  BY <1>1 DEF Text!Successors
<1>2. CASE k = "lnReceive"
  BY <1>2 DEF Text!Successors
<1>3. CASE k = "ecashSend"
  BY <1>3 DEF Text!Successors
<1>4. CASE k = "ecashReceive"
  BY <1>4 DEF Text!Successors
<1>5. CASE k = "pegIn"
  BY <1>5 DEF Text!Successors
<1>6. CASE k = "spDeposit"
  BY <1>6 DEF Text!Successors
<1>7. CASE k = "spWithdrawal"
  BY <1>7 DEF Text!Successors
<1> QED
  BY <1>1, <1>2, <1>3, <1>4, <1>5, <1>6, <1>7, KindsAre

LEMMA TextStarts ==
    ASSUME Text!TransactionTextAssumption, Text!Init
    PROVE  Text!TypeOK
<1>1. kind \in DOMAIN Text!Successors
  BY DEF Text!Init, Text!TransactionTextAssumption
<1>2. st \in DOMAIN Text!Successors[kind]
  BY <1>1, KindsAre, StatesAre DEF Text!Init, Text!First
<1> QED
  BY <1>2 DEF Text!Init, Text!TypeOK, Text!Sends

LEMMA TextGoesOn ==
    ASSUME Text!TransactionTextAssumption, Text!TypeOK, [Text!Next]_(Text!vars)
    PROVE  Text!TypeOK'
<1>1. kind \in DOMAIN Text!Successors
  BY DEF Text!TypeOK, Text!TransactionTextAssumption
<1>2. \A s : Text!Settled(s) \in {"pendingSend", "pendingReceive", "success", "failedSend",
                                   "failedReceive"}
  BY DEF Text!TypeOK, Text!Settled
<1>3. CASE UNCHANGED Text!vars
  BY <1>3 DEF Text!vars, Text!TypeOK
<1>4. CASE Text!Advance
  <2>1. PICK s \in Text!Successors[kind][st] :
          /\ st' = s
          /\ \/ savedState' = s /\ fee' = Text!Settled(s)
             \/ UNCHANGED <<savedState, fee>>
          /\ UNCHANGED <<kind, fiat>>
    BY <1>4 DEF Text!Advance
  <2>2. s \in DOMAIN Text!Successors[kind]
    BY <1>1, SuccessorsAreStates DEF Text!TypeOK
  <2> QED
    BY <1>2, <2>1, <2>2 DEF Text!TypeOK
<1>5. CASE Text!Resubscribe
  BY <1>2, <1>5 DEF Text!Resubscribe, Text!TypeOK
<1>6. CASE Text!ToggleFiat
  BY <1>6 DEF Text!ToggleFiat, Text!TypeOK
<1> QED
  BY <1>3, <1>4, <1>5, <1>6 DEF Text!Next

LEMMA AmountIsOfFees == Text!AmountCoversFees
  BY DEF Text!AmountCoversFees, Text!Direction, Text!Amount, Text!Fees, Text!FeeIn,
     Text!HasFee, Text!FediFee, Text!NetworkFee, Text!Net, Text!Sends

\* The texts of what the bridge has said of a kind of operation.
LEMMA TextIsTrue ==
    ASSUME Text!TransactionTextAssumption, Text!TypeOK
    PROVE  /\ kind \notin {"ecashReceive", "spDeposit"} => Text!SaidIsSo
           /\ kind # "spWithdrawal" => Text!DetailAgrees
<1>t. /\ kind \in {"lnSend", "lnReceive", "ecashSend", "ecashReceive", "pegIn", "spDeposit",
                   "spWithdrawal"}
      /\ st \in DOMAIN Text!Successors[kind]
      /\ savedState \in {"none"} \cup DOMAIN Text!Successors[kind]
  BY KindsAre DEF Text!TypeOK, Text!TransactionTextAssumption
<1> DEFINE Refunds == {"waitingForRefund", "refunded", "canceled"}
<1>k. kind # "lnReceive" => Text!Known = savedState
  BY DEF Text!Known
<1>1. CASE kind = "lnSend"
  <2>1. /\ Text!Direction = "send" /\ Text!PoolStatus = ""
        /\ Text!Status = IF savedState \in Refunds THEN savedState ELSE "sent"
        /\ Text!DetailStatus = Text!Status
        /\ Text!Sign = IF savedState = "canceled" THEN "" ELSE "-"
        /\ Text!Moved <=> st \notin Refunds
    BY <1>k, <1>1 DEF Text!Direction, Text!PoolStatus, Text!PoolState, Text!Status,
       Text!DetailStatus, Text!Sign, Text!Moved, Text!Sends
  <2> QED
    BY <2>1 DEF Text!SaidIsSo, Text!DetailAgrees, Text!Said, Text!Unsaid
<1>2. CASE kind = "lnReceive"
  <2>1. Text!Known \in {"none", "claimed", "canceled"}
    <3>1. DOMAIN Text!Successors[kind] = {"created", "waitingForPayment", "funded",
                                          "awaitingFunds", "claimed", "canceled"}
      BY <1>2, StatesAre
    <3>2. \A s \in {"created", "waitingForPayment", "funded", "awaitingFunds"} :
             Text!Successors["lnReceive"][s] # {}
      BY DEF Text!Successors
    <3> QED
      BY <1>t, <1>2, <3>1, <3>2 DEF Text!Known, Text!Final
  <2>2. Text!Known = "none" \/ Text!Known = savedState
    BY DEF Text!Known
  <2>3. /\ Text!Direction = "receive" /\ Text!PoolStatus = ""
        /\ Text!Status = IF Text!Known = "claimed" THEN "received"
                         ELSE IF Text!Known = "canceled" THEN "canceled" ELSE "pending"
        /\ Text!DetailStatus = IF Text!Known = "claimed" THEN "complete"
                               ELSE IF Text!Known = "canceled" THEN "canceled" ELSE "pending"
        /\ Text!Title = Text!Status
        /\ Text!Sign = IF Text!Known = "canceled" THEN "" ELSE "+"
        /\ Text!Moved <=> st \in {"claimed", "done", "success"}
    BY <1>2 DEF Text!Direction, Text!PoolStatus, Text!PoolState, Text!Status,
       Text!DetailStatus, Text!Title, Text!Sign, Text!Moved, Text!Sends
  <2> QED
    BY <2>1, <2>2, <2>3 DEF Text!SaidIsSo, Text!DetailAgrees, Text!Said, Text!Unsaid
<1>3. CASE kind = "ecashSend"
  <2>1. /\ Text!Direction = "send" /\ Text!PoolStatus = ""
        /\ Text!Status = "sent" /\ Text!DetailStatus = "sent" /\ Text!Sign = "-"
        /\ Text!Moved <=> st \notin {"canceled", "waitingForRefund", "refunded"}
    BY <1>3 DEF Text!Direction, Text!PoolStatus, Text!PoolState, Text!Status,
       Text!DetailStatus, Text!Sign, Text!Moved, Text!Sends
  <2>2. st \in {"created", "success"}
    BY <1>t, <1>3, StatesAre
  <2> QED
    BY <2>1, <2>2 DEF Text!SaidIsSo, Text!DetailAgrees, Text!Said, Text!Unsaid
<1>4. CASE kind = "ecashReceive"
  <2>1. /\ Text!Direction = "receive" /\ Text!PoolStatus = ""
        /\ Text!Status = "received" /\ Text!DetailStatus = "received"
        /\ Text!Title = "received" /\ Text!Sign = "+"
    BY <1>4 DEF Text!Direction, Text!PoolStatus, Text!PoolState, Text!Status,
       Text!DetailStatus, Text!Title, Text!Sign, Text!Sends
  <2> QED
    BY <1>4, <2>1 DEF Text!DetailAgrees, Text!Said, Text!Unsaid
<1>5. CASE kind = "pegIn"
  <2>1. /\ Text!Direction = "receive" /\ Text!PoolStatus = ""
        /\ Text!Status = IF savedState = "claimed" THEN "received" ELSE "pending"
        /\ Text!DetailStatus = IF savedState = "claimed" THEN "complete"
                               ELSE IF savedState = "waitingForConfirmation" THEN "seen" ELSE "pending"
        /\ Text!Title = "received"
        /\ Text!Sign = IF savedState = "waitingForTransaction" THEN "~" ELSE "+"
        /\ Text!Moved <=> st \in {"claimed", "done", "success"}
    BY <1>k, <1>5 DEF Text!Direction, Text!PoolStatus, Text!PoolState, Text!Status,
       Text!DetailStatus, Text!Title, Text!Sign, Text!Moved, Text!Sends
  <2> QED
    BY <2>1 DEF Text!SaidIsSo, Text!DetailAgrees, Text!Said, Text!Unsaid
<1>6. CASE kind = "spDeposit"
  <2>1. /\ Text!Direction = "send" /\ Text!Status = "sent" /\ Text!Sign = "-"
        /\ Text!PoolStatus = IF st = "locked" THEN "complete" ELSE "pending"
        /\ Text!DetailStatus = Text!PoolStatus
    BY <1>6 DEF Text!Direction, Text!PoolStatus, Text!PoolState, Text!Status,
       Text!DetailStatus, Text!Sign, Text!Sends
  <2> QED
    BY <1>6, <2>1 DEF Text!DetailAgrees, Text!Said, Text!Unsaid
<1>7. CASE kind = "spWithdrawal"
  <2>1. savedState \in {"none", "created", "accepted", "success"}
        /\ st \in {"created", "accepted", "success"}
    BY <1>t, <1>7, StatesAre
  <2>2. /\ Text!Status = IF savedState \in {"none", "success"} THEN "received" ELSE "pending"
        /\ Text!Moved <=> st \in {"claimed", "done", "success"}
    BY <1>k, <1>7, <2>1 DEF Text!Direction, Text!PoolState, Text!Status, Text!Moved, Text!Sends
  <2> QED
    BY <1>7, <2>1, <2>2 DEF Text!SaidIsSo, Text!Said, Text!Unsaid
<1> QED
  BY <1>t, <1>1, <1>2, <1>3, <1>4, <1>5, <1>6, <1>7

-----------------------------------------------------------------------------
(* The list of transactions: TransactionList, with what a record says of a history. *)

\* The state is well typed; what is saved is of a transaction that is listed.
Fields == {"st", "more", "before", "page", "seen"}
WordsOf == {"", "a", "b"}
TransactionsOf(h, f) ==
    /\ DOMAIN f \subseteq DOMAIN began \ h.hidden
    /\ \A i \in DOMAIN f : f[i] \in [at : 1 .. h.time, state : 0 .. 1, note : WordsOf]
LogTyped(h) ==
    /\ now \in 1 .. h.time /\ began \in Seq(Nat) /\ Len(began) <= h.operations
    /\ \A i \in DOMAIN began : began[i] \in 1 .. now
    /\ state \in [1 .. h.operations -> 0 .. 1] /\ note \in [1 .. h.operations -> WordsOf]
ListTyped(h) == TransactionsOf(h, list) /\ history \subseteq DOMAIN list
FetchTyped(h) ==
    /\ DOMAIN fetch = Fields /\ fetch.st \in {"none", "called", "listed"}
    /\ TransactionsOf(h, fetch.page) /\ (fetch.st # "listed" => DOMAIN fetch.page = {})
DetailTyped(h) ==
    /\ detail \in [id : Nat, text : WordsOf, typed : WordsOf \cup {"none"}]
    /\ detail.id \in {0} \cup DOMAIN list /\ (detail.id # 0 => saves < h.saves)
SaveTyped(h) ==
    /\ save \in [id : Nat, text : WordsOf, written : BOOLEAN]
    /\ save.id \in {0} \cup DOMAIN list /\ (save.written => save.id # 0)
    /\ saves \in 0 .. h.saves
HistoryTyped(h) ==
    LogTyped(h) /\ ListTyped(h) /\ FetchTyped(h) /\ DetailTyped(h) /\ SaveTyped(h)

LEMMA HistoryTypedIs ==
    ASSUME NEW h, HistoryTyped(h) PROVE History(h)!TypeOK
  BY DEF HistoryTyped, LogTyped, ListTyped, FetchTyped, DetailTyped, SaveTyped, TransactionsOf,
     WordsOf, History!TypeOK, History!Log, History!Operations, History!Notes,
     History!Transaction

LEMMA HistoryStarts ==
    ASSUME NEW h, History(h)!TransactionListAssumption, History(h)!Init
    PROVE  HistoryTyped(h)
<1>1. /\ h.begun \in Nat /\ h.begun <= h.operations /\ h.time \in Nat
      /\ h.saves \in Nat /\ h.operations \in Nat
  BY DEF History!TransactionListAssumption
<1>2. now \in 2 .. h.time - 1 /\ began \in [1 .. h.begun -> 1 .. now - 1]
  BY DEF History!Init
<1>a. state = [i \in 1 .. h.operations |-> 0]
  BY DEF History!Init, History!Operations
<1>b. note = [i \in 1 .. h.operations |-> ""]
  BY DEF History!Init, History!Operations
<1>c. saves = 0
  BY DEF History!Init
<1>3. /\ list = History(h)!Nothing /\ history = {} /\ fetch = History(h)!NoFetch
      /\ detail = History(h)!NoDetail /\ save = History(h)!NoSave
  BY DEF History!Init
<1> HIDE DEF History!Init, History!TransactionListAssumption
<1>4. now \in 1 .. h.time /\ now \in Nat
  BY <1>1, <1>2
<1>5. began \in Seq(Nat) /\ Len(began) = h.begun /\ DOMAIN began = 1 .. h.begun
  BY <1>1, <1>2, <1>4
<1>6. \A i \in DOMAIN began : began[i] \in 1 .. now
  BY <1>2, <1>4, <1>5
<1>7. LogTyped(h)
  <2>1. state \in [1 .. h.operations -> 0 .. 1]
    BY <1>a
  <2>2. "" \in WordsOf
    BY DEF WordsOf
  <2>3. note \in [1 .. h.operations -> WordsOf]
    BY <1>b, <2>2
  <2> QED
    BY <1>1, <1>4, <1>5, <1>6, <2>1, <2>3 DEF LogTyped
<1>8. ListTyped(h) /\ FetchTyped(h)
  BY <1>3 DEF ListTyped, FetchTyped, TransactionsOf, History!Nothing, History!NoFetch, Fields
<1>9. DetailTyped(h) /\ SaveTyped(h)
  <2>1. detail = [id |-> 0, text |-> "", typed |-> "none"]
    BY <1>3 DEF History!NoDetail
  <2>2. save = [id |-> 0, text |-> "", written |-> FALSE]
    BY <1>3 DEF History!NoSave
  <2>3. saves \in 0 .. h.saves
    BY <1>1, <1>c
  <2> QED
    BY <2>1, <2>2, <2>3 DEF DetailTyped, SaveTyped, WordsOf
<1> QED
  BY <1>7, <1>8, <1>9 DEF HistoryTyped

\* The store takes a list that has all that it had.
LEMMA StoresTyped ==
    ASSUME NEW h, HistoryTyped(h), NEW l, TransactionsOf(h, l), DOMAIN list \subseteq DOMAIN l,
           History(h)!Stores(l), History(h)!Shows(l), UNCHANGED <<began, saves>>
    PROVE  /\ list' = l /\ ListTyped(h)' /\ DetailTyped(h)'
           /\ detail' = detail \/ (detail.id # 0 /\ l[detail.id].note # list[detail.id].note)
<1>1. ListTyped(h)' /\ list' = l
  BY DEF History!Stores, ListTyped, HistoryTyped, TransactionsOf
<1>2. detail' = detail \/ /\ detail.id # 0 /\ detail.id \in DOMAIN list
                          /\ l[detail.id].note # list[detail.id].note
                          /\ detail' = [detail EXCEPT !.text = l[detail.id].note]
  BY DEF History!Shows
<1>3. DetailTyped(h)'
  <2>1. \A i \in DOMAIN l : l[i].note \in WordsOf
    BY DEF TransactionsOf
  <2>2. detail' \in [id : Nat, text : WordsOf, typed : WordsOf \cup {"none"}]
        /\ detail'.id = detail.id
    BY <1>2, <2>1 DEF HistoryTyped, DetailTyped
  <2> QED
    BY <1>1, <2>2 DEF HistoryTyped, DetailTyped
<1> QED
  BY <1>1, <1>2, <1>3

\* A log that keeps its operations keeps the transactions of a list.
LEMMA StaysOf ==
    ASSUME NEW h, NEW f, TransactionsOf(h, f), DOMAIN began \subseteq DOMAIN began'
    PROVE  /\ DOMAIN f \subseteq DOMAIN began' \ h.hidden
           /\ \A i \in DOMAIN f : f[i] \in [at : 1 .. h.time, state : 0 .. 1, note : WordsOf]
  BY DEF TransactionsOf

\* Lists that are well typed make one that is.
LEMMA UpdatedTyped ==
    ASSUME NEW h, NEW new, NEW old, TransactionsOf(h, new), TransactionsOf(h, old)
    PROVE  /\ TransactionsOf(h, History(h)!UpdateTransactions(new, old))
           /\ DOMAIN old \subseteq DOMAIN History(h)!UpdateTransactions(new, old)
<1> DEFINE l == History(h)!UpdateTransactions(new, old)
<1>1. /\ DOMAIN l = DOMAIN new \cup DOMAIN old
      /\ \A i \in DOMAIN new : l[i] = new[i]
      /\ \A i \in DOMAIN old \ DOMAIN new : l[i] = old[i]
  BY DEF History!UpdateTransactions
<1> HIDE DEF l
<1>2. TransactionsOf(h, l) /\ DOMAIN old \subseteq DOMAIN l
  BY <1>1 DEF TransactionsOf
<1> QED
  BY <1>2 DEF l

\* A list of one transaction.
LEMMA OnlyTyped ==
    ASSUME NEW h, NEW i \in DOMAIN began \ h.hidden,
           NEW t \in [at : 1 .. h.time, state : 0 .. 1, note : WordsOf]
    PROVE  TransactionsOf(h, History(h)!Only(i, t))
<1> DEFINE f == History(h)!Only(i, t)
<1>1. DOMAIN f = {i} /\ f[i] = t
  BY DEF History!Only
<1> HIDE DEF f
<1>2. TransactionsOf(h, f)
  BY <1>1 DEF TransactionsOf
<1> QED
  BY <1>2 DEF f

\* What a step leaves alone stays well typed.
LEMMA LogStays ==
    ASSUME NEW h, LogTyped(h), UNCHANGED <<now, began, state, note>> PROVE LogTyped(h)'
  BY DEF LogTyped
LEMMA ListStays ==
    ASSUME NEW h, ListTyped(h), UNCHANGED <<list, history>>, DOMAIN began \subseteq DOMAIN began'
    PROVE  ListTyped(h)'
  BY DEF ListTyped, TransactionsOf
LEMMA FetchStays ==
    ASSUME NEW h, FetchTyped(h), fetch' = fetch, DOMAIN began \subseteq DOMAIN began'
    PROVE  FetchTyped(h)'
  BY DEF FetchTyped, TransactionsOf
LEMMA DetailStays ==
    ASSUME NEW h, DetailTyped(h), UNCHANGED <<detail, saves>>, DOMAIN list \subseteq DOMAIN list'
    PROVE  DetailTyped(h)'
  BY DEF DetailTyped
LEMMA SaveStays ==
    ASSUME NEW h, SaveTyped(h), UNCHANGED <<save, saves>>, DOMAIN list \subseteq DOMAIN list'
    PROVE  SaveTyped(h)'
  BY DEF SaveTyped

\* No call is under way.
LEMMA NoFetchTyped ==
    ASSUME NEW h, fetch' = History(h)!NoFetch PROVE FetchTyped(h)'
  BY DEF FetchTyped, TransactionsOf, History!NoFetch, History!Nothing, Fields

LEMMA HistoryTypedGoesOn ==
    ASSUME NEW h, History(h)!TransactionListAssumption, HistoryTyped(h),
           [History(h)!Next]_(History(h)!vars)
    PROVE  HistoryTyped(h)'
<1> USE DEF HistoryTyped, History!bridge
<1>a. h.operations \in Nat /\ h.time \in Nat /\ h.saves \in Nat
  BY DEF History!TransactionListAssumption
<1>b. "" \in WordsOf /\ "none" \in WordsOf \cup {"none"}
  BY DEF WordsOf
<1>1. CASE UNCHANGED History(h)!vars
  BY <1>1, LogStays, ListStays, FetchStays, DetailStays, SaveStays DEF History!vars
<1>2. CASE History(h)!Tick
  <2>1. LogTyped(h)'
    BY <1>2, <1>a DEF History!Tick, LogTyped
  <2> QED
    BY <1>2, <2>1, ListStays, FetchStays, DetailStays, SaveStays DEF History!Tick
<1>3. CASE History(h)!Begin
  <2>1. /\ Len(began) < h.operations /\ began' = Append(began, now)
        /\ UNCHANGED <<now, state, note, list, history, fetch, detail, save, saves>>
    BY <1>3 DEF History!Begin
  <2>2. began \in Seq(Nat) /\ now \in Nat
    BY <1>a DEF LogTyped
  <2>3. /\ began' \in Seq(Nat) /\ Len(began') = Len(began) + 1 /\ Len(began) \in Nat
        /\ DOMAIN began = 1 .. Len(began) /\ DOMAIN began' = 1 .. Len(began) + 1
        /\ \A i \in DOMAIN began : began'[i] = began[i]
        /\ began'[Len(began) + 1] = now
    BY <2>1, <2>2
  <2>4. \A i \in DOMAIN began' : began'[i] \in 1 .. now'
    BY <2>1, <2>2, <2>3, <1>a DEF LogTyped
  <2>5. LogTyped(h)' /\ DOMAIN began \subseteq DOMAIN began'
    BY <2>1, <2>3, <2>4, <1>a DEF LogTyped
  <2> QED
    BY <2>1, <2>5, ListStays, FetchStays, DetailStays, SaveStays
<1>4. ASSUME NEW i \in History(h)!Operations, History(h)!Progress(i) PROVE HistoryTyped(h)'
  <2> DEFINE t == [at |-> now, state |-> 1, note |-> ""]
             l == History(h)!UpdateTransactions(History(h)!Only(i, t), list)
  <2>1. /\ i \in DOMAIN began \ h.hidden /\ state' = [state EXCEPT ![i] = 1]
        /\ History(h)!Stores(l) /\ History(h)!Shows(l)
        /\ UNCHANGED <<now, began, note, fetch, save, saves>>
    BY <1>4 DEF History!Progress, History!Log
  <2>2. t \in [at : 1 .. h.time, state : 0 .. 1, note : WordsOf]
    <3>1. now \in 1 .. h.time /\ 1 \in 0 .. 1
      BY DEF LogTyped
    <3> QED
      BY <3>1, <1>b
  <2>3. TransactionsOf(h, l) /\ DOMAIN list \subseteq DOMAIN l
    BY <2>1, <2>2, OnlyTyped, UpdatedTyped DEF ListTyped
  <2> HIDE DEF l, t
  <2>4. list' = l /\ ListTyped(h)' /\ DetailTyped(h)'
    BY <2>1, <2>3, StoresTyped
  <2>5. LogTyped(h)'
    <3>1. state' \in [1 .. h.operations -> 0 .. 1]
      <4>1. state' = [state EXCEPT ![i] = 1] /\ 1 \in 0 .. 1
        BY <2>1
      <4>2. state \in [1 .. h.operations -> 0 .. 1]
        BY DEF LogTyped
      <4> QED
        BY <4>1, <4>2
    <3> QED
      BY <2>1, <3>1 DEF LogTyped
  <2> QED
    BY <2>1, <2>3, <2>4, <2>5, FetchStays, SaveStays
<1>5. CASE History(h)!Fetch
  <2>1. UNCHANGED <<now, began, state, note, list, history, detail, save, saves>>
    BY <1>5 DEF History!Fetch
  <2>2. FetchTyped(h)'
    BY <1>5 DEF History!Fetch, History!NoFetch, History!Nothing, FetchTyped, TransactionsOf,
       Fields
  <2> QED
    BY <2>1, <2>2, LogStays, ListStays, DetailStays, SaveStays
<1>6. CASE History(h)!List
  <2> DEFINE p == [i \in History(h)!Page(fetch.before) \ h.hidden |->
                     [at |-> began[i], state |-> state[i], note |-> note[i]]]
  <2>1. UNCHANGED <<now, began, state, note, list, history, detail, save, saves>>
    BY <1>6 DEF History!List
  <2>2. fetch' = [fetch EXCEPT !.st = "listed", !.seen = Len(began), !.page = p]
    BY <1>6 DEF History!List
  <2>3. History(h)!Page(fetch.before) \subseteq DOMAIN began
    BY DEF History!Page, History!Log
  <2>4. TransactionsOf(h, p)
    <3>1. ASSUME NEW i \in DOMAIN p
          PROVE  p[i] \in [at : 1 .. h.time, state : 0 .. 1, note : WordsOf]
      <4>1. i \in DOMAIN began /\ i \in 1 .. h.operations
        BY <3>1, <2>3, <1>a DEF LogTyped
      <4> QED
        BY <4>1, <1>a DEF LogTyped
    <3> QED
      BY <2>3, <3>1 DEF TransactionsOf
  <2> HIDE DEF p
  <2>5. FetchTyped(h)'
    <3>1. DOMAIN fetch' = Fields /\ fetch'.st = "listed" /\ fetch'.page = p
      BY <2>2 DEF FetchTyped, Fields
    <3> QED
      BY <2>1, <2>4, <3>1 DEF FetchTyped, TransactionsOf
  <2> QED
    BY <2>1, <2>5, LogStays, ListStays, DetailStays, SaveStays
<1>7. CASE History(h)!Fetched
  <2> DEFINE l == History(h)!UpdateTransactions(fetch.page, list)
  <2>1. /\ History(h)!Stores(l) /\ History(h)!Shows(l) /\ fetch' = History(h)!NoFetch
        /\ UNCHANGED <<now, began, state, note, save, saves>>
    BY <1>7 DEF History!Fetched
  <2>2. TransactionsOf(h, l) /\ DOMAIN list \subseteq DOMAIN l
    BY UpdatedTyped DEF ListTyped, FetchTyped
  <2> HIDE DEF l
  <2>3. list' = l /\ ListTyped(h)' /\ DetailTyped(h)'
    BY <2>1, <2>2, StoresTyped
  <2> QED
    BY <2>1, <2>2, <2>3, NoFetchTyped, LogStays, SaveStays
<1>8. CASE History(h)!FetchFails
  BY <1>8, NoFetchTyped, LogStays, ListStays, DetailStays, SaveStays DEF History!FetchFails
<1>9. ASSUME NEW i \in DOMAIN list, History(h)!Open(i) PROVE HistoryTyped(h)'
  <2>1. /\ detail' = [id |-> i, text |-> list[i].note, typed |-> "none"]
        /\ UNCHANGED <<now, began, state, note, list, history, fetch, save, saves>>
    BY <1>9 DEF History!Open
  <2>a. saves < h.saves
    BY <1>9 DEF History!Open
  <2>2. i \in Nat /\ list[i].note \in WordsOf
    BY <1>9 DEF ListTyped, TransactionsOf, LogTyped
  <2>3. DetailTyped(h)'
    BY <2>1, <2>a, <2>2, <1>b DEF DetailTyped
  <2> QED
    BY <2>1, <2>3, LogStays, ListStays, FetchStays, SaveStays
<1>10. CASE History(h)!Type
  <2>1. UNCHANGED <<now, began, state, note, list, history, fetch, save, saves>>
    BY <1>10 DEF History!Type
  <2>2. PICK n \in WordsOf : detail' = [detail EXCEPT !.text = n, !.typed = n]
    BY <1>10 DEF History!Type, History!Notes, WordsOf
  <2>3. DetailTyped(h)'
    BY <2>1, <2>2 DEF DetailTyped
  <2> QED
    BY <2>1, <2>3, LogStays, ListStays, FetchStays, SaveStays
<1>11. CASE History(h)!Close
  <2>1. /\ detail.id # 0 /\ detail' = History(h)!NoDetail
        /\ UNCHANGED <<now, began, state, note, list, history, fetch>>
    BY <1>11 DEF History!Close
  <2>2. DetailTyped(h)'
    BY <2>1, <1>b DEF DetailTyped, History!NoDetail
  <2>3. SaveTyped(h)'
    <3>1. CASE UNCHANGED <<save, saves>>
      BY <2>1, <3>1, SaveStays
    <3>2. CASE ~UNCHANGED <<save, saves>>
      <4>1. /\ save' = [id |-> detail.id, text |-> detail.text, written |-> FALSE]
            /\ saves' = saves + 1
        BY <1>11, <3>2 DEF History!Close
      <4>2. saves' \in 0 .. h.saves
        BY <2>1, <4>1, <1>a DEF SaveTyped, DetailTyped
      <4>3. /\ save' \in [id : Nat, text : WordsOf, written : BOOLEAN]
            /\ save'.id \in DOMAIN list /\ ~save'.written
        BY <2>1, <4>1 DEF DetailTyped
      <4> QED
        BY <2>1, <4>2, <4>3 DEF SaveTyped
    <3> QED
      BY <3>1, <3>2
  <2> QED
    BY <2>1, <2>2, <2>3, LogStays, ListStays, FetchStays
<1>12. CASE History(h)!Write
  <2>1. /\ save.id # 0 /\ save' = [save EXCEPT !.written = TRUE]
        /\ note' = [note EXCEPT ![save.id] = save.text]
        /\ UNCHANGED <<now, began, state, list, history, fetch, detail, saves>>
    BY <1>12 DEF History!Write
  <2>2. LogTyped(h)'
    BY <2>1 DEF LogTyped, SaveTyped
  <2>3. SaveTyped(h)'
    BY <2>1 DEF SaveTyped
  <2> QED
    BY <2>1, <2>2, <2>3, ListStays, FetchStays, DetailStays
<1>13. CASE History(h)!Noted
  <2> DEFINE t == [list[save.id] EXCEPT !.note = save.text]
             l == History(h)!UpdateTransactions(History(h)!Only(save.id, t), list)
  <2>1. /\ save.written /\ History(h)!Stores(l) /\ History(h)!Shows(l)
        /\ save' = History(h)!NoSave
        /\ UNCHANGED <<now, began, state, note, fetch, saves>>
    BY <1>13 DEF History!Noted
  <2>2. save.id \in DOMAIN list /\ save.id \in DOMAIN began \ h.hidden
    BY <2>1 DEF SaveTyped, ListTyped, TransactionsOf
  <2>3. t \in [at : 1 .. h.time, state : 0 .. 1, note : WordsOf]
    BY <2>2 DEF SaveTyped, ListTyped, TransactionsOf
  <2>4. TransactionsOf(h, l) /\ DOMAIN list \subseteq DOMAIN l
    BY <2>2, <2>3, OnlyTyped, UpdatedTyped DEF ListTyped
  <2> HIDE DEF l, t
  <2>5. list' = l /\ ListTyped(h)' /\ DetailTyped(h)'
    BY <2>1, <2>4, StoresTyped
  <2>6. SaveTyped(h)'
    BY <2>1, <1>b DEF SaveTyped, History!NoSave
  <2> QED
    BY <2>1, <2>4, <2>5, <2>6, FetchStays, LogStays
<1> QED
  BY <1>1, <1>2, <1>3, <1>4, <1>5, <1>6, <1>7, <1>8, <1>9, <1>10, <1>11, <1>12, <1>13
     DEF History!Next

\* What the three steps that store a list make of it.
LEMMA FetchedIs ==
    ASSUME NEW h, HistoryTyped(h), History(h)!Fetched
    PROVE  /\ DOMAIN list' = DOMAIN list \cup DOMAIN fetch.page
           /\ \A i \in DOMAIN fetch.page : list'[i] = fetch.page[i]
           /\ \A i \in DOMAIN list \ DOMAIN fetch.page : list'[i] = list[i]
           /\ DOMAIN fetch'.page = {} /\ fetch'.st = "none" /\ fetch.st = "listed"
           /\ detail' = detail \/ (/\ detail.id # 0 /\ detail.id \in DOMAIN list
                                 /\ list'[detail.id].note # list[detail.id].note)
           /\ UNCHANGED <<now, began, state, note, save, saves>>
<1> DEFINE l == History(h)!UpdateTransactions(fetch.page, list)
<1>1. /\ History(h)!Stores(l) /\ fetch' = History(h)!NoFetch /\ fetch.st = "listed"
      /\ UNCHANGED <<now, began, state, note, save, saves>>
  BY DEF History!Fetched, History!bridge
<1>2. list' = l
  BY <1>1 DEF History!Stores
<1>a. History(h)!Shows(l)
  BY DEF History!Fetched
<1>b. detail' = detail \/ (/\ detail.id # 0 /\ detail.id \in DOMAIN list
                         /\ l[detail.id].note # list[detail.id].note)
  BY <1>a DEF History!Shows
<1>3. DOMAIN fetch'.page = {} /\ fetch'.st = "none"
  BY <1>1 DEF History!NoFetch, History!Nothing
<1>4. /\ DOMAIN l = DOMAIN list \cup DOMAIN fetch.page
      /\ \A i \in DOMAIN fetch.page : l[i] = fetch.page[i]
      /\ \A i \in DOMAIN list \ DOMAIN fetch.page : l[i] = list[i]
  BY DEF History!UpdateTransactions
<1> HIDE DEF l
<1> QED
  BY <1>1, <1>2, <1>3, <1>4, <1>b

LEMMA NotedIs ==
    ASSUME NEW h, HistoryTyped(h), History(h)!Noted
    PROVE  /\ save.written /\ save.id \in DOMAIN list
           /\ DOMAIN list' = DOMAIN list
           /\ list'[save.id] = [list[save.id] EXCEPT !.note = save.text]
           /\ \A i \in DOMAIN list \ {save.id} : list'[i] = list[i]
           /\ save'.id = 0 /\ ~save'.written
           /\ detail' = detail \/ (/\ detail.id # 0 /\ detail.id \in DOMAIN list
                                 /\ list'[detail.id].note # list[detail.id].note)
           /\ UNCHANGED <<now, began, state, note, fetch, saves>>
<1> DEFINE t == [list[save.id] EXCEPT !.note = save.text]
           l == History(h)!UpdateTransactions(History(h)!Only(save.id, t), list)
<1>1. /\ save.written /\ History(h)!Stores(l) /\ save' = History(h)!NoSave
      /\ UNCHANGED <<now, began, state, note, fetch, saves>>
  BY DEF History!Noted, History!bridge
<1>2. list' = l /\ save'.id = 0 /\ ~save'.written
  BY <1>1 DEF History!Stores, History!NoSave
<1>a. History(h)!Shows(l)
  BY DEF History!Noted
<1>b. detail' = detail \/ (/\ detail.id # 0 /\ detail.id \in DOMAIN list
                         /\ l[detail.id].note # list[detail.id].note)
  BY <1>a DEF History!Shows
<1>3. save.id \in DOMAIN list
  BY <1>1 DEF HistoryTyped, SaveTyped
<1> HIDE DEF t
<1>4. /\ DOMAIN l = DOMAIN list \cup {save.id} /\ l[save.id] = t
      /\ \A i \in DOMAIN list \ {save.id} : l[i] = list[i]
  BY DEF History!UpdateTransactions, History!Only
<1> HIDE DEF l
<1> QED
  BY <1>1, <1>2, <1>3, <1>4, <1>b DEF t

LEMMA ProgressIs ==
    ASSUME NEW h, HistoryTyped(h), NEW i, History(h)!Progress(i)
    PROVE  /\ h.progresses /\ (h.overlap \/ fetch.st = "none")
           /\ DOMAIN list' = DOMAIN list \cup {i}
           /\ list'[i].state = 1
           /\ \A j \in DOMAIN list \ {i} : list'[j] = list[j]
           /\ i \in DOMAIN began /\ state' = [state EXCEPT ![i] = 1]
           /\ UNCHANGED <<now, began, note, fetch, save, saves>>
<1> DEFINE t == [at |-> now, state |-> 1, note |-> ""]
           l == History(h)!UpdateTransactions(History(h)!Only(i, t), list)
<1>1. /\ h.progresses /\ (h.overlap \/ fetch.st = "none") /\ History(h)!Stores(l)
      /\ i \in DOMAIN began /\ state' = [state EXCEPT ![i] = 1]
      /\ UNCHANGED <<now, began, note, fetch, save, saves>>
  BY DEF History!Progress, History!Log
<1>2. list' = l
  BY <1>1 DEF History!Stores
<1>3. t.state = 1
  OBVIOUS
<1> HIDE DEF t
<1>4. /\ DOMAIN l = DOMAIN list \cup {i} /\ l[i] = t
      /\ \A j \in DOMAIN list \ {i} : l[j] = list[j]
  BY DEF History!UpdateTransactions, History!Only
<1> QED
  BY <1>1, <1>2, <1>3, <1>4

\* A page is what the log says.
LEMMA PageIs ==
    ASSUME NEW h, HistoryTyped(h), History(h)!List
    PROVE  /\ DOMAIN fetch'.page \subseteq DOMAIN began
           /\ fetch.st = "called" /\ fetch'.st = "listed"
           /\ \A i \in DOMAIN fetch'.page :
                /\ fetch'.page[i].at = began[i] /\ fetch'.page[i].state = state[i]
                /\ fetch'.page[i].note = note[i]
           /\ UNCHANGED <<now, began, state, note, list, history, detail, save, saves>>
<1> DEFINE p == [i \in History(h)!Page(fetch.before) \ h.hidden |->
                     [at |-> began[i], state |-> state[i], note |-> note[i]]]
<1>1. /\ fetch' = [fetch EXCEPT !.st = "listed", !.seen = Len(began), !.page = p]
      /\ fetch.st = "called"
      /\ UNCHANGED <<now, began, state, note, list, history, detail, save, saves>>
  BY DEF History!List, History!bridge
<1>2. History(h)!Page(fetch.before) \subseteq DOMAIN began
  BY DEF History!Page, History!Log
<1>3. /\ DOMAIN p \subseteq DOMAIN began
      /\ \A i \in DOMAIN p :
           p[i].at = began[i] /\ p[i].state = state[i] /\ p[i].note = note[i]
  BY <1>2
<1> HIDE DEF p
<1>4. fetch'.page = p /\ fetch'.st = "listed"
  BY <1>1 DEF HistoryTyped, FetchTyped, Fields
<1> QED
  BY <1>1, <1>3, <1>4

\* A call begins, or fails, with no page; and the list stays.
LEMMA CallsHaveNoPage ==
    ASSUME NEW h, HistoryTyped(h), History(h)!Fetch \/ History(h)!FetchFails
    PROVE  /\ DOMAIN fetch'.page = {}
           /\ UNCHANGED <<now, began, state, note, list, history, detail, save, saves>>
<1>1. CASE History(h)!FetchFails
  BY <1>1 DEF History!FetchFails, History!NoFetch, History!Nothing, History!bridge
<1>2. CASE History(h)!Fetch
  <2>1. UNCHANGED <<now, began, state, note, list, history, detail, save, saves>>
    BY <1>2 DEF History!Fetch, History!bridge
  <2>2. \E more \in BOOLEAN : \E t :
          fetch' = [History(h)!NoFetch EXCEPT !.st = "called", !.more = more, !.before = t]
    BY <1>2 DEF History!Fetch
  <2>3. DOMAIN fetch'.page = {}
    BY <2>2 DEF History!NoFetch, History!Nothing
  <2> QED
    BY <2>1, <2>3
<1> QED
  BY <1>1, <1>2

\* Steps that neither store a list nor fetch.
Aside(h) ==
    \/ History(h)!Tick \/ History(h)!Begin \/ History(h)!Type \/ History(h)!Close
    \/ History(h)!Write \/ (\E i \in DOMAIN list : History(h)!Open(i))
    \/ UNCHANGED History(h)!vars
LEMMA AsideIs ==
    ASSUME NEW h, Aside(h) PROVE UNCHANGED <<state, list, fetch>>
  BY DEF Aside, History!Tick, History!Begin, History!Type, History!Close, History!Write,
     History!Open, History!vars, History!bridge
LEMMA HistorySteps ==
    ASSUME NEW h, [History(h)!Next]_(History(h)!vars)
    PROVE  \/ Aside(h) \/ History(h)!List \/ History(h)!Fetch \/ History(h)!FetchFails
           \/ History(h)!Fetched \/ History(h)!Noted
           \/ (\E i \in History(h)!Operations : History(h)!Progress(i))
  BY DEF Aside, History!Next

-----------------------------------------------------------------------------
\* A transaction that is listed, or about to be, is as the operation is: no operation
\* progresses while a page is fetched.
ListedAsIs(h) ==
    ~h.overlap => /\ \A i \in DOMAIN list : list[i].state = state[i]
                  /\ \A i \in DOMAIN fetch.page : fetch.page[i].state = state[i]

LEMMA ListedAsIsGoesOn ==
    ASSUME NEW h, HistoryTyped(h), ListedAsIs(h), [History(h)!Next]_(History(h)!vars)
    PROVE  ListedAsIs(h)'
<1> SUFFICES ASSUME ~h.overlap PROVE ListedAsIs(h)'
  BY DEF ListedAsIs
<1> USE DEF ListedAsIs
<1>1. CASE Aside(h)
  BY <1>1, AsideIs
<1>2. CASE History(h)!List
  BY <1>2, PageIs
<1>3. CASE History(h)!Fetch \/ History(h)!FetchFails
  BY <1>3, CallsHaveNoPage
<1>4. CASE History(h)!Fetched
  BY <1>4, FetchedIs
<1>5. CASE History(h)!Noted
  <2>1. list'[save.id].state = list[save.id].state
    BY <1>5, NotedIs DEF HistoryTyped, ListTyped, TransactionsOf
  <2> QED
    BY <1>5, <2>1, NotedIs
<1>6. ASSUME NEW i \in History(h)!Operations, History(h)!Progress(i) PROVE ListedAsIs(h)'
  <2>1. DOMAIN fetch'.page = {}
    BY <1>6, ProgressIs DEF HistoryTyped, FetchTyped
  <2>2. /\ DOMAIN list' = DOMAIN list \cup {i} /\ list'[i].state = 1
        /\ \A j \in DOMAIN list \ {i} : list'[j] = list[j]
    BY <1>6, ProgressIs
  <2>3. state' = [state EXCEPT ![i] = 1]
    BY <1>6, ProgressIs
  <2>4. i \in 1 .. h.operations /\ DOMAIN state = 1 .. h.operations
    BY <1>6 DEF HistoryTyped, LogTyped, History!Operations
  <2>5. state'[i] = 1 /\ \A j : j # i => state'[j] = state[j]
    BY <2>3, <2>4
  <2> QED
    BY <2>1, <2>2, <2>5
<1> QED
  BY <1>1, <1>2, <1>3, <1>4, <1>5, <1>6, HistorySteps

-----------------------------------------------------------------------------
\* Where no operation progresses, a transaction has the time of its operation, and the
\* later were begun later.
ListedWhenBegun(h) ==
    ~h.progresses => /\ \A i, j \in DOMAIN began : i < j => began[i] <= began[j]
                     /\ \A i \in DOMAIN list : list[i].at = began[i]
                     /\ \A i \in DOMAIN fetch.page : fetch.page[i].at = began[i]

LEMMA ListedWhenBegunGoesOn ==
    ASSUME NEW h, HistoryTyped(h), ListedWhenBegun(h), [History(h)!Next]_(History(h)!vars)
    PROVE  ListedWhenBegun(h)'
<1> SUFFICES ASSUME ~h.progresses PROVE ListedWhenBegun(h)'
  BY DEF ListedWhenBegun
<1> USE DEF ListedWhenBegun
<1>1. CASE History(h)!Begin
  <2>1. began' = Append(began, now) /\ UNCHANGED <<list, fetch>>
    BY <1>1 DEF History!Begin
  <2>2. /\ began \in Seq(Nat) /\ now \in Nat
        /\ \A i \in DOMAIN began : began[i] \in Nat /\ began[i] <= now
    <3>1. /\ began \in Seq(Nat) /\ now \in 1 .. h.time
          /\ \A i \in DOMAIN began : began[i] \in 1 .. now
      BY DEF HistoryTyped, LogTyped
    <3> QED
      BY <3>1
  <2>3. /\ Len(began) \in Nat /\ DOMAIN began = 1 .. Len(began)
        /\ DOMAIN began' = 1 .. Len(began) + 1 /\ began'[Len(began) + 1] = now
        /\ \A i \in DOMAIN began : began'[i] = began[i]
    BY <2>1, <2>2
  <2>4. \A i, j \in DOMAIN began' : i < j => began'[i] <= began'[j]
    <3> SUFFICES ASSUME NEW i \in DOMAIN began', NEW j \in DOMAIN began', i < j
                 PROVE  began'[i] <= began'[j]
      OBVIOUS
    <3>1. i \in DOMAIN began /\ (j \in DOMAIN began \/ j = Len(began) + 1)
      BY <2>3
    <3> QED
      BY <2>2, <2>3, <3>1
  <2>5. DOMAIN list \subseteq DOMAIN began /\ DOMAIN fetch.page \subseteq DOMAIN began
    BY DEF HistoryTyped, ListTyped, FetchTyped, TransactionsOf
  <2> QED
    BY <2>1, <2>3, <2>4, <2>5
<1>2. CASE Aside(h) /\ ~History(h)!Begin
  <2>1. UNCHANGED <<began, list, fetch>>
    BY <1>2 DEF Aside, History!Tick, History!Type, History!Close, History!Write,
       History!Open, History!vars, History!bridge
  <2> QED
    BY <2>1
<1>3. CASE History(h)!List
  BY <1>3, PageIs
<1>4. CASE History(h)!Fetch \/ History(h)!FetchFails
  BY <1>4, CallsHaveNoPage
<1>5. CASE History(h)!Fetched
  BY <1>5, FetchedIs
<1>6. CASE History(h)!Noted
  <2>1. list'[save.id].at = list[save.id].at
    BY <1>6, NotedIs DEF HistoryTyped, ListTyped, TransactionsOf
  <2> QED
    BY <1>6, <2>1, NotedIs
<1>7. ASSUME NEW i, History(h)!Progress(i) PROVE FALSE
  BY <1>7, ProgressIs
<1> QED
  BY <1>1, <1>2, <1>3, <1>4, <1>5, <1>6, <1>7, HistorySteps

-----------------------------------------------------------------------------
\* Where no operation progresses, nor a note is saved while a page is fetched: the note of
\* a transaction is its operation's, but for one that is written and not told yet.
NotesAsTaken(h) ==
    ~h.overlap /\ ~h.progresses =>
        /\ save.id # 0 => fetch.st = "none" /\ detail.id = 0
        /\ \A i \in DOMAIN list : list[i].note = note[i] \/ (save.written /\ save.id = i)
        /\ save.written => note[save.id] = save.text
        /\ \A i \in DOMAIN fetch.page : fetch.page[i].note = note[i]
        /\ detail.typed # "none" => detail.text = detail.typed

LEMMA NotesAsTakenGoesOn ==
    ASSUME NEW h, History(h)!TransactionListAssumption, HistoryTyped(h), NotesAsTaken(h),
           [History(h)!Next]_(History(h)!vars)
    PROVE  NotesAsTaken(h)'
<1> SUFFICES ASSUME ~h.overlap, ~h.progresses PROVE NotesAsTaken(h)'
  BY DEF NotesAsTaken
<1> USE DEF NotesAsTaken
<1>1. CASE UNCHANGED History(h)!vars \/ History(h)!Tick \/ History(h)!Begin
  <2>1. UNCHANGED <<note, list, fetch, detail, save>>
    BY <1>1 DEF History!vars, History!Tick, History!Begin, History!bridge
  <2> QED
    BY <2>1
<1>2. CASE History(h)!Type
  <2>1. UNCHANGED <<note, list, fetch, save>> /\ detail.id # 0
    BY <1>2 DEF History!Type, History!bridge
  <2>2. PICK n \in History(h)!Notes : detail' = [detail EXCEPT !.text = n, !.typed = n]
    BY <1>2 DEF History!Type
  <2>3. detail'.text = n /\ detail'.typed = n /\ detail'.id = detail.id
    BY <2>2 DEF HistoryTyped, DetailTyped
  <2> QED
    BY <2>1, <2>3
<1>3. CASE History(h)!Close
  <2>1. /\ fetch.st = "none" /\ detail' = [id |-> 0, text |-> "", typed |-> "none"]
        /\ detail.id # 0 /\ UNCHANGED <<note, list, fetch>>
    BY <1>3 DEF History!Close, History!bridge, History!NoDetail
  <2>2. save.id = 0 /\ ~save.written /\ (save' = save \/ ~save'.written)
    <3>1. save.id = 0 /\ ~save.written
      BY <2>1 DEF HistoryTyped, SaveTyped
    <3>2. ASSUME save' # save PROVE ~save'.written
      <4>1. save' = [id |-> detail.id, text |-> detail.text, written |-> FALSE]
        BY <1>3, <3>2 DEF History!Close
      <4> QED
        BY <4>1
    <3> QED
      BY <3>1, <3>2
  <2>3. detail'.id = 0 /\ detail'.typed = "none"
    BY <2>1
  <2>4. ~save'.written
    BY <2>2
  <2> QED
    BY <2>1, <2>2, <2>3, <2>4
<1>4. ASSUME NEW i \in DOMAIN list, History(h)!Open(i) PROVE NotesAsTaken(h)'
  <2>1. /\ fetch.st = "none" /\ detail' = [id |-> i, text |-> list[i].note, typed |-> "none"]
        /\ save = History(h)!NoSave /\ UNCHANGED <<note, list, fetch, save>>
    BY <1>4 DEF History!Open, History!bridge
  <2>2. save.id = 0 /\ detail'.typed = "none"
    BY <2>1 DEF History!NoSave
  <2> QED
    BY <2>1, <2>2
<1>5. CASE History(h)!Write
  <2>1. /\ save.id # 0 /\ ~save.written
        /\ save' = [save EXCEPT !.written = TRUE] /\ note' = [note EXCEPT ![save.id] = save.text]
        /\ UNCHANGED <<list, fetch, detail>>
    BY <1>5 DEF History!Write
  <2>2. save'.written /\ save'.id = save.id /\ save'.text = save.text
    BY <2>1 DEF HistoryTyped, SaveTyped
  <2>3. save.id \in 1 .. h.operations
    <3>1. save.id \in DOMAIN began
      BY <2>1 DEF HistoryTyped, SaveTyped, ListTyped, TransactionsOf
    <3>2. began \in Seq(Nat) /\ Len(began) <= h.operations /\ h.operations \in Nat
      BY DEF HistoryTyped, LogTyped, History!TransactionListAssumption
    <3> QED
      BY <3>1, <3>2
  <2>4. note'[save.id] = save.text /\ \A i : i # save.id => note'[i] = note[i]
    BY <2>1, <2>3 DEF HistoryTyped, LogTyped
  <2>5. DOMAIN fetch.page = {}
    BY <2>1 DEF HistoryTyped, FetchTyped
  <2> QED
    BY <2>1, <2>2, <2>4, <2>5
<1>6. CASE History(h)!List
  BY <1>6, PageIs
<1>7. CASE History(h)!Fetch \/ History(h)!FetchFails
  <2>1. DOMAIN fetch'.page = {} /\ UNCHANGED <<note, list, detail, save>>
    BY <1>7, CallsHaveNoPage
  <2>2. save.id # 0 => fetch'.st = "none"
    <3>1. CASE History(h)!FetchFails
      BY <3>1, <2>1 DEF History!FetchFails, History!NoFetch
    <3>2. CASE History(h)!Fetch
      <4>1. save = [id |-> 0, text |-> "", written |-> FALSE]
        BY <3>2 DEF History!Fetch, History!NoSave
      <4> QED
        BY <4>1
    <3> QED
      BY <1>7, <3>1, <3>2
  <2> QED
    BY <2>1, <2>2
<1>8. CASE History(h)!Fetched
  <2>1. save.id = 0 /\ ~save.written
    BY <1>8, FetchedIs DEF HistoryTyped, SaveTyped
  <2>2. \A i \in DOMAIN list' : list'[i].note = note[i]
    BY <1>8, <2>1, FetchedIs
  <2>3. detail' = detail
    BY <1>8, <2>1, <2>2, FetchedIs
  <2> QED
    BY <1>8, <2>1, <2>2, <2>3, FetchedIs
<1>9. CASE History(h)!Noted
  <2>1. detail.id = 0 /\ detail' = detail /\ note[save.id] = save.text
    BY <1>9, NotedIs DEF HistoryTyped, SaveTyped
  <2>2. list'[save.id].note = save.text
    BY <1>9, NotedIs DEF HistoryTyped, ListTyped, TransactionsOf
  <2> QED
    BY <1>9, <2>1, <2>2, NotedIs
<1>10. ASSUME NEW i, History(h)!Progress(i) PROVE FALSE
  BY <1>10, ProgressIs
<1> QED
  BY <1>1, <1>2, <1>3, <1>4, <1>5, <1>6, <1>7, <1>8, <1>9, <1>10 DEF History!Next

-----------------------------------------------------------------------------
\* All that is kept of a history.
HistoryInv(h) == HistoryTyped(h) /\ ListedAsIs(h) /\ ListedWhenBegun(h) /\ NotesAsTaken(h)

LEMMA HistoryInvStarts ==
    ASSUME NEW h, History(h)!TransactionListAssumption, History(h)!Init PROVE HistoryInv(h)
<1>1. HistoryTyped(h)
  BY HistoryStarts
<1>2. DOMAIN list = {} /\ DOMAIN fetch.page = {} /\ fetch.st = "none"
  BY DEF History!Init, History!Nothing, History!NoFetch
<1>3. save.id = 0 /\ ~save.written /\ detail.typed = "none" /\ detail.id = 0
  BY DEF History!Init, History!NoSave, History!NoDetail
<1>4. \A i, j \in DOMAIN began : i < j => began[i] <= began[j]
  <2>1. History(h)!Ascending(began)
    BY DEF History!Init
  <2>2. \A i \in DOMAIN began : began[i] \in Nat
    BY <1>1 DEF HistoryTyped, LogTyped
  <2> QED
    BY <2>1, <2>2 DEF History!Ascending
<1> QED
  BY <1>1, <1>2, <1>3, <1>4 DEF HistoryInv, ListedAsIs, ListedWhenBegun, NotesAsTaken

LEMMA HistoryInvGoesOn ==
    ASSUME NEW h, History(h)!TransactionListAssumption, HistoryInv(h),
           [History(h)!Next]_(History(h)!vars)
    PROVE  HistoryInv(h)'
  BY HistoryTypedGoesOn, ListedAsIsGoesOn, ListedWhenBegunGoesOn, NotesAsTakenGoesOn
     DEF HistoryInv

\* What the runs check of a history follows.
LEMMA HistoryIsAsItSays ==
    ASSUME NEW h, HistoryInv(h)
    PROVE  /\ History(h)!TypeOK
           /\ ~h.overlap => History(h)!ListedIsCurrent
           /\ ~h.overlap /\ ~h.progresses => History(h)!NotesAreKept /\ History(h)!TypedIsKept
           /\ ~h.progresses => History(h)!SortedByCreation
<1>1. History(h)!TypeOK
  BY HistoryTypedIs DEF HistoryInv
<1>2. ~h.overlap => History(h)!ListedIsCurrent
  BY DEF HistoryInv, ListedAsIs, History!ListedIsCurrent
<1>3. ASSUME ~h.overlap, ~h.progresses PROVE History(h)!NotesAreKept /\ History(h)!TypedIsKept
  <2>1. ASSUME History(h)!Idle PROVE ~save.written
    <3>1. save = [id |-> 0, text |-> "", written |-> FALSE]
      BY <2>1 DEF History!Idle, History!NoSave
    <3> QED
      BY <3>1
  <2> QED
    BY <1>3, <2>1 DEF HistoryInv, NotesAsTaken, History!NotesAreKept, History!TypedIsKept
<1>4. ASSUME ~h.progresses PROVE History(h)!SortedByCreation
  <2> SUFFICES ASSUME NEW i \in DOMAIN list, NEW j \in DOMAIN list, list[i].at < list[j].at
               PROVE  i < j
    BY DEF History!SortedByCreation
  <2>1. /\ i \in DOMAIN began /\ j \in DOMAIN began /\ began \in Seq(Nat)
        /\ began[i] \in Nat /\ began[j] \in Nat /\ i \in Nat /\ j \in Nat
    BY DEF HistoryInv, HistoryTyped, ListTyped, LogTyped, TransactionsOf
  <2>2. /\ list[i].at = began[i] /\ list[j].at = began[j]
        /\ j < i => began[j] <= began[i]
    BY <1>4, <2>1 DEF HistoryInv, ListedWhenBegun
  <2> QED
    BY <2>1, <2>2
<1> QED
  BY <1>1, <1>2, <1>3, <1>4

-----------------------------------------------------------------------------
(* The systems of MCWallet, one of which runs. *)

\* The system that is named takes the step, and it goes on running.
LEMMA WalletRunsAlone ==
    ASSUME [WalletNext]_allWallet
    PROVE  /\ which' = which
           /\ which = "fees" => [Fees!Next]_(Fees!vars)
           /\ which = "joins" => [Joins!Next]_(Joins!vars)
           /\ which = "pages" => [History(Progressing)!Next]_(History(Progressing)!vars)
           /\ which = "notes" => [History(Annotated)!Next]_(History(Annotated)!vars)
           /\ which = "text" => [Text!Next]_(Text!vars)
<1>1. CASE UNCHANGED allWallet
  BY <1>1 DEF allWallet, feesVars, federationsVars, transactionsVars, textVars, Fees!vars,
     Joins!vars, Joins!bridge, Joins!redux, History!vars, History!bridge, Text!vars
<1>2. CASE LimitsStep
  BY <1>2 DEF LimitsStep
<1>3. CASE FeesStep
  BY <1>3 DEF FeesStep
<1>4. CASE FederationsStep
  BY <1>4 DEF FederationsStep
<1>5. CASE TransactionsStep
  BY <1>5 DEF TransactionsStep
<1>6. CASE TextStep
  BY <1>6 DEF TextStep
<1>7. CASE WebStep
  BY <1>7 DEF WebStep
<1> QED
  BY <1>1, <1>2, <1>3, <1>4, <1>5, <1>6, <1>7 DEF WalletNext

\* Fees and joins that run are sound.
LEMMA FeesAreRight ==
    ASSUME Fees!FediFeesAssumption, FeesInv, MaxCrashes = 0 => LedgerInv
    PROVE  /\ Fees!TypeOK /\ Fees!PendingIsOfSends
           /\ MaxCrashes = 0 => Fees!ChargedOnce
  BY LedgerGivesOnce DEF FeesInv

LEMMA JoinsAreRight ==
    ASSUME JoinsInv, JoinTypes
    PROVE  Joins!TypeOK /\ Joins!JoinsAreSafe
  BY JoinsKeepApart DEF JoinsInv, JoinTypes, Joins!JoinsAreSafe

\* Of the wallet's systems, as they run side by side: the pending counter is the sum of
\* the fees of the sends under way, fees are charged once while the app does not end, and a
\* join gives a federation a client of its own, the one that is saved, when no two join the
\* same one at once (FediFees and Federations: fedi_fee.rs, federations_locker.rs).
THEOREM FeesAndJoinsAreAlwaysRight == WalletSpec => []FeesAndJoinsAreRight
<1> DEFINE FeesSound == which = "fees" => FeesInv
           LedgerSound == which = "fees" /\ MaxCrashes = 0 => LedgerInv /\ crashes = 0
           JoinsSound == which = "joins" /\ ~JoinsOverlap => JoinsInv
           JoinsTyped == which = "joins" /\ ~JoinsOverlap => JoinTypes
           Sound == FeesSound /\ LedgerSound /\ JoinsSound /\ JoinsTyped
<1>a. Fees!FediFeesAssumption /\ Joins!FederationsAssumption
  BY WalletConstantsAssumption
<1>b. JoinsOverlap \in BOOLEAN
  BY <1>a DEF Joins!FederationsAssumption
<1>1. WalletInit => Sound
  <2> SUFFICES ASSUME WalletInit PROVE Sound
    OBVIOUS
  <2>1. FeesSound
    BY <1>a, FeesStart DEF WalletInit
  <2>2. LedgerSound
    BY <1>a, LedgerStart DEF WalletInit, Fees!Init
  <2>3. JoinsSound
    BY JoinsStart DEF WalletInit
  <2>4. JoinsTyped
    BY <1>a, JoinTypesStart DEF WalletInit
  <2> QED
    BY <2>1, <2>2, <2>3, <2>4
<1>2. Sound /\ [WalletNext]_allWallet => Sound'
  <2> SUFFICES ASSUME Sound, [WalletNext]_allWallet PROVE Sound'
    OBVIOUS
  <2>1. FeesSound'
    BY <1>a, FeesGoOn, WalletRunsAlone
  <2>2. LedgerSound'
    <3> SUFFICES ASSUME which' = "fees", MaxCrashes = 0 PROVE LedgerInv' /\ crashes' = 0
      OBVIOUS
    <3>1. [Fees!Next]_(Fees!vars) /\ which = "fees"
      BY WalletRunsAlone
    <3> QED
      BY <1>a, <3>1, LedgerStep DEF NothingCrashes
  <2>3. JoinsSound'
    <3> SUFFICES ASSUME which' = "joins", ~JoinsOverlap PROVE JoinsInv'
      OBVIOUS
    <3>1. [Joins!Next]_(Joins!vars) /\ which = "joins" /\ JoinsOverlap = FALSE
      BY <1>b, WalletRunsAlone
    <3> QED
      BY <3>1, JoinsStep
  <2>4. JoinsTyped'
    BY <1>a, JoinTypesStep, WalletRunsAlone
  <2> QED
    BY <2>1, <2>2, <2>3, <2>4
<1>3. Sound => FeesAndJoinsAreRight
  <2> SUFFICES ASSUME Sound PROVE FeesAndJoinsAreRight
    OBVIOUS
  <2>1. PendingIsOfSends /\ ChargedOnce
    BY <1>a, FeesAreRight DEF PendingIsOfSends, ChargedOnce
  <2>2. JoinsAreSafe
    BY JoinsAreRight DEF JoinsAreSafe
  <2> QED
    BY <2>1, <2>2 DEF FeesAndJoinsAreRight
<1> HIDE DEF Sound
<1> QED
  BY <1>1, <1>2, <1>3, PTL DEF WalletSpec

\* Of the history, as its systems run side by side: a transaction that is listed is as the
\* operation is and has its note when nothing is in flight, what was typed is not lost, the
\* list is sorted, and what is said of an operation is so (TransactionList and
\* TransactionText: redux/transactions.ts, utils/wallet.ts).
THEOREM HistoryIsAlwaysTrue == WalletSpec => []HistoryIsTrue
<1> DEFINE PagesSound == which = "pages" => HistoryInv(Progressing)
           NotesSound == which = "notes" => HistoryInv(Annotated)
           TextTyped == which = "text" => Text!TypeOK
           Sound == PagesSound /\ NotesSound /\ TextTyped
<1>a. /\ History(Progressing)!TransactionListAssumption
      /\ History(Annotated)!TransactionListAssumption
      /\ Text!TransactionTextAssumption
  BY WalletConstantsAssumption
<1>1. WalletInit => Sound
  <2> SUFFICES ASSUME WalletInit PROVE Sound
    OBVIOUS
  <2>1. PagesSound
    BY <1>a, HistoryInvStarts DEF WalletInit
  <2>2. NotesSound
    BY <1>a, HistoryInvStarts DEF WalletInit
  <2>3. TextTyped
    BY <1>a, TextStarts DEF WalletInit
  <2> QED
    BY <2>1, <2>2, <2>3
<1>2. Sound /\ [WalletNext]_allWallet => Sound'
  <2> SUFFICES ASSUME Sound, [WalletNext]_allWallet PROVE Sound'
    OBVIOUS
  <2>1. PagesSound'
    BY <1>a, HistoryInvGoesOn, WalletRunsAlone
  <2>2. NotesSound'
    BY <1>a, HistoryInvGoesOn, WalletRunsAlone
  <2>3. TextTyped'
    BY <1>a, TextGoesOn, WalletRunsAlone
  <2> QED
    BY <2>1, <2>2, <2>3
<1>3. Sound => HistoryIsTrue
  <2> SUFFICES ASSUME Sound PROVE HistoryIsTrue
    OBVIOUS
  <2>1. which = "pages" => /\ History(Progressing)!TypeOK
                           /\ ~Progressing.overlap => History(Progressing)!ListedIsCurrent
    BY HistoryIsAsItSays
  <2>2. which = "notes" =>
          /\ History(Annotated)!TypeOK
          /\ ~Annotated.overlap => History(Annotated)!ListedIsCurrent
          /\ ~Annotated.overlap /\ ~Annotated.progresses
             => History(Annotated)!NotesAreKept /\ History(Annotated)!TypedIsKept
          /\ ~Annotated.progresses => History(Annotated)!SortedByCreation
    BY HistoryIsAsItSays
  <2>3. which = "text" => Text!TypeOK
    OBVIOUS
  <2>4. SaidIsSo /\ AmountCoversFees /\ DetailAgrees
    BY <1>a, <2>3, TextIsTrue, AmountIsOfFees DEF SaidIsSo, AmountCoversFees, DetailAgrees
  <2>5. ListedIsCurrent /\ NotesAreKept /\ TypedIsKept /\ SortedByCreation
    BY <2>1, <2>2 DEF ListedIsCurrent, NotesAreKept, TypedIsKept, SortedByCreation
  <2> QED
    BY <2>1, <2>2, <2>3, <2>4, <2>5 DEF HistoryIsTrue
<1> HIDE DEF Sound
<1> QED
  BY <1>1, <1>2, <1>3, PTL DEF WalletSpec

=============================================================================
