-------------------------------- MODULE Msats --------------------------------
(***************************************************************************)
(* Arithmetic on amounts of millisats that the stability pool's server is  *)
(* built from: totals, ceiling division, taking an amount from a queue and *)
(* sharing a pool pro rata.                                                *)
(*                                                                         *)
(* An amount map sends keys (sequence numbers, accounts) to naturals.  Its *)
(* total counts the individual millisats it stands for, so that what the   *)
(* library proves of cardinalities applies to it.                          *)
(*                                                                         *)
(* An item is a record with an "amount" field (a seek or a provide, staged *)
(* or locked); a queue is a function from sequence numbers to items.       *)
(***************************************************************************)
EXTENDS Integers, FiniteSets

Least(m, n) == IF m <= n THEN m ELSE n

\* A bug to catch: rounding down.
FloorDiv(dividend, divisor) == dividend \div divisor

CeilDiv(dividend, divisor) ==
    IF dividend % divisor = 0
    THEN dividend \div divisor
    ELSE dividend \div divisor + 1

Coins(f) == UNION {{x} \X (1 .. f[x]) : x \in DOMAIN f}

Total(f) == Cardinality(Coins(f))

Amounts(items) == [s \in DOMAIN items |-> items[s].amount]

Sum(items) == Total(Amounts(items))

Only(items, S) == [s \in S \cap DOMAIN items |-> items[s]]

-----------------------------------------------------------------------------
(***************************************************************************)
(* Taking from a queue.  The loops of the server walk a list of items,     *)
(* take what they still want from each and stop once they want no more.    *)
(* before[s] is the set of items the walk meets before s, and want[s] what *)
(* the walk wants in all when it stands at s.                              *)
(***************************************************************************)
Ahead(items, before, s) == Sum(Only(items, before[s]))

Reached(items, before, want) ==
    {s \in DOMAIN items : Ahead(items, before, s) < want[s]}

Taken(items, before, want) ==
    [s \in DOMAIN items |->
        IF s \in Reached(items, before, want)
        THEN Least(want[s] - Ahead(items, before, s), items[s].amount)
        ELSE 0]

\* What the walk leaves: an item it reached and emptied is dropped from the
\* list, one it never reached stays even if its amount is zero.
Left(items, before, want) ==
    LET taken == Taken(items, before, want)
        kept  == {s \in DOMAIN items :
                    \/ s \notin Reached(items, before, want)
                    \/ taken[s] < items[s].amount}
    IN  [s \in kept |-> [items[s] EXCEPT !.amount = @ - taken[s]]]

-----------------------------------------------------------------------------
(***************************************************************************)
(* Sharing a pool pro rata to weights, rounding every share down, the rest *)
(* going to one key.  The server picks it with the sub-second nanoseconds  *)
(* of the cycle's start time modulo the number of keys; here it may be any *)
(* of them.                                                                *)
(***************************************************************************)
Shares(weight, pool) ==
    [x \in DOMAIN weight |-> (pool * weight[x]) \div Total(weight)]

\* A bug to catch: the rest of the rounding is lost.
ShareOutNoRest(weight, pool, lucky) == Shares(weight, pool)

ShareOut(weight, pool, lucky) ==
    LET shares == Shares(weight, pool)
    IN  [shares EXCEPT ![lucky] = @ + (pool - Total(shares))]

Payouts(weight, pool) ==
    IF DOMAIN weight = {}
    THEN {weight}
    ELSE {ShareOut(weight, pool, lucky) : lucky \in DOMAIN weight}

\* A share divides by the total weight; giving away the rest takes an index
\* modulo the number of keys.  Either division panics on zero.
DividesByZero(weight, pool) ==
    IF DOMAIN weight = {} THEN pool # 0 ELSE Total(weight) = 0

=============================================================================
