---------------------------- MODULE StabilityPool ----------------------------
(***************************************************************************)
(* The stability pool's server module (modules/stability-pool/server): the *)
(* ledger every guardian keeps in its database and the items of consensus  *)
(* that change it.                                                         *)
(*                                                                         *)
(* Accounts deposit millisats as seeks (to hold a dollar value) or as      *)
(* provides (to be the collateral, for a fee).  A cycle turnover settles   *)
(* the locks of the ending cycle at the new price, pays out what accounts  *)
(* asked to cancel, puts the rest back with the staged deposits and locks  *)
(* anew.  Consensus orders the items, so that every action is atomic.      *)
(*                                                                         *)
(* Metadata is kept of an account's seeks in one transaction together: the *)
(* transaction's id stands for the first sequence number that they get.    *)
(* The Vec an account has in a table is the part of the queue that is its  *)
(* own.  Prices are arbitrary: StabilityPoolConsensus says how guardians   *)
(* agree on one.  Cents and wall-clock times in the metadata are left out. *)
(***************************************************************************)
EXTENDS LockMatching, Sequences

CONSTANTS
    Account,
    MinSeek,            \* min_allowed_seek
    MinProvide,         \* min_allowed_provide
    MaxFeeRate,         \* max_allowed_provide_fee_rate_ppb
    MinCancelBps,       \* min_allowed_cancellation_bps
    BpsUnit,            \* BPS_UNIT, 10_000 in the code
    Deposits,           \* amounts the outputs of transactions carry
    FeeRates,           \* fee rates providers ask for
    Bps,                \* shares accounts cancel
    Withdrawals,        \* amounts accounts withdraw
    Prices,             \* prices the guardians may agree on
    MaxSeeks,           \* bound on the number of seeks
    MaxProvides,        \* bound on the number of provides
    MaxCycles           \* bound on the number of cycles

ASSUME PoolAssumption ==
    /\ MinSeek \in Nat /\ MinProvide \in Nat
    /\ MaxFeeRate \in Nat /\ MaxFeeRate <= B
    /\ BpsUnit \in Nat \ {0}
    /\ MinCancelBps \in 1 .. BpsUnit
    /\ Deposits \subseteq Nat /\ FeeRates \subseteq Nat /\ Bps \subseteq Nat
    /\ Withdrawals \subseteq Nat
    /\ Prices \subseteq Nat \ {0}
    /\ MaxSeeks \in Nat /\ MaxProvides \in Nat /\ MaxCycles \in Nat
    /\ IsFiniteSet(Account)

VARIABLES
    idle,               \* IdleBalance: Account -> msats
    stagedSeeks,        \* StagedSeeks: sequence number -> seek
    stagedProvides,     \* StagedProvides: sequence number -> provide
    cancellations,      \* StagedCancellation: account -> basis points
    cycle,              \* CurrentCycle
    pastFeeRates,       \* PastCycle, as far as later queries read it
    nextSeek,           \* StagedSeekSequence
    nextProvide,        \* StagedProvideSequence
    provideMark,        \* nextProvide at the last turnover
    txid,               \* the txid of each seek ever staged
    txStart,            \* nextSeek when the transaction under way began
    seekMetadata,       \* SeekMetadata: txid -> metadata
    escrow,             \* msats paid into the module less those paid out
    halted              \* the division by zero that stopped the guardians

vars == <<idle, stagedSeeks, stagedProvides, cancellations, cycle,
          pastFeeRates, nextSeek, nextProvide, provideMark, txid, txStart,
          seekMetadata, escrow, halted>>

queues == <<stagedSeeks, stagedProvides>>

-----------------------------------------------------------------------------
Nothing == [s \in {} |-> 0]

SeekItem == [account : Account, amount : Nat]

ProvideItem == [account : Account, amount : Nat, minFeeRate : 0 .. MaxFeeRate]

Metadata == [initial : Nat, withdrawn : Nat, feesPaid : Nat,
             fullyWithdrawn : BOOLEAN]

\* Index 0 stands for a database without a current cycle.
NoCycle == [index |-> 0, startPrice |-> 1, feeRate |-> 0,
            lockedSeeks |-> Nothing, lockedProvides |-> Nothing]

Of(items, a) == {s \in DOMAIN items : items[s].account = a}

Has(items, a) == Of(items, a) # {}

Holding(items, a) == Sum(Only(items, Of(items, a)))

IsQueueOf(items, Item, next) ==
    /\ DOMAIN items \subseteq 0 .. next - 1
    /\ items \in [DOMAIN items -> Item]

SetAmounts(items, f) ==
    [s \in DOMAIN items |-> [items[s] EXCEPT !.amount = f[s]]]

\* The database's own view of what it owes, as audit() adds it up.
Liabilities ==
    Total(idle) + Sum(stagedSeeks) + Sum(stagedProvides)
        + Sum(cycle.lockedSeeks) + Sum(cycle.lockedProvides)

-----------------------------------------------------------------------------
Init ==
    /\ idle = [a \in Account |-> 0]
    /\ stagedSeeks = Nothing
    /\ stagedProvides = Nothing
    /\ cancellations = Nothing
    /\ cycle = NoCycle
    /\ pastFeeRates = <<>>
    /\ nextSeek = 0
    /\ nextProvide = 0
    /\ provideMark = 0
    /\ txid = Nothing
    /\ txStart = 0
    /\ seekMetadata = Nothing
    /\ escrow = 0
    /\ halted = "no"

-----------------------------------------------------------------------------
(***************************************************************************)
(* process_output: one action per intended action.  A rejected output      *)
(* changes nothing.  The outputs of a transaction are items one after the  *)
(* other; only its seeks are kept track of together, so that every other   *)
(* item may as well begin a transaction.                                   *)
(***************************************************************************)
Add(queue, s, item) ==
    [t \in DOMAIN queue \cup {s} |-> IF t = s THEN item ELSE queue[t]]

\* A bug to catch: an account seeks on top of its locked provides.
CanSeekIgnoringLocks(a) ==
    /\ ~Has(stagedProvides, a)
    /\ a \notin DOMAIN cancellations

\* A bug to catch: an account seeks while a cancellation is pending.
CanSeekIgnoringCancellation(a) ==
    /\ ~Has(stagedProvides, a)
    /\ ~Has(cycle.lockedProvides, a)

CanSeek(a) ==
    /\ ~Has(stagedProvides, a)
    /\ ~Has(cycle.lockedProvides, a)
    /\ a \notin DOMAIN cancellations

CanProvide(a) ==
    /\ ~Has(stagedSeeks, a)
    /\ ~Has(cycle.lockedSeeks, a)
    /\ a \notin DOMAIN cancellations

CanCancel(a) ==
    /\ ~Has(stagedSeeks, a)
    /\ ~Has(stagedProvides, a)
    /\ a \notin DOMAIN cancellations
    /\ Has(cycle.lockedSeeks, a) # Has(cycle.lockedProvides, a)

\* The id of the transaction that began at start, for a seek of a in it.
TxidOf(a, start) ==
    LET before == {s \in Of(stagedSeeks, a) : s >= start}
    IN  IF before = {} THEN nextSeek ELSE txid[CHOOSE s \in before : TRUE]

TransactionEnds == txStart' = nextSeek /\ UNCHANGED txid

\* An output of the transaction under way, or of one that begins.
Seek(a, amount) ==
    /\ halted = "no" /\ nextSeek < MaxSeeks
    /\ amount >= MinSeek
    /\ CanSeek(a)
    /\ txStart' \in {txStart, nextSeek}
    /\ txid' = Add(txid, nextSeek, TxidOf(a, txStart'))
    /\ stagedSeeks' =
         Add(stagedSeeks, nextSeek, [account |-> a, amount |-> amount])
    /\ nextSeek' = nextSeek + 1
    /\ escrow' = escrow + amount
    /\ UNCHANGED <<idle, stagedProvides, cancellations, cycle, pastFeeRates,
                   nextProvide, provideMark, seekMetadata, halted>>

Provide(a, amount, minFeeRate) ==
    /\ halted = "no" /\ nextProvide < MaxProvides
    /\ amount >= MinProvide
    /\ minFeeRate <= MaxFeeRate
    /\ CanProvide(a)
    /\ stagedProvides' =
         Add(stagedProvides, nextProvide,
             [account |-> a, amount |-> amount, minFeeRate |-> minFeeRate])
    /\ nextProvide' = nextProvide + 1
    /\ escrow' = escrow + amount
    /\ TransactionEnds
    /\ UNCHANGED <<idle, stagedSeeks, cancellations, cycle, pastFeeRates,
                   nextSeek, provideMark, seekMetadata, halted>>

CancelRenewal(a, bps) ==
    /\ halted = "no"
    /\ bps \in MinCancelBps .. BpsUnit
    /\ CanCancel(a)
    /\ cancellations' = Add(cancellations, a, bps)
    /\ TransactionEnds
    /\ UNCHANGED <<idle, queues, cycle, pastFeeRates, nextSeek, nextProvide,
                   provideMark, seekMetadata, escrow, halted>>

UndoCancelRenewal(a) ==
    /\ halted = "no"
    /\ a \in DOMAIN cancellations
    /\ cancellations' = Only(cancellations, DOMAIN cancellations \ {a})
    /\ TransactionEnds
    /\ UNCHANGED <<idle, queues, cycle, pastFeeRates, nextSeek, nextProvide,
                   provideMark, seekMetadata, escrow, halted>>

-----------------------------------------------------------------------------
(***************************************************************************)
(* process_input: a withdrawal drains the idle balance, then the account's *)
(* staged seeks and then its staged provides, each from the back of the    *)
(* account's Vec.  Seeks are there by sequence number.  Provides are there *)
(* as the last turnover wrote them back, by fee rate, the later ones       *)
(* behind them.                                                            *)
(***************************************************************************)
SeeksBehind(items) == [s \in DOMAIN items |-> {t \in DOMAIN items : t > s}]

ProvidesBehind(items) ==
    [p \in DOMAIN items |->
        {q \in DOMAIN items :
            IF q < provideMark /\ p < provideMark
            THEN p \in Cheaper(items)[q]
            ELSE q > p}]

Same(items, n) == [s \in DOMAIN items |-> n]

\* What is left of all the items of a queue when those in "own" are drained.
Drained(items, own, behind, want) ==
    LET mine == Only(items, own)
        left == Left(mine, behind, Same(mine, want))
    IN  [s \in (DOMAIN items \ own) \cup DOMAIN left |->
            IF s \in own THEN left[s] ELSE items[s]]

\* A bug to catch: locked deposits count as available.
UnlockedOrLocked(a) ==
    idle[a] + Holding(stagedSeeks, a) + Holding(stagedProvides, a)
        + Holding(cycle.lockedSeeks, a)

Unlocked(a) ==
    idle[a] + Holding(stagedSeeks, a) + Holding(stagedProvides, a)

ProcessInput(a, amount) ==
    LET ownSeeks     == Of(stagedSeeks, a)
        ownProvides  == Of(stagedProvides, a)
        afterIdle    == amount - Least(amount, idle[a])
        afterSeeks   == afterIdle - Least(afterIdle, Holding(stagedSeeks, a))
    IN  /\ halted = "no"
        /\ amount # 0
        /\ amount <= Unlocked(a)
        /\ idle' = [idle EXCEPT ![a] = @ - Least(amount, @)]
        /\ stagedSeeks' =
             Drained(stagedSeeks, ownSeeks,
                     SeeksBehind(Only(stagedSeeks, ownSeeks)), afterIdle)
        /\ stagedProvides' =
             Drained(stagedProvides, ownProvides,
                     ProvidesBehind(Only(stagedProvides, ownProvides)),
                     afterSeeks)
        /\ escrow' = escrow - amount
        /\ TransactionEnds
        /\ UNCHANGED <<cancellations, cycle, pastFeeRates, nextSeek,
                       nextProvide, provideMark, seekMetadata, halted>>

-----------------------------------------------------------------------------
(***************************************************************************)
(* The cycle turnover.  Step 1 and 2: the seeks are owed the dollars they  *)
(* were locked at, as far as all the locked msats reach, and the provides  *)
(* get the rest.                                                           *)
(***************************************************************************)
LockedSum == Sum(cycle.lockedSeeks) + Sum(cycle.lockedProvides)

\* A bug to catch: the seeks are paid more than there is.
SeeksPoolUnclamped(newPrice) ==
    CeilDiv(Sum(cycle.lockedSeeks) * cycle.startPrice, newPrice)

SeeksPool(newPrice) ==
    Least(CeilDiv(Sum(cycle.lockedSeeks) * cycle.startPrice, newPrice),
          LockedSum)

ProvidesPool(newPrice) == LockedSum - SeeksPool(newPrice)

SettledSeeks(newPrice) ==
    {SetAmounts(cycle.lockedSeeks, pay) :
        pay \in Payouts(Amounts(cycle.lockedSeeks), SeeksPool(newPrice))}

SettledProvides(newPrice) ==
    {SetAmounts(cycle.lockedProvides, pay) :
        pay \in Payouts(Amounts(cycle.lockedProvides), ProvidesPool(newPrice))}

(***************************************************************************)
(* Step 3: cancellations take their share of an account's settled locks,   *)
(* from the back of its Vec.                                               *)
(***************************************************************************)
ToCancel(items, a) ==
    IF a \in DOMAIN cancellations
    THEN CeilDiv(Holding(items, a) * cancellations[a], BpsUnit)
    ELSE 0

OwnersToCancel(items) ==
    [s \in DOMAIN items |-> ToCancel(items, items[s].account)]

NewerOwn(seeks) ==
    [s \in DOMAIN seeks |->
        {t \in DOMAIN seeks : seeks[t].account = seeks[s].account /\ t > s}]

DearerOwn(provides) ==
    [p \in DOMAIN provides |->
        {q \in DOMAIN provides :
            /\ provides[q].account = provides[p].account
            /\ p \in Cheaper(provides)[q]}]

\* A bug to catch: what a cancellation took is renewed all the same.
RenewedInFull(items, behind) == items

\* An account with nothing left to cancel keeps its empty locks; of the others
\* those that are empty by now are dropped.
Renewed(items, behind) ==
    LET left == Left(items, behind, OwnersToCancel(items))
        kept == {s \in DOMAIN left :
                    \/ left[s].amount # 0
                    \/ ToCancel(items, items[s].account) = 0}
    IN  Only(left, kept)

Refund(items, behind, a) ==
    Total(Only(Taken(items, behind, OwnersToCancel(items)), Of(items, a)))

\* The items of a table that are seeks of transaction m.
OfTx(items, m) == {s \in DOMAIN items : txid[s] = m}

\* A bug to catch: a seek counts as withdrawn when part of it is.
MetadataClosedEarly(seeks) ==
    LET visited == Reached(seeks, NewerOwn(seeks), OwnersToCancel(seeks))
    IN  [m \in DOMAIN seekMetadata |->
            [seekMetadata[m] EXCEPT
                !.fullyWithdrawn = @ \/ OfTx(seeks, m) \cap visited # {}]]

\* Every seek a cancellation visits has the metadata updated that it shares
\* with the other seeks of its transaction.
MetadataAfterCancelling(seeks) ==
    LET behind  == NewerOwn(seeks)
        want    == OwnersToCancel(seeks)
        taken   == Taken(seeks, behind, want)
        visited == Reached(seeks, behind, want)
    IN  [m \in DOMAIN seekMetadata |->
            [seekMetadata[m] EXCEPT
                !.withdrawn = @ + Total(Only(taken, OfTx(seeks, m))),
                !.fullyWithdrawn =
                    \/ @
                    \/ \E s \in visited :
                         txid[s] = m /\ taken[s] = seeks[s].amount]]

(***************************************************************************)
(* Step 4: the remaining locks join the staged items of their sequence     *)
(* number.                                                                 *)
(***************************************************************************)
Restaged(staged, locked) ==
    [s \in DOMAIN staged \cup DOMAIN locked |->
        IF s \notin DOMAIN locked THEN staged[s]
        ELSE IF s \notin DOMAIN staged THEN locked[s]
        ELSE [staged[s] EXCEPT !.amount = @ + locked[s].amount]]

(***************************************************************************)
(* Step 5: the auction, and the fees.  Every locked seek pays its fee at   *)
(* once, the providers share the fees by what each has locked.             *)
(***************************************************************************)
Fees(grossSeeks, feeRate) ==
    [s \in DOMAIN grossSeeks |-> Fee(grossSeeks[s].amount, feeRate)]

NetLockedSeeks(grossSeeks, feeRate) ==
    [s \in DOMAIN grossSeeks |->
        [grossSeeks[s] EXCEPT !.amount = @ - Fee(@, feeRate)]]

First(items, m) ==
    CHOOSE s \in OfTx(items, m) : \A t \in OfTx(items, m) : s <= t

\* The first seek of a transaction opens its metadata.
MetadataAfterLocking(metadata, grossSeeks, feeRate) ==
    LET fees(m) == Total(Only(Fees(grossSeeks, feeRate),
                              OfTx(grossSeeks, m)))
    IN  [m \in DOMAIN metadata \cup {txid[s] : s \in DOMAIN grossSeeks} |->
            IF m \in DOMAIN metadata
            THEN [metadata[m] EXCEPT !.feesPaid = @ + fees(m)]
            ELSE [initial |-> grossSeeks[First(grossSeeks, m)].amount,
                  withdrawn |-> 0, feesPaid |-> fees(m),
                  fullyWithdrawn |-> FALSE]]

ProviderWeights(lockedProvides) ==
    LET providers == {lockedProvides[p].account : p \in DOMAIN lockedProvides}
    IN  [a \in providers |-> Holding(lockedProvides, a)]

Halt(where) ==
    /\ halted' = where
    /\ UNCHANGED <<idle, queues, cancellations, cycle, pastFeeRates, nextSeek,
                   nextProvide, provideMark, txid, txStart, seekMetadata,
                   escrow>>

(***************************************************************************)
(* Steps 3 to 5 once the locks are settled to paidSeeks and paidProvides.  *)
(* In the code a panic leaves the database transaction uncommitted.        *)
(***************************************************************************)
Relock(newPrice, paidSeeks, paidProvides) ==
    LET seeks    == Restaged(stagedSeeks,
                             Renewed(paidSeeks, NewerOwn(paidSeeks)))
        provides == Restaged(stagedProvides,
                             Renewed(paidProvides, DearerOwn(paidProvides)))
        locked   == LockedProvides(seeks, provides)
        feeRate  == EffectiveFeeRate(locked)
        gross    == GrossLockedSeeks(seeks, locked)
        feePool  == Total(Fees(gross, feeRate))
        weights  == ProviderWeights(locked)
    IN  IF DividesByZero(weights, feePool)
        THEN Halt("fees")
        ELSE \E pay \in Payouts(weights, feePool) :
            /\ idle' = [a \in Account |->
                           idle[a]
                             + Refund(paidSeeks, NewerOwn(paidSeeks), a)
                             + Refund(paidProvides, DearerOwn(paidProvides), a)
                             + (IF a \in DOMAIN pay THEN pay[a] ELSE 0)]
            /\ cancellations' = Nothing
            /\ stagedSeeks' = UnlockedSeeks(seeks, locked)
            /\ stagedProvides' = UnlockedProvides(seeks, provides)
            /\ cycle' = [index |-> cycle.index + 1,
                         startPrice |-> newPrice,
                         feeRate |-> feeRate,
                         lockedSeeks |-> NetLockedSeeks(gross, feeRate),
                         lockedProvides |-> locked]
            /\ seekMetadata' =
                 MetadataAfterLocking(MetadataAfterCancelling(paidSeeks),
                                      gross, feeRate)
            /\ pastFeeRates' = IF cycle.index = 0 THEN pastFeeRates
                               ELSE Append(pastFeeRates, cycle.feeRate)
            /\ provideMark' = nextProvide
            /\ TransactionEnds
            /\ UNCHANGED <<nextSeek, nextProvide, escrow, halted>>

Turnover(newPrice) ==
    /\ halted = "no" /\ cycle.index < MaxCycles
    /\ IF DividesByZero(Amounts(cycle.lockedSeeks), SeeksPool(newPrice))
       THEN Halt("seeks")
       ELSE IF DividesByZero(Amounts(cycle.lockedProvides),
                             ProvidesPool(newPrice))
       THEN Halt("provides")
       ELSE \E paidSeeks \in SettledSeeks(newPrice),
               paidProvides \in SettledProvides(newPrice) :
               Relock(newPrice, paidSeeks, paidProvides)

-----------------------------------------------------------------------------
Next ==
    \/ \E a \in Account, amount \in Deposits : Seek(a, amount)
    \/ \E a \in Account, amount \in Deposits, feeRate \in FeeRates :
         Provide(a, amount, feeRate)
    \/ \E a \in Account, bps \in Bps : CancelRenewal(a, bps)
    \/ \E a \in Account : UndoCancelRenewal(a)
    \/ \E a \in Account, amount \in Withdrawals : ProcessInput(a, amount)
    \/ \E newPrice \in Prices : Turnover(newPrice)

Spec == Init /\ [][Next]_vars

-----------------------------------------------------------------------------
(***************************************************************************)
(* Properties.                                                             *)
(***************************************************************************)

\* Every table of the database holds values of its type, and sequence numbers
\* in use are below the counters they are drawn from.
TypeOK ==
    /\ idle \in [Account -> Nat]
    /\ IsQueueOf(stagedSeeks, SeekItem, nextSeek)
    /\ IsQueueOf(stagedProvides, ProvideItem, nextProvide)
    /\ DOMAIN cancellations \subseteq Account
    /\ cancellations \in [DOMAIN cancellations -> MinCancelBps .. BpsUnit]
    /\ cycle = [index |-> cycle.index, startPrice |-> cycle.startPrice,
                feeRate |-> cycle.feeRate, lockedSeeks |-> cycle.lockedSeeks,
                lockedProvides |-> cycle.lockedProvides]
    /\ cycle.index \in Nat
    /\ cycle.startPrice \in Nat \ {0}
    /\ cycle.feeRate \in 0 .. MaxFeeRate
    /\ IsQueueOf(cycle.lockedSeeks, SeekItem, nextSeek)
    /\ IsQueueOf(cycle.lockedProvides, ProvideItem, nextProvide)
    /\ pastFeeRates \in Seq(0 .. MaxFeeRate)
    /\ nextSeek \in Nat /\ nextProvide \in Nat /\ provideMark \in Nat
    /\ txid \in [0 .. nextSeek - 1 -> 0 .. nextSeek - 1]
    /\ txStart \in 0 .. nextSeek
    /\ IsQueueOf(seekMetadata, Metadata, nextSeek)
    /\ escrow \in Int
    /\ halted \in {"no", "seeks", "provides", "fees"}

\* What the module owes is exactly what was paid in and not paid out: settling,
\* cancelling, restaging, locking, fees and withdrawals lose and create no
\* millisat, however they round (audit() halts consensus otherwise).
Conservation == escrow = Liabilities

\* No account is on both sides of the pool, in whatever tables its deposits
\* are: the checks of process_output run against staged and locked deposits
\* and turnovers move deposits between the two.
OneSided ==
    \A a \in Account :
        \/ ~Has(stagedSeeks, a) /\ ~Has(cycle.lockedSeeks, a)
        \/ ~Has(stagedProvides, a) /\ ~Has(cycle.lockedProvides, a)

\* An account that waits for a cancellation has locks for it to apply to and
\* nothing staged that would be locked again in spite of it.
CancellationBacked ==
    \A a \in DOMAIN cancellations :
        /\ Has(cycle.lockedSeeks, a) # Has(cycle.lockedProvides, a)
        /\ ~Has(stagedSeeks, a) /\ ~Has(stagedProvides, a)

\* The locked provides cover the locked seeks at the collateral ratio, with
\* every rounding: the matching "will always overcollateralize".
Collateralised ==
    Sum(cycle.lockedSeeks) * CollProvider
        <= Sum(cycle.lockedProvides) * CollSeeker

\* Seeks keep their priority over later ones through every settlement and
\* restaging: none is locked while an older one waits.
OldestSeeksFirst ==
    \A s \in DOMAIN stagedSeeks, t \in DOMAIN cycle.lockedSeeks : t <= s

\* No provide is locked while one that was there at the turnover and is cheaper,
\* or older at the same rate, waits.
CheapestProvidesFirst ==
    \A p \in DOMAIN stagedProvides, q \in DOMAIN cycle.lockedProvides :
        p < provideMark =>
            \/ cycle.lockedProvides[q].minFeeRate < stagedProvides[p].minFeeRate
            \/ /\ cycle.lockedProvides[q].minFeeRate
                     = stagedProvides[p].minFeeRate
               /\ q <= p

\* Both queues are served in their order.
PrioritiesHold == OldestSeeksFirst /\ CheapestProvidesFirst

\* A settlement never divides by a total of zero provides: a written cycle with
\* locks has collateral in it.
ProvidesNeverDivideByZero == halted # "provides"

\* "The system thus operates in cycles ad infinitum": sharing the fees of a new
\* cycle does not stop it.
FeesNeverDivideByZero == halted # "fees"

\* "The system thus operates in cycles ad infinitum": settling the seeks of the
\* ending cycle does not stop it.
SeeksNeverDivideByZero == halted # "seeks"

\* Metadata tells the truth about a position: what is locked is on record, and
\* what is recorded as fully withdrawn has lost a seek for good.  The seeks of
\* an account in one transaction share a record, so one of them that is emptied
\* closes it for the others: the truth for the one seek a client puts into a
\* transaction, which has nothing left in the pool then.
MetadataTruthful ==
    /\ \A s \in DOMAIN cycle.lockedSeeks : txid[s] \in DOMAIN seekMetadata
    /\ \A m \in DOMAIN seekMetadata :
         seekMetadata[m].fullyWithdrawn =>
            \E s \in DOMAIN txid :
                /\ txid[s] = m
                /\ s \notin DOMAIN stagedSeeks \cup DOMAIN cycle.lockedSeeks

\* A withdrawal takes from the staged provides "from newest to oldest": it
\* touches none as long as the account has a newer one left.
NewestProvidesWithdrawnFirst ==
    [][\A p, q \in DOMAIN stagedProvides :
        /\ cycle' = cycle
        /\ stagedProvides[p].account = stagedProvides[q].account
        /\ p < q
        /\ q \in DOMAIN stagedProvides'
        => /\ p \in DOMAIN stagedProvides'
           /\ stagedProvides'[p] = stagedProvides[p]]_vars

\* Cancelling goes "in reverse order of sequence to preserve more of the older
\* seeks/provides": an older provide keeps its payout as long as something of a
\* newer one of the account is renewed.
OlderProvidesRenewedFirst ==
    \A newPrice \in Prices :
        DividesByZero(Amounts(cycle.lockedProvides), ProvidesPool(newPrice)) \/
        \A paid \in SettledProvides(newPrice) :
            LET renewed == Renewed(paid, DearerOwn(paid))
            IN  \A q \in DOMAIN paid : \A p \in NewerOwn(paid)[q] :
                    \/ p \notin DOMAIN renewed
                    \/ paid[q].amount = 0
                    \/ q \in DOMAIN renewed /\ renewed[q] = paid[q]

\* Whatever the next price is and whoever gets the rest of the rounding, a
\* settlement costs no seek a millisat of its value or more, unless all the
\* collateral is gone.
SeeksKeepValue ==
    \A newPrice \in Prices :
        DividesByZero(Amounts(cycle.lockedSeeks), SeeksPool(newPrice)) \/
        \A paid \in SettledSeeks(newPrice) : \A s \in DOMAIN paid :
            \/ ProvidesPool(newPrice) = 0
            \/ (paid[s].amount + 1) * newPrice
                  > cycle.lockedSeeks[s].amount * cycle.startPrice

TurnoverStep == cycle'.index # cycle.index

\* After a turnover no collateral that asks for the going rate or less is left
\* over while a seek still waits.
MarketClears ==
    [][TurnoverStep /\ Sum(stagedSeeks') > 0 =>
        \A p \in DOMAIN stagedProvides' :
            stagedProvides'[p].minFeeRate > cycle'.feeRate]_vars

\* A cancellation of everything is final: its turnover leaves the account with
\* idle balance only, no part of its payout being locked again.
FullCancellationExits ==
    [][TurnoverStep =>
        \A a \in DOMAIN cancellations :
            cancellations[a] = BpsUnit =>
                /\ Holding(stagedSeeks', a) = 0
                /\ Holding(stagedProvides', a) = 0
                /\ Holding(cycle'.lockedSeeks, a) = 0
                /\ Holding(cycle'.lockedProvides, a) = 0]_vars

(***************************************************************************)
(* The pool as a custodian: what an account may withdraw is its free       *)
(* balance, what is locked the committed part.                             *)
(***************************************************************************)
LockedOf(a) == Holding(cycle.lockedSeeks, a) + Holding(cycle.lockedProvides, a)

C == INSTANCE Custody
     WITH balance <- [a \in Account |-> Unlocked(a) + LockedOf(a)],
          free    <- [a \in Account |-> Unlocked(a)],
          exposed <- {a \in Account : \/ Has(cycle.lockedSeeks, a)
                                      \/ Has(cycle.lockedProvides, a)}

\* Every item of consensus is a deposit, a withdrawal of free balance, or a move
\* that keeps the sum of all balances and leaves alone who has no lock.
ImplementsCustody == C!Spec

=============================================================================
