------------------------------ MODULE MCWallet ------------------------------
(***************************************************************************)
(* Balances, fees, the history of transactions and the web app's pages,    *)
(* for TLC: SpendLimits, which this module extends, and the instances of   *)
(* FediFees, Federations, TransactionList, TransactionText and WebPages    *)
(* that are checked, side by side.  One of them runs, the one that which   *)
(* names; they share no state.                                             *)
(***************************************************************************)
EXTENDS SpendLimits

CONSTANTS
    \* FediFees: sends and receipts, what each is of, and when its fees are remitted
    FeeSends, FeeReceipts, AmountIn, OperationFee, Ecash, Threshold, Base, Rate,
    Timeouts, MaxRemits, MaxCrashes,
    \* Federations: who joins and refreshes
    Feds, Joiners, Refreshers, JoinsOverlap, MaxPrefix, MaxActs,
    \* TransactionList: a history while operations progress, and one while notes are
    \* written, each with what there is of operations
    Progressing, Annotated,
    \* TransactionText
    Kinds, Crashes

VARIABLES
    which,   \* the system that runs
    \* FediFees
    ecash, op, status, pending, outstanding, calls, watching, checks,
    remits, crashes,
    \* Federations
    prefix, saved, running, money, leaving, join, snap, events,
    federationList, active, mods, fetching, acts,
    \* TransactionList
    now, began, state, note, list, history, fetch, detail, save, saves,
    \* TransactionText
    kind, st, savedState, fee, fiat,
    \* WebPages
    visit, app

feesVars == <<ecash, op, status, pending, outstanding, calls, watching,
              checks, remits, crashes>>
federationsVars == <<prefix, saved, running, money, leaving, join, snap,
                     events, federationList, active, mods, fetching, acts>>
transactionsVars == <<now, began, state, note, list, history, fetch, detail,
                      save, saves>>
textVars == <<kind, st, savedState, fee, fiat>>
webVars == <<visit, app>>
allWallet == <<which, vars, feesVars, federationsVars, transactionsVars,
               textVars, webVars>>

-----------------------------------------------------------------------------
\* Three operations of the same amount, and their fees.
AmountOf == [o \in {"p", "q", "r"} |-> 4]
FeeOf(third) == [o \in {"p", "q", "r"} |-> CASE o = "p" -> 2 [] o = "q" -> 5 [] o = "r" -> third]
FeesOfFive == FeeOf(5)

\* What is charged and remitted, in the run of two sends and a receipt; three sends;
\* and the first again while payments time out and the app is restarted.
Fees == INSTANCE FediFees WITH
    Sends <- FeeSends, Receives <- FeeReceipts, Amount <- AmountIn
Charged == INSTANCE FediFees WITH
    MILLION <- 10, Sends <- {"p", "q", "r"}, Receives <- {},
    Amount <- AmountOf, OperationFee <- FeeOf(3), Ecash <- 21, Threshold <- 100,
    Base <- 1, Rate <- 1, Timeouts <- FALSE, MaxRemits <- 1, MaxCrashes <- 0
Interrupted == INSTANCE FediFees WITH
    MILLION <- 10, Sends <- {"p", "q"}, Receives <- {"r"},
    Amount <- AmountOf, OperationFee <- FeeOf(5), Ecash <- 16, Threshold <- 5,
    Base <- 1, Rate <- 1, Timeouts <- TRUE, MaxRemits <- 1, MaxCrashes <- 1

-----------------------------------------------------------------------------
\* Federations that calls join, leave and join again, in the run two of each; and
\* one call, while the app fetches their list.
Joins == INSTANCE Federations WITH list <- federationList
Settle == INSTANCE Federations WITH
    Feds <- {"a", "b"}, Joiners <- {"t1"}, Refreshers <- {"t2"},
    JoinsOverlap <- FALSE, MaxPrefix <- 2, MaxActs <- 1,
    list <- federationList

-----------------------------------------------------------------------------
\* A history with what a record says of operations.  In the run five, one of them
\* hidden and one on-chain, that are fetched in pages and progress; and three to which
\* notes are added.
History(h) == INSTANCE TransactionList WITH
    MaxOperations <- h.operations, MaxTime <- h.time, MaxSaves <- h.saves,
    Limit <- h.limit, Hidden <- h.hidden, OnChain <- h.onChain, Begun <- h.begun,
    SameSecond <- h.sameSecond, Progresses <- h.progresses, Overlap <- h.overlap
FivePaged ==
    [operations |-> 5, time |-> 8, saves |-> 0, limit |-> 2, hidden |-> {3}, onChain |-> {1},
     begun |-> 5, sameSecond |-> FALSE, progresses |-> TRUE, overlap |-> FALSE]
ThreeNoted ==
    [operations |-> 3, time |-> 5, saves |-> 2, limit |-> 2, hidden |-> {2}, onChain |-> {},
     begun |-> 2, sameSecond |-> FALSE, progresses |-> FALSE, overlap |-> FALSE]

-----------------------------------------------------------------------------
\* What the list and the detail say of an operation.
Text == INSTANCE TransactionText WITH saved <- savedState

-----------------------------------------------------------------------------
\* Sessions on the pages of the web app, of a user with one federation, or none.
Two == {"a", "b"}
User ==
    [named |-> TRUE, legacy |-> FALSE, recovering |-> FALSE, joined |-> {"a"}, active |-> "a",
     ended |-> {}, balance |-> [f \in Two |-> "little"], room |-> FALSE, backedUp |-> FALSE,
     backup |-> [of |-> "none", video |-> "none"], panicked |-> FALSE, paid |-> {},
     agreed |-> FALSE, lost |-> FALSE, offered |-> TRUE, misled |-> FALSE, forfeited |-> FALSE]
Stranger ==
    [User EXCEPT !.named = FALSE, !.offered = FALSE, !.joined = {}, !.active = "none",
                 !.balance = [f \in Two |-> "none"]]
Waits ==
    [pages |-> {}, history |-> {}, user |-> "patient", agrees |-> FALSE, desktop |-> FALSE,
     unsupported |-> {}, terms |-> {}, popups |-> {}, receives |-> FALSE, panics |-> FALSE,
     calls |-> 1, payments |-> {}, page |-> "/", facts |-> User]
Chats == {"/chat", "/chat/new", "/chat/new/room", "/chat/user", "/chat/room"}
Sessions == {
    \* a stranger, who waits or not; with an account of the old chat
    [Waits EXCEPT !.pages = {"/onboarding/welcome", "/onboarding/username", "/onboarding/image",
                             "/onboarding/complete", "/chat", "/onboarding/join", "/"},
                  !.history = {"/onboarding/username"}, !.facts = Stranger,
                  !.terms = {"a"}, !.unsupported = {"b"}],
    [Waits EXCEPT !.pages = {"/onboarding/welcome", "/onboarding/username", "/onboarding/image",
                             "/onboarding/complete", "/chat", "/onboarding/join", "/"},
                  !.history = {"/onboarding/username"}, !.facts = Stranger,
                  !.terms = {"a"}, !.unsupported = {"b"}, !.user = "busy", !.calls = 2],
    [Waits EXCEPT !.pages = Chats \cup {"/onboarding/username", "/onboarding/image"},
                  !.page = "/chat", !.facts = [Stranger EXCEPT !.legacy = TRUE]],
    [Waits EXCEPT !.pages = Chats \cup {"/onboarding/username", "/onboarding/image"},
                  !.page = "/chat", !.facts = [Stranger EXCEPT !.legacy = TRUE],
                  !.user = "busy", !.calls = 2],
    \* recovery, before and after a name is given
    [Waits EXCEPT !.pages = {"/onboarding/welcome", "/onboarding/recover",
                             "/onboarding/recover/personal", "/onboarding/recover/social"},
                  !.page = "/onboarding", !.facts = Stranger],
    [Waits EXCEPT !.pages = {"/settings/recover/personal"}, !.page = "/settings/recover"],
    \* joins from the public federations, one of which ends
    [Waits EXCEPT !.pages = {"/", "/onboarding/join", "/onboarding/welcome",
                             "/onboarding/complete"},
                  !.history = {"/"}, !.facts.joined = {}, !.facts.active = "none",
                  !.terms = {"a"}, !.popups = {"b"}, !.desktop = TRUE],
    \* payments, and ecash while all may be taken away, and while nothing is waited for
    [Waits EXCEPT !.pages = {"/", "/send", "/request", "/onboarding/join", "/chat/room"},
                  !.history = {"/"}, !.payments = {"p", "q"}],
    [Waits EXCEPT !.pages = {"/", "/send"}, !.history = {"/"}, !.user = "busy",
                  !.agrees = TRUE, !.popups = {"a"}, !.panics = TRUE],
    [Waits EXCEPT !.pages = {"/", "/send"}, !.history = {"/"}, !.user = "hurried"],
    [Waits EXCEPT !.pages = {"/send"}, !.user = "busy", !.calls = 2, !.payments = {"p"},
                  !.agrees = TRUE],
    \* settings of a user who receives money, and backups of two federations
    [Waits EXCEPT !.pages = {"/settings", "/settings/language", "/settings/currency",
                             "/settings/edit-profile", "/bug-report", "/transactions", "/"},
                  !.page = "/settings", !.history = {"/settings/recover"},
                  !.facts.joined = Two, !.receives = TRUE],
    [Waits EXCEPT !.pages = {"/settings", "/settings/backup", "/settings/backup/personal",
                             "/settings/backup/social"},
                  !.page = "/settings/backup", !.facts.joined = Two, !.popups = {"b"},
                  !.desktop = TRUE],
    \* chats, on a screen that shows the list beside them
    [Waits EXCEPT !.pages = Chats, !.page = "/chat", !.history = {"/chat"},
                  !.desktop = TRUE, !.user = "busy", !.calls = 2]}
Web == INSTANCE WebPages WITH Feds <- Two, Payments <- {"p", "q"}, Visits <- Sessions

-----------------------------------------------------------------------------
ASSUME WalletConstantsAssumption ==
    /\ Fees!FediFeesAssumption /\ Charged!FediFeesAssumption
    /\ Interrupted!FediFeesAssumption
    /\ Joins!FederationsAssumption /\ Settle!FederationsAssumption
    /\ History(Progressing)!TransactionListAssumption
    /\ History(Annotated)!TransactionListAssumption
    /\ Text!TransactionTextAssumption
    /\ Web!WebPagesAssumption

\* A system that does not run stays in the one initial state given here.
WalletInit ==
    /\ which \in {"limits", "fees", "charged", "interrupted", "joins", "settle",
                  "pages", "notes", "text", "web"}
    /\ Init
    /\ which # "limits" => fediPpm = 0 /\ gateway = NoGateway
    /\ which = "charged" => Charged!Init
    /\ which = "interrupted" => Interrupted!Init
    /\ which \notin {"charged", "interrupted"} => Fees!Init
    /\ which = "settle" => Settle!Init
    /\ which # "settle" => Joins!Init
    /\ which = "pages" => History(Progressing)!Init
    /\ which = "notes" => History(Annotated)!Init
    /\ which \notin {"pages", "notes"} =>
         History(FivePaged)!Init /\ now = 7 /\ began = <<1, 2, 3, 4, 5>>
    /\ Text!Init
    /\ which # "text" => kind = "lnSend" /\ fiat = FALSE
    /\ which = "web" => Web!Init
    /\ which # "web" => visit = Waits /\ app = Waits

LimitsStep ==
    /\ which = "limits" /\ Next
    /\ UNCHANGED <<which, feesVars, federationsVars, transactionsVars,
                   textVars, webVars>>

FeesStep ==
    /\ \/ which = "fees" /\ Fees!Next
       \/ which = "charged" /\ Charged!Next
       \/ which = "interrupted" /\ Interrupted!Next
    /\ UNCHANGED <<which, vars, federationsVars, transactionsVars, textVars, webVars>>

FederationsStep ==
    /\ \/ which = "joins" /\ Joins!Next
       \/ which = "settle" /\ Settle!Next
    /\ UNCHANGED <<which, vars, feesVars, transactionsVars, textVars, webVars>>

TransactionsStep ==
    /\ \/ which = "pages" /\ History(Progressing)!Next
       \/ which = "notes" /\ History(Annotated)!Next
    /\ UNCHANGED <<which, vars, feesVars, federationsVars, textVars, webVars>>

TextStep ==
    /\ which = "text" /\ Text!Next
    /\ UNCHANGED <<which, vars, feesVars, federationsVars, transactionsVars, webVars>>

WebStep ==
    /\ which = "web" /\ Web!Next
    /\ UNCHANGED <<which, vars, feesVars, federationsVars, transactionsVars, textVars>>

WalletNext == LimitsStep \/ FeesStep \/ FederationsStep \/ TransactionsStep \/
              TextStep \/ WebStep

\* Each system is fair as its module says.
WalletFairness ==
    \/ which = "charged" /\ Charged!Fairness
    \/ which = "settle" /\ Settle!Fairness
    \/ which = "text" /\ Text!Fairness
    \/ which \notin {"charged", "settle", "text"}

WalletSpec == WalletInit /\ [][WalletNext]_allWallet /\ WalletFairness

\* The one system where the app may end while fees are remitted.
InterruptedSpec ==
    which = "interrupted" /\ WalletInit /\ [][WalletNext]_allWallet

-----------------------------------------------------------------------------
\* The ecash covers the fees reserved and outstanding, when only sends are
\* charged (get_balance subtracts without a check).
NoOverdraft == which = "charged" => Charged!NoOverdraft

\* The reservation of a fee ends with its operation.
FeesSettle == which = "charged" => Charged!FeesSettle

\* The pending counter is the sum of the fees of the sends that have the
\* status, however they overlap and whenever the app ends.
PendingIsOfSends == which = "fees" => Fees!TypeOK /\ Fees!PendingIsOfSends
InterruptedPending ==
    which = "interrupted" => Interrupted!TypeOK /\ Interrupted!PendingIsOfSends

\* Fees are charged once: outstanding and remitted are together no more than
\* the fees of the operations that succeeded, while the app does not end.
ChargedOnce == which = "fees" /\ MaxCrashes = 0 => Fees!ChargedOnce

\* The same when the app may end between a remittance and the reset.
InterruptedChargedOnce == which = "interrupted" => Interrupted!ChargedOnce

\* A join gives a federation a client of its own, the one that is saved, over
\* joining, failing, leaving and restarting (join_federation_inner), when no two
\* join the same one at once.
JoinsAreSafe == which = "joins" /\ ~JoinsOverlap => Joins!TypeOK /\ Joins!JoinsAreSafe

\* Once payments, joins and leaves have stopped, and while the user keeps
\* returning to the app, its list and balances become those of the bridge
\* for good.
EventuallyCurrent == which = "settle" => Settle!EventuallyCurrent

\* A transaction of the list is as the operation is, when nothing is in
\* flight and no operation progresses while a page is.
ListedIsCurrent ==
    /\ which = "pages" /\ ~Progressing.overlap => History(Progressing)!ListedIsCurrent
    /\ which = "notes" /\ ~Annotated.overlap => History(Annotated)!ListedIsCurrent

\* A page that brings nothing is the last: all that may be seen and is no
\* newer than what is seen is in the list (fetchTransactions).
EndIsTheEnd ==
    [][which = "pages" => History(Progressing)!EmptyPageIsTheLast]_<<which, transactionsVars>>

\* Notes that were saved are those of the list, when nothing is in flight, and what
\* was typed is not lost while the detail is open; where no operation progresses, nor
\* a note is saved while a page is fetched.
NotesAreKept ==
    which = "notes" /\ ~Annotated.overlap /\ ~Annotated.progresses
    => History(Annotated)!NotesAreKept
TypedIsKept ==
    which = "notes" /\ ~Annotated.overlap /\ ~Annotated.progresses
    => History(Annotated)!TypedIsKept

\* The list is sorted by when transactions were created, where none progresses.
SortedByCreation ==
    which = "notes" /\ ~Annotated.progresses => History(Annotated)!SortedByCreation

\* What is said to have been sent or received has been, and what is said to
\* have been refunded has not: as soon as the bridge knows
\* (makeTxnStatusText); but for what is said before it is known.
SaidIsSo == which = "text" /\ kind \notin {"ecashReceive", "spDeposit"} => Text!SaidIsSo

\* The amount of a send is what the other side gets and the fees that are
\* shown (makeTxnFeeDetails).
AmountCoversFees == which = "text" => Text!AmountCoversFees

\* What has come to an end is shown as that, in the end.
EndIsSaid == which = "text" => Text!EndIsSaid

\* The row and its detail do not contradict each other
\* (makeTxnDetailStatusText, makeTxnDetailTitleText, makeTxnAmountText).
DetailAgrees == which = "text" /\ kind # "spWithdrawal" => Text!DetailAgrees

-----------------------------------------------------------------------------
\* Fedi's fees are reserved once and charged once; and a join gives
\* a federation a client of its own, which is the one that is saved.
FeesAndJoinsAreRight ==
    /\ PendingIsOfSends
    /\ ChargedOnce
    /\ JoinsAreSafe

\* The pages of the web app tell a user who waits what was done, take nothing away
\* that is not lost yet, and go on from wherever they redirect.
PagesAreSound == which = "web" => Web!PagesAreSound

\* The history is the history: current, sorted, with the notes of its user, and
\* true in what it says of each operation.
HistoryIsTrue ==
    /\ which = "pages" => History(Progressing)!TypeOK
    /\ which = "notes" => History(Annotated)!TypeOK
    /\ which = "text" => Text!TypeOK
    /\ ListedIsCurrent
    /\ NotesAreKept
    /\ TypedIsKept
    /\ SortedByCreation
    /\ SaidIsSo
    /\ AmountCoversFees
    /\ DetailAgrees

\* The wallet settles: fees, balances, and what the history says; every step leaves
\* the fees that are reserved covered by ecash, and right whatever is interrupted; and
\* the end of the history is its end.
WalletSettles ==
    /\ [][NoOverdraft' /\ InterruptedPending']_<<which, feesVars>>
    /\ FeesSettle
    /\ EventuallyCurrent
    /\ EndIsTheEnd
    /\ EndIsSaid

=============================================================================
