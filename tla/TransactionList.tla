--------------------------- MODULE TransactionList ----------------------------
(***************************************************************************)
(* The history of one federation: the bridge's log of operations, the list *)
(* of transactions that the store keeps of it (redux/transactions.ts), the *)
(* screens that fetch page after page, and the note that the user writes   *)
(* to a transaction.                                                       *)
(*                                                                         *)
(* Operations are numbered as they were begun. The list is a function: the *)
(* store sorts by createdAt, and only its least one is asked for.          *)
(***************************************************************************)
EXTENDS Naturals, Sequences, FiniteSets, FiniteSetsExt

CONSTANTS
    MaxOperations, \* bound on the log
    MaxTime,       \* bound on the clock
    MaxSaves,      \* bound on the notes that are saved
    Limit,         \* limit of fetchTransactions
    Hidden,        \* operations that list_transactions leaves out
    OnChain,       \* operations that receive on-chain
    Begun,         \* the operations that are in the log at first
    SameSecond,    \* BOOLEAN: two operations may begin or progress in one second
    Progresses,    \* BOOLEAN: operations progress, which the bridge tells
    Overlap        \* BOOLEAN: and do so, as notes are saved, while a page is fetched

TransactionListAssumption ==
    /\ {MaxOperations, Limit, Begun} \subseteq Nat \ {0} /\ MaxSaves \in Nat
    /\ MaxTime \in Nat /\ MaxTime > 2 /\ Begun <= MaxOperations
    /\ Hidden \cup OnChain \subseteq 1 .. MaxOperations
    /\ {SameSecond, Progresses, Overlap} \subseteq BOOLEAN

VARIABLES
    now,
    began,    \* the log: when each operation was begun
    state,    \* 0, or 1 when the operation has progressed
    note,     \* TransactionNotesKey
    list,     \* transactions of the store
    history,  \* selectTransactionHistory, as it was last computed
    fetch,    \* a call of fetchTransactions
    detail,   \* HistoryDetail
    save,     \* a call of updateTransactionNotes
    saves

vars == <<now, began, state, note, list, history, fetch, detail, save, saves>>
bridge == <<began, state, note>>

Operations == 1 .. MaxOperations
Log == DOMAIN began
Notes == {"", "a", "b"}
Transaction == [at : 1 .. MaxTime, state : 0 .. 1, note : Notes]
Nothing == [x \in {} |-> 0]
NoFetch == [st |-> "none", more |-> FALSE, before |-> 0, page |-> Nothing, seen |-> 0]
NoDetail == [id |-> 0, text |-> "", typed |-> "none"]
NoSave == [id |-> 0, text |-> "", written |-> FALSE]

TypeOK ==
    /\ now \in 1 .. MaxTime /\ saves \in 0 .. MaxSaves
    /\ Len(began) <= MaxOperations /\ \A i \in Log : began[i] \in 1 .. now
    /\ state \in [Operations -> 0 .. 1] /\ note \in [Operations -> Notes]
    /\ \A f \in {list, fetch.page} :
         DOMAIN f \subseteq Log \ Hidden /\ \A i \in DOMAIN f : f[i] \in Transaction
    /\ history \subseteq DOMAIN list /\ fetch.st \in {"none", "called", "listed"}
    /\ detail.id \in {0} \cup DOMAIN list /\ {detail.text, save.text} \subseteq Notes

Ascending(s) ==
    \A i, j \in DOMAIN s : i < j => IF SameSecond THEN s[i] <= s[j] ELSE s[i] < s[j]

Init ==
    /\ now \in 2 .. MaxTime - 1 /\ began \in {s \in [1 .. Begun -> 1 .. now - 1] : Ascending(s)}
    /\ state = [i \in Operations |-> 0] /\ note = [i \in Operations |-> ""]
    /\ list = Nothing /\ history = {} /\ fetch = NoFetch /\ detail = NoDetail
    /\ save = NoSave /\ saves = 0

-----------------------------------------------------------------------------
\* Mutant: what is there is preferred to what is new.
UpdateOlder(new, old) ==
    [i \in DOMAIN new \cup DOMAIN old |-> IF i \in DOMAIN old THEN old[i] ELSE new[i]]

\* updateTransactions: the newer version of a transaction is in front.
UpdateTransactions(new, old) ==
    [i \in DOMAIN new \cup DOMAIN old |-> IF i \in DOMAIN new THEN new[i] ELSE old[i]]
Only(i, t) == [j \in {i} |-> t]

\* The filter of selectTransactionHistory: an hour is one unit of the clock here.
Expired(i, t) == i \in OnChain /\ now - t.at > 1 /\ t.state = 0

Stores(l) == /\ list' = l
             /\ history' = IF l = list THEN history ELSE {i \in DOMAIN l : ~Expired(i, l[i])}

\* The effect of HistoryDetail: when the note that is known changes, the text is reset.
Shows(l) == detail' = IF detail.id # 0 /\ detail.id \in DOMAIN l \cap DOMAIN list
                         /\ l[detail.id].note # list[detail.id].note
                      THEN [detail EXCEPT !.text = l[detail.id].note] ELSE detail

-----------------------------------------------------------------------------
Tick ==
    /\ now < MaxTime /\ now' = now + 1
    /\ UNCHANGED <<bridge, list, history, fetch, detail, save, saves>>

\* An operation begins. Most tell nothing.
Begin ==
    /\ Len(began) < MaxOperations /\ (~SameSecond /\ began # <<>> => began[Len(began)] < now)
    /\ began' = Append(began, now)
    /\ UNCHANGED <<now, state, note, list, history, fetch, detail, save, saves>>

\* An operation progresses, which the bridge tells with the time of now and no note.
Progress(i) ==
    /\ Progresses /\ (Overlap \/ fetch.st = "none") /\ i \in Log \ Hidden /\ state[i] = 0
    /\ ~SameSecond => began[Len(began)] < now
    /\ state' = [state EXCEPT ![i] = 1]
    /\ LET l == UpdateTransactions(Only(i, [at |-> now, state |-> 1, note |-> ""]), list)
       IN  Stores(l) /\ Shows(l)
    /\ UNCHANGED <<now, began, note, fetch, save, saves>>

\* The effect of a screen, or the end of the list that was reached.
Fetch ==
    /\ fetch.st = "none" /\ (Overlap \/ save = NoSave)
    /\ \E more \in BOOLEAN :
         fetch' = [NoFetch EXCEPT !.st = "called", !.more = more,
                                  !.before = IF more /\ list # Nothing
                                             THEN Min({list[i].at : i \in DOMAIN list}) ELSE 0]
    /\ UNCHANGED <<now, bridge, list, history, detail, save, saves>>

\* External: list_operations, newest first, begun before that second.
Page(before) ==
    LET older == {i \in Log : before = 0 \/ began[i] < before}
    IN  {i \in older : Cardinality({j \in older : j > i}) < Limit}

\* list_transactions: what is internal is left out of the page.
List ==
    /\ fetch.st = "called"
    /\ fetch' = [fetch EXCEPT !.st = "listed", !.seen = Len(began),
                              !.page = [i \in Page(fetch.before) \ Hidden |->
                                          [at |-> began[i], state |-> state[i], note |-> note[i]]]]
    /\ UNCHANGED <<now, bridge, list, history, detail, save, saves>>

\* fetchTransactions.fulfilled
Fetched ==
    /\ fetch.st = "listed"
    /\ LET l == UpdateTransactions(fetch.page, list) IN Stores(l) /\ Shows(l)
    /\ fetch' = NoFetch
    /\ UNCHANGED <<now, bridge, save, saves>>

\* The call fails: the screen tells it.
FetchFails ==
    /\ fetch.st = "called" /\ fetch' = NoFetch
    /\ UNCHANGED <<now, bridge, list, history, detail, save, saves>>

-----------------------------------------------------------------------------
Open(i) ==
    /\ detail = NoDetail /\ save = NoSave /\ saves < MaxSaves /\ (Overlap \/ fetch.st = "none")
    /\ detail' = [id |-> i, text |-> list[i].note, typed |-> "none"]
    /\ UNCHANGED <<now, bridge, list, history, fetch, save, saves>>

Type ==
    /\ detail.id # 0 /\ detail.typed = "none"
    /\ \E n \in Notes : detail' = [detail EXCEPT !.text = n, !.typed = n]
    /\ UNCHANGED <<now, bridge, list, history, fetch, save, saves>>

\* handleClose saves what differs from the note that is known.
Close ==
    /\ detail.id # 0 /\ (Overlap \/ fetch.st = "none") /\ detail' = NoDetail
    /\ IF detail.text # list[detail.id].note
       THEN /\ save' = [id |-> detail.id, text |-> detail.text, written |-> FALSE]
            /\ saves' = saves + 1
       ELSE UNCHANGED <<save, saves>>
    /\ UNCHANGED <<now, bridge, list, history, fetch>>

\* update_transaction_notes
Write ==
    /\ save.id # 0 /\ ~save.written
    /\ save' = [save EXCEPT !.written = TRUE] /\ note' = [note EXCEPT ![save.id] = save.text]
    /\ UNCHANGED <<now, began, state, list, history, fetch, detail, saves>>

\* updateTransactionNotes.fulfilled
Noted ==
    /\ save.written
    /\ LET l == UpdateTransactions(Only(save.id, [list[save.id] EXCEPT !.note = save.text]), list)
       IN  Stores(l) /\ Shows(l)
    /\ save' = NoSave
    /\ UNCHANGED <<now, bridge, fetch, saves>>

-----------------------------------------------------------------------------
Next ==
    \/ Tick \/ Begin \/ Fetch \/ List \/ Fetched \/ FetchFails \/ Type \/ Close \/ Write \/ Noted
    \/ \E i \in Operations : Progress(i)
    \/ \E i \in DOMAIN list : Open(i)

Spec == Init /\ [][Next]_vars

-----------------------------------------------------------------------------
Idle == fetch = NoFetch /\ save = NoSave

\* A transaction of the list is as the operation is, when nothing is in flight.
ListedIsCurrent == Idle => \A i \in DOMAIN list : list[i].state = state[i]

\* And so is its note.
NotesAreKept == Idle => \A i \in DOMAIN list : list[i].note = note[i]

\* The list is sorted by when transactions were created.
SortedByCreation == \A i, j \in DOMAIN list : list[i].at < list[j].at => i < j

\* A page that brings nothing is the last: all that may be seen and is no newer than what is
\* seen is in the list.
EmptyPageIsTheLast ==
    Fetched /\ fetch.more /\ fetch.page = Nothing
    => LET newest == IF list' = Nothing THEN fetch.seen ELSE Max(DOMAIN list')
       IN  (1 .. newest) \ Hidden \subseteq DOMAIN list'
EndIsTheEnd == [][EmptyPageIsTheLast]_vars

\* What was typed is not lost while the detail is open.
TypedIsKept == detail.typed # "none" => detail.text = detail.typed

\* An on-chain receipt that nobody paid is not shown after an hour.
ExpiredIsHidden == \A i \in history : ~Expired(i, list[i])
=============================================================================
