-------------------------- MODULE StorageMigrations --------------------------
(***************************************************************************)
(* What the migrations of the stored state (migrateStoredState of          *)
(* ui/common/utils/storage.ts) do to the legacy chat of one federation:    *)
(* its messages, the roles in its groups and what its owner has read.      *)
(* The migrations run one after the other on what was stored by whichever  *)
(* version of the app ran last; nothing is written between them.           *)
(*                                                                         *)
(* A message is [chat, sentAt, payment, updatedAt], updatedAt being 0 for  *)
(* a payment that was never updated.  The id of the i-th is <<i>>; an id   *)
(* with an update appended, `${id}_${updatedAt}`, is <<i, updatedAt>>,     *)
(* which is no message's id.                                               *)
(***************************************************************************)
EXTENDS Integers, Sequences, FiniteSets, FiniteSetsExt

CONSTANTS
    Chats, Groups, Roles, Moderator,
    None,
    Lists,          \* the message lists to migrate
    StoredBy        \* the versions of the app that stored the state

ChatAssumption == Groups \subseteq Chats /\ Moderator \in Roles /\ None \notin Chats
ListAssumption ==
    \A l \in Lists :
        /\ l \in Seq([chat : Chats, sentAt : Nat, payment : BOOLEAN, updatedAt : Nat])
        /\ \A i \in DOMAIN l : None # <<i>>
VersionAssumption == StoredBy \subseteq {2, 3, 9, 13}

VARIABLES
    version,
    chat,       \* the federation's entry, or None when there is none
    stored      \* the entry as it was stored (history)

vars == <<version, chat, stored>>

LatestVersion == 20
\* The first of the greatest (orderBy "desc" and find), the last of the greatest
\* (getLatestMessage, getLatestPaymentUpdate); None of nothing.
FirstLatest(S, At(_)) ==
    IF S = {} THEN None ELSE Min({i \in S : \A j \in S : At(i) >= At(j)})
LastLatest(S, At(_)) ==
    IF S = {} THEN None ELSE Max({i \in S : \A j \in S : At(i) >= At(j)})

IdOf(i) == IF i = None THEN None ELSE <<i>>
UpdateIdOf(msgs, i) == IF i = None THEN None ELSE <<i, msgs[i].updatedAt>>

\* getLatestMessageIdsForChats, getLatestMessage
InChat(msgs, c) == {i \in DOMAIN msgs : msgs[i].chat = c}
Payments(msgs) == {i \in DOMAIN msgs : msgs[i].payment}
ReadAll(msgs) ==
    [c \in Chats |-> IdOf(FirstLatest(InChat(msgs, c), LAMBDA i : msgs[i].sentAt))]
SeenAll(msgs) == IdOf(LastLatest(DOMAIN msgs, LAMBDA i : msgs[i].sentAt))

\* getLatestPaymentUpdateIdsForChats, getLatestPaymentUpdate
PaymentsReadAll(msgs) ==
    [c \in Chats |-> UpdateIdOf(msgs, FirstLatest(InChat(msgs, c) \cap Payments(msgs),
                                                  LAMBDA i : msgs[i].updatedAt))]
PaymentSeenAll(msgs) ==
    UpdateIdOf(msgs, LastLatest(Payments(msgs), LAMBDA i : msgs[i].updatedAt))

-----------------------------------------------------------------------------
Nothing == [c \in Chats |-> None]
Entry == [member |-> TRUE, messages |-> <<>>, roles |-> None, affiliations |-> Nothing,
          read |-> Nothing, seen |-> None, paymentRead |-> Nothing, paymentSeen |-> None,
          readAt |-> Nothing, seenAt |-> None]

\* What a version's app may have stored: version 2 has no markers, 3 those of
\* messages, 13 those of payments as well.
Ids(msgs) == {<<i>> : i \in DOMAIN msgs}
ReadMarks(msgs) ==
    {f \in [Chats -> Ids(msgs) \cup {None}] :
        \A c \in Chats : f[c] = None \/ msgs[f[c][1]].chat = c}
StoredAs(v, msgs) ==
    \E m \in BOOLEAN,
       r \in {None} \cup (IF v > 2 THEN [Groups -> Roles \cup {None}] ELSE {}),
       rd \in IF v > 2 THEN ReadMarks(msgs) ELSE {Nothing},
       s \in IF v > 2 THEN Ids(msgs) \cup {None} ELSE {None},
       pr \in IF v > 9 THEN {PaymentsReadAll(msgs), Nothing} ELSE {Nothing} :
        chat = [Entry EXCEPT !.member = m, !.messages = msgs, !.roles = r, !.read = rd,
                             !.seen = s, !.paymentRead = pr]

Init ==
    /\ version \in StoredBy
    /\ \E msgs \in Lists : StoredAs(version, msgs)
    /\ stored = chat

Become(c) == version' = version + 1 /\ chat' = c /\ UNCHANGED stored

\* The chat is left out without an entry, and without an authenticated member.
Signed == chat # None /\ chat.member

\* 2 -> 3: "every chat considered read"
Migrate2 ==
    /\ version = 2
    /\ Become(IF ~Signed THEN None
              ELSE [chat EXCEPT !.read = ReadAll(chat.messages), !.seen = SeenAll(chat.messages)])

\* 3 -> 4: only entries with roles go on; each role replaces the ones before it.
Affiliation(r) == IF r = Moderator THEN "owner" ELSE "none"
Known == {g \in Groups : chat.roles[g] # None}
Migrate3 ==
    /\ version = 3
    /\ IF chat = None \/ (chat # None /\ chat.roles = None) THEN Become(None)
       ELSE IF Known = {} THEN Become(chat)
       ELSE \E g \in Known :
                Become([chat EXCEPT !.affiliations =
                            [Nothing EXCEPT ![g] = Affiliation(chat.roles[g])]])

\* 9 -> 10: every payment update considered read.
Migrate9 ==
    /\ version = 9
    /\ Become(IF ~Signed THEN None
              ELSE [chat EXCEPT !.paymentRead = PaymentsReadAll(chat.messages),
                                !.paymentSeen = PaymentSeenAll(chat.messages)])

\* 13 -> 14: the time of what was read instead of its id.  `find` looks for a
\* message whose id is the marker.
LaterOf(msgs, id, pid) ==
    LET m == CHOOSE i \in DOMAIN msgs : <<i>> = id
    IN Max({msgs[m].sentAt} \cup {msgs[p].updatedAt : p \in {i \in DOMAIN msgs : <<i>> = pid}})
AtLatest(msgs, id, pid) ==                                  \* mutant: of the last message
    IF id \notin Ids(msgs) THEN None ELSE LaterOf(msgs, SeenAll(msgs), pid)
At(msgs, id, pid) ==
    IF id \notin Ids(msgs) THEN None ELSE LaterOf(msgs, id, pid)

Migrate13 ==
    /\ version = 13
    /\ Become(IF ~Signed THEN None
              ELSE [chat EXCEPT
                       !.readAt = [c \in Chats |-> At(chat.messages, chat.read[c], chat.paymentRead[c])],
                       !.seenAt = At(chat.messages, chat.seen, chat.paymentSeen),
                       !.read = Nothing, !.seen = None,
                       !.paymentRead = Nothing, !.paymentSeen = None])

\* The other migrations only add or rename settings.  11 -> 12 dates the groups.
AddRatesAndModes == version \in 4 .. 8 /\ Become(chat)
AddSteps == version \in 10 .. 12 /\ Become(chat)
AddFeatures == version \in 14 .. LatestVersion - 1 /\ Become(chat)

Next == \/ Migrate2 \/ Migrate3 \/ Migrate9 \/ Migrate13
        \/ AddRatesAndModes \/ AddSteps \/ AddFeatures
Spec == Init /\ [][Next]_vars

-----------------------------------------------------------------------------
TypeOK ==
    /\ version \in 2 .. LatestVersion
    /\ chat # None => /\ DOMAIN chat = DOMAIN Entry
                      /\ version > 13 => chat.read = Nothing /\ chat.paymentSeen = None
                      /\ version \in 3 .. 13 => chat.seen \in Ids(chat.messages) \cup {None}

\* What a message waited for before the migrations, it waits for afterwards: the
\* time up to which a chat is read is never later than the message that was read
\* last, unless the version that migrates declares all of it read.
NothingReadUnread ==
    (version = LatestVersion /\ chat # None) =>
        \A c \in Chats : chat.readAt[c] # None =>
            /\ stored.read[c] # None
            /\ chat.readAt[c] <= stored.messages[stored.read[c][1]].sentAt

\* "Initiailize it with every payment update considered 'seen'" and "If the last
\* read payment update has a later timestamp, use that instead": a chat whose
\* last message was read by version 9 has nothing new after the migrations.
PaymentsStayRead ==
    (version = LatestVersion /\ chat # None) =>
        \A c \in Chats : stored.read[c] # None /\ stored.read[c] = ReadAll(stored.messages)[c] =>
            \A i \in InChat(stored.messages, c) :
                stored.messages[i].payment => stored.messages[i].updatedAt <= chat.readAt[c]

\* "migrates it to the latest version of stored state": the messages of a member
\* are still there.
KeepsMessages ==
    version = LatestVersion /\ stored.member /\ stored.messages # <<>> =>
        chat # None /\ chat.messages = stored.messages
=============================================================================
