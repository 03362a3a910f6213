--------------------------- MODULE MatrixPayments ---------------------------
(***************************************************************************)
(* Payments by chat: ecash sent as messages of a Matrix room and the       *)
(* thunks that push, request, pay, claim, cancel and reject them           *)
(* (ui/common/redux/matrix.ts), with the buttons that start them           *)
(* (useMatrixPaymentEvent) and the listener that claims what arrives       *)
(* (initializeCommonStore).                                                *)
(*                                                                         *)
(* The server orders the events of the room; a user has seen a prefix of   *)
(* it, and its own messages at once (their local echo).  All payments are  *)
(* in one federation.  Its mint is external: a note goes to the first of   *)
(* its payer and its receiver whose transaction is accepted.  receiveEcash *)
(* returns when the transaction is submitted, and fails for notes this     *)
(* wallet has received before; cancelEcash waits for the outcome.          *)
(***************************************************************************)
EXTENDS Integers, Sequences, SequencesExt, FiniteSets, FiniteSetsExt

CONSTANTS
    Users, Payments,
    NoUser, NoNote,
    Requester,      \* [Payments -> Users]: who gets the money
    Pushers,        \* who may push a payment
    Requests,       \* the payments that may be requested
    MaxNotes, MaxEvents, MaxFailures, MaxRestarts, MaxReopens   \* bounds

UserAssumption == /\ Requester \in [Payments -> Users]
                  /\ Pushers \subseteq Users /\ Requests \subseteq Payments
NullAssumption == NoUser \notin Users /\ NoNote \notin Nat
BoundAssumption == {MaxNotes, MaxEvents, MaxFailures, MaxRestarts, MaxReopens} \subseteq Nat

VARIABLES
    room,       \* the events of payments, in the order of the server
    seen,       \* [Users -> Nat]: how many of them have reached a user
    joined,     \* the users who are members of the federation
    attempted,  \* [Users -> SUBSET Payments]: receivedPayments, in memory
    tasks,      \* thunks between two of their calls
    notes,      \* Seq of [payer, pid, pending, owner]: the ecash generated
    reissued,   \* [Users -> SUBSET Nat]: the notes a wallet has received
    opened,     \* [Users -> Nat]: how often the chat was opened anew
    paidAgain,  \* history: payments that were paid in one chat opened after the other
    failures, restarts

buttons == <<opened, paidAgain>>
vars == <<room, seen, joined, attempted, tasks, notes, reissued, buttons, failures, restarts>>

Status == {"pushed", "requested", "accepted", "rejected", "canceled", "received"}
Terminal == {"rejected", "canceled", "received"}
Content == [pid : Payments, status : Status, sender : Users \cup {NoUser},
            recipient : Users, note : Nat \cup {NoNote}]
Event == [author : Users, content : Content]
Note == [payer : Users, pid : Payments, pending : SUBSET Users, owner : Users \cup {NoUser}]
Task == [user : Users, op : {"pay", "claim", "cancel"}, at : {"mint", "send"}, content : Content,
         opening : Nat]

TypeOK ==
    /\ room \in Seq(Event)
    /\ seen \in [Users -> 0 .. Len(room)]
    /\ joined \subseteq Users
    /\ attempted \in [Users -> SUBSET Payments]
    /\ tasks \subseteq Task
    /\ notes \in Seq(Note)
    /\ reissued \in [Users -> SUBSET DOMAIN notes]
    /\ opened \in [Users -> Nat] /\ paidAgain \subseteq Payments

Init ==
    /\ room = <<>> /\ seen = [u \in Users |-> 0]
    /\ joined \in {Users, Users \ {u \in Users : \E p \in Payments : Requester[p] = u}}
    /\ attempted = [u \in Users |-> {}]
    /\ tasks = {}
    /\ notes = <<>> /\ reissued = [u \in Users |-> {}]
    /\ opened = [u \in Users |-> 0] /\ paidAgain = {}
    /\ failures = 0 /\ restarts = 0

-----------------------------------------------------------------------------
(* What a user sees.                                                       *)

\* The indexes of the payment's events in the user's timeline.
Visible(u, p, r, s) ==
    {i \in DOMAIN r : r[i].content.pid = p /\ (i <= s \/ r[i].author = u)}

\* selectMatrixRoomEvents and getReceivablePaymentEvents: the latest event of a
\* payment tells its state.
LatestEvent(u, p, r, s) == r[Max(Visible(u, p, r, s))]

Shown(u, p) == LatestEvent(u, p, room, seen[u]).content
IsShown(u, p) == Visible(u, p, room, seen[u]) # {}

\* getReceivablePaymentEvents: latest event for me, with a federation I am in.
Receivable(u, p, r, s, j) ==
    /\ Visible(u, p, r, s) # {} /\ u \in j
    /\ LET c == LatestEvent(u, p, r, s).content
       IN c.recipient = u /\ c.status \in {"accepted", "pushed"}

ClaimTask(u, c) == [user |-> u, op |-> "claim", at |-> "mint", content |-> c, opening |-> 0]

\* What checkForReceivablePayments attempts: each payment once.
AllReceivable(u, r, s, j, a) ==                            \* mutant: attempts again
    {p \in Payments : Receivable(u, p, r, s, j)}
ToAttempt(u, r, s, j, a) ==
    {p \in Payments \ a : Receivable(u, p, r, s, j)}

\* The listener on the timeline and on joinFederation, run with the new state:
\* ts and a are the tasks and the attempts of u it starts from.
Check(u, r, s, j, a, ts) ==
    LET ps == ToAttempt(u, r, s, j, a)
    IN /\ tasks' = ts \cup {ClaimTask(u, LatestEvent(u, p, r, s).content) : p \in ps}
       /\ attempted' = [attempted EXCEPT ![u] = a \cup ps]

\* Send a message: the user's own timeline changes too, so that the listener runs.
Post(u, c, a, ts) ==
    /\ Len(room) < MaxEvents
    /\ room' = Append(room, [author |-> u, content |-> c])
    /\ Check(u, room', seen[u], joined, a, ts)
    /\ UNCHANGED <<seen, joined, notes, reissued, buttons, failures, restarts>>

\* The sync of the chat client.
Deliver(u) ==
    /\ seen[u] < Len(room)
    /\ seen' = [seen EXCEPT ![u] = @ + 1]
    /\ Check(u, room, seen[u] + 1, joined, attempted[u], tasks)
    /\ UNCHANGED <<room, joined, notes, reissued, buttons, failures, restarts>>

\* A message of the room that is not about a payment.
OtherMessage(u) ==
    /\ Check(u, room, seen[u], joined, attempted[u], tasks)
    /\ UNCHANGED <<room, seen, joined, notes, reissued, buttons, failures, restarts>>

\* joinFederation.fulfilled (ReceiveForeignEcashOverlay, or elsewhere).
Join(u) ==
    /\ u \notin joined
    /\ joined' = joined \cup {u}
    /\ Check(u, room, seen[u], joined', attempted[u], tasks)
    /\ UNCHANGED <<room, seen, notes, reissued, buttons, failures, restarts>>

\* The app is closed and opened: the thunks and receivedPayments are gone, and
\* the timeline starts with a reset.
Restart(u) ==
    /\ restarts < MaxRestarts
    /\ restarts' = restarts + 1
    /\ Check(u, room, seen[u], joined, {}, {t \in tasks : t.user # u})
    /\ UNCHANGED <<room, seen, joined, notes, reissued, buttons, failures>>

-----------------------------------------------------------------------------
(* The buttons.                                                            *)

\* The thunks of a user's buttons for a payment.
Pressed(u, p) == {t \in tasks : t.user = u /\ t.content.pid = p /\ t.op # "claim"}

\* A loading button takes no second press: isAccepting, isCanceling and isRejecting
\* are states of the message as it is mounted.
Idle(u, p) == \A t \in Pressed(u, p) : t.opening # opened[u]

\* The chat is left and opened anew, or the message scrolled away and back, while a
\* button is at work: it is shown as if it were not.  (Otherwise this changes nothing.)
Reopen(u) ==
    /\ opened[u] < MaxReopens /\ \E p \in Payments : Pressed(u, p) # {}
    /\ opened' = [opened EXCEPT ![u] = @ + 1]
    /\ UNCHANGED <<room, seen, joined, attempted, tasks, notes, reissued, paidAgain,
                   failures, restarts>>

\* The user pays already, with a button that is no longer shown.
PaysElsewhere(u, p) == \E t \in Pressed(u, p) : t.op = "pay" /\ t.opening # opened[u]

Start(u, op, c) ==
    /\ tasks' = tasks \cup {[user |-> u, op |-> op, at |-> "mint", content |-> c,
                             opening |-> opened[u]]}
    /\ paidAgain' = IF op = "pay" /\ PaysElsewhere(u, c.pid)
                    THEN paidAgain \cup {c.pid} ELSE paidAgain
    /\ UNCHANGED <<room, seen, joined, attempted, notes, reissued, opened, failures, restarts>>

Unused(p) == /\ \A i \in DOMAIN room : room[i].content.pid # p
             /\ \A t \in tasks : t.content.pid # p
             /\ \A n \in DOMAIN notes : notes[n].pid # p

\* sendMatrixPaymentPush
Push(u, p) ==
    /\ u \in Pushers \cap joined /\ u # Requester[p]
    /\ Unused(p)
    /\ Start(u, "pay", [pid |-> p, status |-> "pushed", sender |-> u,
                        recipient |-> Requester[p], note |-> NoNote])

\* sendMatrixPaymentRequest
Request(p) ==
    /\ p \in Requests /\ Unused(p) /\ Requester[p] \in joined
    /\ Post(Requester[p], [pid |-> p, status |-> "requested", sender |-> NoUser,
                           recipient |-> Requester[p], note |-> NoNote],
            attempted[Requester[p]], tasks)

\* Mutant: the button stays when the request has been rejected.
PayableAfterAll(u, p) ==
    Shown(u, p).status \in {"requested", "rejected"} /\ Shown(u, p).recipient # u

\* The button to pay a request.
Payable(u, p) == Shown(u, p).status = "requested" /\ Shown(u, p).recipient # u

\* acceptMatrixPaymentRequest
Pay(u, p) ==
    /\ IsShown(u, p) /\ Idle(u, p) /\ Payable(u, p) /\ u \in joined
    /\ Start(u, "pay", [Shown(u, p) EXCEPT !.status = "accepted", !.sender = u])

\* rejectMatrixPaymentRequest: of a request, by the button of a direct chat or
\* because it is paid from another federation instead; and of ecash of a
\* federation that the user is not a member of.
Reject(u, p) ==
    /\ IsShown(u, p) /\ Idle(u, p)
    /\ \/ Payable(u, p)
       \/ Shown(u, p).status \in {"pushed", "accepted"} /\ u \notin joined
    /\ Post(u, [Shown(u, p) EXCEPT !.status = "rejected"], attempted[u], tasks)

\* cancelMatrixPayment: by the payer, or by the requester before it is paid.
MayCancel(u, c) ==
    \/ c.status \in {"pushed", "accepted"} /\ c.sender = u /\ c.recipient # u /\ u \in joined
    \/ c.status = "requested" /\ c.recipient = u

Cancel(u, p) ==
    /\ IsShown(u, p) /\ Idle(u, p) /\ MayCancel(u, Shown(u, p))
    /\ Start(u, "cancel", Shown(u, p))

-----------------------------------------------------------------------------
(* The thunks, one step per call.                                          *)

Sending(t, n) == [t EXCEPT !.at = "send", !.content.note = n]

\* generateEcash
Generate(t) ==
    /\ t.op = "pay" /\ t.at = "mint" /\ Len(notes) < MaxNotes
    /\ notes' = Append(notes, [payer |-> t.user, pid |-> t.content.pid,
                               pending |-> {}, owner |-> NoUser])
    /\ tasks' = (tasks \ {t}) \cup {Sending(t, Len(notes'))}
    /\ UNCHANGED <<room, seen, joined, attempted, reissued, buttons, failures, restarts>>

\* A transaction for a note that is not spent yet.
Submitted(n, u) ==
    IF notes[n].owner = NoUser THEN [notes EXCEPT ![n].pending = @ \cup {u}] ELSE notes

\* receiveEcash: submits, unless this wallet did so before.
Receive(t) ==
    /\ t.op = "claim" /\ t.at = "mint"
    /\ LET n == t.content.note
       IN IF n \in reissued[t.user]
          THEN /\ tasks' = tasks \ {t}
               /\ attempted' = [attempted EXCEPT ![t.user] = @ \ {t.content.pid}]
               /\ UNCHANGED <<notes, reissued>>
          ELSE /\ notes' = Submitted(n, t.user)
               /\ reissued' = [reissued EXCEPT ![t.user] = @ \cup {n}]
               /\ tasks' = (tasks \ {t}) \cup {Sending(t, n)}
               /\ UNCHANGED attempted
    /\ UNCHANGED <<room, seen, joined, buttons, failures, restarts>>

\* cancelEcash, begun: the payer's own transaction.
SubmitCancel(t) ==
    /\ t.op = "cancel" /\ t.at = "mint" /\ t.content.note # NoNote
    /\ notes[t.content.note].owner = NoUser
    /\ t.user \notin notes[t.content.note].pending
    /\ notes' = Submitted(t.content.note, t.user)
    /\ UNCHANGED <<room, seen, joined, attempted, tasks, reissued, buttons, failures, restarts>>

\* cancelEcash, ended: an error when the other side was first.
CancelOutcome(t) ==
    /\ t.op = "cancel" /\ t.at = "mint"
    /\ LET n == t.content.note
       IN /\ n # NoNote => notes[n].owner # NoUser
          /\ tasks' = IF n = NoNote \/ notes[n].owner = t.user
                      THEN (tasks \ {t}) \cup {Sending(t, n)}
                      ELSE tasks \ {t}
    /\ UNCHANGED <<room, seen, joined, attempted, notes, reissued, buttons, failures, restarts>>

Outcome == [pay |-> "accepted", claim |-> "received", cancel |-> "canceled"]

\* sendMessage at the end of a thunk.
Send(t) ==
    /\ t.at = "send"
    /\ Post(t.user, [t.content EXCEPT !.status =
                         IF @ = "pushed" /\ t.op = "pay" THEN "pushed" ELSE Outcome[t.op]],
            attempted[t.user], tasks \ {t})

\* Any call may fail, and the thunk ends; a claim may be attempted again later.
Fail(t) ==
    /\ failures < MaxFailures
    /\ failures' = failures + 1
    /\ tasks' = tasks \ {t}
    /\ attempted' = IF t.op = "claim"
                    THEN [attempted EXCEPT ![t.user] = @ \ {t.content.pid}]
                    ELSE attempted
    /\ UNCHANGED <<room, seen, joined, notes, reissued, buttons, restarts>>

-----------------------------------------------------------------------------
\* The mint accepts one of the transactions for a note.
Settle(n) ==
    /\ \E u \in notes[n].pending :
           notes' = [notes EXCEPT ![n].owner = u, ![n].pending = {}]
    /\ UNCHANGED <<room, seen, joined, attempted, tasks, reissued, buttons, failures, restarts>>

ThunkStep == \E t \in tasks : Generate(t) \/ Receive(t) \/ SubmitCancel(t)
                              \/ CancelOutcome(t) \/ Send(t)
Tap == \E p \in Payments :
           \/ Request(p)
           \/ \E u \in Users : Push(u, p) \/ Pay(u, p) \/ Reject(u, p) \/ Cancel(u, p)

Next ==
    \/ Tap
    \/ ThunkStep
    \/ \E t \in tasks : Fail(t)
    \/ \E u \in Users : Deliver(u) \/ OtherMessage(u) \/ Join(u) \/ Restart(u)
                        \/ Reopen(u)
    \/ \E n \in DOMAIN notes : Settle(n)

\* Calls return, messages arrive and the mint answers.  No user taps anything,
\* joins anything or restarts the app because the protocol needs it.
Fairness ==
    /\ WF_vars(ThunkStep)
    /\ \A u \in Users : WF_vars(Deliver(u))
    /\ WF_vars(\E n \in DOMAIN notes : Settle(n))

Spec == Init /\ [][Next]_vars
FairSpec == Spec /\ Fairness

-----------------------------------------------------------------------------
(* Properties.                                                             *)

Latest(p, r) == r[Max({i \in DOMAIN r : r[i].content.pid = p})].content
HasEvents(p) == \E i \in DOMAIN room : room[i].content.pid = p

\* Everybody has seen the payment, and nobody is doing anything about it.
Settled(p) ==
    /\ HasEvents(p)
    /\ \A u \in Users : seen[u] = Len(room)
    /\ \A t \in tasks : t.content.pid # p

\* A wallet is never asked twice at the same time to receive one payment
\* ("claim any we haven't attempted to claim yet", redux/index.ts).
OneClaimAtATime ==
    \A t1, t2 \in tasks :
        t1.op = "claim" /\ t2.op = "claim" /\ t1.user = t2.user
        /\ t1.content.pid = t2.content.pid => t1 = t2

\* The other user of a direct chat is the only one who can pay.
IsDirect(p) == \A u, v \in Users \ {Requester[p]} : u = v

\* The notes of a payment that have left their payer.
PaidNotes(p) == {n \in DOMAIN notes :
                    notes[n].pid = p /\ notes[n].owner \notin {NoUser, notes[n].payer}}

\* In a direct chat a request is paid once, whatever fails in between, unless its payer
\* opened the chat anew while paying it, and pressed the button there as well.
PaidOnce ==
    \A p \in Payments : IsDirect(p) /\ p \notin paidAgain => Cardinality(PaidNotes(p)) <= 1

\* A cancelled payment that carried ecash is the payer's again.
CanceledIsRefunded ==
    \A i \in DOMAIN room :
        LET c == room[i].content
        IN c.status = "canceled" /\ c.note # NoNote => notes[c.note].owner = notes[c.note].payer

\* The money of a payment in a chat is claimed once, paid once, and given back when the
\* payment is cancelled (getReceivablePaymentEvents, acceptMatrixPaymentRequest,
\* cancelMatrixPayment).
PaymentsAreSound == TypeOK /\ OneClaimAtATime /\ PaidOnce /\ CanceledIsRefunded

\* Once everybody has seen how a payment ended, it has ended: no button, no
\* listener, no restart and no federation joined later opens it again, or as much as
\* begins to.
Ended(p) == Settled(p) /\ Latest(p, room).status \in Terminal
StaysEnded(p) == /\ Latest(p, room') = Latest(p, room)
                 /\ \A t \in tasks' : t.content.pid # p
EndedForGood == [][\A p \in Payments : Ended(p) => StaysEnded(p)]_vars

\* When no call fails and nobody restarts, a pushed payment finds its owner as
\* soon as all are members, unless it was rejected before.
PushedIsClaimed ==
    \A p \in Payments :
        (HasEvents(p) /\ joined = Users)
        ~> \/ \E n \in DOMAIN notes : notes[n].owner # NoUser
           \/ HasEvents(p) /\ Latest(p, room).status = "rejected"

\* "Payment was rejected/canceled/received, no further statuses" (types/matrix.ts).
NoFurtherStatuses ==
    [][\A p \in Payments :
           HasEvents(p) /\ Latest(p, room).status \in Terminal
           => Latest(p, room').status = Latest(p, room).status]_vars

\* "Payment was received": the ecash of a payment shown as received is, once the
\* mint has decided, its recipient's.
ReceivedIsOwned ==
    \A p \in Payments :
        HasEvents(p) /\ Latest(p, room).status = "received"
        => notes[Latest(p, room).note].owner \in {NoUser, Latest(p, room).recipient}

\* "Failed to claim matrix payment, will try again later" (redux/matrix.ts).
FailedClaimIsTriedAgain ==
    \A u \in Users, p \in Payments :
        (u \in joined /\ IsShown(u, p) /\ Receivable(u, p, room, seen[u], joined))
        ~> (\E t \in tasks : t.op = "claim" /\ t.user = u)
           \/ ~Receivable(u, p, room, seen[u], joined)
=============================================================================
