---------------------------- MODULE MatrixProofs ----------------------------
(***************************************************************************)
(* The money of a payment in a chat: a wallet has one claim of it at a     *)
(* time, in a direct chat it is paid once, a cancellation gives it back,   *)
(* and what everybody has seen end has ended.  In sections of their own,   *)
(* with state of their own: what a client observes is a copy of what the   *)
(* bridge has; and roles and removals in a room last.                      *)
(***************************************************************************)
EXTENDS MCChat, NaturalsInduction, WellFoundedInduction, FiniteSetTheorems,
        SequenceTheorems, TLAPS

-----------------------------------------------------------------------------
(* The invariant.                                                          *)

\* An event of the payment carries the note.
Known(p, n) == \E i \in DOMAIN room : room[i].content.pid = p /\ room[i].content.note = n

\* Somebody who may pay has said something about the payment since it was requested.
PayerSpoke(p) ==
    \E i \in DOMAIN room : /\ room[i].content.pid = p /\ room[i].author # Requester[p]
                           /\ room[i].content.status # "requested"

\* A content names the payment's recipient, and a note as it was generated.
Carries(c) ==
    /\ c.recipient = Requester[c.pid]
    /\ c.note # NoNote => /\ c.note \in DOMAIN notes /\ notes[c.note].pid = c.pid
                          /\ notes[c.note].payer = c.sender

EventInv(i) ==
    LET c == room[i].content
    IN  /\ Carries(c)
        /\ c.status = "requested" =>
              /\ c.note = NoNote
              /\ \A k \in DOMAIN room : room[k].content.pid = c.pid => i <= k
        /\ c.status \in {"accepted", "pushed"} => c.note # NoNote
        /\ c.note # NoNote => PayerSpoke(c.pid)
        /\ c.status = "canceled" /\ c.note # NoNote => notes[c.note].owner = notes[c.note].payer

TaskInv(t) ==
    /\ Carries(t.content)
    /\ t.op = "pay" =>
          /\ t.user # Requester[t.content.pid] /\ t.content.sender = t.user
          /\ t.content.status \in {"pushed", "accepted"}
          /\ t.at = "mint" <=> t.content.note = NoNote
    /\ t.op # "pay" /\ t.content.note # NoNote => Known(t.content.pid, t.content.note)
    /\ t.op = "claim" => t.content.note # NoNote /\ t.content.pid \in attempted[t.user]
    /\ t.op = "cancel" /\ t.content.note # NoNote =>
          /\ t.user = t.content.sender
          /\ t.at = "send" => notes[t.content.note].owner = t.user

\* A note leaves its payer only once the room knows it.
NoteInv(n) ==
    /\ notes[n].pending # {} => notes[n].owner = NoUser
    /\ \A u \in Users \ {notes[n].payer} :
          u \in notes[n].pending \/ u = notes[n].owner => Known(notes[n].pid, n)

\* Of a payment in a direct chat the room knows one note; and one payer generates
\* another one only while it knows none, unless it was pressed again in a chat opened anew.
DirectInv(p) ==
    /\ \A m, n \in DOMAIN notes : Known(p, m) /\ Known(p, n) => m = n
    /\ \A t \in tasks : t.op = "pay" /\ t.content.pid = p =>
          /\ \A n \in DOMAIN notes : ~Known(p, n)
          /\ \A o \in tasks : o.op = "pay" /\ o.content.pid = p => o = t

EventsInv == \A i \in DOMAIN room : EventInv(i)
TasksInv == \A t \in tasks : TaskInv(t)
NotesInv == \A n \in DOMAIN notes : NoteInv(n)
PaidOnceInv == \A p \in Payments : IsDirect(p) /\ p \notin paidAgain => DirectInv(p)

IInv == /\ TypeOK /\ EventsInv /\ TasksInv /\ OneClaimAtATime /\ NotesInv /\ PaidOnceInv

-----------------------------------------------------------------------------
(* What a user sees.                                                       *)

\* A set of naturals with something in it has a least element.
LEMMA LeastNumber ==
    ASSUME NEW S \in SUBSET Nat, S # {}
    PROVE  \E n \in S : \A m \in S : n <= m
<1> DEFINE less == OpToRel(<, Nat)
<1>1. \A m, n \in Nat : m < n => <<m, n>> \in less
  BY DEF OpToRel
<1>2. IsWellFoundedOn(less, Nat)
  BY NatLessThanWellFounded
<1> HIDE DEF less
<1>3. PICK n \in S : \A m \in S : ~ (<<m, n>> \in less)
  BY <1>2, WFMin
<1>4. \A m \in S : ~ (m < n)
  BY <1>1, <1>3, Zenon
<1> QED
  BY <1>4

\* The maximum of a bounded set of naturals is in the set, and its greatest.
LEMMA MaxIsGreatest ==
    ASSUME NEW k \in Nat, NEW S \in SUBSET (1 .. k), S # {}
    PROVE  Max(S) \in S /\ \A n \in S : n <= Max(S)
<1> DEFINE below == {k - n : n \in S}
<1>0. \A n \in S : n \in Nat /\ k - n \in Nat
  OBVIOUS
<1>1. below \in SUBSET Nat /\ below # {}
  <2>1. \A d \in below : d \in Nat
    BY <1>0
  <2> QED
    BY <2>1
<1>2. PICK d \in below : \A e \in below : d <= e
  <2> HIDE DEF below
  <2> QED
    BY <1>1, LeastNumber
<1>3. PICK m \in S : d = k - m
  BY <1>2
<1>4. \A n \in S : k - n \in below
  OBVIOUS
<1>5. \A n \in S : k - m <= k - n
  BY <1>2, <1>3, <1>4
<1>6. \A n \in S : m >= n
  BY <1>0, <1>5
<1>7. \E x \in S : \A y \in S : x >= y
  BY <1>6
<1>8. Max(S) \in S /\ \A y \in S : Max(S) >= y
  BY <1>7, Zenon DEF Max
<1> QED
  BY <1>8

\* The latest event a user sees of a payment is one of it.
LEMMA LatestIs ==
    ASSUME NEW u, NEW p, NEW r \in Seq(Event), NEW s, Visible(u, p, r, s) # {}
    PROVE  LET m == Max(Visible(u, p, r, s))
           IN  /\ m \in DOMAIN r /\ r[m].content.pid = p /\ LatestEvent(u, p, r, s) = r[m]
               /\ r[m] \in Event
               /\ \A i \in Visible(u, p, r, s) : i <= m
<1> DEFINE S == Visible(u, p, r, s)
<1>1. Len(r) \in Nat /\ DOMAIN r = 1 .. Len(r)
  OBVIOUS
<1>2. S \in SUBSET (1 .. Len(r))
  BY <1>1 DEF Visible
<1>3. \A i \in S : i \in DOMAIN r /\ r[i].content.pid = p
  BY DEF Visible
<1>4. Max(S) \in S /\ \A n \in S : n <= Max(S)
  <2>1. S # {}
    OBVIOUS
  <2> HIDE DEF S
  <2> QED
    BY <1>1, <1>2, <2>1, MaxIsGreatest
<1>5. r[Max(S)] \in Event
  BY <1>3, <1>4
<1> QED
  BY <1>3, <1>4, <1>5 DEF LatestEvent

\* What a user is shown of a payment is an event of it, none that it sees is later, and
\* it sees what it said itself.
LEMMA ShownIs ==
    ASSUME TypeOK, NEW u \in Users, NEW p \in Payments, IsShown(u, p)
    PROVE  \E m \in DOMAIN room :
              /\ room[m].content = Shown(u, p) /\ room[m].content.pid = p
              /\ room[m].content \in Content
              /\ \A i \in DOMAIN room :
                    room[i].content.pid = p /\ (i <= seen[u] \/ room[i].author = u) => i <= m
<1> DEFINE m == Max(Visible(u, p, room, seen[u]))
<1>1. room \in Seq(Event)
  BY DEF TypeOK
<1>2. Visible(u, p, room, seen[u]) # {}
  BY DEF IsShown
<1>3. /\ m \in DOMAIN room /\ room[m].content.pid = p
      /\ LatestEvent(u, p, room, seen[u]) = room[m] /\ room[m] \in Event
      /\ \A i \in Visible(u, p, room, seen[u]) : i <= m
  BY <1>1, <1>2, LatestIs
<1>4. room[m].content = Shown(u, p)
  BY <1>3 DEF Shown
<1>5. room[m].content \in Content
  BY <1>3 DEF Event
<1>6. \A i \in DOMAIN room :
         room[i].content.pid = p /\ (i <= seen[u] \/ room[i].author = u) => i <= m
  BY <1>3 DEF Visible
<1> HIDE DEF m
<1> QED
  BY <1>3, <1>4, <1>5, <1>6

-----------------------------------------------------------------------------
(* Records.                                                                *)

LEMMA StatusChanged ==
    ASSUME NEW c \in Content, NEW st \in Status
    PROVE  LET d == [c EXCEPT !.status = st]
           IN  /\ d \in Content /\ d.status = st /\ d.pid = c.pid /\ d.note = c.note
               /\ d.sender = c.sender /\ d.recipient = c.recipient
BY DEF Content

LEMMA Accepted ==
    ASSUME NEW c \in Content, NEW u \in Users
    PROVE  LET d == [c EXCEPT !.status = "accepted", !.sender = u]
           IN  /\ d \in Content /\ d.status = "accepted" /\ d.pid = c.pid
               /\ d.note = c.note /\ d.sender = u /\ d.recipient = c.recipient
BY DEF Content, Status

LEMMA IsSending ==
    ASSUME NEW t \in Task, NEW n \in Nat \cup {NoNote}
    PROVE  LET d == Sending(t, n)
           IN  /\ d \in Task /\ d.at = "send" /\ d.user = t.user /\ d.op = t.op
               /\ d.content \in Content /\ d.content.note = n
               /\ d.content.pid = t.content.pid /\ d.content.sender = t.content.sender
               /\ d.content.recipient = t.content.recipient
               /\ d.content.status = t.content.status
<1> DEFINE c == [t.content EXCEPT !.note = n]
<1>1. t.content \in Content
  BY DEF Task
<1>2. /\ c \in Content /\ c.note = n /\ c.pid = t.content.pid /\ c.sender = t.content.sender
      /\ c.recipient = t.content.recipient /\ c.status = t.content.status
  BY <1>1 DEF Content
<1>3. Sending(t, n) = [user |-> t.user, op |-> t.op, at |-> "send", content |-> c,
                        opening |-> t.opening]
  <2>1. Sending(t, n) = [t EXCEPT !.at = "send", !.content = [@ EXCEPT !.note = n]]
    BY Zenon DEF Sending
  <2> QED
    BY <2>1 DEF Task
<1> HIDE DEF c
<1> QED
  BY <1>2, <1>3 DEF Task

\* What the types say of each event, task and note.
LEMMA Typed ==
    ASSUME TypeOK
    PROVE  /\ Len(room) \in Nat /\ DOMAIN room = 1 .. Len(room)
           /\ \A i \in DOMAIN room : /\ room[i] \in Event /\ room[i].author \in Users
                                     /\ room[i].content \in Content
                                     /\ room[i].content.pid \in Payments
           /\ \A t \in tasks : /\ t \in Task /\ t.user \in Users /\ t.content \in Content
                               /\ t.content.pid \in Payments
           /\ Len(notes) \in Nat /\ DOMAIN notes = 1 .. Len(notes)
           /\ \A n \in DOMAIN notes : /\ notes[n] \in Note /\ notes[n].payer \in Users
                                      /\ notes[n].pid \in Payments
                                      /\ notes[n].pending \subseteq Users
                                      /\ notes[n].owner \in Users \cup {NoUser}
<1>1. room \in Seq(Event) /\ notes \in Seq(Note) /\ tasks \subseteq Task
  BY DEF TypeOK
<1>2. \A e \in Event : e.author \in Users /\ e.content \in Content
  BY DEF Event
<1>3. \A c \in Content : c.pid \in Payments
  BY DEF Content
<1>4. \A t \in Task : t.user \in Users /\ t.content \in Content
  BY DEF Task
<1>5. \A n \in Note : /\ n.payer \in Users /\ n.pid \in Payments /\ n.pending \subseteq Users
                      /\ n.owner \in Users \cup {NoUser}
  BY DEF Note
<1>6. /\ Len(room) \in Nat /\ DOMAIN room = 1 .. Len(room)
      /\ Len(notes) \in Nat /\ DOMAIN notes = 1 .. Len(notes)
  BY <1>1
<1>7. /\ \A i \in DOMAIN room : room[i] \in Event
      /\ \A n \in DOMAIN notes : notes[n] \in Note
  BY <1>1
<1> QED
  BY <1>1, <1>2, <1>3, <1>4, <1>5, <1>6, <1>7

-----------------------------------------------------------------------------
(* What every step keeps.                                                  *)

\* Events and notes are added; of a note only its transactions and, once, its owner
\* change.
Grows ==
    /\ DOMAIN room \subseteq DOMAIN room' /\ \A i \in DOMAIN room : room'[i] = room[i]
    /\ \A i \in DOMAIN room, k \in DOMAIN room' \ DOMAIN room : i <= k
    /\ DOMAIN notes \subseteq DOMAIN notes'
    /\ \A n \in DOMAIN notes :
          /\ notes'[n].pid = notes[n].pid /\ notes'[n].payer = notes[n].payer
          /\ notes[n].owner # NoUser => notes'[n].owner = notes[n].owner
    /\ paidAgain \subseteq paidAgain'

LEMMA KnownStays ==
    ASSUME Grows, NEW p, NEW n, Known(p, n)
    PROVE  Known(p, n)'
BY DEF Known, Grows

LEMMA CarriesStays ==
    ASSUME Grows, NEW c, Carries(c)
    PROVE  Carries(c)'
BY DEF Carries, Grows

LEMMA EventStays ==
    ASSUME UserAssumption, NullAssumption, TypeOK, Grows, NEW i \in DOMAIN room, EventInv(i)
    PROVE  EventInv(i)'
<1>0. PICK c : c = room[i].content
  OBVIOUS
<1>1. i \in DOMAIN room' /\ room[i].content = c /\ room'[i].content = c
  BY <1>0 DEF Grows
<1>2. Carries(c) /\ Carries(c)'
  BY <1>1, CarriesStays DEF EventInv
<1>3. c.status = "requested" =>
         /\ c.note = NoNote
         /\ \A k \in DOMAIN room' : room'[k].content.pid = c.pid => i <= k
  BY <1>1 DEF EventInv, Grows
<1>4. PayerSpoke(c.pid) => PayerSpoke(c.pid)'
  BY DEF PayerSpoke, Grows
<1>5. c.note # NoNote => c.note \in DOMAIN notes /\ notes[c.note].payer # NoUser
  BY <1>2, Typed DEF Carries, NullAssumption
<1>6. c.status = "canceled" /\ c.note # NoNote =>
         notes'[c.note].owner = notes'[c.note].payer
  BY <1>1, <1>5 DEF EventInv, Grows
<1>7. /\ c.status \in {"accepted", "pushed"} => c.note # NoNote
      /\ c.note # NoNote => PayerSpoke(c.pid)
  BY <1>1 DEF EventInv
<1> QED
  BY <1>1, <1>2, <1>3, <1>4, <1>6, <1>7 DEF EventInv

\* So does a task that is not a step further; an attempt is taken back with its task.
LEMMA TaskStays ==
    ASSUME NullAssumption, TypeOK, Grows, NEW t \in tasks, TaskInv(t),
           t.op = "claim" => t.content.pid \in attempted'[t.user]
    PROVE  TaskInv(t)'
<1>1. Carries(t.content) /\ Carries(t.content)'
  BY CarriesStays DEF TaskInv
<1>2. t.op # "pay" /\ t.content.note # NoNote => Known(t.content.pid, t.content.note)'
  BY KnownStays DEF TaskInv
<1>3. t.content.note # NoNote => t.content.note \in DOMAIN notes
  BY <1>1 DEF Carries
<1>4. t.user # NoUser
  BY Typed DEF NullAssumption
<1>5. t.op = "cancel" /\ t.content.note # NoNote /\ t.at = "send" =>
         notes'[t.content.note].owner = t.user
  BY <1>3, <1>4 DEF TaskInv, Grows
<1> QED
  BY <1>1, <1>2, <1>5 DEF TaskInv

-----------------------------------------------------------------------------
(* The listener.                                                           *)

\* It adds claims of events that are the latest of their payments, one of each that
\* is not attempted, and attempts them.
LEMMA CheckAdds ==
    ASSUME NEW u \in Users, NEW r \in Seq(Event), NEW s, NEW j, NEW a, NEW ts,
           Check(u, r, s, j, a, ts)
    PROVE  /\ ts \subseteq tasks'
           /\ \A t \in tasks' \ ts :
                 /\ t \in Task /\ t.user = u /\ t.op = "claim" /\ t.at = "mint"
                 /\ t.content.pid \notin a
                 /\ \E m \in DOMAIN r : /\ r[m].content = t.content
                                        /\ t.content.status \in {"accepted", "pushed"}
           /\ \A t1, t2 \in tasks' \ ts : t1.content.pid = t2.content.pid => t1 = t2
           /\ ToAttempt(u, r, s, j, a) \in SUBSET Payments
           /\ attempted' = [attempted EXCEPT ![u] = a \cup ToAttempt(u, r, s, j, a)]
           /\ \A t \in tasks' \ ts : t.content.pid \in ToAttempt(u, r, s, j, a)
<1> DEFINE ps == ToAttempt(u, r, s, j, a)
           claim(p) == ClaimTask(u, LatestEvent(u, p, r, s).content)
<1>1. /\ tasks' = ts \cup {claim(p) : p \in ps}
      /\ attempted' = [attempted EXCEPT ![u] = a \cup ps]
  BY DEF Check
<1>2. ASSUME NEW p \in ps
      PROVE  /\ claim(p) \in Task /\ claim(p).user = u /\ claim(p).op = "claim"
             /\ claim(p).at = "mint" /\ claim(p).content.pid = p /\ p \notin a
             /\ \E m \in DOMAIN r : /\ r[m].content = claim(p).content
                                    /\ claim(p).content.status \in {"accepted", "pushed"}
  <2>1. p \in Payments \ a /\ Receivable(u, p, r, s, j)
    BY DEF ToAttempt
  <2>2. Visible(u, p, r, s) # {}
    BY <2>1 DEF Receivable
  <2>3. PICK m \in DOMAIN r : /\ LatestEvent(u, p, r, s) = r[m] /\ r[m].content.pid = p
                              /\ r[m] \in Event
    BY <2>2, LatestIs
  <2>4. r[m].content \in Content
    BY <2>3 DEF Event
  <2>5. r[m].content.status \in {"accepted", "pushed"}
    BY <2>1, <2>3 DEF Receivable
  <2>6. claim(p) = [user |-> u, op |-> "claim", at |-> "mint", content |-> r[m].content,
                    opening |-> 0]
    BY <2>3 DEF ClaimTask
  <2>7. claim(p) \in Task
    BY <2>4, <2>6 DEF Task
  <2> QED
    BY <2>1, <2>3, <2>5, <2>6, <2>7
<1>3. ps \in SUBSET Payments
  BY DEF ToAttempt
<1> HIDE DEF ps, claim
<1>4. \A t \in tasks' \ ts : \E p \in ps : t = claim(p)
  BY <1>1
<1>5. \A t \in tasks' \ ts :
         /\ t \in Task /\ t.user = u /\ t.op = "claim" /\ t.at = "mint"
         /\ t.content.pid \notin a /\ t.content.pid \in ps
         /\ \E m \in DOMAIN r : /\ r[m].content = t.content
                                /\ t.content.status \in {"accepted", "pushed"}
  BY <1>2, <1>4
<1>6. \A t1, t2 \in tasks' \ ts : t1.content.pid = t2.content.pid => t1 = t2
  BY <1>2, <1>4
<1> QED
  BY <1>1, <1>3, <1>5, <1>6 DEF ps

\* Whatever made it listen, the claims are in order if the events are; what has been
\* attempted is forgotten only with the tasks.
LEMMA ListenKeeps ==
    ASSUME UserAssumption, NullAssumption, IInv, Grows, EventsInv', room' \in Seq(Event),
           NEW u \in Users, NEW s, NEW j, NEW a \in SUBSET Payments, NEW ts \in SUBSET tasks,
           Check(u, room', s, j, a, ts),
           a = attempted[u] \/ \A t \in ts : t.user # u
    PROVE  /\ TasksInv' /\ OneClaimAtATime' /\ tasks' \subseteq Task
           /\ attempted' \in [Users -> SUBSET Payments]
           /\ \A t \in tasks' : t.op = "pay" => t \in ts
<1> DEFINE ps == ToAttempt(u, room', s, j, a)
<1>1. /\ attempted' = [attempted EXCEPT ![u] = a \cup ps] /\ ps \in SUBSET Payments
      /\ \A t \in tasks' \ ts : t.content.pid \in ps
  BY CheckAdds
<1> HIDE DEF ps
<1>2. /\ ts \subseteq tasks'
      /\ \A t \in tasks' \ ts :
            /\ t \in Task /\ t.user = u /\ t.op = "claim" /\ t.at = "mint"
            /\ t.content.pid \notin a
            /\ \E m \in DOMAIN room' : /\ room'[m].content = t.content
                                       /\ t.content.status \in {"accepted", "pushed"}
      /\ \A t1, t2 \in tasks' \ ts : t1.content.pid = t2.content.pid => t1 = t2
  BY CheckAdds
<1>3. attempted \in [Users -> SUBSET Payments] /\ tasks \subseteq Task
  BY DEF IInv, TypeOK
<1>4. attempted' \in [Users -> SUBSET Payments]
  BY <1>1, <1>3
<1>5. /\ attempted'[u] = a \cup ps
      /\ \A v \in Users \ {u} : attempted'[v] = attempted[v]
  BY <1>1, <1>3
<1>6. \A t \in tasks : TaskInv(t) /\ t.user \in Users
  BY Typed DEF IInv, TasksInv
<1>7. \A t \in ts : t.op = "claim" => t.content.pid \in attempted[t.user]
  BY <1>6 DEF TaskInv
<1>8. \A t \in ts : t.op = "claim" => t.content.pid \in attempted'[t.user]
  BY <1>5, <1>6, <1>7
<1>9. ASSUME NEW t \in ts PROVE TaskInv(t)'
  BY <1>6, <1>8, TaskStays DEF IInv
<1>10. ASSUME NEW t \in tasks' \ ts PROVE TaskInv(t)'
  <2>1. PICK m \in DOMAIN room' : /\ room'[m].content = t.content
                                  /\ t.content.status \in {"accepted", "pushed"}
    BY <1>2
  <2>2. EventInv(m)'
    BY <2>1 DEF EventsInv
  <2>3. Carries(t.content)' /\ t.content.note # NoNote
    BY <2>1, <2>2 DEF EventInv
  <2>4. Known(t.content.pid, t.content.note)'
    BY <2>1 DEF Known
  <2>5. t.op = "claim" /\ t.content.pid \in attempted'[t.user]
    BY <1>1, <1>2, <1>5
  <2> QED
    BY <2>3, <2>4, <2>5 DEF TaskInv
<1>11. TasksInv'
  BY <1>9, <1>10 DEF TasksInv
<1>12. ASSUME NEW t1 \in tasks', NEW t2 \in tasks', t1.op = "claim", t2.op = "claim",
              t1.user = t2.user, t1.content.pid = t2.content.pid
       PROVE  t1 = t2
  <2>1. CASE t1 \in ts /\ t2 \in ts
    BY <1>12, <2>1 DEF IInv, OneClaimAtATime
  <2>2. CASE t1 \notin ts /\ t2 \notin ts
    BY <1>2, <1>12, <2>2
  <2>3. ASSUME NEW o \in ts, NEW n \in tasks' \ ts, o.op = "claim", o.user = n.user,
               o.content.pid = n.content.pid
        PROVE  FALSE
    BY <1>2, <1>7, <2>3
  <2> QED
    BY <1>12, <2>1, <2>2, <2>3
<1> QED
  BY <1>2, <1>3, <1>4, <1>11, <1>12 DEF OneClaimAtATime

\* A message is posted that says what the room may know.
LEMMA PostKeeps ==
    ASSUME UserAssumption, NullAssumption, IInv, NEW u \in Users, NEW c \in Content,
           NEW ts \in SUBSET tasks, Post(u, c, attempted[u], ts), Carries(c),
           c.status = "requested" =>
              c.note = NoNote /\ \A k \in DOMAIN room : room[k].content.pid # c.pid,
           c.status \in {"accepted", "pushed"} => c.note # NoNote,
           c.note # NoNote =>
              \/ Known(c.pid, c.note)
              \/ /\ u # Requester[c.pid] /\ c.status # "requested"
                 /\ IsDirect(c.pid) /\ c.pid \notin paidAgain =>
                       /\ \A n \in DOMAIN notes : ~Known(c.pid, n)
                       /\ \A t \in ts : ~(t.op = "pay" /\ t.content.pid = c.pid),
           c.status = "canceled" /\ c.note # NoNote => notes[c.note].owner = notes[c.note].payer
    PROVE  IInv'
<1> DEFINE e == [author |-> u, content |-> c]
<1>1. /\ room' = Append(room, e) /\ notes' = notes /\ seen' = seen /\ joined' = joined
      /\ reissued' = reissued /\ Check(u, room', seen[u], joined, attempted[u], ts)
      /\ opened' = opened /\ paidAgain' = paidAgain
  BY DEF Post, buttons
<1>2. /\ room \in Seq(Event) /\ Len(room) \in Nat /\ DOMAIN room = 1 .. Len(room)
  BY DEF IInv, TypeOK
<1>3. e \in Event
  BY DEF Event
<1>4. /\ room' \in Seq(Event) /\ Len(room') = Len(room) + 1
      /\ DOMAIN room' = 1 .. Len(room) + 1
      /\ \A i \in DOMAIN room : room'[i] = room[i]
      /\ room'[Len(room) + 1] = e
  <2> HIDE DEF e
  <2> QED
    BY <1>1, <1>2, <1>3
<1>20. PICK new : new = Len(room) + 1
  OBVIOUS
<1>5. /\ DOMAIN room' = DOMAIN room \cup {new} /\ new \notin DOMAIN room
      /\ \A i \in DOMAIN room : i < new
  BY <1>2, <1>4, <1>20
<1>6. room'[new].content = c /\ room'[new].author = u
  BY <1>4, <1>20
<1> HIDE DEF e
<1>7. Grows
  BY <1>1, <1>2, <1>4, <1>5 DEF Grows
<1>8. Carries(c)'
  BY <1>7, CarriesStays
<1>9. \A p, n : Known(p, n)' => Known(p, n) \/ (p = c.pid /\ n = c.note)
  BY <1>4, <1>5, <1>6 DEF Known
<1>10. c.note # NoNote => PayerSpoke(c.pid)'
  <2>1. ASSUME c.note # NoNote, Known(c.pid, c.note) PROVE PayerSpoke(c.pid)
    BY <2>1 DEF Known, IInv, EventsInv, EventInv
  <2>2. PayerSpoke(c.pid) => PayerSpoke(c.pid)'
    BY <1>7 DEF PayerSpoke, Grows
  <2>3. u # Requester[c.pid] /\ c.status # "requested" => PayerSpoke(c.pid)'
    BY <1>5, <1>6 DEF PayerSpoke
  <2> QED
    BY <2>1, <2>2, <2>3
<1>11. EventInv(new)'
  <2>1. c.status = "requested" =>
           \A k \in DOMAIN room' : room'[k].content.pid = c.pid => new <= k
    <3>1. new \in Nat
      BY <1>2, <1>20
    <3>2. ASSUME c.status = "requested", NEW k \in DOMAIN room', room'[k].content.pid = c.pid
          PROVE  k = new
      BY <1>4, <1>5, <3>2
    <3> QED
      BY <3>1, <3>2
  <2>2. c.status = "canceled" /\ c.note # NoNote =>
           notes'[c.note].owner = notes'[c.note].payer
    BY <1>1
  <2> QED
    BY <1>6, <1>8, <1>10, <2>1, <2>2 DEF EventInv
<1>12. EventsInv'
  <2>1. \A i \in DOMAIN room : EventInv(i)'
    BY <1>7, EventStays DEF IInv, EventsInv
  <2> QED
    BY <1>5, <1>11, <2>1 DEF EventsInv
<1>13. /\ TasksInv' /\ OneClaimAtATime' /\ tasks' \subseteq Task
       /\ attempted' \in [Users -> SUBSET Payments]
       /\ \A t \in tasks' : t.op = "pay" => t \in ts
  <2>1. attempted[u] \in SUBSET Payments
    BY DEF IInv, TypeOK
  <2> QED
    BY <1>1, <1>4, <1>7, <1>12, <2>1, ListenKeeps
<1>14. TypeOK'
  <2>1. seen' \in [Users -> 0 .. Len(room')]
    BY <1>1, <1>2, <1>4 DEF IInv, TypeOK
  <2> QED
    BY <1>1, <1>4, <1>13, <2>1 DEF IInv, TypeOK
<1>15. NotesInv'
  BY <1>1, <1>7, KnownStays DEF IInv, NotesInv, NoteInv
<1>16. ASSUME NEW p \in Payments, IsDirect(p), p \notin paidAgain PROVE DirectInv(p)'
  <2>1. DirectInv(p)
    BY <1>16 DEF IInv, PaidOnceInv
  <2>2. \A n \in DOMAIN notes : n # NoNote
    BY Typed DEF IInv, NullAssumption
  <2>3. CASE p = c.pid /\ c.note # NoNote /\ ~Known(c.pid, c.note)
    <3>1. /\ \A n \in DOMAIN notes : ~Known(p, n)
          /\ \A t \in ts : ~(t.op = "pay" /\ t.content.pid = p)
      BY <1>16, <2>3
    <3>2. \A n \in DOMAIN notes' : Known(p, n)' => n = c.note
      BY <1>1, <1>9, <3>1
    <3>3. \A t \in tasks' : ~(t.op = "pay" /\ t.content.pid = p)
      BY <1>13, <3>1
    <3> QED
      BY <3>2, <3>3 DEF DirectInv
  <2>4. CASE ~(p = c.pid /\ c.note # NoNote /\ ~Known(c.pid, c.note))
    <3>1. \A n \in DOMAIN notes' : Known(p, n)' => Known(p, n)
      BY <1>1, <1>9, <2>2, <2>4
    <3> QED
      BY <1>1, <1>13, <2>1, <3>1 DEF DirectInv
  <2> QED
    BY <2>3, <2>4
<1> QED
  BY <1>1, <1>12, <1>13, <1>14, <1>15, <1>16 DEF IInv, PaidOnceInv, IsDirect

-----------------------------------------------------------------------------
(* Steps that post nothing.                                                *)

LEMMA SameKnown ==
    ASSUME room' = room, NEW p, NEW n
    PROVE  Known(p, n)' <=> Known(p, n)
BY DEF Known

\* What the room knows has been generated.
LEMMA KnownIsGenerated ==
    ASSUME IInv, NEW p, NEW n, n # NoNote, Known(p, n)
    PROVE  n \in DOMAIN notes
BY DEF Known, IInv, EventsInv, EventInv, Carries

\* The listener runs, on what a user has seen or where it is a member.
LEMMA HearKeeps ==
    ASSUME UserAssumption, NullAssumption, IInv, room' = room, notes' = notes,
           reissued' = reissued, buttons' = buttons,
           seen' \in [Users -> 0 .. Len(room)], joined' \subseteq Users,
           NEW u \in Users, NEW s, NEW j, NEW a \in SUBSET Payments, NEW ts \in SUBSET tasks,
           Check(u, room, s, j, a, ts),
           a = attempted[u] \/ \A t \in ts : t.user # u
    PROVE  IInv'
<1>0. opened' = opened /\ paidAgain' = paidAgain
  BY DEF buttons
<1>1. Grows
  BY <1>0 DEF Grows
<1>2. EventsInv'
  BY <1>1, EventStays DEF IInv, EventsInv
<1>3. Check(u, room', s, j, a, ts)
  BY DEF Check
<1>4. room' \in Seq(Event)
  BY DEF IInv, TypeOK
<1>5. /\ TasksInv' /\ OneClaimAtATime' /\ tasks' \subseteq Task
      /\ attempted' \in [Users -> SUBSET Payments]
      /\ \A t \in tasks' : t.op = "pay" => t \in ts
  BY <1>1, <1>2, <1>3, <1>4, ListenKeeps
<1>6. TypeOK'
  BY <1>0, <1>5 DEF IInv, TypeOK
<1>7. NotesInv'
  BY <1>1, KnownStays DEF IInv, NotesInv, NoteInv
<1>8. PaidOnceInv'
  BY <1>0, <1>5, SameKnown DEF IInv, PaidOnceInv, DirectInv, IsDirect
<1> QED
  BY <1>2, <1>5, <1>6, <1>7, <1>8 DEF IInv

\* Tasks begin, go on or end, and with them notes change.
LEMMA TasksKeep ==
    ASSUME UserAssumption, NullAssumption, IInv, Grows, room' = room, TypeOK', NotesInv',
           \A t \in tasks' \ tasks : TaskInv(t)',
           \A t \in tasks \cap tasks' : t.op = "claim" => t.content.pid \in attempted'[t.user],
           OneClaimAtATime', PaidOnceInv'
    PROVE  IInv'
<1>1. EventsInv'
  BY EventStays DEF IInv, EventsInv
<1>2. TasksInv'
  BY TaskStays DEF IInv, TasksInv
<1> QED
  BY <1>1, <1>2 DEF IInv

\* A task goes on, to a note of its own or with the one it has, or ends.
LEMMA GoesOn ==
    ASSUME NullAssumption, IInv, TypeOK', room' = room, buttons' = buttons,
           NEW t \in tasks, NEW d,
           d.op = t.op, d.user = t.user, d.content.pid = t.content.pid,
           tasks' \subseteq (tasks \ {t}) \cup {d}
    PROVE  OneClaimAtATime' /\ PaidOnceInv'
<1>1. ASSUME NEW t1 \in tasks', NEW t2 \in tasks', t1.op = "claim", t2.op = "claim",
             t1.user = t2.user, t1.content.pid = t2.content.pid
      PROVE  t1 = t2
  <2>1. CASE t1 = d /\ t2 = d
    BY <2>1
  <2>2. CASE t1 # d /\ t2 # d
    BY <1>1, <2>2 DEF IInv, OneClaimAtATime
  <2>3. ASSUME NEW o \in tasks \ {t}, o.op = "claim", d.op = "claim", o.user = d.user,
               o.content.pid = d.content.pid
        PROVE  FALSE
    BY <2>3 DEF IInv, OneClaimAtATime
  <2> QED
    BY <1>1, <2>1, <2>2, <2>3
<1>2. ASSUME NEW p \in Payments, IsDirect(p), p \notin paidAgain PROVE DirectInv(p)'
  <2>1. DirectInv(p)
    BY <1>2 DEF IInv, PaidOnceInv
  <2>2. \A n \in DOMAIN notes' : Known(p, n)' => n \in DOMAIN notes /\ Known(p, n)
    <3>1. \A n \in DOMAIN notes' : n # NoNote
      <4>1. notes' \in Seq(Note)
        BY DEF TypeOK
      <4>2. DOMAIN notes' \subseteq Nat
        BY <4>1
      <4> QED
        BY <4>2 DEF NullAssumption
    <3> QED
      BY <3>1, SameKnown, KnownIsGenerated
  <2>3. \A o \in tasks' : o.op = "pay" /\ o.content.pid = p =>
           \/ o \in tasks \ {t}
           \/ o = d /\ t.op = "pay" /\ t.content.pid = p
    OBVIOUS
  <2>4. \A o1, o2 \in tasks' :
           o1.op = "pay" /\ o1.content.pid = p /\ o2.op = "pay" /\ o2.content.pid = p
           => o1 = o2
    <3>1. \A o1, o2 \in tasks :
             o1.op = "pay" /\ o1.content.pid = p /\ o2.op = "pay" /\ o2.content.pid = p
             => o1 = o2
      BY <2>1 DEF DirectInv
    <3>2. ASSUME NEW o1 \in tasks', NEW o2 \in tasks', o1.op = "pay", o1.content.pid = p,
                 o2.op = "pay", o2.content.pid = p
          PROVE  o1 = o2
      <4>1. CASE o1 \in tasks \ {t} /\ o2 \in tasks \ {t}
        BY <3>1, <3>2, <4>1
      <4>2. CASE t.op = "pay" /\ t.content.pid = p /\ (o1 = d \/ o2 = d)
        BY <2>3, <3>1, <3>2, <4>2
      <4> QED
        BY <2>3, <3>2, <4>1, <4>2
    <3> QED
      BY <3>2
  <2>5. \A o \in tasks' : o.op = "pay" /\ o.content.pid = p =>
           \A n \in DOMAIN notes' : ~Known(p, n)'
    BY <2>1, <2>2, <2>3 DEF DirectInv
  <2> QED
    BY <2>1, <2>2, <2>4, <2>5 DEF DirectInv
<1>3. paidAgain' = paidAgain
  BY DEF buttons
<1> QED
  BY <1>1, <1>2, <1>3 DEF OneClaimAtATime, PaidOnceInv, IsDirect

\* Others' attempts stay when one task's is taken back.
LEMMA TakenBack ==
    ASSUME IInv, NEW t \in tasks, t.op = "claim",
           attempted' = [attempted EXCEPT ![t.user] = @ \ {t.content.pid}]
    PROVE  /\ attempted' \in [Users -> SUBSET Payments]
           /\ \A o \in tasks \ {t} : o.op = "claim" => o.content.pid \in attempted'[o.user]
<1>1. attempted \in [Users -> SUBSET Payments]
  BY DEF IInv, TypeOK
<1>2. attempted' \in [Users -> SUBSET Payments]
  BY <1>1
<1>3. t.user \in Users
  BY Typed DEF IInv
<1>4. ASSUME NEW o \in tasks \ {t}, o.op = "claim" PROVE o.content.pid \in attempted'[o.user]
  <2>1. o.content.pid \in attempted[o.user] /\ o.user \in Users
    BY <1>4, Typed DEF IInv, TasksInv, TaskInv
  <2>2. o.user # t.user \/ o.content.pid # t.content.pid
    BY <1>4 DEF IInv, OneClaimAtATime
  <2> QED
    BY <1>1, <1>3, <2>1, <2>2
<1> QED
  BY <1>2, <1>4

LEMMA AttemptsStay ==
    ASSUME IInv, attempted' = attempted
    PROVE  \A t \in tasks : t.op = "claim" => t.content.pid \in attempted'[t.user]
BY DEF IInv, TasksInv, TaskInv

\* A transaction for a note of its payer, or that the room knows.
LEMMA SubmittedIs ==
    ASSUME NullAssumption, IInv, room' = room, buttons' = buttons, NEW n \in DOMAIN notes, NEW u \in Users,
           u = notes[n].payer \/ Known(notes[n].pid, n),
           notes' = Submitted(n, u)
    PROVE  /\ Grows /\ NotesInv' /\ notes' \in Seq(Note) /\ DOMAIN notes' = DOMAIN notes
           /\ \A m \in DOMAIN notes : notes'[m].owner = notes[m].owner
<1>1. /\ notes \in Seq(Note) /\ Len(notes) \in Nat /\ DOMAIN notes = 1 .. Len(notes)
      /\ notes[n] \in Note
  BY Typed DEF IInv, TypeOK
<1> DEFINE new == [notes[n] EXCEPT !.pending = @ \cup {u}]
<1>2. /\ new \in Note /\ new.pid = notes[n].pid /\ new.payer = notes[n].payer
      /\ new.owner = notes[n].owner /\ new.pending = notes[n].pending \cup {u}
  BY <1>1 DEF Note
<1> HIDE DEF new
<1>3. notes' = IF notes[n].owner = NoUser THEN [notes EXCEPT ![n] = new] ELSE notes
  BY DEF Submitted, new
<1>4. notes' \in Seq(Note) /\ DOMAIN notes' = DOMAIN notes
  BY <1>1, <1>2, <1>3
<1>5. /\ \A m \in DOMAIN notes \ {n} : notes'[m] = notes[m]
      /\ notes'[n] = IF notes[n].owner = NoUser THEN new ELSE notes[n]
  BY <1>1, <1>3
<1>6. \A m \in DOMAIN notes : /\ notes'[m].pid = notes[m].pid
                              /\ notes'[m].payer = notes[m].payer
                              /\ notes'[m].owner = notes[m].owner
  BY <1>2, <1>5
<1>7. Grows
  BY <1>4, <1>6 DEF Grows, buttons
<1>8. ASSUME NEW m \in DOMAIN notes PROVE NoteInv(m)'
  <2>1. NoteInv(m)
    BY DEF IInv, NotesInv
  <2>2. CASE m # n \/ notes[n].owner # NoUser
    BY <1>5, <2>1, <2>2, SameKnown DEF NoteInv
  <2>3. CASE m = n /\ notes[n].owner = NoUser
    <3>1. notes'[n] = new
      BY <1>5, <2>3
    <3>2. \A v \in Users \ {notes[n].payer} :
             v \in new.pending \/ v = new.owner => Known(notes[n].pid, n)
      BY <1>2, <2>1, <2>3 DEF NoteInv
    <3> QED
      BY <1>2, <2>3, <3>1, <3>2, SameKnown DEF NoteInv
  <2> QED
    BY <2>2, <2>3
<1>9. NotesInv'
  BY <1>4, <1>8 DEF NotesInv
<1> QED
  BY <1>4, <1>6, <1>7, <1>9

-----------------------------------------------------------------------------
(* The actions.                                                            *)

\* A new task of a button, while nothing but claims is under way for the payment.
LEMMA StartKeeps ==
    ASSUME UserAssumption, NullAssumption, IInv, NEW u \in Users, NEW op \in {"pay", "cancel"},
           NEW c \in Content, Start(u, op, c), Carries(c),
           op = "pay" =>
              /\ u # Requester[c.pid] /\ c.sender = u /\ c.status \in {"pushed", "accepted"}
              /\ c.note = NoNote
              /\ IsDirect(c.pid) /\ c.pid \notin paidAgain' =>
                    /\ \A n \in DOMAIN notes : ~Known(c.pid, n)
                    /\ \A t \in tasks : ~(t.op = "pay" /\ t.content.pid = c.pid),
           op = "cancel" /\ c.note # NoNote => u = c.sender /\ Known(c.pid, c.note)
    PROVE  IInv'
<1>0. PICK new : new = [user |-> u, op |-> op, at |-> "mint", content |-> c,
                       opening |-> opened[u]]
  OBVIOUS
<1>1. /\ tasks' = tasks \cup {new} /\ room' = room /\ seen' = seen /\ joined' = joined
      /\ attempted' = attempted /\ notes' = notes /\ reissued' = reissued
      /\ opened' = opened
      /\ paidAgain' = paidAgain \/ paidAgain' = paidAgain \cup {c.pid}
  BY <1>0 DEF Start
<1>2. new \in Task
  BY <1>0 DEF Task, IInv, TypeOK
<1>13. c.pid \in Payments /\ paidAgain \subseteq paidAgain' /\ paidAgain' \subseteq Payments
  BY <1>1 DEF Content, IInv, TypeOK
<1>3. /\ new.user = u /\ new.op = op /\ new.at = "mint" /\ new.content = c
  BY <1>0
<1>4. TypeOK'
  BY <1>1, <1>2, <1>13 DEF IInv, TypeOK
<1>5. Grows
  BY <1>1, <1>13 DEF Grows
<1>6. NotesInv'
  BY <1>1, SameKnown DEF IInv, NotesInv, NoteInv
<1>7. TaskInv(new)'
  <2>1. Carries(c)'
    BY <1>5, CarriesStays
  <2>2. op = "cancel" /\ c.note # NoNote => Known(c.pid, c.note)'
    BY <1>1, SameKnown
  <2> QED
    BY <1>3, <2>1, <2>2 DEF TaskInv
<1>8. OneClaimAtATime'
  BY <1>1, <1>3 DEF IInv, OneClaimAtATime
<1>9. ASSUME NEW p \in Payments, IsDirect(p), p \notin paidAgain' PROVE DirectInv(p)'
  <2>1. DirectInv(p)
    BY <1>9, <1>13 DEF IInv, PaidOnceInv
  <2>2. \A n : Known(p, n)' <=> Known(p, n)
    BY <1>1, SameKnown
  <2>3. CASE op = "pay" /\ c.pid = p
    <3>1. /\ \A n \in DOMAIN notes : ~Known(p, n)
          /\ \A t \in tasks : ~(t.op = "pay" /\ t.content.pid = p)
      BY <1>9, <2>3
    <3> QED
      BY <1>1, <2>2, <3>1 DEF DirectInv
  <2>4. CASE ~(op = "pay" /\ c.pid = p)
    <3>1. \A t \in tasks' : t.op = "pay" /\ t.content.pid = p => t \in tasks
      BY <1>1, <1>3, <2>4
    <3> QED
      BY <1>1, <2>1, <2>2, <3>1 DEF DirectInv
  <2> QED
    BY <2>3, <2>4
<1>10. PaidOnceInv'
  BY <1>9 DEF PaidOnceInv, IsDirect
<1>11. \A t \in tasks \cap tasks' : t.op = "claim" => t.content.pid \in attempted'[t.user]
  BY <1>1, AttemptsStay
<1>12. \A t \in tasks' \ tasks : TaskInv(t)'
  BY <1>1, <1>7
<1> QED
  BY <1>1, <1>4, <1>5, <1>6, <1>8, <1>10, <1>11, <1>12, TasksKeep

LEMMA PushKeeps ==
    ASSUME UserAssumption, NullAssumption, IInv, NEW u \in Users, NEW p \in Payments, Push(u, p)
    PROVE  IInv'
<1> DEFINE c == [pid |-> p, status |-> "pushed", sender |-> u,
                 recipient |-> Requester[p], note |-> NoNote]
<1>1. u # Requester[p] /\ Unused(p) /\ Start(u, "pay", c)
  BY DEF Push
<1>2. c \in Content
  BY DEF Content, Status, UserAssumption
<1>3. /\ c.pid = p /\ c.status = "pushed" /\ c.sender = u /\ c.recipient = Requester[p]
      /\ c.note = NoNote
  OBVIOUS
<1> HIDE DEF c
<1>4. Carries(c)
  BY <1>3 DEF Carries
<1>5. /\ \A n \in DOMAIN notes : ~Known(p, n)
      /\ \A t \in tasks : t.content.pid # p
  BY <1>1 DEF Unused, Known
<1> QED
  BY <1>1, <1>2, <1>3, <1>4, <1>5, StartKeeps

\* Who is shown a request has not paid it, nor has anybody in a direct chat.
LEMMA RequestedIsUnpaid ==
    ASSUME UserAssumption, NullAssumption, IInv, NEW u \in Users, NEW p \in Payments,
           IsShown(u, p), Idle(u, p), ~PaysElsewhere(u, p), Shown(u, p).status = "requested",
           u # Requester[p], IsDirect(p)
    PROVE  /\ \A n \in DOMAIN notes : ~Known(p, n)
           /\ \A t \in tasks : ~(t.op = "pay" /\ t.content.pid = p)
<1>1. PICK m \in DOMAIN room :
         /\ room[m].content = Shown(u, p) /\ room[m].content.pid = p
         /\ \A i \in DOMAIN room :
               room[i].content.pid = p /\ (i <= seen[u] \/ room[i].author = u) => i <= m
  BY ShownIs DEF IInv
<1>2. \A v \in Users : v # Requester[p] => v = u
  BY DEF IsDirect
<1>3. ~PayerSpoke(p)
  <2>1. SUFFICES ASSUME PayerSpoke(p) PROVE FALSE
    OBVIOUS
  <2>2. PICK i \in DOMAIN room : /\ room[i].content.pid = p /\ room[i].author # Requester[p]
                                 /\ room[i].content.status # "requested"
    BY <2>1 DEF PayerSpoke
  <2>3. room[i].author = u
    BY <1>2, <2>2, Typed DEF IInv
  <2>4. i <= m
    BY <1>1, <2>2, <2>3
  <2>5. m <= i
    BY <1>1, <2>2 DEF IInv, EventsInv, EventInv
  <2>6. i = m
    BY <2>4, <2>5, Typed DEF IInv
  <2> QED
    BY <1>1, <2>2, <2>6
<1>4. \A n \in DOMAIN notes : ~Known(p, n)
  <2>1. \A n \in DOMAIN notes : n # NoNote
    BY Typed DEF IInv, NullAssumption
  <2> QED
    BY <1>3, <2>1 DEF Known, IInv, EventsInv, EventInv
<1>5. ASSUME NEW t \in tasks, t.op = "pay", t.content.pid = p PROVE FALSE
  <2>1. t.user \in Users /\ t.user # Requester[p]
    BY <1>5, Typed DEF IInv, TasksInv, TaskInv
  <2>2. t.user = u
    BY <1>2, <2>1
  <2> QED
    BY <1>5, <2>2 DEF Idle, PaysElsewhere, Pressed
<1> QED
  BY <1>4, <1>5

LEMMA PayKeeps ==
    ASSUME UserAssumption, NullAssumption, IInv, NEW u \in Users, NEW p \in Payments, Pay(u, p)
    PROVE  IInv'
<1> DEFINE d == Shown(u, p)
           c == [d EXCEPT !.status = "accepted", !.sender = u]
<1>1. /\ IsShown(u, p) /\ Idle(u, p) /\ d.status = "requested" /\ d.recipient # u
      /\ Start(u, "pay", c)
  BY DEF Pay, Payable
<1>2. PICK m \in DOMAIN room : /\ room[m].content = d /\ d.pid = p /\ d \in Content
  BY <1>1, ShownIs DEF IInv
<1>3. d.recipient = Requester[p] /\ d.note = NoNote
  BY <1>1, <1>2 DEF IInv, EventsInv, EventInv, Carries
<1>4. /\ c \in Content /\ c.status = "accepted" /\ c.pid = p /\ c.note = NoNote /\ c.sender = u
      /\ c.recipient = Requester[p]
  <2> HIDE DEF d
  <2> QED
    BY ZenonT(40), <1>2, <1>3, Accepted
<1>5. IsDirect(p) /\ ~PaysElsewhere(u, p) =>
         /\ \A n \in DOMAIN notes : ~Known(p, n)
         /\ \A t \in tasks : ~(t.op = "pay" /\ t.content.pid = p)
  BY <1>1, <1>3, RequestedIsUnpaid
<1>7. PaysElsewhere(u, p) => p \in paidAgain'
  BY <1>1, <1>4 DEF Start
<1> HIDE DEF c, d
<1>6. Carries(c)
  BY <1>4 DEF Carries
<1> QED
  BY <1>1, <1>3, <1>4, <1>5, <1>6, <1>7, StartKeeps

LEMMA CancelKeeps ==
    ASSUME UserAssumption, NullAssumption, IInv, NEW u \in Users, NEW p \in Payments,
           Cancel(u, p)
    PROVE  IInv'
<1> DEFINE c == Shown(u, p)
<1>1. IsShown(u, p) /\ MayCancel(u, c) /\ Start(u, "cancel", c)
  BY DEF Cancel
<1>2. PICK m \in DOMAIN room : /\ room[m].content = c /\ c.pid = p /\ c \in Content
  BY <1>1, ShownIs DEF IInv
<1>3. EventInv(m)
  BY DEF IInv, EventsInv
<1> HIDE DEF c
<1>4. Carries(c) /\ (c.status = "requested" => c.note = NoNote)
  BY <1>2, <1>3 DEF EventInv
<1>5. c.note # NoNote => u = c.sender
  BY <1>1, <1>4 DEF MayCancel
<1>6. Known(c.pid, c.note)
  BY <1>2 DEF Known
<1> QED
  BY <1>1, <1>2, <1>4, <1>5, <1>6, StartKeeps

LEMMA RequestKeeps ==
    ASSUME UserAssumption, NullAssumption, IInv, NEW p \in Payments, Request(p)
    PROVE  IInv'
<1> DEFINE u == Requester[p]
           c == [pid |-> p, status |-> "requested", sender |-> NoUser, recipient |-> u,
                 note |-> NoNote]
<1>1. Unused(p) /\ Post(u, c, attempted[u], tasks)
  BY DEF Request
<1>2. u \in Users
  BY DEF UserAssumption
<1>3. c \in Content
  BY <1>2 DEF Content, Status
<1>4. c.pid = p /\ c.status = "requested" /\ c.recipient = Requester[p] /\ c.note = NoNote
  OBVIOUS
<1>5. \A k \in DOMAIN room : room[k].content.pid # p
  BY <1>1 DEF Unused
<1> HIDE DEF c, u
<1>6. Carries(c)
  BY <1>4 DEF Carries
<1> QED
  BY <1>1, <1>2, <1>3, <1>4, <1>5, <1>6, PostKeeps

LEMMA RejectKeeps ==
    ASSUME UserAssumption, NullAssumption, IInv, NEW u \in Users, NEW p \in Payments,
           Reject(u, p)
    PROVE  IInv'
<1> DEFINE d == Shown(u, p)
           c == [d EXCEPT !.status = "rejected"]
<1>1. IsShown(u, p) /\ Post(u, c, attempted[u], tasks)
  BY DEF Reject
<1>2. PICK m \in DOMAIN room : /\ room[m].content = d /\ d.pid = p /\ d \in Content
  BY <1>1, ShownIs DEF IInv
<1>3. Carries(d)
  BY <1>2 DEF IInv, EventsInv, EventInv
<1>4. Known(d.pid, d.note)
  BY <1>2 DEF Known
<1> HIDE DEF d
<1>5. /\ c \in Content /\ c.status = "rejected" /\ c.pid = d.pid /\ c.note = d.note
      /\ c.sender = d.sender /\ c.recipient = d.recipient
  BY <1>2, StatusChanged DEF Status
<1> HIDE DEF c
<1>6. Carries(c)
  BY <1>3, <1>5 DEF Carries
<1>7. Known(c.pid, c.note)
  BY <1>4, <1>5
<1> QED
  BY <1>1, <1>5, <1>6, <1>7, PostKeeps

LEMMA SendKeeps ==
    ASSUME UserAssumption, NullAssumption, IInv, NEW t \in tasks, Send(t)
    PROVE  IInv'
<1> DEFINE u == t.user
           d == t.content
           st == IF d.status = "pushed" /\ t.op = "pay" THEN "pushed" ELSE Outcome[t.op]
           c == [d EXCEPT !.status = st]
<1>1. t.at = "send" /\ Post(u, c, attempted[u], tasks \ {t})
  BY DEF Send
<1>2. t \in Task /\ u \in Users /\ d \in Content /\ d.pid \in Payments
  BY Typed DEF IInv
<1>3. t.op \in {"pay", "claim", "cancel"}
  BY <1>2 DEF Task
<1>4. /\ st \in Status
      /\ t.op = "pay" => st \in {"pushed", "accepted"}
      /\ t.op = "claim" => st = "received"
      /\ t.op = "cancel" => st = "canceled"
  BY <1>3 DEF Outcome, Status
<1> HIDE DEF st
<1>5. /\ c \in Content /\ c.status = st /\ c.pid = d.pid /\ c.note = d.note
      /\ c.sender = d.sender /\ c.recipient = d.recipient
  <2> HIDE DEF d
  <2> QED
    BY <1>2, <1>4, StatusChanged
<1> HIDE DEF c
<1>6. TaskInv(t)
  BY DEF IInv, TasksInv
<1>7. Carries(c)
  BY <1>5, <1>6 DEF TaskInv, Carries
<1>8. CASE t.op = "pay"
  <2>1. /\ u # Requester[c.pid] /\ c.status \in {"pushed", "accepted"} /\ c.note # NoNote
    BY <1>1, <1>4, <1>5, <1>6, <1>8 DEF TaskInv
  <2>2. IsDirect(c.pid) /\ c.pid \notin paidAgain =>
           /\ \A n \in DOMAIN notes : ~Known(c.pid, n)
           /\ \A o \in tasks \ {t} : ~(o.op = "pay" /\ o.content.pid = c.pid)
    BY <1>2, <1>5, <1>8 DEF IInv, PaidOnceInv, DirectInv
  <2> QED
    BY <1>1, <1>2, <1>5, <1>7, <2>1, <2>2, PostKeeps
<1>9. CASE t.op # "pay"
  <2>1. c.note # NoNote => Known(c.pid, c.note)
    BY <1>5, <1>6, <1>9 DEF TaskInv
  <2>2. c.status \in {"received", "canceled"}
    BY <1>3, <1>4, <1>5, <1>9
  <2>3. c.status = "canceled" /\ c.note # NoNote =>
           notes[c.note].owner = notes[c.note].payer
    <3>1. c.status = "canceled" => t.op = "cancel"
      BY <1>3, <1>4, <1>5, <1>9
    <3> QED
      BY <1>1, <1>5, <1>6, <3>1 DEF TaskInv, Carries
  <2> QED
    BY <1>1, <1>2, <1>5, <1>7, <2>1, <2>2, <2>3, PostKeeps
<1> QED
  BY <1>8, <1>9

\* Messages that arrive, membership and restarts only make the listener run.
LEMMA HeardKeeps ==
    ASSUME UserAssumption, NullAssumption, IInv, NEW u \in Users,
           Deliver(u) \/ OtherMessage(u) \/ Join(u) \/ Restart(u)
    PROVE  IInv'
<1>1. /\ room \in Seq(Event) /\ Len(room) \in Nat /\ seen \in [Users -> 0 .. Len(room)]
      /\ joined \subseteq Users /\ attempted[u] \in SUBSET Payments
  BY DEF IInv, TypeOK
<1>2. CASE Deliver(u)
  <2>1. seen' = [seen EXCEPT ![u] = @ + 1] /\ seen[u] < Len(room)
    BY <1>2 DEF Deliver
  <2>2. seen' \in [Users -> 0 .. Len(room)]
    BY <1>1, <2>1
  <2>3. /\ Check(u, room, seen[u] + 1, joined, attempted[u], tasks)
        /\ room' = room /\ joined' = joined /\ notes' = notes /\ reissued' = reissued
        /\ buttons' = buttons
    BY <1>2 DEF Deliver
  <2> QED
    BY <1>1, <2>2, <2>3, HearKeeps
<1>3. CASE OtherMessage(u)
  <2>1. /\ Check(u, room, seen[u], joined, attempted[u], tasks) /\ seen' = seen
        /\ room' = room /\ joined' = joined /\ notes' = notes /\ reissued' = reissued
        /\ buttons' = buttons
    BY <1>3 DEF OtherMessage
  <2> QED
    BY <1>1, <2>1, HearKeeps
<1>4. CASE Join(u)
  <2>1. /\ Check(u, room, seen[u], joined', attempted[u], tasks) /\ seen' = seen
        /\ room' = room /\ joined' = joined \cup {u} /\ notes' = notes
        /\ reissued' = reissued
        /\ buttons' = buttons
    BY <1>4 DEF Join
  <2>2. PICK j : j = joined \cup {u}
    OBVIOUS
  <2>3. Check(u, room, seen[u], j, attempted[u], tasks)
    BY <2>1, <2>2 DEF Check
  <2> QED
    BY <1>1, <2>1, <2>3, HearKeeps
<1>5. CASE Restart(u)
  <2>1. /\ Check(u, room, seen[u], joined, {}, {t \in tasks : t.user # u}) /\ seen' = seen
        /\ room' = room /\ joined' = joined /\ notes' = notes /\ reissued' = reissued
        /\ buttons' = buttons
    BY <1>5 DEF Restart
  <2>2. PICK ts \in SUBSET tasks : ts = {t \in tasks : t.user # u}
    OBVIOUS
  <2>3. Check(u, room, seen[u], joined, {}, ts) /\ \A t \in ts : t.user # u
    BY <2>1, <2>2
  <2> QED
    BY <1>1, <2>1, <2>3, HearKeeps
<1> QED
  BY <1>2, <1>3, <1>4, <1>5

\* The note a payer generates is its own, and the payment has no other under way.
LEMMA GenerateKeeps ==
    ASSUME UserAssumption, NullAssumption, IInv, NEW t \in tasks, Generate(t)
    PROVE  IInv'
<1> DEFINE new == [payer |-> t.user, pid |-> t.content.pid, pending |-> {}, owner |-> NoUser]
<1>1. /\ t.op = "pay" /\ t.at = "mint" /\ notes' = Append(notes, new)
      /\ tasks' = (tasks \ {t}) \cup {Sending(t, Len(notes'))}
      /\ room' = room /\ seen' = seen /\ joined' = joined /\ attempted' = attempted
      /\ reissued' = reissued /\ buttons' = buttons
  BY DEF Generate
<1>2. /\ t \in Task /\ t.user \in Users /\ t.content.pid \in Payments /\ TaskInv(t)
      /\ notes \in Seq(Note) /\ Len(notes) \in Nat /\ DOMAIN notes = 1 .. Len(notes)
  BY Typed DEF IInv, TypeOK, TasksInv
<1>3. new \in Note
  BY <1>2 DEF Note
<1>4. /\ new.payer = t.user /\ new.pid = t.content.pid /\ new.pending = {}
      /\ new.owner = NoUser
  OBVIOUS
<1> HIDE DEF new
<1>5. PICK k : k = Len(notes) + 1
  OBVIOUS
<1>6. /\ notes' \in Seq(Note) /\ Len(notes') = k /\ DOMAIN notes' = DOMAIN notes \cup {k}
      /\ k \notin DOMAIN notes /\ k \in Nat /\ notes'[k] = new
      /\ \A n \in DOMAIN notes : notes'[n] = notes[n]
  <2>1. /\ notes' \in Seq(Note) /\ Len(notes') = Len(notes) + 1
        /\ \A n \in DOMAIN notes : notes'[n] = notes[n]
        /\ notes'[Len(notes) + 1] = new
    BY <1>1, <1>2, <1>3
  <2>2. DOMAIN notes' = 1 .. Len(notes) + 1
    BY <2>1
  <2> QED
    BY <1>2, <1>5, <2>1, <2>2
<1>7. PICK d : d = Sending(t, k)
  OBVIOUS
<1>8. /\ d \in Task /\ d.at = "send" /\ d.user = t.user /\ d.op = "pay" /\ d.content.note = k
      /\ d.content.pid = t.content.pid /\ d.content.sender = t.content.sender
      /\ d.content.recipient = t.content.recipient /\ d.content.status = t.content.status
  <2>1. k \in Nat \cup {NoNote}
    BY <1>6
  <2> QED
    BY <1>1, <1>2, <1>7, <2>1, IsSending
<1>9. tasks' = (tasks \ {t}) \cup {d}
  BY <1>1, <1>6, <1>7
<1>10. Grows
  BY <1>1, <1>6 DEF Grows, buttons
<1>11. TypeOK'
  <2>1. reissued' \in [Users -> SUBSET DOMAIN notes']
    BY <1>1, <1>6 DEF IInv, TypeOK
  <2>2. tasks' \subseteq Task
    BY <1>8, <1>9 DEF IInv, TypeOK
  <2> QED
    BY <1>1, <1>6, <2>1, <2>2 DEF IInv, TypeOK, buttons
<1>12. NotesInv'
  <2>1. \A n \in DOMAIN notes : NoteInv(n)'
    BY <1>1, <1>6, SameKnown DEF IInv, NotesInv, NoteInv
  <2>2. NoteInv(k)'
    <3>1. \A u \in Users : u # NoUser
      BY DEF NullAssumption
    <3> QED
      BY <1>4, <1>6, <3>1 DEF NoteInv
  <2> QED
    BY <1>6, <2>1, <2>2 DEF NotesInv
<1>13. TaskInv(d)'
  <2>1. k # NoNote
    BY <1>6 DEF NullAssumption
  <2>2. Carries(d.content)'
    BY <1>1, <1>2, <1>4, <1>6, <1>8 DEF Carries, TaskInv
  <2> QED
    BY <1>1, <1>2, <1>8, <2>1, <2>2 DEF TaskInv
<1>14. OneClaimAtATime' /\ PaidOnceInv'
  BY <1>1, <1>8, <1>9, <1>11, GoesOn
<1>15. \A o \in tasks \cap tasks' : o.op = "claim" => o.content.pid \in attempted'[o.user]
  BY <1>1, AttemptsStay
<1>16. \A o \in tasks' \ tasks : TaskInv(o)'
  BY <1>9, <1>13
<1> QED
  BY <1>1, <1>10, <1>11, <1>12, <1>14, <1>15, <1>16, TasksKeep

\* A task that only ends.
LEMMA EndKeeps ==
    ASSUME UserAssumption, NullAssumption, IInv, NEW t \in tasks, tasks' = tasks \ {t},
           \/ attempted' = attempted
           \/ t.op = "claim" /\ attempted' = [attempted EXCEPT ![t.user] = @ \ {t.content.pid}],
           room' = room, seen' = seen, joined' = joined, notes' = notes, reissued' = reissued,
           buttons' = buttons
    PROVE  IInv'
<1>1. Grows
  BY DEF Grows, buttons
<1>2. /\ attempted' \in [Users -> SUBSET Payments]
      /\ \A o \in tasks \ {t} : o.op = "claim" => o.content.pid \in attempted'[o.user]
  <2>1. CASE attempted' = attempted
    BY <2>1, AttemptsStay DEF IInv, TypeOK
  <2>2. CASE /\ t.op = "claim"
             /\ attempted' = [attempted EXCEPT ![t.user] = @ \ {t.content.pid}]
    BY <2>2, TakenBack
  <2> QED
    BY <2>1, <2>2
<1>3. TypeOK'
  BY <1>2 DEF IInv, TypeOK, buttons
<1>4. NotesInv'
  BY SameKnown DEF IInv, NotesInv, NoteInv
<1>5. OneClaimAtATime' /\ PaidOnceInv'
  BY <1>3, GoesOn
<1> QED
  BY <1>1, <1>2, <1>3, <1>4, <1>5, TasksKeep

\* A wallet submits a note it has not received before, or gives the claim up.
LEMMA ReceiveKeeps ==
    ASSUME UserAssumption, NullAssumption, IInv, NEW t \in tasks, Receive(t)
    PROVE  IInv'
<1>1. /\ t.op = "claim" /\ room' = room /\ seen' = seen /\ joined' = joined
      /\ buttons' = buttons
  BY DEF Receive
<1>2. PICK n : n = t.content.note
  OBVIOUS
<1>3. /\ t \in Task /\ t.user \in Users /\ t.content.pid \in Payments /\ TaskInv(t)
  BY Typed DEF IInv, TasksInv
<1>4. /\ n # NoNote /\ n \in DOMAIN notes /\ notes[n].pid = t.content.pid
      /\ Known(t.content.pid, n) /\ Carries(t.content)
  BY <1>1, <1>2, <1>3 DEF TaskInv, Carries
<1>5. CASE n \in reissued[t.user]
  <2>1. /\ tasks' = tasks \ {t} /\ notes' = notes /\ reissued' = reissued
        /\ attempted' = [attempted EXCEPT ![t.user] = @ \ {t.content.pid}]
    BY <1>2, <1>5 DEF Receive
  <2> QED
    BY <1>1, <2>1, EndKeeps
<1>6. CASE n \notin reissued[t.user]
  <2>1. /\ notes' = Submitted(n, t.user) /\ attempted' = attempted
        /\ reissued' = [reissued EXCEPT ![t.user] = @ \cup {n}]
        /\ tasks' = (tasks \ {t}) \cup {Sending(t, n)}
    BY <1>2, <1>6 DEF Receive
  <2>2. Grows /\ NotesInv' /\ notes' \in Seq(Note) /\ DOMAIN notes' = DOMAIN notes
    BY <1>1, <1>3, <1>4, <2>1, SubmittedIs
  <2>3. PICK d : d = Sending(t, n)
    OBVIOUS
  <2>4. n \in Nat \cup {NoNote}
    BY <1>4, Typed DEF IInv
  <2>5. /\ d \in Task /\ d.user = t.user /\ d.op = "claim" /\ d.content.note = n
        /\ d.content.pid = t.content.pid /\ d.content.sender = t.content.sender
        /\ d.content.recipient = t.content.recipient
    BY <1>1, <1>3, <2>3, <2>4, IsSending
  <2>6. TypeOK'
    <3>1. reissued' \in [Users -> SUBSET DOMAIN notes']
      BY <1>4, <2>1, <2>2 DEF IInv, TypeOK
    <3>2. tasks' \subseteq Task
      BY <2>1, <2>3, <2>5 DEF IInv, TypeOK
    <3> QED
      BY <1>1, <2>1, <2>2, <3>1, <3>2 DEF IInv, TypeOK, buttons
  <2>7. OneClaimAtATime' /\ PaidOnceInv'
    BY <1>1, <2>1, <2>3, <2>5, <2>6, GoesOn
  <2>8. TaskInv(d)'
    <3>1. Carries(d.content)
      BY <1>2, <1>4, <2>5 DEF Carries
    <3>2. Carries(d.content)'
      BY <2>2, <3>1, CarriesStays
    <3>3. Known(d.content.pid, d.content.note)'
      BY <1>1, <1>4, <2>5, SameKnown
    <3>4. d.content.pid \in attempted'[d.user]
      BY <1>1, <1>3, <2>1, <2>5 DEF TaskInv
    <3> QED
      BY <1>4, <2>5, <3>2, <3>3, <3>4 DEF TaskInv
  <2>9. \A o \in tasks \cap tasks' : o.op = "claim" => o.content.pid \in attempted'[o.user]
    BY <2>1, AttemptsStay
  <2>10. \A o \in tasks' \ tasks : TaskInv(o)'
    BY <2>1, <2>3, <2>8
  <2> QED
    BY <1>1, <2>2, <2>6, <2>7, <2>9, <2>10, TasksKeep
<1> QED
  BY <1>5, <1>6

\* A cancellation submits the payer's own transaction.
LEMMA SubmitCancelKeeps ==
    ASSUME UserAssumption, NullAssumption, IInv, NEW t \in tasks, SubmitCancel(t)
    PROVE  IInv'
<1>1. /\ t.op = "cancel" /\ t.content.note # NoNote
      /\ notes' = Submitted(t.content.note, t.user)
      /\ room' = room /\ seen' = seen /\ joined' = joined /\ attempted' = attempted
      /\ tasks' = tasks /\ reissued' = reissued /\ buttons' = buttons
  BY DEF SubmitCancel
<1>2. PICK n : n = t.content.note
  OBVIOUS
<1>3. t.user \in Users /\ TaskInv(t)
  BY Typed DEF IInv, TasksInv
<1>4. n \in DOMAIN notes /\ t.user = notes[n].payer
  BY <1>1, <1>2, <1>3 DEF TaskInv, Carries
<1>5. Grows /\ NotesInv' /\ notes' \in Seq(Note) /\ DOMAIN notes' = DOMAIN notes
  BY <1>1, <1>2, <1>3, <1>4, SubmittedIs
<1>6. TypeOK'
  BY <1>1, <1>5 DEF IInv, TypeOK, buttons
<1>7. OneClaimAtATime' /\ PaidOnceInv'
  BY <1>1, <1>6, GoesOn
<1>8. \A o \in tasks \cap tasks' : o.op = "claim" => o.content.pid \in attempted'[o.user]
  BY <1>1, AttemptsStay
<1> QED
  BY <1>1, <1>5, <1>6, <1>7, <1>8, TasksKeep

\* It goes on only with the note back, or without any.
LEMMA CancelOutcomeKeeps ==
    ASSUME UserAssumption, NullAssumption, IInv, NEW t \in tasks, CancelOutcome(t)
    PROVE  IInv'
<1>2. PICK n : n = t.content.note
  OBVIOUS
<1>1. /\ t.op = "cancel" /\ t.at = "mint"
      /\ tasks' = IF n = NoNote \/ notes[n].owner = t.user
                  THEN (tasks \ {t}) \cup {Sending(t, n)} ELSE tasks \ {t}
      /\ room' = room /\ seen' = seen /\ joined' = joined /\ attempted' = attempted
      /\ notes' = notes /\ reissued' = reissued /\ buttons' = buttons
  BY <1>2 DEF CancelOutcome
<1>3. CASE ~(n = NoNote \/ notes[n].owner = t.user)
  <2>1. tasks' = tasks \ {t}
    BY <1>1, <1>3
  <2> QED
    BY <1>1, <2>1, EndKeeps
<1>4. CASE n = NoNote \/ notes[n].owner = t.user
  <2>1. PICK d : d = Sending(t, n)
    OBVIOUS
  <2>2. tasks' = (tasks \ {t}) \cup {d}
    BY <1>1, <1>4, <2>1
  <2>3. t \in Task /\ t.user \in Users /\ TaskInv(t) /\ t.content \in Content
    BY Typed DEF IInv, TasksInv
  <2>4. n \in Nat \cup {NoNote}
    BY <1>2, <2>3 DEF Content
  <2>5. /\ d \in Task /\ d.user = t.user /\ d.op = "cancel" /\ d.content.note = n
        /\ d.content.pid = t.content.pid /\ d.content.sender = t.content.sender
        /\ d.content.recipient = t.content.recipient
    BY <1>1, <2>1, <2>3, <2>4, IsSending
  <2>6. Grows
    BY <1>1 DEF Grows, buttons
  <2>7. TypeOK'
    BY <1>1, <2>2, <2>5 DEF IInv, TypeOK, buttons
  <2>8. NotesInv'
    BY <1>1, SameKnown DEF IInv, NotesInv, NoteInv
  <2>9. OneClaimAtATime' /\ PaidOnceInv'
    BY <1>1, <2>2, <2>5, <2>7, GoesOn
  <2>10. TaskInv(d)'
    <3>1. Carries(d.content)
      BY <1>2, <2>3, <2>5 DEF TaskInv, Carries
    <3>2. Carries(d.content)'
      BY <2>6, <3>1, CarriesStays
    <3>3. n # NoNote => Known(d.content.pid, n)'
      BY <1>1, <1>2, <2>3, <2>5, SameKnown DEF TaskInv
    <3>4. n # NoNote => d.user = d.content.sender /\ notes'[n].owner = d.user
      BY <1>1, <1>2, <1>4, <2>3, <2>5 DEF TaskInv
    <3> QED
      BY <2>5, <3>2, <3>3, <3>4 DEF TaskInv
  <2>11. \A o \in tasks \cap tasks' : o.op = "claim" => o.content.pid \in attempted'[o.user]
    BY <1>1, AttemptsStay
  <2>12. \A o \in tasks' \ tasks : TaskInv(o)'
    BY <2>2, <2>10
  <2> QED
    BY <1>1, <2>6, <2>7, <2>8, <2>9, <2>11, <2>12, TasksKeep
<1> QED
  BY <1>3, <1>4

LEMMA FailKeeps ==
    ASSUME UserAssumption, NullAssumption, IInv, NEW t \in tasks, Fail(t)
    PROVE  IInv'
<1>1. /\ tasks' = tasks \ {t} /\ room' = room /\ seen' = seen /\ joined' = joined
      /\ notes' = notes /\ reissued' = reissued /\ buttons' = buttons
      /\ attempted' = IF t.op = "claim"
                      THEN [attempted EXCEPT ![t.user] = @ \ {t.content.pid}] ELSE attempted
  BY DEF Fail
<1> QED
  BY <1>1, EndKeeps

\* The mint takes a note's owner from those who have submitted it.
LEMMA SettleKeeps ==
    ASSUME UserAssumption, NullAssumption, IInv, NEW n \in DOMAIN notes, Settle(n)
    PROVE  IInv'
<1>1. /\ room' = room /\ seen' = seen /\ joined' = joined /\ attempted' = attempted
      /\ tasks' = tasks /\ reissued' = reissued /\ buttons' = buttons
  BY DEF Settle
<1>2. PICK u \in notes[n].pending : notes' = [notes EXCEPT ![n].owner = u, ![n].pending = {}]
  BY DEF Settle
<1>3. /\ notes \in Seq(Note) /\ notes[n] \in Note /\ u \in Users /\ NoteInv(n)
      /\ notes[n].owner = NoUser
  BY Typed DEF IInv, TypeOK, NotesInv, NoteInv
<1> DEFINE new == [notes[n] EXCEPT !.owner = u, !.pending = {}]
<1>4. /\ new \in Note /\ new.owner = u /\ new.pending = {} /\ new.pid = notes[n].pid
      /\ new.payer = notes[n].payer
  BY <1>3 DEF Note
<1>5. notes' = [notes EXCEPT ![n] = new]
  BY <1>2, <1>3
<1> HIDE DEF new
<1>6. /\ notes' \in Seq(Note) /\ DOMAIN notes' = DOMAIN notes /\ notes'[n] = new
      /\ \A m \in DOMAIN notes \ {n} : notes'[m] = notes[m]
  BY <1>3, <1>4, <1>5
<1>7. Grows
  BY <1>1, <1>3, <1>4, <1>6 DEF Grows, buttons
<1>8. NotesInv'
  <2>1. ASSUME NEW m \in DOMAIN notes PROVE NoteInv(m)'
    BY <1>1, <1>3, <1>4, <1>6, SameKnown DEF IInv, NotesInv, NoteInv
  <2> QED
    BY <1>6, <2>1 DEF NotesInv
<1>9. TypeOK'
  BY <1>1, <1>6 DEF IInv, TypeOK, buttons
<1>10. OneClaimAtATime'
  BY <1>1 DEF IInv, OneClaimAtATime
<1>11. PaidOnceInv'
  BY <1>1, <1>6, SameKnown DEF IInv, PaidOnceInv, DirectInv, IsDirect, buttons
<1>12. \A o \in tasks \cap tasks' : o.op = "claim" => o.content.pid \in attempted'[o.user]
  BY <1>1, AttemptsStay
<1> QED
  BY <1>1, <1>7, <1>8, <1>9, <1>10, <1>11, <1>12, TasksKeep

\* A chat opened anew only forgets which buttons are at work.
LEMMA ReopenKeeps ==
    ASSUME UserAssumption, NullAssumption, IInv, NEW u \in Users, Reopen(u)
    PROVE  IInv'
<1>1. /\ room' = room /\ seen' = seen /\ joined' = joined /\ attempted' = attempted
      /\ tasks' = tasks /\ notes' = notes /\ reissued' = reissued /\ paidAgain' = paidAgain
      /\ opened' = [opened EXCEPT ![u] = @ + 1]
  BY DEF Reopen
<1>2. TypeOK' /\ OneClaimAtATime'
  BY <1>1 DEF IInv, TypeOK, OneClaimAtATime
<1>3. Grows
  BY <1>1 DEF Grows
<1>4. NotesInv' /\ PaidOnceInv'
  BY <1>1, SameKnown DEF IInv, NotesInv, NoteInv, PaidOnceInv, DirectInv, IsDirect
<1>5. \A o \in tasks \cap tasks' : o.op = "claim" => o.content.pid \in attempted'[o.user]
  BY <1>1, AttemptsStay
<1> QED
  BY <1>1, <1>2, <1>3, <1>4, <1>5, TasksKeep

-----------------------------------------------------------------------------
(* The theorem.                                                            *)

LEMMA Begins ==
    ASSUME Init
    PROVE  IInv
<1>1. /\ room = <<>> /\ notes = <<>> /\ tasks = {} /\ DOMAIN room = {} /\ DOMAIN notes = {}
      /\ seen = [u \in Users |-> 0] /\ joined \subseteq Users
      /\ attempted = [u \in Users |-> {}] /\ reissued = [u \in Users |-> {}]
      /\ opened = [u \in Users |-> 0] /\ paidAgain = {}
  BY DEF Init
<1>2. TypeOK
  <2>1. Len(room) = 0 /\ 0 \in 0 .. Len(room)
    BY <1>1
  <2>2. room \in Seq(Event) /\ notes \in Seq(Note)
    BY <1>1
  <2> QED
    BY <1>1, <2>1, <2>2 DEF TypeOK
<1> QED
  BY <1>1, <1>2 DEF IInv, EventsInv, TasksInv, OneClaimAtATime, NotesInv, PaidOnceInv, DirectInv

LEMMA Step ==
    ASSUME UserAssumption, NullAssumption, IInv, [Next]_vars
    PROVE  IInv'
<1>1. CASE Tap
  <2>1. PICK p \in Payments :
           Request(p) \/ \E u \in Users : Push(u, p) \/ Pay(u, p) \/ Reject(u, p) \/ Cancel(u, p)
    BY <1>1 DEF Tap
  <2> QED
    BY <2>1, RequestKeeps, PushKeeps, PayKeeps, RejectKeeps, CancelKeeps
<1>2. CASE ThunkStep
  <2>1. PICK t \in tasks : Generate(t) \/ Receive(t) \/ SubmitCancel(t) \/ CancelOutcome(t)
                           \/ Send(t)
    BY <1>2 DEF ThunkStep
  <2> QED
    BY <2>1, GenerateKeeps, ReceiveKeeps, SubmitCancelKeeps, CancelOutcomeKeeps, SendKeeps
<1>3. CASE \E t \in tasks : Fail(t)
  BY <1>3, FailKeeps
<1>4. CASE \E u \in Users : Deliver(u) \/ OtherMessage(u) \/ Join(u) \/ Restart(u) \/ Reopen(u)
  BY <1>4, HeardKeeps, ReopenKeeps
<1>5. CASE \E n \in DOMAIN notes : Settle(n)
  BY <1>5, SettleKeeps
<1>6. CASE UNCHANGED vars
  <2>1. /\ room' = room /\ seen' = seen /\ joined' = joined /\ attempted' = attempted
        /\ tasks' = tasks /\ notes' = notes /\ reissued' = reissued
        /\ opened' = opened /\ paidAgain' = paidAgain
    BY <1>6 DEF vars, buttons
  <2>2. TypeOK' /\ OneClaimAtATime'
    BY <2>1 DEF IInv, TypeOK, OneClaimAtATime
  <2>3. Grows
    BY <2>1 DEF Grows
  <2>4. NotesInv' /\ PaidOnceInv'
    BY <2>1, SameKnown DEF IInv, NotesInv, NoteInv, PaidOnceInv, DirectInv, IsDirect
  <2>5. \A o \in tasks \cap tasks' : o.op = "claim" => o.content.pid \in attempted'[o.user]
    BY <2>1, AttemptsStay
  <2> QED
    BY <2>1, <2>2, <2>3, <2>4, <2>5, TasksKeep
<1> QED
  BY <1>1, <1>2, <1>3, <1>4, <1>5, <1>6 DEF Next

\* What is inductive is what the runs check.
LEMMA SoundFromInv ==
    ASSUME NullAssumption, IInv
    PROVE  PaymentsAreSound
<1>1. ASSUME NEW p \in Payments, IsDirect(p), p \notin paidAgain
      PROVE  Cardinality(PaidNotes(p)) <= 1
  <2>1. DirectInv(p)
    BY <1>1 DEF IInv, PaidOnceInv
  <2>2. ASSUME NEW n \in PaidNotes(p) PROVE n \in DOMAIN notes /\ Known(p, n)
    <3>1. n \in DOMAIN notes /\ notes[n].pid = p /\ notes[n].owner \in Users \ {notes[n].payer}
      BY <2>2, Typed DEF IInv, PaidNotes
    <3>2. NoteInv(n)
      BY <3>1 DEF IInv, NotesInv
    <3> QED
      BY <3>1, <3>2 DEF NoteInv
  <2>3. \A m, n \in PaidNotes(p) : m = n
    BY <2>1, <2>2 DEF DirectInv
  <2>4. CASE PaidNotes(p) = {}
    BY <2>4, FS_EmptySet
  <2>5. CASE PaidNotes(p) # {}
    <3>1. PICK n : PaidNotes(p) = {n}
      BY <2>3, <2>5
    <3>2. Cardinality({n}) = 1
      BY FS_Singleton
    <3> QED
      BY <3>1, <3>2
  <2> QED
    BY <2>4, <2>5
<1>2. PaidOnce
  BY <1>1 DEF PaidOnce
<1>3. CanceledIsRefunded
  BY DEF IInv, EventsInv, EventInv, CanceledIsRefunded
<1> QED
  BY <1>2, <1>3 DEF PaymentsAreSound, IInv

LEMMA SpecKeeps ==
    ASSUME UserAssumption, NullAssumption
    PROVE  Spec => []IInv
<1>1. Init => IInv
  BY Begins
<1>2. IInv /\ [Next]_vars => IInv'
  BY Step
<1> QED
  BY <1>1, <1>2, PTL DEF Spec

\* Whatever fails, whoever restarts and whatever chat is opened anew, a wallet has one
\* claim of a payment at a time and what is cancelled is the payer's again; and a payment
\* of a direct chat leaves its payer once, unless the payer pressed to pay it again, in a
\* chat opened anew while the first press was at work (checkForReceivablePayments,
\* acceptMatrixPaymentRequest, cancelMatrixPayment).
THEOREM PaymentsSound ==
    ASSUME UserAssumption, NullAssumption
    PROVE  Spec => []PaymentsAreSound
<1>1. IInv => PaymentsAreSound
  BY SoundFromInv
<1> QED
  BY <1>1, SpecKeeps, PTL

-----------------------------------------------------------------------------
(* What everybody has seen end has ended.                                  *)

EventsOf(p, r) == {i \in DOMAIN r : r[i].content.pid = p}

LEMMA LatestIsOneOf ==
    ASSUME NEW p, NEW r \in Seq(Event), EventsOf(p, r) # {}
    PROVE  Max(EventsOf(p, r)) \in EventsOf(p, r)
<1>1. Len(r) \in Nat /\ DOMAIN r = 1 .. Len(r)
  OBVIOUS
<1> DEFINE S == EventsOf(p, r)
<1>2. S \in SUBSET (1 .. Len(r)) /\ S # {}
  BY <1>1 DEF EventsOf
<1> HIDE DEF S
<1>3. Max(S) \in S
  BY <1>1, <1>2, MaxIsGreatest
<1> QED
  BY <1>3 DEF S

\* An event of another payment leaves what is the latest of this one.
LEMMA EventsStay ==
    ASSUME NEW p, NEW r \in Seq(Event), NEW e, e.content.pid # p
    PROVE  EventsOf(p, Append(r, e)) = EventsOf(p, r)
<1> DEFINE q == Append(r, e)
<1>1. /\ Len(r) \in Nat /\ DOMAIN r = 1 .. Len(r) /\ DOMAIN q = 1 .. Len(r) + 1
      /\ q[Len(r) + 1] = e /\ \A i \in DOMAIN r : q[i] = r[i]
  OBVIOUS
<1> HIDE DEF q
<1>2. \A i \in DOMAIN q : i \in DOMAIN r \/ i = Len(r) + 1
  BY <1>1
<1>3. DOMAIN r \subseteq DOMAIN q
  BY <1>1
<1>4. EventsOf(p, q) = EventsOf(p, r)
  BY <1>1, <1>2, <1>3 DEF EventsOf
<1> QED
  BY <1>4 DEF q

LEMMA LatestStays ==
    ASSUME NEW p, NEW r \in Seq(Event), NEW e, EventsOf(p, r) # {}, e.content.pid # p
    PROVE  Latest(p, Append(r, e)) = Latest(p, r)
<1> DEFINE q == Append(r, e)
<1>1. \A i \in DOMAIN r : q[i] = r[i]
  OBVIOUS
<1>2. EventsOf(p, q) = EventsOf(p, r)
  BY EventsStay
<1> HIDE DEF q
<1>3. PICK m : m = Max(EventsOf(p, r))
  OBVIOUS
<1>4. m \in DOMAIN r
  BY <1>3, LatestIsOneOf DEF EventsOf
<1>5. Latest(p, r) = r[m].content
  BY <1>3, Zenon DEF Latest, EventsOf
<1>6. Latest(p, q) = q[m].content
  BY <1>2, <1>3, Zenon DEF Latest, EventsOf
<1> QED
  BY <1>1, <1>4, <1>5, <1>6 DEF q

\* Who has seen all of a payment is shown the latest.
LEMMA ShownIsLatest ==
    ASSUME NEW u, NEW p, NEW r, NEW s, \A i \in EventsOf(p, r) : i <= s
    PROVE  LatestEvent(u, p, r, s).content = Latest(p, r)
<1>1. Visible(u, p, r, s) = EventsOf(p, r)
  BY DEF Visible, EventsOf
<1> QED
  BY <1>1, Zenon DEF LatestEvent, Latest, EventsOf

\* The listener leaves an ended payment alone.
LEMMA ListenerIsQuiet ==
    ASSUME NEW u \in Users, NEW r \in Seq(Event), NEW s, NEW j, NEW a, NEW ts,
           Check(u, r, s, j, a, ts), NEW p \in Payments, \A t \in ts : t.content.pid # p,
           \A i \in EventsOf(p, r) : i <= s, Latest(p, r).status \in Terminal
    PROVE  \A t \in tasks' : t.content.pid # p
<1>1. \A t \in tasks' \ ts : t.content.pid \in ToAttempt(u, r, s, j, a)
  BY CheckAdds
<1>2. ~Receivable(u, p, r, s, j)
  BY ShownIsLatest DEF Receivable, Terminal
<1>3. p \notin ToAttempt(u, r, s, j, a)
  BY <1>2 DEF ToAttempt
<1> QED
  BY <1>1, <1>3

\* What everybody has seen of an ended payment.
LEMMA EndedIs ==
    ASSUME TypeOK, NEW p \in Payments, Ended(p)
    PROVE  /\ EventsOf(p, room) # {} /\ Latest(p, room).status \in Terminal
           /\ \A t \in tasks : t.content.pid # p
           /\ \A u \in Users : /\ \A i \in EventsOf(p, room) : i <= seen[u]
                              /\ Shown(u, p) = Latest(p, room)
<1>1. /\ HasEvents(p) /\ \A u \in Users : seen[u] = Len(room)
      /\ \A t \in tasks : t.content.pid # p /\ Latest(p, room).status \in Terminal
  BY DEF Ended, Settled
<1>2. EventsOf(p, room) # {}
  BY <1>1 DEF HasEvents, EventsOf
<1>3. \A i \in EventsOf(p, room) : i <= Len(room)
  BY Typed DEF EventsOf
<1>4. ASSUME NEW u \in Users PROVE Shown(u, p) = Latest(p, room)
  BY <1>1, <1>3, ShownIsLatest DEF Shown
<1> QED
  BY <1>1, <1>2, <1>3, <1>4 DEF Ended

\* A message about another payment, and what the listener makes of it.
LEMMA OthersPost ==
    ASSUME TypeOK, TypeOK', NEW p \in Payments, Ended(p), NEW u \in Users, NEW c,
           c.pid # p, NEW a, NEW ts \in SUBSET tasks, Post(u, c, a, ts)
    PROVE  StaysEnded(p)
<1> DEFINE e == [author |-> u, content |-> c]
<1>1. /\ room' = Append(room, e) /\ Check(u, room', seen[u], joined, a, ts)
      /\ e.content.pid # p
  BY DEF Post
<1>2. room \in Seq(Event) /\ room' \in Seq(Event) /\ Len(room) \in Nat
  BY DEF TypeOK
<1>3. /\ EventsOf(p, room) # {} /\ Latest(p, room).status \in Terminal
      /\ \A t \in tasks : t.content.pid # p
      /\ \A i \in EventsOf(p, room) : i <= seen[u]
  BY EndedIs
<1> HIDE DEF e
<1>4. Latest(p, room') = Latest(p, room)
  BY <1>1, <1>2, <1>3, LatestStays
<1>5. EventsOf(p, room') = EventsOf(p, room)
  BY <1>1, <1>2, EventsStay
<1>6. PICK r \in Seq(Event) : r = room'
  BY <1>2
<1>7. Check(u, r, seen[u], joined, a, ts)
  BY <1>1, <1>6, Zenon
<1>8. /\ \A i \in EventsOf(p, r) : i <= seen[u]
      /\ Latest(p, r).status \in Terminal
      /\ \A t \in ts : t.content.pid # p
  BY <1>3, <1>4, <1>5, <1>6
<1>9. \A t \in tasks' : t.content.pid # p
  BY <1>7, <1>8, ListenerIsQuiet
<1> QED
  BY <1>4, <1>9 DEF StaysEnded

LEMMA TapsElsewhere ==
    ASSUME UserAssumption, TypeOK, TypeOK', Tap, NEW p \in Payments, Ended(p)
    PROVE  StaysEnded(p)
<1>1. /\ EventsOf(p, room) # {} /\ Latest(p, room).status \in {"rejected", "canceled", "received"}
      /\ \A t \in tasks : t.content.pid # p
      /\ \A u \in Users : Shown(u, p) = Latest(p, room)
  BY EndedIs DEF Terminal
<1>2. ~Unused(p)
  BY <1>1 DEF Unused, EventsOf
<1>3. ASSUME NEW u, NEW op, NEW c, Start(u, op, c), c.pid # p PROVE StaysEnded(p)
  BY <1>1, <1>3 DEF Start, StaysEnded
<1>4. ASSUME NEW q \in Payments, Request(q) PROVE StaysEnded(p)
  <2>1. q # p /\ Requester[q] \in Users
    BY <1>2, <1>4 DEF Request, UserAssumption
  <2> QED
    BY <1>4, <2>1, OthersPost DEF Request
<1>5. ASSUME NEW u \in Users, NEW q \in Payments, Push(u, q) PROVE StaysEnded(p)
  BY <1>2, <1>3, <1>5 DEF Push
<1>6. ASSUME NEW u \in Users, NEW q \in Payments, Pay(u, q) \/ Reject(u, q) \/ Cancel(u, q)
      PROVE  StaysEnded(p)
  <2>1. PICK d : d = Shown(u, q)
    OBVIOUS
  <2>2. d.status \in {"requested", "pushed", "accepted"}
    BY <1>6, <2>1 DEF Pay, Reject, Cancel, Payable, MayCancel
  <2>3. q # p
    BY <1>1, <2>1, <2>2
  <2>4. d.pid = q /\ d \in Content
    BY <1>6, <2>1, ShownIs DEF Pay, Reject, Cancel
  <2>5. /\ [d EXCEPT !.status = "rejected"].pid = q
        /\ [d EXCEPT !.status = "accepted", !.sender = u].pid = q
    BY <2>4 DEF Content
  <2>6. CASE Pay(u, q)
    BY <1>3, <2>1, <2>3, <2>5, <2>6 DEF Pay
  <2>7. CASE Cancel(u, q)
    BY <1>3, <2>1, <2>3, <2>4, <2>7 DEF Cancel
  <2>8. CASE Reject(u, q)
    BY <2>1, <2>3, <2>5, <2>8, OthersPost DEF Reject
  <2> QED
    BY <1>6, <2>6, <2>7, <2>8
<1> QED
  BY <1>4, <1>5, <1>6 DEF Tap

LEMMA ThunksElsewhere ==
    ASSUME TypeOK, TypeOK', NEW t \in tasks, NEW p \in Payments, Ended(p),
           Generate(t) \/ Receive(t) \/ SubmitCancel(t) \/ CancelOutcome(t) \/ Send(t)
    PROVE  StaysEnded(p)
<1>1. /\ t \in Task /\ t.user \in Users /\ t.content \in Content
      /\ t.content.note \in Nat \cup {NoNote}
  BY Typed DEF Content
<1>2. \A o \in tasks : o.content.pid # p
  BY EndedIs
<1>3. CASE Send(t)
  <2>1. PICK st : Post(t.user, [t.content EXCEPT !.status = st], attempted[t.user], tasks \ {t})
    BY <1>3 DEF Send
  <2>2. [t.content EXCEPT !.status = st].pid # p
    BY <1>1, <1>2 DEF Content
  <2> QED
    BY <1>1, <2>1, <2>2, OthersPost
<1>4. CASE Generate(t) \/ Receive(t) \/ SubmitCancel(t) \/ CancelOutcome(t)
  <2>1. Len(notes') \in Nat
    BY DEF TypeOK
  <2>2. \A n \in Nat \cup {NoNote} : Sending(t, n).content.pid # p
    BY <1>1, <1>2, IsSending
  <2>3. \A o \in tasks' : \/ o \in tasks \/ o = Sending(t, Len(notes'))
                            \/ o = Sending(t, t.content.note)
    BY <1>4 DEF Generate, Receive, SubmitCancel, CancelOutcome
  <2>4. room' = room
    BY <1>4 DEF Generate, Receive, SubmitCancel, CancelOutcome
  <2> QED
    BY <1>1, <1>2, <2>1, <2>2, <2>3, <2>4 DEF StaysEnded
<1> QED
  BY <1>3, <1>4

LEMMA OthersHear ==
    ASSUME TypeOK, NEW u \in Users, NEW p \in Payments, Ended(p),
           Deliver(u) \/ OtherMessage(u) \/ Join(u) \/ Restart(u) \/ Reopen(u)
    PROVE  StaysEnded(p)
<1>1. /\ Latest(p, room).status \in Terminal
      /\ \A t \in tasks : t.content.pid # p
      /\ \A i \in EventsOf(p, room) : i <= seen[u]
  BY EndedIs
<1>2. room \in Seq(Event) /\ Len(room) \in Nat /\ seen[u] = Len(room)
  BY DEF TypeOK, Ended, Settled
<1>3. ASSUME NEW j, NEW a, NEW ts \in SUBSET tasks, Check(u, room, seen[u], j, a, ts)
      PROVE  \A t \in tasks' : t.content.pid # p
  BY <1>1, <1>2, <1>3, ListenerIsQuiet
<1>4. CASE Deliver(u)
  BY <1>2, <1>4 DEF Deliver
<1>5. CASE OtherMessage(u)
  BY <1>3, <1>5 DEF OtherMessage, StaysEnded
<1>6. CASE Join(u)
  <2>1. PICK j : j = joined \cup {u}
    OBVIOUS
  <2>2. Check(u, room, seen[u], j, attempted[u], tasks) /\ room' = room
    BY <1>6, <2>1 DEF Join, Check
  <2> QED
    BY <1>3, <2>2 DEF StaysEnded
<1>7. CASE Restart(u)
  <2>1. PICK ts \in SUBSET tasks : ts = {t \in tasks : t.user # u}
    OBVIOUS
  <2>2. Check(u, room, seen[u], joined, {}, ts) /\ room' = room
    BY <1>7, <2>1 DEF Restart
  <2> QED
    BY <1>3, <2>2 DEF StaysEnded
<1>8. CASE Reopen(u)
  BY <1>1, <1>8 DEF Reopen, StaysEnded
<1> QED
  BY <1>4, <1>5, <1>6, <1>7, <1>8

LEMMA NobodyGoesOn ==
    ASSUME UserAssumption, TypeOK, TypeOK', [Next]_vars, NEW p \in Payments, Ended(p)
    PROVE  StaysEnded(p)
<1>1. \A t \in tasks : t.content.pid # p
  BY EndedIs
<1>2. CASE Tap
  BY <1>2, TapsElsewhere
<1>3. CASE ThunkStep
  BY <1>3, ThunksElsewhere DEF ThunkStep
<1>4. CASE \E t \in tasks : Fail(t)
  BY <1>1, <1>4 DEF Fail, StaysEnded
<1>5. CASE \E u \in Users : Deliver(u) \/ OtherMessage(u) \/ Join(u) \/ Restart(u) \/ Reopen(u)
  BY <1>5, OthersHear
<1>6. CASE \E n \in DOMAIN notes : Settle(n)
  BY <1>1, <1>6 DEF Settle, StaysEnded
<1>7. CASE UNCHANGED vars
  BY <1>1, <1>7 DEF vars, StaysEnded
<1> QED
  BY <1>2, <1>3, <1>4, <1>5, <1>6, <1>7 DEF Next

\* Once everybody has seen how a payment ended, no button, no listener, no restart and
\* no federation joined later opens it again, or begins to (getReceivablePaymentEvents,
\* rejectMatrixPaymentRequest, checkForReceivablePayments).
THEOREM SettledStaysEnded ==
    ASSUME UserAssumption, NullAssumption
    PROVE  Spec => EndedForGood
<1> DEFINE Same == \A p \in Payments : Ended(p) => StaysEnded(p)
<1>1. IInv /\ IInv' /\ [Next]_vars => [Same]_vars
  BY NobodyGoesOn DEF IInv
<1>2. EndedForGood <=> [][Same]_vars
  BY DEF EndedForGood
<1> QED
  BY <1>1, <1>2, SpecKeeps, PTL DEF Spec

-----------------------------------------------------------------------------
(* Observers: the client's copy of an observable of the bridge.            *)
Copy == INSTANCE Mirror WITH source <- truth, replica <- view

ObserversAssumption ==
    Room!ChannelAssumption /\ Room!FlagAssumption /\ Room!BoundAssumption

Calls == Room!ObserveCall \cup Room!CancelCall
Messages == Room!Observed \cup Room!Canceled \cup Room!Update

\* Sequences: to put a message last, and to take one out.
LEMMA PutLast ==
    ASSUME NEW S, NEW s \in Seq(S), NEW e \in S
    PROVE  /\ Append(s, e) \in Seq(S) /\ Append(s, e) # <<>>
           /\ Len(s) \in Nat /\ Len(Append(s, e)) = Len(s) + 1
           /\ Append(s, e)[Len(s) + 1] = e
           /\ \A i \in 1 .. Len(s) : Append(s, e)[i] = s[i]
  OBVIOUS

LEMMA TakeOut ==
    ASSUME NEW S, NEW s \in Seq(S), NEW i \in DOMAIN s
    PROVE  /\ Room!RemoveAt(s, i) \in Seq(S)
           /\ Len(Room!RemoveAt(s, i)) = Len(s) - 1
           /\ i = 1 => \A j \in 1 .. Len(s) - 1 : Room!RemoveAt(s, i)[j] = s[j + 1]
<1> DEFINE a == SubSeq(s, 1, i - 1)
           b == SubSeq(s, i + 1, Len(s))
<1>1. Room!RemoveAt(s, i) = a \o b
  BY DEF Room!RemoveAt
<1>2. /\ a \in Seq(S) /\ Len(a) = i - 1
      /\ b \in Seq(S) /\ Len(b) = Len(s) - i
      /\ \A j \in 1 .. Len(a) : a[j] = s[j]
      /\ \A j \in 1 .. Len(b) : b[j] = s[i + j]
  OBVIOUS
<1> HIDE DEF a, b
<1>3. /\ a \o b \in Seq(S) /\ Len(a \o b) = Len(s) - 1
      /\ i = 1 => \A j \in 1 .. Len(s) - 1 : (a \o b)[j] = s[j + 1]
  BY <1>2
<1> QED
  BY <1>1, <1>3

LEMMA TakeFirst ==
    ASSUME NEW S, NEW s \in Seq(S), s # <<>>
    PROVE  LET t == Room!RemoveAt(s, 1)
           IN  /\ 1 \in DOMAIN s /\ s[1] \in S /\ Len(s) \in Nat /\ Len(s) >= 1
               /\ t \in Seq(S) /\ Len(t) = Len(s) - 1 /\ (t = <<>> <=> Len(s) = 1)
               /\ \A i \in 1 .. Len(t) : t[i] = s[i + 1]
<1> DEFINE t == Room!RemoveAt(s, 1)
<1>1. 1 \in DOMAIN s /\ s[1] \in S /\ Len(s) \in Nat /\ Len(s) >= 1
  OBVIOUS
<1>2. t \in Seq(S) /\ Len(t) = Len(s) - 1
  BY <1>1, TakeOut
<1>3. \A i \in 1 .. Len(s) - 1 : t[i] = s[i + 1]
  BY <1>1, TakeOut
<1>4. t = <<>> <=> Len(t) = 0
  BY <1>2
<1> HIDE DEF t
<1> QED
  BY <1>1, <1>2, <1>3, <1>4 DEF t

-----------------------------------------------------------------------------
\* The state is well typed.
LEMMA ObserversTyped ==
    ASSUME ObserversAssumption, Room!TypeOK, [Room!Next]_(Room!vars)
    PROVE  Room!TypeOK'
<1> USE DEF Room!bridgeVars, Room!clientVars
<1>t. /\ truth \in Room!Versions /\ nextId \in 0 .. MaxId
      /\ DOMAIN cursor \subseteq Room!Ids
      /\ \A id \in DOMAIN cursor : cursor[id] \in Room!Versions
      /\ calls \in Seq(Calls) /\ inbox \in Seq(Messages)
      /\ entry \in Room!Ids \cup {Room!Undefined, Room!Pending}
      /\ handlers \subseteq Room!Ids /\ view \in Room!Versions \cup {Room!Missing, Room!Garbled}
      /\ waiting \subseteq Refetchers
      /\ MaxVersion \in Nat /\ MaxId \in Nat
  BY DEF Room!TypeOK, ObserversAssumption, Room!BoundAssumption, Calls, Messages
<1> DEFINE WellTyped ==
      /\ truth' \in Room!Versions /\ nextId' \in 0 .. MaxId
      /\ DOMAIN cursor' \subseteq Room!Ids
      /\ \A id \in DOMAIN cursor' : cursor'[id] \in Room!Versions
      /\ calls' \in Seq(Calls) /\ inbox' \in Seq(Messages)
      /\ entry' \in Room!Ids \cup {Room!Undefined, Room!Pending}
      /\ handlers' \subseteq Room!Ids /\ view' \in Room!Versions \cup {Room!Missing, Room!Garbled}
      /\ waiting' \subseteq Refetchers
<1>q. WellTyped => Room!TypeOK'
  BY DEF Room!TypeOK, Calls, Messages
<1>a. [type |-> "observe"] \in Calls
  BY DEF Calls, Room!ObserveCall
<1>b. \A id \in Room!Ids, by \in Refetchers \cup {Room!Undefined} :
         Room!Cancelling(id, by) \in Seq(Calls)
  <2> SUFFICES ASSUME NEW id \in Room!Ids, NEW by \in Refetchers \cup {Room!Undefined}
               PROVE  Room!Cancelling(id, by) \in Seq(Calls)
    OBVIOUS
  <2>1. [type |-> "cancel", id |-> id, by |-> by] \in Calls
    BY DEF Calls, Room!CancelCall
  <2> QED
    BY <1>t, <2>1, PutLast DEF Room!Cancelling
<1>1. CASE UNCHANGED Room!vars
  BY <1>1, <1>t, <1>q DEF Room!vars
<1>2. CASE Room!Change
  BY <1>2, <1>t, <1>q DEF Room!Change, Room!Versions
<1>3. ASSUME NEW id \in DOMAIN cursor, Room!SendUpdate(id) PROVE Room!TypeOK'
  <2> DEFINE m == [type |-> "update", id |-> id, from |-> cursor[id], to |-> truth]
  <2>1. m \in Messages
    BY <1>t DEF Messages, Room!Update
  <2>2. inbox' = Append(inbox, m)
    BY <1>3 DEF Room!SendUpdate
  <2> HIDE DEF m
  <2>3. inbox' \in Seq(Messages)
    BY <1>t, <2>1, <2>2, PutLast
  <2> QED
    BY <1>3, <1>t, <1>q, <2>3 DEF Room!SendUpdate
<1>4. CASE Room!Serve
  <2>1. PICK i \in DOMAIN calls : Room!ServeObserve(i) \/ Room!ServeCancel(i)
    BY <1>4 DEF Room!Serve
  <2>2. Room!RemoveAt(calls, i) \in Seq(Calls) /\ calls[i] \in Calls
    BY <1>t, TakeOut
  <2>3. CASE Room!ServeObserve(i)
    <3> DEFINE m == [type |-> "observed", id |-> nextId, initial |-> truth]
    <3>1. nextId \in Room!Ids
      BY <1>t, <2>3 DEF Room!ServeObserve, Room!Ids
    <3>2. m \in Messages
      BY <1>t, <3>1 DEF Messages, Room!Observed
    <3>3. inbox' = Append(inbox, m)
      BY <2>3 DEF Room!ServeObserve
    <3> HIDE DEF m
    <3>4. inbox' \in Seq(Messages)
      BY <1>t, <3>2, <3>3, PutLast
    <3>5. nextId' \in 0 .. MaxId
      BY <1>t, <2>3 DEF Room!ServeObserve
    <3>6. /\ DOMAIN cursor' = DOMAIN cursor \cup {nextId}
          /\ \A id \in DOMAIN cursor' : cursor'[id] \in Room!Versions
      BY <1>t, <2>3 DEF Room!ServeObserve
    <3> QED
      BY <1>t, <1>q, <2>2, <2>3, <3>1, <3>4, <3>5, <3>6 DEF Room!ServeObserve
  <2>4. CASE Room!ServeCancel(i)
    <3> DEFINE id == calls[i].id
               m == [type |-> "canceled", id |-> id, ok |-> id \in DOMAIN cursor,
                     by |-> calls[i].by]
    <3>1. id \in Room!Ids /\ calls[i].by \in Refetchers \cup {Room!Undefined}
      BY <2>2, <2>4 DEF Room!ServeCancel, Calls, Room!CancelCall, Room!ObserveCall
    <3>2. m \in Messages
      BY <3>1 DEF Messages, Room!Canceled
    <3>3. inbox' = Append(inbox, m)
      BY <2>4 DEF Room!ServeCancel
    <3>4. /\ DOMAIN cursor' \subseteq DOMAIN cursor
          /\ \A k \in DOMAIN cursor' : cursor'[k] = cursor[k]
      BY <2>4 DEF Room!ServeCancel
    <3> HIDE DEF m, id
    <3>5. inbox' \in Seq(Messages)
      BY <1>t, <3>2, <3>3, PutLast
    <3> QED
      BY <1>t, <1>q, <2>2, <2>4, <3>4, <3>5 DEF Room!ServeCancel
  <2> QED
    BY <2>1, <2>3, <2>4
<1>5. CASE Room!Receive
  <2>1. PICK i \in DOMAIN inbox :
          /\ inbox' = Room!RemoveAt(inbox, i)
          /\ \/ inbox[i].type = "observed" /\ Room!OnObserved(inbox[i])
             \/ inbox[i].type = "canceled" /\ Room!OnCanceled(inbox[i])
             \/ inbox[i].type = "update" /\ Room!OnUpdate(inbox[i])
          /\ UNCHANGED Room!bridgeVars
    BY <1>5 DEF Room!Receive
  <2> DEFINE m == inbox[i]
  <2>2. Room!RemoveAt(inbox, i) \in Seq(Messages) /\ m \in Messages
    BY <1>t, TakeOut
  <2>3. CASE m.type = "observed" /\ Room!OnObserved(m)
    <3>1. m.id \in Room!Ids /\ m.initial \in Room!Versions
      BY <2>2, <2>3 DEF Messages, Room!Observed, Room!Canceled, Room!Update
    <3> HIDE DEF m
    <3> QED
      BY <1>t, <1>q, <2>1, <2>2, <2>3, <3>1 DEF Room!OnObserved, Room!Reset, Room!Registered
  <2>4. CASE m.type = "canceled" /\ Room!OnCanceled(m)
    <3>1. handlers' \subseteq handlers /\ view' = view /\ waiting' \subseteq waiting
      BY <2>4 DEF Room!OnCanceled, Room!Unregistered
    <3>2. \/ UNCHANGED <<entry, calls>>
          \/ entry' = Room!Pending /\ calls' = Append(calls, [type |-> "observe"])
      BY <2>4 DEF Room!OnCanceled
    <3>3. calls' \in Seq(Calls)
      BY <1>a, <1>t, <3>2, PutLast
    <3> HIDE DEF m
    <3> QED
      BY <1>t, <1>q, <2>1, <2>2, <3>1, <3>2, <3>3
  <2>5. CASE m.type = "update" /\ Room!OnUpdate(m)
    <3>1. m.id \in Room!Ids /\ m.to \in Room!Versions
      BY <2>2, <2>5 DEF Messages, Room!Observed, Room!Canceled, Room!Update
    <3> HIDE DEF m
    <3>2. calls' \in Seq(Calls)
      BY <1>b, <1>t, <2>5, <3>1 DEF Room!OnUpdate
    <3>3. view' \in Room!Versions \cup {Room!Missing, Room!Garbled}
      BY <1>t, <2>5, <3>1 DEF Room!OnUpdate, Room!Apply
    <3> QED
      BY <1>t, <1>q, <2>1, <2>2, <2>5, <3>2, <3>3 DEF Room!OnUpdate
  <2> QED
    BY <2>1, <2>3, <2>4, <2>5
<1>6. CASE Room!Observe
  <2>1. calls' \in Seq(Calls)
    BY <1>6, <1>a, <1>t, PutLast DEF Room!Observe
  <2> QED
    BY <1>6, <1>t, <1>q, <2>1 DEF Room!Observe
<1>7. CASE Room!Unobserve
  BY <1>7, <1>b, <1>t, <1>q DEF Room!Unobserve, Room!HasRealId
<1>8. ASSUME NEW c \in Refetchers, Room!Refetch(c) PROVE Room!TypeOK'
  BY <1>8, <1>b, <1>t, <1>q DEF Room!Refetch, Room!HasRealId
<1> QED
  BY <1>1, <1>2, <1>3, <1>4, <1>5, <1>6, <1>7, <1>8 DEF Room!Next, Room!Forward

-----------------------------------------------------------------------------
\* The inbox continues what the client has: each message follows the one before,
\* the first one is for the handler and the version there are, and the last one
\* has come from the observable that the bridge runs.
Value(m) == IF m.type = "observed" THEN m.initial ELSE m.to
Follows(m, e) ==
    IF m.type = "canceled" THEN e.type = "observed"
    ELSE e.id = m.id /\ ((e.type = "update" /\ e.from = Value(m)) \/ e.type = "canceled")
Taken(m, hs, v) ==
    \/ m.type = "observed" /\ hs = {}
    \/ m.type = "update" /\ hs = {m.id} /\ v = m.from
    \/ m.type = "canceled" /\ hs = {m.id}
LastSent(m, cur) ==
    IF m.type = "canceled" THEN DOMAIN cur = {}
    ELSE DOMAIN cur = {m.id} /\ cur[m.id] = Value(m)
Nothing(cur, hs, v) ==
    /\ DOMAIN cur = hs
    /\ hs = {} \/ \E id \in hs : hs = {id} /\ cur[id] = v
Fits(box, cur, hs, v) ==
    /\ \A i \in 1 .. Len(box) - 1 : Follows(box[i], box[i + 1])
    /\ box = <<>> => Nothing(cur, hs, v)
    /\ box # <<>> => Taken(box[1], hs, v) /\ LastSent(box[Len(box)], cur)

\* Versions only rise, from the one the client has to the one the bridge has.
HasValue(m) == m.type # "canceled"
Rises(box, v, t) ==
    /\ v \in Int /\ t \in Int /\ -1 <= v /\ v <= t
    /\ \A i \in 1 .. Len(box) : HasValue(box[i]) => v <= Value(box[i]) /\ Value(box[i]) <= t
    /\ \A i, j \in 1 .. Len(box) :
        i < j /\ HasValue(box[i]) /\ HasValue(box[j]) => Value(box[i]) <= Value(box[j])

LEMMA FitsLonger ==
    ASSUME NEW box \in Seq(Messages), NEW m \in Messages, NEW cur, NEW hs, NEW v, NEW cur2,
           Fits(box, cur, hs, v), LastSent(m, cur2),
           box = <<>> => Taken(m, hs, v),
           box # <<>> => Follows(box[Len(box)], m)
    PROVE  Fits(Append(box, m), cur2, hs, v)
<1> DEFINE a == Append(box, m)
<1>1. /\ a \in Seq(Messages) /\ a # <<>> /\ Len(box) \in Nat /\ Len(a) = Len(box) + 1
      /\ a[Len(box) + 1] = m /\ \A i \in 1 .. Len(box) : a[i] = box[i]
  BY PutLast
<1>2. box = <<>> <=> Len(box) = 0
  OBVIOUS
<1> HIDE DEF a
<1>3. ASSUME NEW i \in 1 .. Len(a) - 1 PROVE Follows(a[i], a[i + 1])
  <2>1. CASE i = Len(box)
    BY <1>1, <1>2, <2>1
  <2>2. CASE i # Len(box)
    <3>1. i \in 1 .. Len(box) - 1 /\ i \in 1 .. Len(box) /\ i + 1 \in 1 .. Len(box)
      BY <1>1, <2>2
    <3> QED
      BY <1>1, <3>1 DEF Fits
  <2> QED
    BY <2>1, <2>2
<1>4. Taken(a[1], hs, v)
  BY <1>1, <1>2 DEF Fits
<1> QED
  BY <1>1, <1>3, <1>4 DEF Fits, a

LEMMA FitsShorter ==
    ASSUME NEW box \in Seq(Messages), box # <<>>, NEW cur, NEW hs, NEW v,
           NEW hs2, NEW v2, Fits(box, cur, hs, v),
           box[1].type = "observed" => hs2 = {box[1].id},
           box[1].type = "update" => hs2 = hs,
           box[1].type = "canceled" => hs2 = {} /\ v2 = v,
           HasValue(box[1]) => v2 = Value(box[1])
    PROVE  Fits(Room!RemoveAt(box, 1), cur, hs2, v2)
<1> DEFINE t == Room!RemoveAt(box, 1)
<1>1. /\ Len(box) \in Nat /\ Len(box) >= 1
      /\ t \in Seq(Messages) /\ Len(t) = Len(box) - 1 /\ (t = <<>> <=> Len(box) = 1)
      /\ \A i \in 1 .. Len(t) : t[i] = box[i + 1]
  BY TakeFirst
<1>2. Taken(box[1], hs, v) /\ LastSent(box[Len(box)], cur)
  BY DEF Fits
<1> HIDE DEF t
<1>3. ASSUME NEW i \in 1 .. Len(t) - 1 PROVE Follows(t[i], t[i + 1])
  <2>1. i \in 1 .. Len(t) /\ i + 1 \in 1 .. Len(t) /\ i + 1 \in 1 .. Len(box) - 1
    BY <1>1
  <2>2. Follows(box[i + 1], box[(i + 1) + 1])
    BY <2>1 DEF Fits
  <2> QED
    BY <1>1, <2>1, <2>2
<1>4. box[1].type = "update" => hs2 = {box[1].id}
  BY <1>2 DEF Taken
<1>5. ASSUME t = <<>> PROVE Nothing(cur, hs2, v2)
  <2>1. LastSent(box[1], cur)
    BY <1>1, <1>2, <1>5
  <2>2. CASE box[1].type = "canceled"
    BY <2>1, <2>2 DEF LastSent, Nothing
  <2>3. CASE box[1].type # "canceled"
    <3>1. hs2 = {box[1].id}
      BY <1>2, <1>4, <2>3 DEF Taken
    <3> QED
      BY <2>1, <2>3, <3>1 DEF LastSent, Nothing, HasValue
  <2> QED
    BY <2>2, <2>3
<1>6. ASSUME t # <<>> PROVE Taken(t[1], hs2, v2) /\ LastSent(t[Len(t)], cur)
  <2>1. Len(t) \in Nat /\ Len(t) >= 1 /\ t[1] = box[2] /\ t[Len(t)] = box[Len(box)]
    BY <1>1, <1>6
  <2>2. Follows(box[1], box[2])
    BY <1>1, <1>6 DEF Fits
  <2>3. CASE box[1].type = "canceled"
    BY <1>2, <2>1, <2>2, <2>3 DEF Follows, Taken
  <2>4. CASE box[1].type # "canceled"
    <3>1. hs2 = {box[1].id}
      BY <1>2, <1>4, <2>4 DEF Taken
    <3> QED
      BY <1>2, <2>1, <2>2, <2>4, <3>1 DEF Follows, Taken, HasValue
  <2> QED
    BY <2>3, <2>4
<1> QED
  BY <1>3, <1>5, <1>6 DEF Fits, t

LEMMA RisesLonger ==
    ASSUME NEW box \in Seq(Messages), NEW m \in Messages, NEW v, NEW t,
           Rises(box, v, t), HasValue(m) => Value(m) = t
    PROVE  Rises(Append(box, m), v, t)
<1> DEFINE a == Append(box, m)
<1>1. /\ Len(box) \in Nat /\ Len(a) = Len(box) + 1
      /\ a[Len(box) + 1] = m /\ \A i \in 1 .. Len(box) : a[i] = box[i]
  BY PutLast
<1> HIDE DEF a
<1>2. \A i \in 1 .. Len(a) : (i \in 1 .. Len(box) /\ a[i] = box[i]) \/ a[i] = m
  BY <1>1
<1>3. \A i, j \in 1 .. Len(a) : i < j => i \in 1 .. Len(box) /\ a[i] = box[i]
  BY <1>1
<1> QED
  BY <1>2, <1>3 DEF Rises, a

LEMMA RisesShorter ==
    ASSUME NEW box \in Seq(Messages), box # <<>>, NEW v, NEW t, NEW v2,
           Rises(box, v, t),
           HasValue(box[1]) => v2 = Value(box[1]) /\ v2 \in Nat,
           ~HasValue(box[1]) => v2 = v
    PROVE  Rises(Room!RemoveAt(box, 1), v2, t) /\ v <= v2 /\ v2 <= t
<1> DEFINE r == Room!RemoveAt(box, 1)
<1>1. /\ Len(box) \in Nat /\ Len(box) >= 1 /\ Len(r) = Len(box) - 1
      /\ \A i \in 1 .. Len(r) : r[i] = box[i + 1]
  BY TakeFirst
<1>2. /\ v2 \in Int /\ -1 <= v2 /\ v <= v2 /\ v2 <= t
      /\ \A i \in 2 .. Len(box) : HasValue(box[i]) => v2 <= Value(box[i])
  BY <1>1 DEF Rises
<1> HIDE DEF r
<1>3. \A i \in 1 .. Len(r) : i + 1 \in 2 .. Len(box) /\ i + 1 \in 1 .. Len(box)
  BY <1>1
<1>4. \A i \in 1 .. Len(r) : HasValue(r[i]) => v2 <= Value(r[i]) /\ Value(r[i]) <= t
  BY <1>1, <1>2, <1>3 DEF Rises
<1>5. \A i, j \in 1 .. Len(r) :
        i < j /\ HasValue(r[i]) /\ HasValue(r[j]) => Value(r[i]) <= Value(r[j])
  BY <1>1, <1>3 DEF Rises
<1>6. t \in Int
  BY DEF Rises
<1> QED
  BY <1>2, <1>4, <1>5, <1>6 DEF Rises, r

-----------------------------------------------------------------------------
\* What may be on its way to the client.
OnlyUpdates(box) == \A i \in 1 .. Len(box) : box[i].type = "update"
NoAnswer(box) == \A i \in 1 .. Len(box) : box[i].type # "observed"
AnswerAt(box, k) ==
    /\ k \in 1 .. Len(box) /\ box[k].type = "observed"
    /\ \A j \in 1 .. Len(box) : j < k => box[j].type # "observed"
    /\ \A j \in 1 .. Len(box) : j > k => box[j].type = "update"
Closing(box) ==
    /\ Len(box) > 0 /\ box[Len(box)].type = "canceled"
    /\ \A j \in 1 .. Len(box) - 1 : box[j].type = "update"
CancelsOf(box, w) ==
    \A i \in 1 .. Len(box) : box[i].type = "canceled" =>
        /\ box[i].ok
        /\ w = {} => box[i].by = Room!Undefined /\ Unobserves
        /\ w # {} => w = {box[i].by}

LEMMA BoxLonger ==
    ASSUME NEW box \in Seq(Messages), NEW m \in Messages
    PROVE  LET a == Append(box, m)
           IN  /\ OnlyUpdates(box) /\ m.type = "update" => OnlyUpdates(a)
               /\ NoAnswer(box) /\ m.type # "observed" => NoAnswer(a)
               /\ \A k : AnswerAt(box, k) /\ m.type = "update" =>
                        AnswerAt(a, k) /\ a[k] = box[k]
               /\ NoAnswer(box) /\ m.type = "observed" =>
                        \E k : AnswerAt(a, k) /\ a[k] = m
               /\ OnlyUpdates(box) /\ m.type = "canceled" => Closing(a) /\ NoAnswer(a)
               /\ \A w : /\ CancelsOf(box, w)
                         /\ m.type = "canceled" => m.ok
                         /\ m.type = "canceled" /\ w = {} =>
                                m.by = Room!Undefined /\ Unobserves
                         /\ m.type = "canceled" /\ w # {} => w = {m.by}
                         => CancelsOf(a, w)
<1> DEFINE a == Append(box, m)
<1>1. /\ Len(box) \in Nat /\ Len(a) = Len(box) + 1
      /\ a[Len(box) + 1] = m /\ \A i \in 1 .. Len(box) : a[i] = box[i]
  BY PutLast
<1> HIDE DEF a
<1>2. \A i \in 1 .. Len(a) : (i \in 1 .. Len(box) /\ a[i] = box[i])
                               \/ (i = Len(box) + 1 /\ a[i] = m)
  BY <1>1
<1>3. OnlyUpdates(box) /\ m.type = "update" => OnlyUpdates(a)
  BY <1>2 DEF OnlyUpdates
<1>4. NoAnswer(box) /\ m.type # "observed" => NoAnswer(a)
  BY <1>2 DEF NoAnswer
<1>5. ASSUME NEW k, AnswerAt(box, k), m.type = "update"
      PROVE  AnswerAt(a, k) /\ a[k] = box[k]
  BY <1>1, <1>2, <1>5 DEF AnswerAt
<1>6. ASSUME NoAnswer(box), m.type = "observed"
      PROVE  AnswerAt(a, Len(box) + 1) /\ a[Len(box) + 1] = m
  BY <1>1, <1>2, <1>6 DEF AnswerAt, NoAnswer
<1>7. OnlyUpdates(box) /\ m.type = "canceled" => Closing(a) /\ NoAnswer(a)
  BY <1>1, <1>2 DEF OnlyUpdates, Closing, NoAnswer
<1>8. ASSUME NEW w, CancelsOf(box, w), m.type = "canceled" => m.ok,
             m.type = "canceled" /\ w = {} => m.by = Room!Undefined /\ Unobserves,
             m.type = "canceled" /\ w # {} => w = {m.by}
      PROVE  CancelsOf(a, w)
  BY <1>2, <1>8 DEF CancelsOf
<1> QED
  BY <1>3, <1>4, <1>5, <1>6, <1>7, <1>8 DEF a

LEMMA BoxShorter ==
    ASSUME NEW box \in Seq(Messages), box # <<>>
    PROVE  LET r == Room!RemoveAt(box, 1)
           IN  /\ OnlyUpdates(box) => OnlyUpdates(r)
               /\ NoAnswer(box) => NoAnswer(r)
               /\ \A k : AnswerAt(box, k) /\ box[1].type # "observed" =>
                        \E j : AnswerAt(r, j) /\ r[j] = box[k]
               /\ \A k : AnswerAt(box, k) /\ box[1].type = "observed" =>
                        k = 1 /\ OnlyUpdates(r)
               /\ Closing(box) /\ box[1].type = "update" => Closing(r)
               /\ Closing(box) /\ box[1].type = "canceled" => r = <<>>
               /\ \A w : CancelsOf(box, w) => CancelsOf(r, w)
<1> DEFINE r == Room!RemoveAt(box, 1)
<1>1. /\ Len(box) \in Nat /\ Len(box) >= 1 /\ Len(r) = Len(box) - 1
      /\ r = <<>> <=> Len(box) = 1
      /\ \A i \in 1 .. Len(r) : r[i] = box[i + 1]
  BY TakeFirst
<1> HIDE DEF r
<1>2. \A i \in 1 .. Len(r) : i + 1 \in 1 .. Len(box) /\ r[i] = box[i + 1]
  BY <1>1
<1>3. OnlyUpdates(box) => OnlyUpdates(r)
  BY <1>2 DEF OnlyUpdates
<1>4. NoAnswer(box) => NoAnswer(r)
  BY <1>2 DEF NoAnswer
<1>5. ASSUME NEW k, AnswerAt(box, k), box[1].type # "observed"
      PROVE  AnswerAt(r, k - 1) /\ r[k - 1] = box[k]
  <2>1. k \in 1 .. Len(box) /\ k # 1 /\ box[k].type = "observed"
    BY <1>5 DEF AnswerAt
  <2>2. k - 1 \in 1 .. Len(r) /\ r[k - 1] = box[k]
    BY <1>1, <2>1
  <2>3. \A j \in 1 .. Len(r) : (j < k - 1 => j + 1 < k) /\ (j > k - 1 => j + 1 > k)
    BY <1>1, <2>1
  <2> QED
    BY <1>2, <1>5, <2>1, <2>2, <2>3 DEF AnswerAt
<1>6. ASSUME NEW k, AnswerAt(box, k), box[1].type = "observed"
      PROVE  k = 1 /\ OnlyUpdates(r)
  <2>1. k = 1
    BY <1>1, <1>6 DEF AnswerAt
  <2>2. \A i \in 1 .. Len(r) : i + 1 > 1
    BY <1>1
  <2> QED
    BY <1>2, <1>6, <2>1, <2>2 DEF AnswerAt, OnlyUpdates
<1>7. Closing(box) /\ box[1].type = "update" => Closing(r)
  <2> SUFFICES ASSUME Closing(box), box[1].type = "update" PROVE Closing(r)
    OBVIOUS
  <2>1. Len(box) > 1
    BY <1>1 DEF Closing
  <2>2. Len(r) \in Nat /\ Len(r) > 0 /\ r[Len(r)] = box[Len(box)]
    BY <1>1, <2>1
  <2>3. \A j \in 1 .. Len(r) - 1 : j + 1 \in 1 .. Len(box) - 1 /\ r[j] = box[j + 1]
    BY <1>1
  <2> QED
    BY <2>2, <2>3 DEF Closing
<1>8. Closing(box) /\ box[1].type = "canceled" => r = <<>>
  BY <1>1 DEF Closing
<1>9. \A w : CancelsOf(box, w) => CancelsOf(r, w)
  BY <1>2 DEF CancelsOf
<1> QED
  BY <1>3, <1>4, <1>5, <1>6, <1>7, <1>8, <1>9 DEF r

-----------------------------------------------------------------------------
\* The life of an observation.  Its calls and answers are under way one after the
\* other; a room may be observed anew before the cancellation is served.
Ask == [type |-> "observe"]
CancelOf(id, by) == [type |-> "cancel", id |-> id, by |-> by]
Runs(id) == DOMAIN cursor = {id} /\ OnlyUpdates(inbox)

Unasked ==
    /\ entry = Room!Undefined /\ calls = <<>> /\ waiting = {}
    /\ DOMAIN cursor = {} /\ NoAnswer(inbox)
Asked ==
    /\ entry = Room!Pending /\ calls = <<Ask>> /\ waiting = {}
    /\ DOMAIN cursor = {} /\ NoAnswer(inbox)
Answered ==
    /\ entry = Room!Pending /\ calls = <<>> /\ waiting = {}
    /\ \E k : AnswerAt(inbox, k) /\ DOMAIN cursor = {inbox[k].id}
Held == entry \in Room!Ids /\ calls = <<>> /\ waiting = {} /\ Runs(entry)
Ending ==
    /\ entry \in Room!Ids /\ Runs(entry)
    /\ \E c \in Refetchers : waiting = {c} /\ calls = <<CancelOf(entry, c)>>
Closed ==
    /\ entry \in Room!Ids /\ calls = <<>>
    /\ \E c \in Refetchers : waiting = {c}
    /\ DOMAIN cursor = {} /\ Closing(inbox) /\ NoAnswer(inbox)
Left ==
    /\ entry = Room!Undefined /\ waiting = {} /\ Unobserves
    /\ \E id \in Room!Ids : calls = <<CancelOf(id, Room!Undefined)>> /\ Runs(id)
LeftAndAsked ==
    /\ entry = Room!Pending /\ waiting = {} /\ Unobserves
    /\ \E id \in Room!Ids : calls = <<CancelOf(id, Room!Undefined), Ask>> /\ Runs(id)

Phases ==
    Unasked \/ Asked \/ Answered \/ Held \/ Ending \/ Closed \/ Left \/ LeftAndAsked
Continues ==
    /\ Fits(inbox, cursor, handlers, view) /\ Rises(inbox, view, truth)
    /\ CancelsOf(inbox, waiting)
ObserverInv == Room!TypeOK /\ Continues /\ Phases

LEMMA ObserverTypes ==
    ASSUME ObserverInv
    PROVE  /\ truth \in Nat /\ nextId \in Nat
           /\ DOMAIN cursor \subseteq Room!Ids
           /\ \A id \in DOMAIN cursor : cursor[id] \in Nat /\ cursor[id] \in Room!Versions
           /\ calls \in Seq(Calls) /\ inbox \in Seq(Messages)
           /\ handlers \subseteq Room!Ids /\ waiting \subseteq Refetchers
           /\ Room!Undefined \notin Room!Ids /\ Room!Pending \notin Room!Ids
           /\ Room!Undefined # Room!Pending
  BY DEF ObserverInv, Room!TypeOK, Calls, Messages, Room!Versions, Room!Ids,
         Room!Undefined, Room!Pending

LEMMA ObserverStarts ==
    ASSUME ObserversAssumption, Room!Init PROVE ObserverInv
<1> USE DEF Room!Init
<1>1. DOMAIN cursor = {} /\ Len(inbox) = 0 /\ inbox = <<>> /\ truth = 0 /\ view = -1
  BY DEF Room!Missing
<1>2. Room!TypeOK
  BY <1>1 DEF Room!TypeOK, ObserversAssumption, Room!BoundAssumption, Room!Versions
<1>3. Continues
  BY <1>1 DEF Continues, Fits, Nothing, Rises, CancelsOf
<1>4. Unasked
  BY <1>1 DEF Unasked, NoAnswer
<1> QED
  BY <1>2, <1>3, <1>4 DEF ObserverInv, Phases

\* The bridge changes and sends.
LEMMA ChangeStep ==
    ASSUME ObserverInv, Room!TypeOK', Room!Change
    PROVE  ObserverInv'
<1>1. /\ truth' = truth + 1
      /\ UNCHANGED <<cursor, calls, inbox, entry, handlers, view, waiting>>
  BY DEF Room!Change, Room!clientVars
<1>2. Rises(inbox, view, truth')
  <2>1. \A x \in Int : x <= truth => x <= truth'
    BY <1>1, ObserverTypes
  <2>2. Rises(inbox, view, truth) /\ truth' \in Int
    BY <1>1, ObserverTypes DEF ObserverInv, Continues
  <2>3. \A i \in 1 .. Len(inbox) : HasValue(inbox[i]) => Value(inbox[i]) \in Int
    <3> SUFFICES ASSUME NEW i \in 1 .. Len(inbox), HasValue(inbox[i])
                 PROVE  Value(inbox[i]) \in Int
      OBVIOUS
    <3>1. inbox[i] \in Messages
      BY ObserverTypes
    <3> QED
      BY <3>1 DEF HasValue, Value, Messages, Room!Observed, Room!Canceled, Room!Update,
         Room!Versions
  <2> QED
    BY <2>1, <2>2, <2>3 DEF Rises
<1>3. Continues'
  BY <1>1, <1>2 DEF ObserverInv, Continues
<1>4. Phases'
  BY <1>1 DEF ObserverInv, Phases, Unasked, Asked, Answered, Held, Ending, Closed, Left,
     LeftAndAsked, Runs
<1> QED
  BY <1>3, <1>4 DEF ObserverInv

LEMMA SendStep ==
    ASSUME ObserverInv, Room!TypeOK', NEW id \in DOMAIN cursor, Room!SendUpdate(id)
    PROVE  ObserverInv'
<1> DEFINE m == [type |-> "update", id |-> id, from |-> cursor[id], to |-> truth]
<1>1. /\ inbox' = Append(inbox, m) /\ cursor' = [cursor EXCEPT ![id] = truth]
      /\ UNCHANGED <<truth, calls, entry, handlers, view, waiting>>
  BY DEF Room!SendUpdate, Room!clientVars
<1>2. DOMAIN cursor' = DOMAIN cursor /\ cursor'[id] = truth
  BY <1>1
<1>3. /\ m.type = "update" /\ m.id = id /\ m.from = cursor[id] /\ m.to = truth
      /\ m \in Messages
  <2>1. id \in Room!Ids /\ cursor[id] \in Room!Versions /\ truth \in Room!Versions
    BY ObserverTypes DEF ObserverInv, Room!TypeOK
  <2> QED
    BY <2>1 DEF Messages, Room!Update
<1> HIDE DEF m
<1>4. DOMAIN cursor = {id}
  BY DEF ObserverInv, Phases, Unasked, Asked, Answered, Held, Ending, Closed, Left,
     LeftAndAsked, Runs
<1>5. Fits(inbox', cursor', handlers, view)
  <2>1. LastSent(m, cursor')
    BY <1>2, <1>3, <1>4 DEF LastSent, Value
  <2>2. inbox = <<>> => Taken(m, handlers, view)
    BY <1>3, <1>4 DEF ObserverInv, Continues, Fits, Nothing, Taken
  <2>3. inbox # <<>> => Follows(inbox[Len(inbox)], m)
    BY <1>3, <1>4 DEF ObserverInv, Continues, Fits, LastSent, Follows
  <2>4. Fits(inbox, cursor, handlers, view)
    BY DEF ObserverInv, Continues
  <2> QED
    BY <1>1, <1>3, <2>1, <2>2, <2>3, <2>4, ObserverTypes, FitsLonger
<1>6. Rises(inbox', view, truth)
  <2>1. HasValue(m) /\ Value(m) = truth
    BY <1>3 DEF HasValue, Value
  <2> QED
    BY <1>1, <1>3, <2>1, ObserverTypes, RisesLonger DEF ObserverInv, Continues
<1>7. CancelsOf(inbox', waiting)
  BY <1>1, <1>3, ObserverTypes, BoxLonger DEF ObserverInv, Continues
<1>8. OnlyUpdates(inbox) => OnlyUpdates(inbox')
  BY <1>1, <1>3, ObserverTypes, BoxLonger
<1>9. \A k : AnswerAt(inbox, k) => AnswerAt(inbox', k) /\ inbox'[k] = inbox[k]
  BY <1>1, <1>3, ObserverTypes, BoxLonger
<1>10. Answered \/ Held \/ Ending \/ Left \/ LeftAndAsked
  BY <1>4 DEF ObserverInv, Phases, Unasked, Asked, Closed
<1>11. Phases'
  BY <1>1, <1>2, <1>8, <1>9, <1>10 DEF Phases, Answered, Held, Ending, Left,
     LeftAndAsked, Runs
<1> QED
  BY <1>1, <1>5, <1>6, <1>7, <1>11 DEF ObserverInv, Continues

LEMMA TakeOnly ==
    ASSUME NEW a, NEW b
    PROVE  /\ Room!RemoveAt(<<a>>, 1) = <<>>
           /\ Room!RemoveAt(<<a, b>>, 1) = <<b>>
<1>1. /\ <<a>> \in Seq({a, b}) /\ <<a>> # <<>> /\ Len(<<a>>) = 1
      /\ <<a, b>> \in Seq({a, b}) /\ <<a, b>> # <<>> /\ Len(<<a, b>>) = 2
      /\ <<a, b>>[2] = b
  OBVIOUS
<1>2. Room!RemoveAt(<<a>>, 1) = <<>>
  BY <1>1, TakeFirst
<1> DEFINE r == Room!RemoveAt(<<a, b>>, 1)
<1>3. r \in Seq({a, b}) /\ Len(r) = 1 /\ r[1] = b
  <2>1. /\ r \in Seq({a, b}) /\ Len(r) = Len(<<a, b>>) - 1
        /\ \A i \in 1 .. Len(r) : r[i] = <<a, b>>[i + 1]
    BY <1>1, TakeFirst
  <2> HIDE DEF r
  <2> QED
    BY <1>1, <2>1
<1> HIDE DEF r
<1>4. r = <<b>>
  BY <1>3
<1> QED
  BY <1>2, <1>4 DEF r

LEMMA CallsAre ==
    /\ Ask.type = "observe"
    /\ \A id, by : CancelOf(id, by).type = "cancel" /\ CancelOf(id, by).id = id
                    /\ CancelOf(id, by).by = by
  BY DEF Ask, CancelOf

\* The bridge serves the first of the calls there are.
LEMMA ServeObserveStep ==
    ASSUME ObserverInv, Room!TypeOK', 1 \in DOMAIN calls, Room!ServeObserve(1)
    PROVE  ObserverInv'
<1> DEFINE m == [type |-> "observed", id |-> nextId, initial |-> truth]
<1>1. /\ calls[1].type = "observe" /\ calls' = Room!RemoveAt(calls, 1)
      /\ inbox' = Append(inbox, m) /\ nextId < MaxId
      /\ DOMAIN cursor' = DOMAIN cursor \cup {nextId} /\ cursor'[nextId] = truth
      /\ UNCHANGED <<truth, entry, handlers, view, waiting>>
  BY DEF Room!ServeObserve, Room!clientVars
<1>2. m.type = "observed" /\ m.id = nextId /\ m.initial = truth /\ m \in Messages
  <2>1. nextId \in DOMAIN cursor' /\ truth \in Room!Versions
    BY <1>1 DEF ObserverInv, Room!TypeOK
  <2>2. nextId \in Room!Ids
    BY <2>1 DEF Room!TypeOK
  <2> QED
    BY <2>1, <2>2 DEF Messages, Room!Observed
<1> HIDE DEF m
<1>3. Asked
  BY <1>1, CallsAre DEF ObserverInv, Phases, Unasked, Answered, Held, Ending, Closed, Left,
     LeftAndAsked
<1>4. DOMAIN cursor = {} /\ DOMAIN cursor' = {nextId} /\ NoAnswer(inbox) /\ calls = <<Ask>>
  BY <1>1, <1>3 DEF Asked
<1>5. Fits(inbox', cursor', handlers, view)
  <2>1. LastSent(m, cursor')
    BY <1>1, <1>2, <1>4 DEF LastSent, Value
  <2>2. inbox = <<>> => Taken(m, handlers, view)
    BY <1>2, <1>4 DEF ObserverInv, Continues, Fits, Nothing, Taken
  <2>3. inbox # <<>> => Follows(inbox[Len(inbox)], m)
    BY <1>2, <1>4 DEF ObserverInv, Continues, Fits, LastSent, Follows
  <2>4. Fits(inbox, cursor, handlers, view)
    BY DEF ObserverInv, Continues
  <2> QED
    BY <1>1, <1>2, <2>1, <2>2, <2>3, <2>4, ObserverTypes, FitsLonger
<1>6. Rises(inbox', view, truth)
  <2>1. HasValue(m) /\ Value(m) = truth
    BY <1>2 DEF HasValue, Value
  <2> QED
    BY <1>1, <1>2, <2>1, ObserverTypes, RisesLonger DEF ObserverInv, Continues
<1>7. CancelsOf(inbox', waiting)
  BY <1>1, <1>2, ObserverTypes, BoxLonger DEF ObserverInv, Continues
<1>8. \E k : AnswerAt(inbox', k) /\ inbox'[k] = m
  BY ZenonT(40), <1>1, <1>2, <1>4, ObserverTypes, BoxLonger
<1>9. calls' = <<>>
  BY <1>1, <1>4, TakeOnly
<1>10. Answered'
  BY <1>1, <1>2, <1>3, <1>4, <1>8, <1>9 DEF Asked, Answered
<1> QED
  BY <1>1, <1>5, <1>6, <1>7, <1>10 DEF ObserverInv, Continues, Phases

LEMMA ServeCancelStep ==
    ASSUME ObserverInv, Room!TypeOK', 1 \in DOMAIN calls, Room!ServeCancel(1)
    PROVE  ObserverInv'
<1> DEFINE id == calls[1].id
           m == [type |-> "canceled", id |-> id, ok |-> id \in DOMAIN cursor,
                 by |-> calls[1].by]
<1>1. /\ calls[1].type = "cancel" /\ calls' = Room!RemoveAt(calls, 1)
      /\ inbox' = Append(inbox, m) /\ DOMAIN cursor' = DOMAIN cursor \ {id}
      /\ UNCHANGED <<truth, entry, handlers, view, waiting>>
  BY DEF Room!ServeCancel, Room!clientVars
<1>2. /\ m.type = "canceled" /\ m.id = id /\ m.by = calls[1].by
      /\ m.ok <=> id \in DOMAIN cursor
      /\ m \in Messages
  <2>1. calls[1] \in Calls
    BY ObserverTypes
  <2>2. id \in Room!Ids /\ calls[1].by \in Refetchers \cup {Room!Undefined}
    BY <1>1, <2>1 DEF Calls, Room!ObserveCall, Room!CancelCall
  <2>3. m \in Room!Canceled
    BY <2>2 DEF Room!Canceled
  <2> QED
    BY <2>3 DEF Messages
<1> HIDE DEF m, id
<1>3. Ending \/ Left \/ LeftAndAsked
  BY <1>1, CallsAre DEF ObserverInv, Phases, Unasked, Asked, Answered, Held, Closed
<1>4. /\ DOMAIN cursor = {id} /\ OnlyUpdates(inbox)
      /\ waiting = {} => m.by = Room!Undefined /\ Unobserves
      /\ waiting # {} => waiting = {m.by}
  <2>1. CASE Ending
    <3>1. PICK c \in Refetchers : waiting = {c} /\ calls = <<CancelOf(entry, c)>>
      BY <2>1 DEF Ending
    <3>2. id = entry /\ m.by = c
      BY <1>2, <3>1, CallsAre DEF id
    <3> QED
      BY <2>1, <3>1, <3>2 DEF Ending, Runs
  <2>2. CASE Left \/ LeftAndAsked
    <3>1. PICK k \in Room!Ids :
            /\ Runs(k)
            /\ \/ calls = <<CancelOf(k, Room!Undefined)>>
               \/ calls = <<CancelOf(k, Room!Undefined), Ask>>
      BY <2>2 DEF Left, LeftAndAsked
    <3>2. calls[1] = CancelOf(k, Room!Undefined)
      BY <3>1
    <3>3. id = k /\ m.by = Room!Undefined
      BY <1>2, <3>2, CallsAre DEF id
    <3> QED
      BY <2>2, <3>1, <3>3 DEF Left, LeftAndAsked, Runs
  <2> QED
    BY <1>3, <2>1, <2>2
<1>5. DOMAIN cursor' = {} /\ m.ok
  BY <1>1, <1>2, <1>4
<1>6. Fits(inbox', cursor', handlers, view)
  <2>1. LastSent(m, cursor')
    BY <1>2, <1>5 DEF LastSent
  <2>2. inbox = <<>> => Taken(m, handlers, view)
    BY <1>2, <1>4 DEF ObserverInv, Continues, Fits, Nothing, Taken
  <2>3. ASSUME inbox # <<>> PROVE Follows(inbox[Len(inbox)], m)
    <3>1. inbox[Len(inbox)].type = "update"
      BY <1>4, <2>3, ObserverTypes DEF OnlyUpdates
    <3> QED
      BY <1>2, <1>4, <2>3, <3>1 DEF ObserverInv, Continues, Fits, LastSent, Follows
  <2>4. Fits(inbox, cursor, handlers, view)
    BY DEF ObserverInv, Continues
  <2> QED
    BY <1>1, <1>2, <2>1, <2>2, <2>3, <2>4, ObserverTypes, FitsLonger
<1>7. Rises(inbox', view, truth)
  <2>1. ~HasValue(m)
    BY <1>2 DEF HasValue
  <2> QED
    BY <1>1, <1>2, <2>1, ObserverTypes, RisesLonger DEF ObserverInv, Continues
<1>8. CancelsOf(inbox', waiting)
  <2>1. CancelsOf(inbox, waiting)
    BY DEF ObserverInv, Continues
  <2> QED
    BY <1>1, <1>2, <1>4, <1>5, <2>1, ObserverTypes, BoxLonger
<1>9. Closing(inbox') /\ NoAnswer(inbox')
  BY <1>1, <1>2, <1>4, ObserverTypes, BoxLonger
<1>10. CASE Ending
  <2>1. calls' = <<>>
    BY <1>1, <1>10, TakeOnly DEF Ending
  <2>2. Closed'
    BY <1>1, <1>5, <1>9, <1>10, <2>1 DEF Ending, Closed
  <2> QED
    BY <1>1, <1>6, <1>7, <1>8, <2>2 DEF ObserverInv, Continues, Phases
<1>11. CASE Left
  <2>1. calls' = <<>>
    BY <1>1, <1>11, TakeOnly DEF Left
  <2>2. Unasked'
    BY <1>1, <1>5, <1>9, <1>11, <2>1 DEF Left, Unasked
  <2> QED
    BY <1>1, <1>6, <1>7, <1>8, <2>2 DEF ObserverInv, Continues, Phases
<1>12. CASE LeftAndAsked
  <2>1. calls' = <<Ask>>
    BY <1>1, <1>12, TakeOnly DEF LeftAndAsked
  <2>2. Asked'
    BY <1>1, <1>5, <1>9, <1>12, <2>1 DEF LeftAndAsked, Asked
  <2> QED
    BY <1>1, <1>6, <1>7, <1>8, <2>2 DEF ObserverInv, Continues, Phases
<1> QED
  BY <1>3, <1>10, <1>11, <1>12

LEMMA ServeStep ==
    ASSUME OneAtATime, ObserverInv, Room!TypeOK', Room!Serve
    PROVE  ObserverInv'
<1>1. PICK i \in DOMAIN calls :
        /\ CallsInOrder => i = 1
        /\ Room!ServeObserve(i) \/ Room!ServeCancel(i)
  BY DEF Room!Serve
<1>2. i = 1
  <2>1. CASE LeftAndAsked
    BY <1>1, <2>1 DEF LeftAndAsked, OneAtATime
  <2>2. CASE ~LeftAndAsked
    <3>1. calls = <<>> \/ \E c : calls = <<c>>
      BY <2>2 DEF ObserverInv, Phases, Unasked, Asked, Answered, Held, Ending, Closed, Left
    <3> QED
      BY <1>1, <3>1
  <2> QED
    BY <2>1, <2>2
<1> QED
  BY <1>1, <1>2, ServeObserveStep, ServeCancelStep

\* The client takes the first of the messages there are.
LEMMA MessagesAre ==
    ASSUME NEW m \in Messages
    PROVE  /\ m.type = "observed" => m.id \in Room!Ids /\ m.initial \in Nat
           /\ m.type = "update" => m.id \in Room!Ids /\ m.from \in Nat /\ m.to \in Nat
  BY DEF Messages, Room!Observed, Room!Canceled, Room!Update, Room!Ids, Room!Versions

LEMMA FirstOfInbox ==
    ASSUME ObserverInv, inbox # <<>>
    PROVE  /\ inbox \in Seq(Messages) /\ inbox[1] \in Messages /\ 1 \in 1 .. Len(inbox)
           /\ Taken(inbox[1], handlers, view)
<1>1. inbox \in Seq(Messages)
  BY ObserverTypes
<1>2. inbox[1] \in Messages /\ 1 \in 1 .. Len(inbox)
  BY <1>1, TakeFirst
<1> QED
  BY <1>1, <1>2 DEF ObserverInv, Continues, Fits

LEMMA OnObservedStep ==
    ASSUME ObserverInv, Room!TypeOK', inbox # <<>>, inbox[1].type = "observed",
           Room!OnObserved(inbox[1]), inbox' = Room!RemoveAt(inbox, 1),
           UNCHANGED Room!bridgeVars
    PROVE  ObserverInv' /\ view <= view' /\ view' <= truth /\ view \in Int /\ view' \in Int
<1> DEFINE m == inbox[1]
<1>1. /\ entry' = m.id /\ view' = m.initial /\ handlers' = handlers \cup {m.id}
      /\ UNCHANGED <<truth, cursor, calls, waiting>>
  BY DEF Room!OnObserved, Room!Reset, Room!Registered, Room!bridgeVars
<1>2. /\ m.type = "observed" /\ m.id \in Room!Ids /\ m.initial \in Nat
      /\ handlers = {} /\ 1 \in 1 .. Len(inbox)
  BY FirstOfInbox, MessagesAre DEF Taken
<1>3. HasValue(m) /\ Value(m) = m.initial
  BY <1>2 DEF HasValue, Value
<1>4. Fits(inbox, cursor, handlers, view) /\ Rises(inbox, view, truth)
      /\ CancelsOf(inbox, waiting)
  BY DEF ObserverInv, Continues
<1>5. Answered
  BY <1>2 DEF ObserverInv, Phases, Unasked, Asked, Held, Ending, Closed, Left,
     LeftAndAsked, Runs, NoAnswer, OnlyUpdates
<1>6. OnlyUpdates(inbox') /\ DOMAIN cursor = {m.id}
  <2>1. PICK k : AnswerAt(inbox, k) /\ DOMAIN cursor = {inbox[k].id}
    BY <1>5 DEF Answered
  <2>2. k = 1 /\ OnlyUpdates(inbox')
    BY <2>1, FirstOfInbox, BoxShorter
  <2> QED
    BY <2>1, <2>2
<1> HIDE DEF m
<1>7. Fits(inbox', cursor, handlers', view')
  <2>1. handlers' = {m.id}
    BY <1>1, <1>2
  <2> QED
    BY <1>1, <1>2, <1>3, <1>4, <2>1, FirstOfInbox, FitsShorter DEF m
<1>8. Rises(inbox', view', truth) /\ view <= view' /\ view' <= truth
  BY <1>1, <1>2, <1>3, <1>4, FirstOfInbox, RisesShorter DEF m
<1>9. CancelsOf(inbox', waiting)
  BY <1>4, FirstOfInbox, BoxShorter
<1>10. Held'
  BY <1>1, <1>2, <1>5, <1>6 DEF Answered, Held, Runs
<1> QED
  BY <1>1, <1>4, <1>7, <1>8, <1>9, <1>10 DEF ObserverInv, Continues, Phases, Rises

LEMMA OnUpdateStep ==
    ASSUME ObserverInv, Room!TypeOK', inbox # <<>>, inbox[1].type = "update",
           Room!OnUpdate(inbox[1]), inbox' = Room!RemoveAt(inbox, 1),
           UNCHANGED Room!bridgeVars
    PROVE  ObserverInv' /\ view <= view' /\ view' <= truth /\ view \in Int /\ view' \in Int
<1> DEFINE m == inbox[1]
<1>1. /\ m.type = "update" /\ m.id \in Room!Ids /\ m.to \in Nat
      /\ handlers = {m.id} /\ view = m.from /\ 1 \in 1 .. Len(inbox)
  BY FirstOfInbox, MessagesAre DEF Taken
<1>2. /\ view' = m.to
      /\ UNCHANGED <<truth, cursor, calls, entry, handlers, waiting>>
  BY <1>1 DEF Room!OnUpdate, Room!Apply, Room!bridgeVars
<1>3. HasValue(m) /\ Value(m) = m.to
  BY <1>1 DEF HasValue, Value
<1>4. Fits(inbox, cursor, handlers, view) /\ Rises(inbox, view, truth)
      /\ CancelsOf(inbox, waiting)
  BY DEF ObserverInv, Continues
<1> HIDE DEF m
<1>5. Fits(inbox', cursor, handlers', view')
  BY <1>1, <1>2, <1>3, <1>4, FirstOfInbox, FitsShorter DEF m
<1>6. Rises(inbox', view', truth) /\ view <= view' /\ view' <= truth
  BY <1>1, <1>2, <1>3, <1>4, FirstOfInbox, RisesShorter DEF m
<1>7. /\ CancelsOf(inbox', waiting)
      /\ OnlyUpdates(inbox) => OnlyUpdates(inbox')
      /\ NoAnswer(inbox) => NoAnswer(inbox')
      /\ Closing(inbox) => Closing(inbox')
      /\ \A k : AnswerAt(inbox, k) =>
            \E j : AnswerAt(inbox', j) /\ inbox'[j] = inbox[k]
  BY <1>1, <1>4, FirstOfInbox, BoxShorter DEF m
<1>8. Phases'
  <2>1. CASE Answered
    <3>1. PICK k : AnswerAt(inbox, k) /\ DOMAIN cursor = {inbox[k].id}
      BY <2>1 DEF Answered
    <3>2. PICK j : AnswerAt(inbox', j) /\ inbox'[j] = inbox[k]
      BY <1>7, <3>1
    <3> QED
      BY <1>2, <2>1, <3>1, <3>2 DEF Phases, Answered
  <2>2. CASE ~Answered
    BY <1>2, <1>7, <2>2 DEF ObserverInv, Phases, Unasked, Asked, Held, Ending, Closed,
       Left, LeftAndAsked, Runs
  <2> QED
    BY <2>1, <2>2
<1> QED
  BY <1>2, <1>4, <1>5, <1>6, <1>7, <1>8 DEF ObserverInv, Continues, Rises

LEMMA OnCanceledStep ==
    ASSUME OneAtATime, ObserverInv, Room!TypeOK', inbox # <<>>, inbox[1].type = "canceled",
           Room!OnCanceled(inbox[1]), inbox' = Room!RemoveAt(inbox, 1),
           UNCHANGED Room!bridgeVars
    PROVE  ObserverInv' /\ view' = view
<1> DEFINE m == inbox[1]
<1>1. m.type = "canceled" /\ handlers = {m.id} /\ 1 \in 1 .. Len(inbox)
  BY FirstOfInbox DEF Taken
<1>2. /\ m.ok
      /\ waiting = {} => m.by = Room!Undefined /\ Unobserves
      /\ waiting # {} => waiting = {m.by}
  BY <1>1 DEF ObserverInv, Continues, CancelsOf
<1>3. /\ view' = view /\ handlers' = {} /\ UNCHANGED <<truth, cursor>>
      /\ IF m.by \in Refetchers
         THEN entry' = Room!Pending /\ calls' = Append(calls, Ask)
              /\ waiting' = waiting \ {m.by}
         ELSE UNCHANGED <<entry, calls, waiting>>
  BY <1>1, <1>2 DEF Room!OnCanceled, Room!Unregistered, Room!bridgeVars, Ask
<1>4. Fits(inbox, cursor, handlers, view) /\ Rises(inbox, view, truth)
      /\ CancelsOf(inbox, waiting)
  BY DEF ObserverInv, Continues
<1>5. ~HasValue(m)
  BY <1>1 DEF HasValue
<1> HIDE DEF m
<1>6. Fits(inbox', cursor, handlers', view')
  BY <1>1, <1>3, <1>4, <1>5, FirstOfInbox, FitsShorter DEF m
<1>7. Rises(inbox', view', truth)
  BY <1>3, <1>4, <1>5, FirstOfInbox, RisesShorter DEF m
<1>8. /\ CancelsOf(inbox', waiting)
      /\ NoAnswer(inbox) => NoAnswer(inbox')
      /\ Closing(inbox) => inbox' = <<>>
      /\ \A k : AnswerAt(inbox, k) =>
            \E j : AnswerAt(inbox', j) /\ inbox'[j] = inbox[k]
  BY <1>1, <1>4, FirstOfInbox, BoxShorter DEF m
<1>9. ~OnlyUpdates(inbox)
  BY <1>1 DEF OnlyUpdates, m
<1>10. Unasked \/ Asked \/ Answered \/ Closed
  BY <1>9 DEF ObserverInv, Phases, Held, Ending, Left, LeftAndAsked, Runs
<1>11. CASE Closed
  <2>1. waiting = {m.by} /\ m.by \in Refetchers /\ DOMAIN cursor = {}
        /\ inbox' = <<>> /\ calls = <<>>
    BY <1>2, <1>8, <1>11 DEF Closed
  <2>2. calls' = <<Ask>> /\ entry' = Room!Pending /\ waiting' = {}
    BY <1>3, <2>1
  <2>3. Len(inbox') = 0
    BY <2>1
  <2>4. Asked' /\ CancelsOf(inbox', waiting')
    BY <1>3, <2>1, <2>2, <2>3 DEF Asked, NoAnswer, CancelsOf
  <2> QED
    BY <1>3, <1>6, <1>7, <2>4 DEF ObserverInv, Continues, Phases
<1>12. CASE ~Closed
  <2>1. waiting = {}
    BY <1>10, <1>12 DEF Unasked, Asked, Answered
  <2>2. UNCHANGED <<entry, calls, waiting>>
    BY <1>2, <1>3, <2>1 DEF OneAtATime
  <2>3. CASE Answered
    <3>1. PICK k : AnswerAt(inbox, k) /\ DOMAIN cursor = {inbox[k].id}
      BY <2>3 DEF Answered
    <3>2. PICK j : AnswerAt(inbox', j) /\ inbox'[j] = inbox[k]
      BY <1>8, <3>1
    <3>3. Answered'
      BY <1>3, <2>2, <2>3, <3>1, <3>2 DEF Answered
    <3> QED
      BY <1>3, <1>6, <1>7, <1>8, <2>2, <3>3 DEF ObserverInv, Continues, Phases
  <2>4. CASE Unasked \/ Asked
    <3>1. Unasked' \/ Asked'
      BY <1>3, <1>8, <2>2, <2>4 DEF Unasked, Asked
    <3> QED
      BY <1>3, <1>6, <1>7, <1>8, <2>2, <3>1 DEF ObserverInv, Continues, Phases
  <2> QED
    BY <1>10, <1>12, <2>3, <2>4
<1> QED
  BY <1>3, <1>11, <1>12

LEMMA ReceiveStep ==
    ASSUME OneAtATime, ObserverInv, Room!TypeOK', Room!Receive
    PROVE  /\ ObserverInv' /\ UNCHANGED truth
           /\ view' = view \/ view' \in view + 1 .. truth
<1>1. PICK i \in DOMAIN inbox :
        /\ \A j \in 1 .. i - 1 : Room!MayPass(inbox[i], inbox[j])
        /\ inbox' = Room!RemoveAt(inbox, i)
        /\ \/ inbox[i].type = "observed" /\ Room!OnObserved(inbox[i])
           \/ inbox[i].type = "canceled" /\ Room!OnCanceled(inbox[i])
           \/ inbox[i].type = "update" /\ Room!OnUpdate(inbox[i])
        /\ UNCHANGED Room!bridgeVars
  BY DEF Room!Receive
<1>2. inbox \in Seq(Messages)
  BY ObserverTypes
<1>3. inbox # <<>> /\ i \in Nat \ {0}
  BY <1>1, <1>2
<1>4. i = 1
  <2> SUFFICES ASSUME i # 1 PROVE FALSE
    OBVIOUS
  <2>1. 1 \in 1 .. i - 1
    BY <1>3
  <2>2. Room!MayPass(inbox[i], inbox[1])
    BY <1>1, <2>1
  <2> QED
    BY <2>2 DEF Room!MayPass, OneAtATime
<1>5. UNCHANGED truth
  BY <1>1 DEF Room!bridgeVars
<1>6. truth \in Int
  BY ObserverTypes
<1>7. CASE inbox[1].type = "canceled"
  BY <1>1, <1>3, <1>4, <1>5, <1>7, OnCanceledStep
<1>8. CASE inbox[1].type # "canceled"
  <2>1. ObserverInv' /\ view <= view' /\ view' <= truth /\ view \in Int /\ view' \in Int
    BY <1>1, <1>3, <1>4, <1>8, OnObservedStep, OnUpdateStep
  <2> QED
    BY <1>5, <1>6, <2>1
<1> QED
  BY <1>7, <1>8

\* The user, and who fetches again.
LEMMA TwoCalls ==
    ASSUME NEW a, NEW b PROVE Append(<<a>>, b) = <<a, b>>
<1> DEFINE s == <<a>>
           t == <<a, b>>
           r == Append(s, b)
<1>1. s \in Seq({a, b}) /\ Len(s) = 1 /\ s[1] = a
  OBVIOUS
<1>2. t \in Seq({a, b}) /\ Len(t) = 2 /\ t[1] = a /\ t[2] = b
  OBVIOUS
<1> HIDE DEF s, t
<1>3. r \in Seq({a, b}) /\ Len(r) = 2 /\ r[1] = a /\ r[2] = b
  <2>1. b \in {a, b}
    OBVIOUS
  <2>2. /\ r \in Seq({a, b}) /\ Len(r) = Len(s) + 1 /\ r[Len(s) + 1] = b
        /\ \A i \in 1 .. Len(s) : r[i] = s[i]
    BY ZenonT(40), <1>1, <2>1, PutLast
  <2> HIDE DEF r
  <2> QED
    BY <1>1, <2>2
<1> HIDE DEF r
<1>4. \A i \in 1 .. 2 : r[i] = t[i]
  BY <1>2, <1>3
<1>5. r = t
  BY <1>2, <1>3, <1>4, SeqEqual
<1> QED
  BY <1>5 DEF r, s, t

LEMMA ObserveStep ==
    ASSUME ObserverInv, Room!TypeOK', Room!Observe
    PROVE  ObserverInv'
<1>1. /\ entry = Room!Undefined /\ entry' = Room!Pending /\ calls' = Append(calls, Ask)
      /\ UNCHANGED <<truth, cursor, inbox, handlers, view, waiting>>
  BY DEF Room!Observe, Room!bridgeVars, Ask
<1>2. Continues'
  BY <1>1 DEF ObserverInv, Continues
<1>3. Unasked \/ Left
  BY <1>1, ObserverTypes DEF ObserverInv, Phases, Asked, Answered, Held, Ending, Closed,
     LeftAndAsked
<1>4. CASE Unasked
  <2>1. Asked'
    BY <1>1, <1>4 DEF Unasked, Asked
  <2> QED
    BY <1>2, <2>1 DEF ObserverInv, Phases
<1>5. CASE Left
  <2>1. /\ waiting = {} /\ Unobserves
        /\ \E id \in Room!Ids : calls = <<CancelOf(id, Room!Undefined)>> /\ Runs(id)
    BY <1>5 DEF Left
  <2>2. PICK id \in Room!Ids : calls = <<CancelOf(id, Room!Undefined)>> /\ Runs(id)
    BY <2>1
  <2>3. calls' = <<CancelOf(id, Room!Undefined), Ask>>
    BY <1>1, <2>2, TwoCalls
  <2>4. Runs(id)'
    BY <1>1, <2>2 DEF Runs
  <2>5. (\E i \in Room!Ids : calls = <<CancelOf(i, Room!Undefined), Ask>> /\ Runs(i))'
    BY <2>3, <2>4
  <2>6. LeftAndAsked'
    BY <1>1, <2>1, <2>5 DEF LeftAndAsked
  <2> QED
    BY <1>2, <2>6 DEF ObserverInv, Phases
<1> QED
  BY <1>3, <1>4, <1>5

LEMMA UnobserveStep ==
    ASSUME OneAtATime, ObserverInv, Room!TypeOK', Room!Unobserve
    PROVE  ObserverInv'
<1>1. /\ Unobserves /\ entry \in Room!Ids /\ entry' = Room!Undefined
      /\ calls' = Append(calls, CancelOf(entry, Room!Undefined))
      /\ UNCHANGED <<truth, cursor, inbox, handlers, view, waiting>>
  BY DEF Room!Unobserve, Room!bridgeVars, Room!Cancelling, Room!HasRealId,
         CancelOf
<1>2. Continues'
  BY <1>1 DEF ObserverInv, Continues
<1>3. Held
  BY <1>1, ObserverTypes DEF ObserverInv, Phases, Unasked, Asked, Answered, Ending, Closed,
     Left, LeftAndAsked, OneAtATime
<1>4. calls' = <<CancelOf(entry, Room!Undefined)>>
  BY <1>1, <1>3 DEF Held
<1>5. Left'
  BY <1>1, <1>3, <1>4 DEF Held, Left, Runs
<1> QED
  BY <1>2, <1>5 DEF ObserverInv, Phases

LEMMA RefetchStep ==
    ASSUME OneAtATime, ObserverInv, Room!TypeOK', NEW c \in Refetchers, Room!Refetch(c)
    PROVE  ObserverInv'
<1>1. /\ c \notin waiting /\ entry \in Room!Ids /\ waiting' = waiting \cup {c}
      /\ calls' = Append(calls, CancelOf(entry, c))
      /\ UNCHANGED <<truth, cursor, inbox, entry, handlers, view>>
  BY DEF Room!Refetch, Room!bridgeVars, Room!Cancelling, Room!HasRealId,
         CancelOf
<1>2. waiting = {}
  BY <1>1, ObserverTypes DEF OneAtATime
<1>3. Held
  BY <1>1, <1>2, ObserverTypes DEF ObserverInv, Phases, Unasked, Asked, Answered, Ending,
     Closed, Left, LeftAndAsked
<1>4. calls' = <<CancelOf(entry, c)>> /\ waiting' = {c}
  BY <1>1, <1>2, <1>3 DEF Held
<1>5. Continues'
  BY <1>1, <1>3 DEF ObserverInv, Continues, Held, Runs, OnlyUpdates, CancelsOf
<1>6. Ending'
  BY <1>1, <1>3, <1>4 DEF Held, Ending, Runs
<1> QED
  BY <1>5, <1>6 DEF ObserverInv, Phases

LEMMA ObserverGoesOn ==
    ASSUME ObserversAssumption, OneAtATime, ObserverInv, [Room!Next]_(Room!vars)
    PROVE  ObserverInv'
<1>1. Room!TypeOK'
  BY ObserversTyped DEF ObserverInv
<1>2. CASE UNCHANGED Room!vars
  BY <1>1, <1>2 DEF Room!vars, ObserverInv, Continues, Phases, Unasked, Asked, Answered, Held,
     Ending, Closed, Left, LeftAndAsked, Runs
<1> QED
  BY <1>1, <1>2, ChangeStep, SendStep, ServeStep, ReceiveStep, ObserveStep,
     UnobserveStep, RefetchStep DEF Room!Next, Room!Forward

LEMMA ObserverIsSound ==
    ASSUME ObserversAssumption, OneAtATime
    PROVE  Room!Spec => []ObserverInv
<1>1. Room!Init => ObserverInv
  BY ObserverStarts
<1>2. ObserverInv /\ [Room!Next]_(Room!vars) => ObserverInv'
  BY ObserverGoesOn
<1> QED
  BY <1>1, <1>2, PTL DEF Room!Spec

LEMMA QuietIsCurrent ==
    ObserverInv => /\ Room!NeverGarbled /\ Room!QuietViewIsCurrent
                   /\ Room!NoLeakedObservable /\ Room!HeldIsLive /\ Room!ObservedOnce
<1>2. ObserverInv => Room!NeverGarbled
  BY DEF ObserverInv, Continues, Rises, Room!NeverGarbled, Room!Garbled
<1>3. ASSUME ObserverInv, Room!Quiet
      PROVE  Unasked \/ Held
  <2>1. calls = <<>> /\ inbox = <<>> /\ Len(inbox) = 0
    BY <1>3 DEF Room!Quiet
  <2>2. ~Asked /\ ~Ending /\ ~Left /\ ~LeftAndAsked
    <3>1. \A a, b : <<a>> # <<>> /\ <<a, b>> # <<>>
      OBVIOUS
    <3> QED
      BY <2>1, <3>1 DEF Asked, Ending, Left, LeftAndAsked
  <2>3. ~Answered
    <3> SUFFICES ASSUME NEW k, AnswerAt(inbox, k) PROVE FALSE
      BY DEF Answered
    <3>1. k \in 1 .. 0
      BY <2>1 DEF AnswerAt
    <3> QED
      BY <3>1
  <2>4. ~Closed
    <3> SUFFICES ASSUME Closing(inbox) PROVE FALSE
      BY DEF Closed
    <3>1. Len(inbox) > 0
      BY DEF Closing
    <3> QED
      BY <2>1, <3>1
  <2> QED
    BY <1>3, <2>2, <2>3, <2>4 DEF ObserverInv, Phases
<1>4. ASSUME ObserverInv, Room!Quiet
      PROVE  /\ Nothing(cursor, handlers, view)
             /\ \A id \in DOMAIN cursor : cursor[id] = truth
             /\ entry \in Room!Ids => DOMAIN cursor = {entry}
             /\ DOMAIN cursor \subseteq {entry}
  <2>1. inbox = <<>> /\ \A id \in DOMAIN cursor : cursor[id] = truth
    BY <1>4 DEF Room!Quiet
  <2> QED
    BY <1>3, <1>4, <2>1, ObserverTypes DEF ObserverInv, Continues, Fits, Unasked, Held, Runs
<1>5. ObserverInv => Room!QuietViewIsCurrent /\ Room!HeldIsLive
  BY <1>4 DEF Room!QuietViewIsCurrent, Room!HeldIsLive, Nothing
<1>6. ObserverInv => Room!NoLeakedObservable
  BY <1>4 DEF Room!NoLeakedObservable
<1>7. ObserverInv => Room!ObservedOnce
  <2> SUFFICES ASSUME ObserverInv, Room!Quiet
               PROVE  Room!Cardinality(handlers) <= 1
    BY DEF Room!ObservedOnce
  <2>1. handlers = {} \/ \E id \in handlers : handlers = {id}
    BY <1>4 DEF Nothing
  <2>2. Cardinality(handlers) <= 1
    <3>1. CASE handlers = {}
      BY <3>1, FS_EmptySet
    <3>2. ASSUME NEW id \in handlers, handlers = {id}
          PROVE  Cardinality(handlers) <= 1
      <4>1. Cardinality({id}) = 1
        BY FS_Singleton
      <4> QED
        BY <3>2, <4>1
    <3> QED
      BY <2>1, <3>1, <3>2
  <2>3. Room!Cardinality(handlers) = Cardinality(handlers)
    BY DEF Room!Cardinality, Cardinality
  <2> QED
    BY <2>2, <2>3
<1> QED
  BY <1>2, <1>5, <1>6, <1>7

\* Whoever observes, leaves or fetches again: no update is applied to a value it was
\* not made for; when nothing is under way, the value that is observed is the
\* bridge's, the bridge runs the observable that the client holds and no other, and
\* one handler applies its updates (applyObservableUpdates, refetchRoomList,
\* handleObservableUpdate, observable.rs).
THEOREM ObserversAreSound ==
    ASSUME ObserversAssumption, OneAtATime
    PROVE  Room!Spec => [](/\ Room!TypeOK
                           /\ Room!NeverGarbled
                           /\ Room!QuietViewIsCurrent
                           /\ Room!NoLeakedObservable
                           /\ Room!HeldIsLive
                           /\ Room!ObservedOnce)
<1>1. ObserverInv => Room!TypeOK
  BY DEF ObserverInv
<1> QED
  BY <1>1, QuietIsCurrent, ObserverIsSound, PTL

LEMMA CopyStep ==
    ASSUME ObserversAssumption, OneAtATime, ObserverInv, ObserverInv', [Room!Next]_(Room!vars)
    PROVE  [Copy!Next]_(Copy!vars)
<1> USE DEF Copy!vars, Room!clientVars, Room!bridgeVars
<1>1. CASE UNCHANGED Room!vars
  BY <1>1 DEF Room!vars
<1>2. CASE Room!Change
  BY <1>2 DEF Room!Change, Copy!Next, Copy!Change
<1>3. CASE Room!Receive
  <2>1. UNCHANGED truth /\ (view' = view \/ view' \in view + 1 .. truth)
    BY <1>3, ReceiveStep DEF ObserverInv
  <2> QED
    BY <2>1 DEF Copy!Next, Copy!CatchUp
<1>4. CASE Room!Forward \/ Room!Serve
  BY <1>4 DEF Room!Forward, Room!SendUpdate, Room!Serve, Room!ServeObserve,
     Room!ServeCancel
<1>5. CASE Room!Observe \/ Room!Unobserve \/ \E c \in Refetchers : Room!Refetch(c)
  BY <1>5 DEF Room!Observe, Room!Unobserve, Room!Refetch
<1> QED
  BY <1>1, <1>2, <1>3, <1>4, <1>5 DEF Room!Next

\* The client's copy implements Mirror: whatever is observed, left and fetched again,
\* it moves forward only, and to versions that the bridge had.
THEOREM CopyIsMirror ==
    ASSUME ObserversAssumption, OneAtATime
    PROVE  Room!Spec => Copy!Spec
<1>1. Room!Init => Copy!Init
  BY DEF Room!Init, Copy!Init, Room!Missing
<1>2. ObserverInv /\ ObserverInv' /\ [Room!Next]_(Room!vars) => [Copy!Next]_(Copy!vars)
  BY CopyStep
<1>3. Room!Spec => []ObserverInv
  BY ObserverIsSound
<1> QED
  BY <1>1, <1>2, <1>3, PTL DEF Room!Spec, Copy!Spec

-----------------------------------------------------------------------------
(* The roles and members of a room: RoomRoles. *)
\* The calls, at each of their steps.
PowerLevels == [users : [Others -> Roles!Levels], default : {Roles!Member, Roles!Moderator}]
MemberLists == [Others -> [level : Roles!Levels, membership : {"join", "leave", "ban"}]]
Contents == [users : [Others -> Roles!Levels], default : {Roles!Member, Roles!Moderator},
          membership : [Others -> {"join", "leave", "ban"}]]
ReadingCalls ==
    [act : {"role"}, user : Others, value : Roles!Levels, step : {"read"}] \cup
    [act : {"default"}, user : {"room"}, value : {Roles!Member, Roles!Moderator}, step : {"read"}]
WritingCalls ==
    [act : {"role"}, user : Others, value : Roles!Levels, step : {"write", "answered"},
     read : PowerLevels] \cup
    [act : {"default"}, user : {"room"}, value : {Roles!Member, Roles!Moderator},
     step : {"write", "answered"}, read : PowerLevels]
RemovingCalls ==
    [act : {"member"}, user : Others, value : {"leave", "ban"}, step : {"send", "fetch"}]
FetchingCalls ==
    [act : {"refresh"}, step : {"fetch"}] \cup
    [act : {"member", "refresh"}, step : {"deliver"}, read : MemberLists]
RoleCalls ==
    {Roles!Idle} \cup ReadingCalls \cup WritingCalls \cup RemovingCalls \cup FetchingCalls

RoleTypes ==
    /\ server \in Contents /\ store \in Contents
    /\ powers \in PowerLevels /\ members \in MemberLists
    /\ roleCalls \in [Slots -> RoleCalls]

DueChanges ==
    [of : {"role"}, user : Others, value : Roles!Levels] \cup
    [of : {"default"}, user : {"room"}, value : {Roles!Member, Roles!Moderator}] \cup
    [of : {"member"}, user : Others, value : {"join", "leave", "ban"}]
\* What the call c is to change.
ItsChange(c) == [of |-> c.act, user |-> c.user, value |-> c.value]
\* The changes that no call has overtaken; and removals, that none can.
Kept == {c \in due : c.of = "member" \/ c \notin overtaken}
\* What a call is about to write has its own change and whatever it has not overtaken.
WritesAll(c, kept) ==
    c.step = "write" =>
        /\ Roles!Holds(ItsChange(c), c.read)
        /\ \A e \in kept : e.of = "member" \/ Roles!Same(e, ItsChange(c)) \/ Roles!Holds(e, c.read)
ChangesHold ==
    /\ due \subseteq DueChanges
    /\ \A c \in Kept : Roles!Holds(c, server)
    /\ \A i \in Slots : roleCalls[i] # Roles!Idle => WritesAll(roleCalls[i], Kept)
RolesInv == RoleTypes /\ ChangesHold

LEMMA RoleCallIs ==
    ASSUME RoleTypes, NEW i \in Slots, roleCalls[i] # Roles!Idle
    PROVE  LET c == roleCalls[i]
           IN  /\ c \in RoleCalls
               /\ c.step = "read" => c \in ReadingCalls
               /\ c.step \in {"write", "answered"} => c \in WritingCalls
               /\ c.step = "send" => c \in RemovingCalls
               /\ c.step = "fetch" => c \in RemovingCalls \/ c.act = "refresh"
               /\ c.step = "deliver" => c.read \in MemberLists
  BY DEF RoleTypes, RoleCalls, ReadingCalls, WritingCalls, RemovingCalls, FetchingCalls

LEMMA RolesTyped ==
    ASSUME RolesInv PROVE Roles!TypeOK
<1> SUFFICES ASSUME NEW i \in Slots, roleCalls[i] # Roles!Idle
             PROVE  \/ roleCalls[i].step \in {"read", "send", "fetch"}
                    \/ roleCalls[i].step = "write" /\ roleCalls[i].read \in PowerLevels
                    \/ roleCalls[i].step = "answered" /\ roleCalls[i].read \in PowerLevels
                    \/ roleCalls[i].step = "deliver" /\ roleCalls[i].read \in MemberLists
  BY DEF RolesInv, RoleTypes, Roles!TypeOK, PowerLevels, MemberLists, Contents
<1> DEFINE c == roleCalls[i]
<1>1. c \in ReadingCalls \/ c \in WritingCalls \/ c \in RemovingCalls \/ c \in FetchingCalls
  BY DEF RolesInv, RoleTypes, RoleCalls
<1> HIDE DEF c
<1> QED
  BY <1>1 DEF ReadingCalls, WritingCalls, RemovingCalls, FetchingCalls, c

\* What a change of the room to r does to what is due.
LEMMA ChangeIs ==
    ASSUME NEW r, NEW d, NEW by, Roles!Change(r, d, by)
    PROVE  /\ server' = r /\ store' \in {store, r}
           /\ \A c \in due' : c = d \/ (c \in due /\ ~ Roles!Same(c, d))
           /\ d \in due'
           /\ \A c \in Kept' : c = d \/ (c \in Kept /\ ~ Roles!Same(c, d))
           /\ d \notin Kept' \/ d.of = "member" \/ Roles!Writing \subseteq by
<1>1. /\ server' = r /\ store' = IF Lag THEN store ELSE r
      /\ due' = {c \in due : ~ Roles!Same(c, d)} \cup {d}
      /\ overtaken' = {c \in overtaken : ~ Roles!Same(c, d)} \cup
                      (IF Roles!Writing \subseteq by THEN {} ELSE {d})
  BY DEF Roles!Change
<1>2. store' \in {store, r}
  BY <1>1
<1>3. d \in due'
  BY <1>1
<1>4. ASSUME NEW c \in due' PROVE c = d \/ (c \in due /\ ~ Roles!Same(c, d))
  <2>1. c \in {e \in due : ~ Roles!Same(e, d)} \/ c = d
    BY <1>1
  <2> QED
    BY <2>1
<1>5. ASSUME NEW c \in Kept' PROVE c = d \/ (c \in Kept /\ ~ Roles!Same(c, d))
  <2>1. c \in due' /\ (c.of = "member" \/ c \notin overtaken')
    BY DEF Kept
  <2>2. CASE c # d
    <3>1. c \in due /\ ~ Roles!Same(c, d)
      BY <1>4, <2>1, <2>2
    <3>2. c \notin overtaken' => c \notin overtaken
      BY <1>1, <3>1
    <3> QED
      BY <2>1, <3>1, <3>2 DEF Kept
  <2> QED
    BY <2>2
<1>6. d \notin Kept' \/ d.of = "member" \/ Roles!Writing \subseteq by
  <2> SUFFICES ASSUME ~ (Roles!Writing \subseteq by) PROVE d \notin Kept' \/ d.of = "member"
    OBVIOUS
  <2>1. d \in overtaken'
    BY <1>1
  <2> QED
    BY <2>1 DEF Kept
<1> QED
  BY <1>1, <1>2, <1>3, <1>4, <1>5, <1>6

\* The calls that are to write after a step were so before it, and none is in by.
NoneToWrite(by) ==
    \A i \in Slots : roleCalls'[i] # Roles!Idle /\ roleCalls'[i].step = "write" =>
                         roleCalls'[i] = roleCalls[i] /\ i \notin by

\* The room becomes r by a change d, of a call in by.
LEMMA ChangeKeeps ==
    ASSUME RolesInv, NEW r, NEW d \in DueChanges, NEW by, Roles!Change(r, d, by),
           Roles!Holds(d, r),
           \A e \in Kept : ~ Roles!Same(e, d) => Roles!Holds(e, r),
           NoneToWrite(by)
    PROVE  ChangesHold'
<1>1. server' = r /\ \A c \in due' : c = d \/ c \in due
  BY ChangeIs
<1>2. \A c \in Kept' : c = d \/ (c \in Kept /\ ~ Roles!Same(c, d))
  BY ChangeIs
<1>3. d \notin Kept' \/ d.of = "member" \/ Roles!Writing \subseteq by
  BY ChangeIs
<1>4. due' \subseteq DueChanges
  BY <1>1 DEF RolesInv, ChangesHold
<1>5. ASSUME NEW c \in Kept' PROVE Roles!Holds(c, server')
  BY <1>1, <1>2
<1>6. ASSUME NEW i \in Slots, roleCalls'[i] # Roles!Idle
      PROVE  WritesAll(roleCalls'[i], Kept')
  <2> SUFFICES ASSUME roleCalls'[i].step = "write" PROVE WritesAll(roleCalls[i], Kept')
    BY <1>6 DEF WritesAll, NoneToWrite
  <2> DEFINE c == roleCalls[i]
  <2>1. c # Roles!Idle /\ c.step = "write" /\ i \notin by
    BY <1>6 DEF NoneToWrite
  <2>2. i \in Roles!Writing
    BY <2>1 DEF Roles!Writing
  <2>3. d \notin Kept' \/ d.of = "member"
    BY <1>3, <2>1, <2>2
  <2>4. /\ Roles!Holds(ItsChange(c), c.read)
        /\ \A e \in Kept : e.of = "member" \/ Roles!Same(e, ItsChange(c)) \/ Roles!Holds(e, c.read)
    BY <2>1 DEF RolesInv, ChangesHold, WritesAll
  <2>5. ASSUME NEW e \in Kept'
        PROVE  e.of = "member" \/ Roles!Same(e, ItsChange(c)) \/ Roles!Holds(e, c.read)
    BY <1>2, <2>3, <2>4
  <2> QED
    BY <2>4, <2>5 DEF WritesAll
<1> QED
  BY <1>4, <1>5, <1>6 DEF ChangesHold

\* The room does not change, and a call that goes on to write was to write before.
LEMMA NothingChanges ==
    ASSUME RolesInv, UNCHANGED <<server, due, overtaken>>,
           NoneToWrite({})
    PROVE  ChangesHold'
<1>1. Kept' = Kept
  BY DEF Kept
<1>2. ASSUME NEW i \in Slots, roleCalls'[i] # Roles!Idle
      PROVE  WritesAll(roleCalls'[i], Kept)
  BY <1>2 DEF WritesAll, NoneToWrite, RolesInv, ChangesHold
<1> QED
  BY <1>1, <1>2 DEF RolesInv, ChangesHold

LEMMA StartStep ==
    ASSUME RolesInv, NEW i \in Slots, NEW c \in RoleCalls, Roles!Start(i, c),
           c.step # "write"
    PROVE  RolesInv'
<1>1. /\ roleCalls' = [roleCalls EXCEPT ![i] = c]
      /\ UNCHANGED <<server, store, powers, members, due, overtaken>>
  BY DEF Roles!Start
<1>2. RoleTypes'
  BY <1>1 DEF RolesInv, RoleTypes
<1>3. NoneToWrite({})
  BY <1>1 DEF NoneToWrite, RolesInv, RoleTypes
<1>4. ChangesHold'
  BY <1>1, <1>3, NothingChanges
<1> QED
  BY <1>2, <1>4 DEF RolesInv

LEMMA GoesStep ==
    ASSUME RoleTypes, NEW i \in Slots, NEW c \in RoleCalls, Roles!Goes(i, c)
    PROVE  /\ roleCalls' \in [Slots -> RoleCalls]
           /\ c = Roles!Idle \/ c.step # "write" => NoneToWrite({i}) /\ NoneToWrite({})
  BY DEF Roles!Goes, RoleTypes, NoneToWrite

\* Somebody is invited, removed or banned.
LEMMA MembershipStep ==
    ASSUME RolesInv, NEW u \in Others, NEW m \in {"join", "leave", "ban"}, NEW by,
           Roles!Change([server EXCEPT !.membership[u] = m],
                        [of |-> "member", user |-> u, value |-> m], by),
           UNCHANGED <<powers, members>>, roleCalls' \in [Slots -> RoleCalls],
           NoneToWrite(by)
    PROVE  RolesInv'
<1> DEFINE d == [of |-> "member", user |-> u, value |-> m]
           r == [server EXCEPT !.membership[u] = m]
<1>1. server' = r /\ store' \in {store, server'}
  BY ChangeIs
<1>2. d.of = "member" /\ d.user = u /\ d.value = m /\ d \in DueChanges
  BY DEF DueChanges
<1>3. /\ r \in Contents /\ r.membership[u] = m
      /\ r.users = server.users /\ r.default = server.default
      /\ \A v : v # u => r.membership[v] = server.membership[v]
  BY DEF RolesInv, RoleTypes, Contents
<1>4. Roles!Change(r, d, by)
  OBVIOUS
<1> HIDE DEF d, r
<1>5. Roles!Holds(d, r)
  BY <1>2, <1>3 DEF Roles!Holds
<1>6. ASSUME NEW e \in Kept, ~ Roles!Same(e, d) PROVE Roles!Holds(e, r)
  <2>1. Roles!Holds(e, server)
    BY DEF RolesInv, ChangesHold
  <2> QED
    BY <1>2, <1>3, <1>6, <2>1 DEF Roles!Holds, Roles!Same
<1>7. ChangesHold'
  BY <1>2, <1>4, <1>5, <1>6, ChangeKeeps
<1> QED
  BY <1>1, <1>3, <1>7 DEF RolesInv, RoleTypes

\* Another admin changes a role.
LEMMA ForeignRoleStep ==
    ASSUME RolesInv, NEW u \in Others, NEW l \in Roles!Levels,
           Roles!Change([server EXCEPT !.users[u] = l],
                        [of |-> "role", user |-> u, value |-> l], {}),
           UNCHANGED <<powers, members, roleCalls>>
    PROVE  RolesInv'
<1> DEFINE d == [of |-> "role", user |-> u, value |-> l]
           r == [server EXCEPT !.users[u] = l]
<1>1. server' = r /\ store' \in {store, server'}
  BY ChangeIs
<1>2. d.of = "role" /\ d.user = u /\ d.value = l /\ d \in DueChanges
  BY DEF DueChanges
<1>3. /\ r \in Contents /\ r.users[u] = l
      /\ r.membership = server.membership /\ r.default = server.default
      /\ \A v : v # u => r.users[v] = server.users[v]
  BY DEF RolesInv, RoleTypes, Contents
<1>4. Roles!Change(r, d, {})
  OBVIOUS
<1> HIDE DEF d, r
<1>5. Roles!Holds(d, r)
  BY <1>2, <1>3 DEF Roles!Holds
<1>6. ASSUME NEW e \in Kept, ~ Roles!Same(e, d) PROVE Roles!Holds(e, r)
  <2>1. Roles!Holds(e, server)
    BY DEF RolesInv, ChangesHold
  <2> QED
    BY <1>2, <1>3, <1>6, <2>1 DEF Roles!Holds, Roles!Same
<1>7. NoneToWrite({})
  BY DEF NoneToWrite
<1>8. ChangesHold'
  BY <1>2, <1>4, <1>5, <1>6, <1>7, ChangeKeeps
<1> QED
  BY <1>1, <1>3, <1>8 DEF RolesInv, RoleTypes

LEMMA ForeignStep ==
    ASSUME RolesInv, Roles!Foreign
    PROVE  RolesInv'
<1>1. UNCHANGED <<powers, members, roleCalls>>
  BY DEF Roles!Foreign
<1>2. ASSUME NEW u \in Others, NEW m \in {"join", "leave"},
             Roles!Change([server EXCEPT !.membership[u] = m],
                          [of |-> "member", user |-> u, value |-> m], {})
      PROVE  RolesInv'
  <2>1. m \in {"join", "leave", "ban"} /\ roleCalls' \in [Slots -> RoleCalls]
    BY <1>1 DEF RolesInv, RoleTypes
  <2>2. NoneToWrite({})
    BY <1>1 DEF NoneToWrite
  <2>3. UNCHANGED <<powers, members>>
    BY <1>1
  <2> QED
    BY <1>2, <2>1, <2>2, <2>3, MembershipStep
<1> QED
  BY <1>1, <1>2, ForeignRoleStep DEF Roles!Foreign

LEMMA ChangeRoleStep ==
    ASSUME RolesInv, NEW i \in Slots,
           Roles!ChangeRole(i) \/ Roles!RemoveUser(i) \/ Roles!ToggleBroadcastOnly(i)
              \/ Roles!Refresh(i)
    PROVE  RolesInv'
<1>1. ASSUME NEW u \in Others, NEW level \in Roles!Levels,
             Roles!Start(i, [act |-> "role", user |-> u, value |-> level, step |-> "read"])
      PROVE  RolesInv'
  <2>1. [act |-> "role", user |-> u, value |-> level, step |-> "read"] \in RoleCalls
    BY DEF RoleCalls, ReadingCalls
  <2> QED
    BY <1>1, <2>1, StartStep
<1>2. ASSUME NEW u \in Others, NEW how \in {"leave", "ban"},
             Roles!Start(i, [act |-> "member", user |-> u, value |-> how, step |-> "send"])
      PROVE  RolesInv'
  <2>1. [act |-> "member", user |-> u, value |-> how, step |-> "send"] \in RoleCalls
    BY DEF RoleCalls, RemovingCalls
  <2> QED
    BY <1>2, <2>1, StartStep
<1>3. ASSUME NEW l \in {Roles!Member, Roles!Moderator},
             Roles!Start(i, [act |-> "default", user |-> "room", step |-> "read", value |-> l])
      PROVE  RolesInv'
  <2>1. [act |-> "default", user |-> "room", step |-> "read", value |-> l] \in RoleCalls
    BY DEF RoleCalls, ReadingCalls
  <2> QED
    BY <1>3, <2>1, StartStep
<1>4. ASSUME Roles!Start(i, [act |-> "refresh", step |-> "fetch"])
      PROVE  RolesInv'
  <2>1. [act |-> "refresh", step |-> "fetch"] \in RoleCalls
    BY DEF RoleCalls, FetchingCalls
  <2> QED
    BY <1>4, <2>1, StartStep
<1>5. (IF powers.default >= Roles!Moderator THEN Roles!Member ELSE Roles!Moderator)
         \in {Roles!Member, Roles!Moderator}
  OBVIOUS
<1> QED
  BY <1>1, <1>2, <1>3, <1>4, <1>5
     DEF Roles!ChangeRole, Roles!RemoveUser, Roles!ToggleBroadcastOnly, Roles!Refresh

\* What is written is what was read, with the one change.
Changed(old, c) ==
    IF c.act = "role" THEN [old EXCEPT !.users[c.user] = c.value]
                      ELSE [old EXCEPT !.default = c.value]
Writing(c, new) ==
    [act |-> c.act, user |-> c.user, value |-> c.value, step |-> "write", read |-> new]

LEMMA WritingIs ==
    ASSUME NEW old \in PowerLevels, NEW c \in ReadingCalls
    PROVE  Changed(old, c) \in PowerLevels /\ Writing(c, Changed(old, c)) \in WritingCalls
<1>1. CASE c.act = "role"
  <2>1. c.user \in Others /\ c.value \in Roles!Levels
    BY <1>1 DEF ReadingCalls
  <2>2. Changed(old, c) \in PowerLevels
    BY <1>1, <2>1 DEF Changed, PowerLevels
  <2> QED
    BY <1>1, <2>1, <2>2 DEF Writing, WritingCalls
<1>2. CASE c.act # "role"
  <2>1. c.act = "default" /\ c.user = "room" /\ c.value \in {Roles!Member, Roles!Moderator}
    BY <1>2 DEF ReadingCalls
  <2>2. Changed(old, c) \in PowerLevels
    BY <1>2, <2>1 DEF Changed, PowerLevels
  <2> QED
    BY <1>2, <2>1, <2>2 DEF Writing, WritingCalls
<1> QED
  BY <1>1, <1>2

LEMMA PowersIs ==
    ASSUME NEW r \in Contents
    PROVE  Roles!Powers(r) \in PowerLevels /\ Roles!MembersOf(r) \in MemberLists
  BY DEF Contents, PowerLevels, MemberLists, Roles!Powers, Roles!MembersOf

\* A call that reads has what the store holds, and its own change.
LEMMA ReadHolds ==
    ASSUME NEW r \in Contents, NEW c \in ReadingCalls
    PROVE  LET new == Changed(Roles!Powers(r), c)
           IN  /\ Roles!Holds(ItsChange(c), new)
               /\ \A e \in DueChanges :
                     Roles!Holds(e, r) => \/ e.of = "member" \/ Roles!Same(e, ItsChange(c))
                                          \/ Roles!Holds(e, new)
<1> DEFINE new == Changed(Roles!Powers(r), c)
<1>1. CASE c.act = "role"
  <2>1. /\ c.user \in Others /\ new.default = r.default /\ new.users[c.user] = c.value
        /\ \A v \in Others : v # c.user => new.users[v] = r.users[v]
    BY <1>1 DEF ReadingCalls, Changed, Contents, Roles!Powers
  <2>2. /\ ItsChange(c).of = "role" /\ ItsChange(c).user = c.user /\ ItsChange(c).value = c.value
    BY <1>1 DEF ItsChange
  <2>3. ASSUME NEW e \in DueChanges, Roles!Holds(e, r), e.of # "member",
               ~ Roles!Same(e, ItsChange(c))
        PROVE  Roles!Holds(e, new)
    <3>1. e.of = "role" => e.user \in Others /\ e.user # c.user
      BY <2>2, <2>3 DEF DueChanges, Roles!Same
    <3> HIDE DEF new
    <3> QED
      BY <2>1, <2>3, <3>1 DEF Roles!Holds
  <2> HIDE DEF new
  <2>4. Roles!Holds(ItsChange(c), new)
    BY <2>1, <2>2 DEF Roles!Holds
  <2> QED
    BY <2>3, <2>4 DEF new
<1>2. CASE c.act # "role"
  <2>1. /\ c.act = "default" /\ c.user = "room"
        /\ new.default = c.value /\ new.users = r.users
    BY <1>2 DEF ReadingCalls, Changed, Contents, Roles!Powers
  <2>2. /\ ItsChange(c).of = "default" /\ ItsChange(c).user = "room" /\ ItsChange(c).value = c.value
    BY <2>1 DEF ItsChange
  <2>3. ASSUME NEW e \in DueChanges, Roles!Holds(e, r), e.of # "member",
               ~ Roles!Same(e, ItsChange(c))
        PROVE  Roles!Holds(e, new)
    <3>1. e.of # "default"
      BY <2>2, <2>3 DEF DueChanges, Roles!Same
    <3> HIDE DEF new
    <3> QED
      BY <2>1, <2>3, <3>1 DEF Roles!Holds
  <2> HIDE DEF new
  <2>4. Roles!Holds(ItsChange(c), new)
    BY <2>1, <2>2 DEF Roles!Holds
  <2> QED
    BY <2>3, <2>4 DEF new
<1> QED
  BY <1>1, <1>2

\* A call ends, and redux may change.
LEMMA IdleStep ==
    ASSUME RolesInv, NEW i \in Slots, Roles!Goes(i, Roles!Idle),
           UNCHANGED <<server, store, due, overtaken>>,
           powers' \in PowerLevels, members' \in MemberLists
    PROVE  RolesInv'
<1>1. Roles!Idle \in RoleCalls
  BY DEF RoleCalls
<1>2. roleCalls' \in [Slots -> RoleCalls]
  BY <1>1, GoesStep DEF RolesInv
<1>3. ChangesHold'
  BY <1>1, GoesStep, NothingChanges DEF RolesInv
<1> QED
  BY <1>2, <1>3 DEF RolesInv, RoleTypes

LEMMA ReadStep ==
    ASSUME RolesInv, NEW i \in Slots, Roles!Read(i)
    PROVE  /\ RolesInv' /\ roleCalls[i] \in ReadingCalls
           /\ Roles!Goes(i, Writing(roleCalls[i], Changed(Roles!Powers(store), roleCalls[i])))
           /\ overtaken' = overtaken \cup {c \in due : ~ Roles!Holds(c, store)}
<1>1. roleCalls[i] \in ReadingCalls
  BY RoleCallIs DEF RolesInv, Roles!Read
<1>2. /\ Roles!Goes(i, Writing(roleCalls[i], Changed(Roles!Powers(store), roleCalls[i])))
      /\ overtaken' = overtaken \cup {c \in due : ~ Roles!Holds(c, store)}
      /\ UNCHANGED <<server, store, powers, members, due>>
  BY DEF Roles!Read, Writing, Changed
<1>3. Writing(roleCalls[i], Changed(Roles!Powers(store), roleCalls[i])) \in RoleCalls
  <2>1. Roles!Powers(store) \in PowerLevels
    BY PowersIs DEF RolesInv, RoleTypes
  <2> QED
    BY <1>1, <2>1, WritingIs DEF RoleCalls
<1>4. roleCalls' \in [Slots -> RoleCalls]
  BY <1>2, <1>3, GoesStep DEF RolesInv
<1>5. \A e \in Kept' : e \in Kept /\ (e.of = "member" \/ Roles!Holds(e, store))
  BY <1>2 DEF Kept
<1> DEFINE c == roleCalls[i]
           new == Changed(Roles!Powers(store), c)
           w == Writing(c, new)
<1>6. WritesAll(w, Kept')
  <2>1. ItsChange(w) = ItsChange(c) /\ w.read = new
    BY DEF ItsChange, Writing
  <2>2. /\ Roles!Holds(ItsChange(c), new)
        /\ \A e \in DueChanges :
              Roles!Holds(e, store) => \/ e.of = "member" \/ Roles!Same(e, ItsChange(c))
                                       \/ Roles!Holds(e, new)
    BY <1>1, ReadHolds DEF RolesInv, RoleTypes
  <2>3. Kept \subseteq DueChanges
    BY DEF RolesInv, ChangesHold, Kept
  <2> HIDE DEF c, new, w
  <2>4. ASSUME NEW e \in Kept'
        PROVE  e.of = "member" \/ Roles!Same(e, ItsChange(c)) \/ Roles!Holds(e, new)
    BY <1>5, <2>2, <2>3
  <2> QED
    BY <2>1, <2>2, <2>4 DEF WritesAll
<1>7. \A j \in Slots : j # i => roleCalls'[j] = roleCalls[j]
  BY <1>2 DEF Roles!Goes, RolesInv, RoleTypes
<1>8. roleCalls'[i] = w
  BY <1>2 DEF Roles!Goes, RolesInv, RoleTypes
<1> HIDE DEF w
<1>9. ASSUME NEW j \in Slots, roleCalls'[j] # Roles!Idle
      PROVE  WritesAll(roleCalls'[j], Kept')
  <2>1. CASE j = i
    BY <1>6, <1>8, <2>1
  <2>2. CASE j # i
    <3>1. WritesAll(roleCalls[j], Kept) /\ roleCalls'[j] = roleCalls[j]
      BY <1>7, <1>9, <2>2 DEF RolesInv, ChangesHold
    <3> QED
      BY <1>5, <3>1 DEF WritesAll
  <2> QED
    BY <2>1, <2>2
<1>10. ChangesHold'
  BY <1>2, <1>5, <1>9 DEF RolesInv, ChangesHold
<1> QED
  BY <1>1, <1>2, <1>4, <1>10 DEF RolesInv, RoleTypes

LEMMA WriteStep ==
    ASSUME RolesInv, NEW i \in Slots, Roles!Write(i)
    PROVE  RolesInv'
<1> DEFINE c == roleCalls[i]
<1>1. c \in WritingCalls /\ c.step = "write"
  BY RoleCallIs DEF RolesInv, Roles!Write
<1>2. CASE Roles!AcceptsLevels(c.read)
  <2> DEFINE r == [users |-> c.read.users, default |-> c.read.default,
                   membership |-> server.membership]
             n == [c EXCEPT !.step = "answered"]
  <2>1. Roles!Change(r, ItsChange(c), {i}) /\ Roles!Goes(i, n)
    BY <1>2 DEF Roles!Write, ItsChange
  <2>2. ItsChange(c).of # "member" /\ ItsChange(c) \in DueChanges
    BY <1>1 DEF WritingCalls, ItsChange, DueChanges
  <2>3. /\ r \in Contents /\ r.membership = server.membership
        /\ r.users = c.read.users /\ r.default = c.read.default
    BY <1>1 DEF WritingCalls, PowerLevels, Contents, RolesInv, RoleTypes
  <2>4. n \in RoleCalls /\ n.step # "write"
    BY <1>1 DEF WritingCalls, RoleCalls
  <2>5. /\ Roles!Holds(ItsChange(c), c.read)
        /\ \A e \in Kept : e.of = "member" \/ Roles!Same(e, ItsChange(c)) \/ Roles!Holds(e, c.read)
    BY <1>1 DEF RolesInv, ChangesHold, WritesAll, Roles!Write
  <2>6. \A e \in Kept : Roles!Holds(e, server)
    BY DEF RolesInv, ChangesHold
  <2> HIDE DEF c, r, n
  <2>7. /\ roleCalls' \in [Slots -> RoleCalls]
        /\ NoneToWrite({i})
    BY <2>1, <2>4, GoesStep DEF RolesInv
  <2>8. Roles!Holds(ItsChange(c), r)
    BY <2>2, <2>3, <2>5 DEF Roles!Holds
  <2>9. ASSUME NEW e \in Kept, ~ Roles!Same(e, ItsChange(c)) PROVE Roles!Holds(e, r)
    BY <2>3, <2>5, <2>6, <2>9 DEF Roles!Holds
  <2>10. ChangesHold'
    BY <2>1, <2>2, <2>7, <2>8, <2>9, ChangeKeeps
  <2>11. server' = r /\ store' \in {store, r}
    BY <2>1, ChangeIs
  <2> QED
    BY <2>3, <2>7, <2>10, <2>11 DEF RolesInv, RoleTypes, Roles!Write
<1>3. CASE ~ Roles!AcceptsLevels(c.read)
  <2>1. Roles!Goes(i, Roles!Idle) /\ UNCHANGED <<server, store, due, overtaken, powers, members>>
    BY <1>3 DEF Roles!Write
  <2> QED
    BY <2>1, IdleStep DEF RolesInv, RoleTypes
<1> QED
  BY <1>2, <1>3

LEMMA FulfilledStep ==
    ASSUME RolesInv, NEW i \in Slots, Roles!Fulfilled(i)
    PROVE  RolesInv'
<1>1. roleCalls[i] \in WritingCalls
  BY RoleCallIs DEF RolesInv, Roles!Fulfilled
<1>2. powers' \in PowerLevels
  BY <1>1 DEF WritingCalls, Roles!Fulfilled
<1>3. members' \in MemberLists
  <2>1. CASE roleCalls[i].act = "role"
    <3>1. roleCalls[i].value \in Roles!Levels
      BY <1>1, <2>1 DEF WritingCalls
    <3> QED
      BY <2>1, <3>1 DEF RolesInv, RoleTypes, MemberLists, Roles!Fulfilled
  <2>2. CASE roleCalls[i].act # "role"
    BY <2>2 DEF RolesInv, RoleTypes, Roles!Fulfilled
  <2> QED
    BY <2>1, <2>2
<1> QED
  BY <1>2, <1>3, IdleStep DEF Roles!Fulfilled

LEMMA RemovalStep ==
    ASSUME RolesInv, NEW i \in Slots, Roles!Send(i)
    PROVE  RolesInv'
<1> DEFINE c == roleCalls[i]
<1>1. c \in RemovingCalls /\ c.step = "send"
  BY RoleCallIs DEF RolesInv, Roles!Send
<1>2. c.act = "member" /\ c.user \in Others /\ c.value \in {"join", "leave", "ban"}
  BY <1>1 DEF RemovingCalls
<1>3. CASE Roles!AcceptsRemoval(c.user, c.value)
  <2>1. /\ Roles!Change([server EXCEPT !.membership[c.user] = c.value],
                        [of |-> "member", user |-> c.user, value |-> c.value], {i})
        /\ Roles!Goes(i, [c EXCEPT !.step = "fetch"]) /\ UNCHANGED <<powers, members>>
    BY <1>2, <1>3 DEF Roles!Send
  <2>2. [c EXCEPT !.step = "fetch"] \in RoleCalls /\ [c EXCEPT !.step = "fetch"].step # "write"
    BY <1>1 DEF RemovingCalls, RoleCalls
  <2> HIDE DEF c
  <2>3. /\ roleCalls' \in [Slots -> RoleCalls]
        /\ NoneToWrite({i})
    BY <2>1, <2>2, GoesStep DEF RolesInv
  <2> QED
    BY <1>2, <2>1, <2>3, MembershipStep
<1>4. CASE ~ Roles!AcceptsRemoval(c.user, c.value)
  <2>1. /\ Roles!Goes(i, Roles!Idle)
        /\ UNCHANGED <<server, store, due, overtaken, powers, members>>
    BY <1>4 DEF Roles!Send
  <2> QED
    BY <2>1, IdleStep DEF RolesInv, RoleTypes
<1> QED
  BY <1>3, <1>4

LEMMA FetchStep ==
    ASSUME RolesInv, NEW i \in Slots, Roles!Fetch(i) \/ Roles!Deliver(i) \/ Roles!Fail(i)
    PROVE  RolesInv'
<1>1. CASE Roles!Fetch(i)
  <2> DEFINE d == [act |-> roleCalls[i].act, step |-> "deliver",
                   read |-> Roles!MembersOf(store)]
  <2>1. roleCalls[i].act \in {"member", "refresh"}
    BY <1>1, RoleCallIs DEF RolesInv, Roles!Fetch, RemovingCalls
  <2>2. Roles!MembersOf(store) \in MemberLists
    BY PowersIs DEF RolesInv, RoleTypes
  <2>3. d \in RoleCalls /\ d.step # "write"
    BY <2>1, <2>2 DEF RoleCalls, FetchingCalls
  <2>4. Roles!Goes(i, d) /\ UNCHANGED <<server, store, powers, members, due, overtaken>>
    BY <1>1 DEF Roles!Fetch
  <2> HIDE DEF d
  <2>5. roleCalls' \in [Slots -> RoleCalls]
    BY <2>3, <2>4, GoesStep DEF RolesInv
  <2>6. ChangesHold'
    BY <2>3, <2>4, GoesStep, NothingChanges DEF RolesInv
  <2> QED
    BY <2>4, <2>5, <2>6 DEF RolesInv, RoleTypes
<1>2. CASE Roles!Deliver(i)
  <2>1. members' \in MemberLists
    BY <1>2, RoleCallIs DEF RolesInv, Roles!Deliver
  <2> QED
    BY <1>2, <2>1, IdleStep DEF Roles!Deliver, RolesInv, RoleTypes
<1>3. CASE Roles!Fail(i)
  BY <1>3, IdleStep DEF Roles!Fail, RolesInv, RoleTypes
<1> QED
  BY <1>1, <1>2, <1>3

LEMMA RolesGoOn ==
    ASSUME RolesInv, [Roles!Next]_(Roles!vars)
    PROVE  RolesInv'
<1>1. CASE UNCHANGED Roles!vars
  BY <1>1, NothingChanges DEF Roles!vars, NoneToWrite, RolesInv, RoleTypes
<1>2. CASE Roles!Sync
  BY <1>2, NothingChanges DEF Roles!Sync, NoneToWrite, RolesInv, RoleTypes
<1>3. ASSUME NEW i \in Slots,
             \/ Roles!ChangeRole(i) \/ Roles!RemoveUser(i) \/ Roles!ToggleBroadcastOnly(i)
             \/ Roles!Refresh(i) \/ Roles!Read(i) \/ Roles!Write(i) \/ Roles!Fulfilled(i)
             \/ Roles!Send(i) \/ Roles!Fetch(i) \/ Roles!Deliver(i) \/ Roles!Fail(i)
      PROVE  RolesInv'
  BY <1>3, ChangeRoleStep, ReadStep, WriteStep, FulfilledStep, RemovalStep, FetchStep
<1> QED
  BY <1>1, <1>2, <1>3, ForeignStep DEF Roles!Next

LEMMA RolesInit ==
    ASSUME Roles!Init
    PROVE  RolesInv
<1>1. server \in Contents
  BY DEF Roles!Init, Contents, Roles!Levels
<1>2. powers \in PowerLevels /\ members \in MemberLists
  BY <1>1, PowersIs DEF Roles!Init
<1>3. due = {} /\ roleCalls = [i \in Slots |-> Roles!Idle]
  BY DEF Roles!Init
<1>4. ChangesHold
  BY <1>3 DEF ChangesHold, Kept
<1> QED
  BY <1>1, <1>2, <1>3, <1>4 DEF Roles!Init, RolesInv, RoleTypes, RoleCalls

\* What holds is what the module promises.
LEMMA RolesImply == ASSUME RolesInv PROVE Roles!TypeOK /\ Roles!ChangesAreKept
  BY RolesTyped DEF RolesInv, ChangesHold, Kept, Roles!ChangesAreKept

(* However the calls about the roles and the members of a room overlap, fail and  *)
(* read what is stale, and whatever another admin does meanwhile: nobody who was  *)
(* removed is brought back by a call about something else, and a role or a        *)
(* setting is undone only by a call that had read the levels before it was        *)
(* accepted or had arrived (setRoomPowerLevels writes the whole content back).    *)
THEOREM ChangesHoldAlways == Roles!Spec => [](Roles!TypeOK /\ Roles!ChangesAreKept)
<1>1. Roles!Init => RolesInv
  BY RolesInit
<1>2. RolesInv /\ [Roles!Next]_(Roles!vars) => RolesInv'
  BY RolesGoOn
<1>3. RolesInv => Roles!TypeOK /\ Roles!ChangesAreKept
  BY RolesImply
<1> QED
  BY <1>1, <1>2, <1>3, PTL DEF Roles!Spec

\* One call at a time, of the only admin, answered from what the server has.
Undisturbed ==
    /\ \A i, j \in Slots : i = j
    /\ ~Lag /\ ~Fails /\ MaxForeign = 0

\* What redux has, p and m, is what the server has.
Current(s, p, m) == p = Roles!Powers(s) /\ m = Roles!MembersOf(s)
AnsweredTo(c, m) ==
    IF c.act = "role" THEN [m EXCEPT ![c.user].level = c.value] ELSE m
\* A call c at each of its steps, when the server has s and redux p and m.
CallFits(c, s, p, m) ==
    /\ c.step \in {"read", "write", "send"} => Current(s, p, m)
    /\ c.step \in {"read", "write"} /\ c.act = "role" => s.users[c.user] < MyLevel
    /\ c.step = "write" => c.read = Changed(Roles!Powers(s), c)
    /\ c.step = "answered" => Current(s, c.read, AnsweredTo(c, m))
    /\ c.step = "send" => /\ MyLevel >= Roles!Moderator /\ s.users[c.user] < MyLevel
                          /\ c.value = "leave" => s.membership[c.user] # "leave"
    /\ c.step \in {"fetch", "deliver"} => p = Roles!Powers(s)
    /\ c.step = "deliver" => c.read = Roles!MembersOf(s)
AloneInv ==
    /\ store = server /\ foreign = 0
    /\ due \subseteq DueChanges /\ \A c \in due : Roles!Holds(c, server)
    /\ (\A i \in Slots : roleCalls[i] = Roles!Idle) => Current(server, powers, members)
    /\ \A i \in Slots : roleCalls[i] # Roles!Idle => CallFits(roleCalls[i], server, powers, members)
    /\ MyLevel = Roles!Admin => ~ refused

LEMMA NextCall ==
    ASSUME Undisturbed, AloneInv, RolesInv, NEW i \in Slots, NEW c, Roles!Goes(i, c),
           store' = server', foreign' = 0,
           due' \subseteq DueChanges, \A e \in due' : Roles!Holds(e, server'),
           c = Roles!Idle => Current(server', powers', members'),
           c # Roles!Idle => CallFits(c, server', powers', members'),
           MyLevel = Roles!Admin => ~ refused'
    PROVE  AloneInv'
<1>1. roleCalls'[i] = c /\ \A j \in Slots : j = i
  BY DEF Roles!Goes, Undisturbed, RolesInv, RoleTypes
<1> HIDE DEF CallFits, Current, DueChanges
<1>2. \A j \in Slots :
        roleCalls'[j] # Roles!Idle => CallFits(roleCalls'[j], server', powers', members')
  BY <1>1
<1>3. (\A j \in Slots : roleCalls'[j] = Roles!Idle) => Current(server', powers', members')
  BY <1>1
<1> QED
  BY <1>2, <1>3 DEF AloneInv

LEMMA AloneStarts ==
    ASSUME Undisturbed, AloneInv, RolesInv, NEW i \in Slots, NEW c \in RoleCalls,
           Roles!Start(i, c), c # Roles!Idle,
           c.step \in {"read", "send", "fetch"},
           c.step = "read" /\ c.act = "role" => Roles!Enabled(c.user),
           c.step = "send" => Roles!Enabled(c.user) /\ Roles!Opens(c.user),
           c \in ReadingCalls \cup RemovingCalls \/ c.step = "fetch"
    PROVE  AloneInv'
<1>1. \A j \in Slots : j = i
  BY DEF Undisturbed
<1>2. Current(server, powers, members)
  BY <1>1 DEF AloneInv, Roles!Start
<1>3. ASSUME c.user \in Others, Roles!Enabled(c.user) PROVE server.users[c.user] < MyLevel
  BY <1>2, <1>3 DEF Current, Roles!MembersOf, Roles!Enabled
<1>4. ASSUME c.user \in Others, Roles!Opens(c.user)
      PROVE  MyLevel >= Roles!Moderator /\ server.membership[c.user] # "leave"
  BY <1>2, <1>4 DEF Current, Roles!MembersOf, Roles!Opens
<1>5. c.step = "read" /\ c.act = "role" => c.user \in Others
  BY DEF ReadingCalls, RemovingCalls
<1>6. c.step = "send" => c.user \in Others
  BY DEF ReadingCalls, RemovingCalls
<1>7. CallFits(c, server, powers, members)
  BY <1>2, <1>3, <1>4, <1>5, <1>6 DEF CallFits, Current
<1>8. roleCalls'[i] = c
  BY DEF Roles!Start, RolesInv, RoleTypes
<1> HIDE DEF CallFits, Current
<1> QED
  BY <1>1, <1>7, <1>8 DEF AloneInv, Roles!Start

LEMMA AloneStarting ==
    ASSUME Undisturbed, AloneInv, RolesInv, NEW i \in Slots,
           Roles!ChangeRole(i) \/ Roles!RemoveUser(i) \/ Roles!ToggleBroadcastOnly(i)
              \/ Roles!Refresh(i)
    PROVE  AloneInv'
<1>1. ASSUME NEW u \in Others, NEW level \in Roles!Levels, Roles!RoleEnabled(u, level),
             Roles!Start(i, [act |-> "role", user |-> u, value |-> level, step |-> "read"])
      PROVE  AloneInv'
  <2> DEFINE c == [act |-> "role", user |-> u, value |-> level, step |-> "read"]
  <2>1. c \in ReadingCalls /\ c \in RoleCalls /\ c # Roles!Idle
    BY DEF RoleCalls, ReadingCalls, Roles!Idle
  <2>2. Roles!Enabled(c.user) /\ c.step = "read"
    BY <1>1 DEF Roles!RoleEnabled
  <2>3. Roles!Start(i, c)
    BY <1>1
  <2> HIDE DEF c
  <2> QED
    BY <2>1, <2>2, <2>3, AloneStarts
<1>2. ASSUME NEW u \in Others, NEW how \in {"leave", "ban"}, Roles!Opens(u), Roles!Enabled(u),
             Roles!Start(i, [act |-> "member", user |-> u, value |-> how, step |-> "send"])
      PROVE  AloneInv'
  <2> DEFINE c == [act |-> "member", user |-> u, value |-> how, step |-> "send"]
  <2>1. c \in RemovingCalls /\ c \in RoleCalls /\ c # Roles!Idle
    BY DEF RoleCalls, RemovingCalls, Roles!Idle
  <2>2. Roles!Enabled(c.user) /\ Roles!Opens(c.user) /\ c.step = "send"
    BY <1>2
  <2>3. Roles!Start(i, c)
    BY <1>2
  <2> HIDE DEF c
  <2> QED
    BY <2>1, <2>2, <2>3, AloneStarts
<1>3. ASSUME NEW l \in {Roles!Member, Roles!Moderator},
             Roles!Start(i, [act |-> "default", user |-> "room", step |-> "read", value |-> l])
      PROVE  AloneInv'
  <2> DEFINE c == [act |-> "default", user |-> "room", step |-> "read", value |-> l]
  <2>1. c \in ReadingCalls /\ c \in RoleCalls /\ c # Roles!Idle
    BY DEF RoleCalls, ReadingCalls, Roles!Idle
  <2>2. c.act = "default" /\ c.step = "read"
    OBVIOUS
  <2>3. Roles!Start(i, c)
    BY <1>3
  <2> HIDE DEF c
  <2> QED
    BY <2>1, <2>2, <2>3, AloneStarts
<1>4. ASSUME Roles!Start(i, [act |-> "refresh", step |-> "fetch"])
      PROVE  AloneInv'
  <2> DEFINE c == [act |-> "refresh", step |-> "fetch"]
  <2>1. c \in RoleCalls /\ c # Roles!Idle
    BY DEF RoleCalls, FetchingCalls, Roles!Idle
  <2>2. c.act = "refresh" /\ c.step = "fetch"
    OBVIOUS
  <2>3. Roles!Start(i, c)
    BY <1>4
  <2> HIDE DEF c
  <2> QED
    BY <2>1, <2>2, <2>3, AloneStarts
<1>5. (IF powers.default >= Roles!Moderator THEN Roles!Member ELSE Roles!Moderator)
         \in {Roles!Member, Roles!Moderator}
  OBVIOUS
<1> QED
  BY <1>1, <1>2, <1>3, <1>4, <1>5
     DEF Roles!ChangeRole, Roles!RemoveUser, Roles!ToggleBroadcastOnly, Roles!Refresh

LEMMA AloneRead ==
    ASSUME Undisturbed, AloneInv, RolesInv, NEW i \in Slots, Roles!Read(i)
    PROVE  AloneInv'
<1> DEFINE old == roleCalls[i]
           c == Writing(old, Changed(Roles!Powers(server), old))
<1>1. Roles!Goes(i, c) /\ old \in ReadingCalls
  BY ReadStep DEF AloneInv
<1>2. CallFits(old, server, powers, members) /\ old.step = "read"
  BY DEF AloneInv, Roles!Read
<1>3. c # Roles!Idle
  BY DEF Writing, Roles!Idle
<1>4. Changed(Roles!Powers(server), c) = Changed(Roles!Powers(server), old)
  BY DEF Changed, Writing
<1>5. CallFits(c, server, powers, members)
  BY <1>2, <1>4 DEF CallFits, Writing
<1>6. UNCHANGED <<server, store, powers, members, due, refused, foreign>>
  BY DEF Roles!Read
<1> HIDE DEF c, CallFits, Current
<1> QED
  BY <1>1, <1>3, <1>5, <1>6, NextCall DEF AloneInv

LEMMA AloneWrite ==
    ASSUME Undisturbed, AloneInv, RolesInv, NEW i \in Slots, Roles!Write(i)
    PROVE  AloneInv'
<1> DEFINE c == roleCalls[i]
<1>1. c \in WritingCalls /\ c.step = "write"
  BY RoleCallIs DEF RolesInv, Roles!Write
<1>2. CallFits(c, server, powers, members)
  BY DEF AloneInv, Roles!Write
<1>3. /\ c.read = Changed(Roles!Powers(server), c) /\ Current(server, powers, members)
      /\ c.act = "role" => server.users[c.user] < MyLevel
  BY <1>1, <1>2 DEF CallFits
<1>4. server \in Contents /\ c.read \in PowerLevels
  BY <1>1 DEF RolesInv, RoleTypes, WritingCalls
<1>5. CASE Roles!AcceptsLevels(c.read)
  <2> DEFINE r == [users |-> c.read.users, default |-> c.read.default,
                   membership |-> server.membership]
             d == [of |-> c.act, user |-> c.user, value |-> c.value]
             n == [c EXCEPT !.step = "answered"]
  <2>1. /\ Roles!Change(r, d, {i}) /\ Roles!Goes(i, n)
        /\ UNCHANGED <<powers, members, refused, foreign>>
    BY <1>5 DEF Roles!Write
  <2>2. server' = r /\ store' = r
    BY <2>1, ChangeIs DEF AloneInv, Roles!Change, Undisturbed
  <2>3. d \in DueChanges
    BY <1>1 DEF WritingCalls, DueChanges
  <2>4. Roles!Holds(d, r)
    <3>1. CASE c.act = "role"
      <4>1. c.user \in Others
        BY <1>1, <3>1 DEF WritingCalls
      <4> QED
        BY <1>3, <1>4, <3>1, <4>1 DEF Roles!Holds, Changed, Roles!Powers, Contents
    <3>2. CASE c.act # "role"
      <4>1. c.act = "default"
        BY <1>1, <3>2 DEF WritingCalls
      <4> QED
        BY <1>3, <3>2, <4>1 DEF Roles!Holds, Changed, Roles!Powers
    <3> QED
      BY <3>1, <3>2
  <2>5. ASSUME NEW e \in due, ~ Roles!Same(e, d) PROVE Roles!Holds(e, r)
    <3>1. e \in DueChanges /\ Roles!Holds(e, server)
      BY DEF AloneInv
    <3>2. CASE c.act = "role"
      <4>1. c.user \in Others /\ (e.of = "role" => e.user \in Others /\ e.user # c.user)
        BY <1>1, <2>5, <3>1, <3>2 DEF WritingCalls, DueChanges, Roles!Same
      <4> QED
        BY <1>3, <1>4, <3>1, <3>2, <4>1 DEF Roles!Holds, Changed, Roles!Powers, Contents
    <3>3. CASE c.act # "role"
      <4>1. c.act = "default" /\ e.of # "default"
        BY <1>1, <2>5, <3>1, <3>3 DEF WritingCalls, DueChanges, Roles!Same
      <4> QED
        BY <1>3, <3>1, <3>3, <4>1 DEF Roles!Holds, Changed, Roles!Powers
    <3> QED
      BY <3>2, <3>3
  <2>6. Current(r, c.read, AnsweredTo(c, members))
    <3>1. Roles!Powers(r) = c.read
      BY <1>4 DEF Roles!Powers, PowerLevels
    <3>2. Roles!MembersOf(r) = AnsweredTo(c, members)
      <4>1. CASE c.act = "role"
        <5>1. c.user \in Others
          BY <1>1, <4>1 DEF WritingCalls
        <5>2. r.users = [server.users EXCEPT ![c.user] = c.value]
          BY <1>3, <4>1 DEF Changed, Roles!Powers
        <5>3. members = Roles!MembersOf(server)
          BY <1>3 DEF Current
        <5> QED
          BY <1>4, <4>1, <5>1, <5>2, <5>3 DEF AnsweredTo, Roles!MembersOf, Contents
      <4>2. CASE c.act # "role"
        BY <1>3, <4>2 DEF AnsweredTo, Roles!MembersOf, Changed, Roles!Powers, Current
      <4> QED
        BY <4>1, <4>2
    <3> QED
      BY <3>1, <3>2 DEF Current
  <2>7. n # Roles!Idle /\ n.step = "answered" /\ n.read = c.read
          /\ AnsweredTo(n, members) = AnsweredTo(c, members)
    BY <1>1 DEF WritingCalls, Roles!Idle, AnsweredTo
  <2>8. CallFits(n, r, powers, members)
    BY <2>6, <2>7 DEF CallFits
  <2> HIDE DEF r, d, n, c, CallFits, Current
  <2>9. due' \subseteq DueChanges /\ \A e \in due' : Roles!Holds(e, r)
    <3>1. \A e \in due' : e = d \/ (e \in due /\ ~ Roles!Same(e, d))
      BY <2>1, ChangeIs
    <3> QED
      BY <2>3, <2>4, <2>5, <3>1 DEF AloneInv
  <2> QED
    BY <2>1, <2>2, <2>7, <2>8, <2>9, NextCall DEF AloneInv
<1>6. CASE ~ Roles!AcceptsLevels(c.read)
  <2>1. /\ Roles!Goes(i, Roles!Idle) /\ refused'
        /\ UNCHANGED <<server, store, due, powers, members, foreign>>
    BY <1>6 DEF Roles!Write
  <2>2. MyLevel # Roles!Admin
    <3>1. ASSUME NEW u \in Others, c.read.users[u] # server.users[u]
          PROVE  c.act = "role" /\ u = c.user
      BY <1>3, <1>4, <3>1 DEF Changed, Roles!Powers, Contents
    <3> QED
      BY <1>3, <1>6, <3>1 DEF Roles!AcceptsLevels
  <2> HIDE DEF c, CallFits, Current
  <2> QED
    BY <1>3, <2>1, <2>2, NextCall DEF AloneInv
<1> QED
  BY <1>5, <1>6

LEMMA AloneFulfilled ==
    ASSUME Undisturbed, AloneInv, RolesInv, NEW i \in Slots, Roles!Fulfilled(i)
    PROVE  AloneInv'
<1>1. CallFits(roleCalls[i], server, powers, members) /\ roleCalls[i].step = "answered"
  BY DEF AloneInv, Roles!Fulfilled
<1>2. Current(server, powers', members')
  BY <1>1 DEF CallFits, AnsweredTo, Roles!Fulfilled
<1>3. UNCHANGED <<server, store, due, refused, foreign>> /\ Roles!Goes(i, Roles!Idle)
  BY DEF Roles!Fulfilled
<1> HIDE DEF CallFits, Current
<1> QED
  BY <1>2, <1>3, NextCall DEF AloneInv

LEMMA AloneSend ==
    ASSUME Undisturbed, AloneInv, RolesInv, NEW i \in Slots, Roles!Send(i)
    PROVE  AloneInv'
<1> DEFINE c == roleCalls[i]
<1>1. c \in RemovingCalls /\ c.step = "send"
  BY RoleCallIs DEF RolesInv, Roles!Send
<1>2. CallFits(c, server, powers, members)
  BY DEF AloneInv, Roles!Send
<1>3. c.act = "member" /\ c.user \in Others /\ c.value \in {"leave", "ban"}
  BY <1>1 DEF RemovingCalls
<1>4. /\ Roles!AcceptsRemoval(c.user, c.value)
      /\ Current(server, powers, members)
  BY <1>1, <1>2 DEF CallFits, Roles!AcceptsRemoval
<1> DEFINE r == [server EXCEPT !.membership[c.user] = c.value]
           d == [of |-> c.act, user |-> c.user, value |-> c.value]
           n == [c EXCEPT !.step = "fetch"]
<1>5. /\ Roles!Change(r, d, {i}) /\ Roles!Goes(i, n)
      /\ UNCHANGED <<powers, members, refused, foreign>>
  BY <1>4 DEF Roles!Send
<1>6. server' = r /\ store' = r
  BY <1>5 DEF Roles!Change, Undisturbed
<1>7. d \in DueChanges
  BY <1>3 DEF DueChanges
<1>8. /\ r.users = server.users /\ r.default = server.default
      /\ r.membership = [server.membership EXCEPT ![c.user] = c.value]
      /\ server.membership \in [Others -> {"join", "leave", "ban"}]
  BY DEF RolesInv, RoleTypes, Contents
<1>9. Roles!Holds(d, r)
  BY <1>3, <1>8 DEF Roles!Holds
<1>10. ASSUME NEW e \in due, ~ Roles!Same(e, d) PROVE Roles!Holds(e, r)
  <2>1. e \in DueChanges /\ Roles!Holds(e, server)
    BY DEF AloneInv
  <2>2. e.of = "member" => e.user \in Others /\ e.user # c.user
    BY <1>3, <1>10, <2>1 DEF DueChanges, Roles!Same
  <2> QED
    BY <1>8, <2>1, <2>2 DEF Roles!Holds
<1>11. n # Roles!Idle /\ n.step = "fetch"
  BY <1>1 DEF RemovingCalls, Roles!Idle
<1>12. CallFits(n, r, powers, members)
  <2>1. powers = Roles!Powers(r)
    BY <1>4, <1>8 DEF Roles!Powers, Current
  <2> QED
    BY <1>11, <2>1 DEF CallFits
<1> HIDE DEF r, d, n, c, CallFits, Current
<1>13. due' \subseteq DueChanges /\ \A e \in due' : Roles!Holds(e, r)
  <2>1. \A e \in due' : e = d \/ (e \in due /\ ~ Roles!Same(e, d))
    BY <1>5, ChangeIs
  <2> QED
    BY <1>7, <1>9, <1>10, <2>1 DEF AloneInv
<1> QED
  BY <1>5, <1>6, <1>11, <1>12, <1>13, NextCall DEF AloneInv

LEMMA AloneFetch ==
    ASSUME Undisturbed, AloneInv, RolesInv, NEW i \in Slots,
           Roles!Fetch(i) \/ Roles!Deliver(i)
    PROVE  AloneInv'
<1>1. CASE Roles!Fetch(i)
  <2> DEFINE d == [act |-> roleCalls[i].act, step |-> "deliver",
                   read |-> Roles!MembersOf(store)]
  <2>1. CallFits(roleCalls[i], server, powers, members) /\ roleCalls[i].step = "fetch"
    BY <1>1 DEF AloneInv, Roles!Fetch
  <2>2. /\ Roles!Goes(i, d)
        /\ UNCHANGED <<server, store, due, refused, powers, members, foreign>>
    BY <1>1 DEF Roles!Fetch
  <2>3. d # Roles!Idle /\ CallFits(d, server, powers, members)
    BY <2>1 DEF CallFits, Roles!Idle, AloneInv
  <2> HIDE DEF d, CallFits, Current
  <2> QED
    BY <2>2, <2>3, NextCall DEF AloneInv
<1>2. CASE Roles!Deliver(i)
  <2>1. CallFits(roleCalls[i], server, powers, members) /\ roleCalls[i].step = "deliver"
    BY <1>2 DEF AloneInv, Roles!Deliver
  <2>2. /\ Roles!Goes(i, Roles!Idle) /\ members' = roleCalls[i].read
        /\ UNCHANGED <<server, store, due, refused, powers, foreign>>
    BY <1>2 DEF Roles!Deliver
  <2>3. Current(server, powers', members')
    BY <2>1, <2>2 DEF CallFits, Current
  <2> HIDE DEF CallFits, Current
  <2> QED
    BY <2>2, <2>3, NextCall DEF AloneInv
<1> QED
  BY <1>1, <1>2

LEMMA AloneInit ==
    ASSUME Roles!Init PROVE AloneInv
  BY RolesInit DEF Roles!Init, AloneInv, Current, Roles!Powers, Roles!MembersOf

LEMMA AloneStep ==
    ASSUME Undisturbed, AloneInv, RolesInv, [Roles!Next]_(Roles!vars)
    PROVE  AloneInv'
<1>1. CASE UNCHANGED Roles!vars
  BY <1>1 DEF Roles!vars, AloneInv
<1>2. CASE Roles!Sync
  BY <1>2 DEF Roles!Sync, AloneInv
<1>3. CASE Roles!Foreign
  BY <1>3 DEF Roles!Foreign, AloneInv, Undisturbed
<1>4. ASSUME NEW i \in Slots,
             \/ Roles!ChangeRole(i) \/ Roles!RemoveUser(i) \/ Roles!ToggleBroadcastOnly(i)
             \/ Roles!Refresh(i) \/ Roles!Read(i) \/ Roles!Write(i) \/ Roles!Fulfilled(i)
             \/ Roles!Send(i) \/ Roles!Fetch(i) \/ Roles!Deliver(i) \/ Roles!Fail(i)
      PROVE  AloneInv'
  <2>1. CASE Roles!Fail(i)
    BY <2>1 DEF Roles!Fail, Undisturbed
  <2> QED
    BY <1>4, <2>1, AloneStarting, AloneRead, AloneWrite, AloneFulfilled, AloneSend, AloneFetch
<1> QED
  BY <1>1, <1>2, <1>3, <1>4 DEF Roles!Next

AllChangesHold ==
    /\ Roles!EveryChangeIsKept /\ Roles!ShownIsCurrent /\ Roles!RemovedIsGone
    /\ MyLevel = Roles!Admin => Roles!OfferedIsAccepted

LEMMA AloneImplies ==
    ASSUME AloneInv
    PROVE  AllChangesHold
<1>1. Roles!EveryChangeIsKept
  BY DEF AloneInv, Roles!EveryChangeIsKept
<1>2. Roles!ShownIsCurrent
  BY DEF AloneInv, Current, Roles!ShownIsCurrent, Roles!Quiet
<1>3. Roles!RemovedIsGone
  <2> SUFFICES ASSUME NEW u \in Others, Roles!Quiet,
                      [of |-> "member", user |-> u, value |-> "leave"] \in due
               PROVE  members[u].membership # "join"
    BY DEF Roles!RemovedIsGone
  <2>1. server.membership[u] = "leave"
    BY DEF AloneInv, Roles!Holds
  <2>2. members = Roles!MembersOf(server)
    BY DEF AloneInv, Current, Roles!Quiet
  <2> QED
    BY <2>1, <2>2 DEF Roles!MembersOf
<1> QED
  BY <1>1, <1>2, <1>3 DEF AllChangesHold, AloneInv, Roles!OfferedIsAccepted

(* While the changes of the only admin are made one after the other and reads are *)
(* answered as the server would: every change that was accepted stays, redux shows *)
(* the room as it is when nothing is in flight, who was removed is not shown any   *)
(* more, and an admin is offered nothing the server refuses (getRoleDisabled).     *)
THEOREM ChangesHoldOneByOne == Undisturbed /\ Roles!Spec => []AllChangesHold
<1> SUFFICES ASSUME Undisturbed PROVE Roles!Spec => []AllChangesHold
  OBVIOUS
<1>1. Roles!Init => RolesInv /\ AloneInv
  BY RolesInit, AloneInit
<1>2. (RolesInv /\ AloneInv) /\ [Roles!Next]_(Roles!vars) => (RolesInv /\ AloneInv)'
  BY RolesGoOn, AloneStep
<1>3. RolesInv /\ AloneInv => AllChangesHold
  BY AloneImplies
<1> QED
  BY <1>1, <1>2, <1>3, PTL DEF Roles!Spec

-----------------------------------------------------------------------------
(* The rooms in the list of chats: MatrixRooms. *)

\* A look at the default groups is for federations that have been joined, and what it
\* finds stays their default groups, since no federation is left meanwhile.
RoomsTyped ==
    /\ sdk \in [ChatRooms -> Previews!RoomStates] /\ info \in [ChatRooms -> Previews!RoomStates]
    /\ news \subseteq ChatRooms /\ entering \subseteq ChatRooms /\ leaving \subseteq ChatRooms
JoinsTyped ==
    /\ joins \in [ChatRooms -> 0 .. MaxCalls]
    /\ \A r \in ChatRooms : joins[r] > 0 => sdk[r] # "None"
PreviewsTyped ==
    /\ federations \subseteq Federations /\ runs \subseteq SUBSET federations
    /\ looking \subseteq PublicRooms
    /\ defaults \subseteq previews /\ previews \subseteq PublicRooms
    /\ defaults \subseteq Previews!DefaultGroups(federations)
RoomsInv == RoomsTyped /\ JoinsTyped /\ PreviewsTyped

LEMMA RoomsStart ==
    ASSUME Previews!RoomAssumption, Previews!Init
    PROVE  RoomsInv
  BY DEF Previews!Init, Previews!RoomAssumption, RoomsInv, RoomsTyped, JoinsTyped,
     PreviewsTyped, Previews!RoomStates

LEMMA BecomesTyped ==
    ASSUME RoomsInv, NEW r \in ChatRooms, NEW s \in Previews!RoomStates \ {"None"},
           Previews!Becomes(r, s), joins' = joins
    PROVE  /\ sdk' \in [ChatRooms -> Previews!RoomStates] /\ news' \subseteq ChatRooms
           /\ JoinsTyped'
<1>1. sdk' = [sdk EXCEPT ![r] = s] /\ news' = news \cup {r}
  BY DEF Previews!Becomes
<1>2. /\ sdk' \in [ChatRooms -> Previews!RoomStates]
      /\ \A q \in ChatRooms : sdk'[q] = sdk[q] \/ sdk'[q] # "None"
  BY <1>1 DEF RoomsInv, RoomsTyped
<1> QED
  BY <1>1, <1>2 DEF RoomsInv, RoomsTyped, JoinsTyped

LEMMA EnterTyped ==
    ASSUME RoomsInv, NEW r \in ChatRooms, Previews!Enter(r)
    PROVE  /\ sdk' \in [ChatRooms -> Previews!RoomStates] /\ news' \subseteq ChatRooms
           /\ \A q \in ChatRooms : sdk[q] # "None" => sdk'[q] # "None"
<1>1. CASE Previews!Becomes(r, "Joined")
  BY <1>1 DEF Previews!Becomes, Previews!RoomStates, RoomsInv, RoomsTyped
<1>2. CASE UNCHANGED <<sdk, news>>
  BY <1>2 DEF RoomsInv, RoomsTyped
<1> QED
  BY <1>1, <1>2 DEF Previews!Enter

\* A call less, or one more where there is room for it.
LEMMA AnsweredTyped ==
    ASSUME Previews!RoomAssumption, RoomsInv, NEW r \in ChatRooms, joins[r] > 0,
           Previews!Answered(r)
    PROVE  /\ joins' \in [ChatRooms -> 0 .. MaxCalls]
           /\ \A q \in ChatRooms : joins'[q] > 0 => joins[q] > 0
<1>1. joins' = [joins EXCEPT ![r] = @ - 1] /\ joins \in [ChatRooms -> 0 .. MaxCalls]
  BY DEF Previews!Answered, RoomsInv, JoinsTyped
<1>2. joins[r] - 1 \in 0 .. MaxCalls
  BY <1>1 DEF Previews!RoomAssumption
<1> QED
  BY <1>1, <1>2

\* What a member, the server or a call of the bridge does to a room.
LEMMA RoomStep ==
    ASSUME Previews!RoomAssumption, RoomsInv, NEW r \in ChatRooms,
           \/ Previews!Invited(r) \/ Previews!Renamed(r) \/ Previews!Kicked(r)
           \/ Previews!RoomInfo(r) \/ Previews!Join(r) \/ Previews!JoinFails(r)
           \/ Previews!JoinPublicGroup(r) \/ Previews!JoinPublic(r)
           \/ Previews!LeaveChat(r) \/ Previews!Leave(r)
    PROVE  RoomsTyped' /\ JoinsTyped' /\ UNCHANGED Previews!previewVars
<1> USE DEF Previews!previewVars
<1>a. RoomsTyped /\ JoinsTyped
  BY DEF RoomsInv
<1>b. {"Invited", "Joined", "Left"} \subseteq Previews!RoomStates \ {"None"}
  BY DEF Previews!RoomStates
<1>1. CASE Previews!Invited(r)
  BY <1>a, <1>b, <1>1, BecomesTyped DEF Previews!Invited, RoomsTyped
<1>2. CASE Previews!Renamed(r)
  BY <1>a, <1>2 DEF Previews!Renamed, RoomsTyped, JoinsTyped
<1>3. CASE Previews!Kicked(r)
  BY <1>a, <1>b, <1>3, BecomesTyped DEF Previews!Kicked, RoomsTyped
<1>4. CASE Previews!RoomInfo(r)
  <2>1. PICK s \in Previews!InList(sdk[r]) : info' = [info EXCEPT ![r] = s]
    BY <1>4 DEF Previews!RoomInfo
  <2>2. s \in Previews!RoomStates
    BY <1>a, <2>1 DEF Previews!InList, Previews!RoomStates, RoomsTyped
  <2>3. /\ joins' = [joins EXCEPT ![r] = IF Previews!Joining(r) THEN @ + 1 ELSE @]
        /\ sdk' = sdk /\ news' = news \ {r} /\ entering' = entering /\ leaving' = leaving
        /\ UNCHANGED Previews!previewVars
    BY <1>4 DEF Previews!RoomInfo
  <2>4. Previews!Joining(r) => joins[r] + 1 \in 0 .. MaxCalls /\ sdk[r] # "None"
    BY <1>a DEF Previews!Joining, JoinsTyped, Previews!RoomAssumption
  <2>5. RoomsTyped'
    BY <1>a, <2>1, <2>2, <2>3 DEF RoomsTyped
  <2>6. JoinsTyped'
    BY <1>a, <2>3, <2>4 DEF JoinsTyped
  <2> QED
    BY <2>3, <2>5, <2>6
<1>5. CASE Previews!Join(r)
  <2>1. /\ joins[r] > 0 /\ Previews!Answered(r) /\ Previews!Enter(r)
        /\ info' = info /\ entering' = entering /\ leaving' = leaving
        /\ UNCHANGED Previews!previewVars
    BY <1>5 DEF Previews!Join
  <2> QED
    BY <1>a, <2>1, AnsweredTyped, EnterTyped DEF RoomsTyped, JoinsTyped
<1>6. CASE Previews!JoinFails(r)
  <2>1. /\ joins[r] > 0 /\ Previews!Answered(r)
        /\ UNCHANGED <<sdk, info, news, entering, leaving>> /\ UNCHANGED Previews!previewVars
    BY <1>6 DEF Previews!JoinFails
  <2> QED
    BY <1>a, <2>1, AnsweredTyped DEF RoomsTyped, JoinsTyped
<1>7. CASE Previews!JoinPublicGroup(r) \/ Previews!LeaveChat(r)
  BY <1>a, <1>7 DEF Previews!JoinPublicGroup, Previews!LeaveChat, RoomsTyped, JoinsTyped
<1>8. CASE Previews!JoinPublic(r)
  <2>1. /\ entering' \subseteq entering /\ info' = info /\ joins' = joins /\ leaving' = leaving
        /\ Previews!Enter(r) \/ UNCHANGED <<sdk, news>>
        /\ UNCHANGED Previews!previewVars
    BY <1>8 DEF Previews!JoinPublic
  <2> QED
    BY <1>a, <2>1, EnterTyped DEF RoomsTyped, JoinsTyped
<1>9. CASE Previews!Leave(r)
  <2>1. /\ leaving' \subseteq leaving /\ info' = info /\ joins' = joins /\ entering' = entering
        /\ Previews!Becomes(r, "Left") \/ UNCHANGED <<sdk, news>>
        /\ UNCHANGED Previews!previewVars
    BY <1>9 DEF Previews!Leave
  <2> QED
    BY <1>a, <1>b, <2>1, BecomesTyped DEF RoomsTyped, JoinsTyped
<1> QED
  BY <1>1, <1>2, <1>3, <1>4, <1>5, <1>6, <1>7, <1>8, <1>9

LEMMA PreviewStep ==
    ASSUME Previews!RoomAssumption, RoomsInv,
           \/ \E r \in ChatRooms : Previews!OpenLink(r) \/ Previews!GotPreview(r)
           \/ Previews!Preview
           \/ \E f \in Federations : Previews!JoinFederation(f)
           \/ \E fs \in SUBSET Federations : Previews!Previewed(fs)
    PROVE  PreviewsTyped' /\ UNCHANGED Previews!roomVars
<1> USE DEF RoomsInv, PreviewsTyped
<1>1. ASSUME NEW r \in ChatRooms, Previews!OpenLink(r)
      PROVE  PreviewsTyped' /\ UNCHANGED Previews!roomVars
  BY <1>1 DEF Previews!OpenLink, Previews!DefaultGroups
<1>2. ASSUME NEW r \in ChatRooms, Previews!GotPreview(r)
      PROVE  PreviewsTyped' /\ UNCHANGED Previews!roomVars
  BY <1>2 DEF Previews!GotPreview, Previews!Merged, Previews!DefaultGroups
<1>3. CASE Previews!Preview
  BY <1>3 DEF Previews!Preview, Previews!StartRun, Previews!DefaultGroups
<1>4. ASSUME NEW f \in Federations, Previews!JoinFederation(f)
      PROVE  PreviewsTyped' /\ UNCHANGED Previews!roomVars
  BY <1>4 DEF Previews!JoinFederation, Previews!StartRun, Previews!DefaultGroups
<1>5. ASSUME NEW fs \in SUBSET Federations, Previews!Previewed(fs)
      PROVE  PreviewsTyped' /\ UNCHANGED Previews!roomVars
  <2>1. PICK fetched \in SUBSET Previews!DefaultGroups(fs) : Previews!Replaced(fetched)
    BY <1>5 DEF Previews!Previewed
  <2>2. fs \in runs /\ runs' = runs \ {fs} /\ UNCHANGED Previews!roomVars
        /\ UNCHANGED <<federations, looking>>
    BY <1>5 DEF Previews!Previewed
  <2>3. Previews!DefaultGroups(fs) \subseteq Previews!DefaultGroups(federations)
    BY <2>2 DEF Previews!DefaultGroups
  <2>4. Previews!DefaultGroups(federations) \subseteq PublicRooms
    BY DEF Previews!DefaultGroups, Previews!RoomAssumption
  <2>5. Previews!DefaultGroups(federations)' = Previews!DefaultGroups(federations)
    BY <2>2 DEF Previews!DefaultGroups
  <2>6. fetched \subseteq Previews!DefaultGroups(federations) /\ fetched \subseteq PublicRooms
    BY <2>1, <2>3, <2>4
  <2> QED
    BY <2>1, <2>2, <2>5, <2>6 DEF Previews!Replaced
<1> QED
  BY <1>1, <1>2, <1>3, <1>4, <1>5

LEMMA RoomsGoOn ==
    ASSUME Previews!RoomAssumption, RoomsInv, [Previews!Next]_(Previews!vars)
    PROVE  RoomsInv'
<1> USE DEF Previews!roomVars, Previews!previewVars
<1>1. CASE UNCHANGED Previews!vars
  BY <1>1 DEF Previews!vars, RoomsInv, RoomsTyped, JoinsTyped, PreviewsTyped,
     Previews!DefaultGroups
<1>2. CASE RoomsTyped' /\ JoinsTyped' /\ UNCHANGED Previews!previewVars
  BY <1>2 DEF RoomsInv, PreviewsTyped, Previews!DefaultGroups
<1>3. CASE PreviewsTyped' /\ UNCHANGED Previews!roomVars
  BY <1>3 DEF RoomsInv, RoomsTyped, JoinsTyped
<1> QED
  BY <1>1, <1>2, <1>3, RoomStep, PreviewStep DEF Previews!Next

LEMMA RoomsAreSound ==
    RoomsInv => Previews!TypeOK /\ Previews!OnlyDefaultsPreviewed
  BY DEF RoomsInv, RoomsTyped, JoinsTyped, PreviewsTyped, Previews!TypeOK,
     Previews!OnlyDefaultsPreviewed

-----------------------------------------------------------------------------
(* The chat as it is checked: MCChat. *)

\* The systems run one at a time, and one that does not run does not change.
LEMMA ChatRunsAlone ==
    ASSUME [ChatNext]_all
    PROVE  /\ which' = which
           /\ which = "room" => [Room!Next]_(Room!vars)
           /\ which = "previews" => [Previews!Next]_(Previews!vars)
           /\ which = "roles" => [Roles!Next]_(Roles!vars)
<1> USE DEF observersVars, roomsVars, rolesVars, Room!vars, Room!bridgeVars,
            Room!clientVars, Previews!vars, Roles!vars
<1>1. CASE UNCHANGED all
  BY <1>1 DEF all
<1>2. CASE ObserversStep
  BY <1>2 DEF ObserversStep
<1>3. CASE RoomsStep
  BY <1>3 DEF RoomsStep
<1>4. CASE PaymentsStep
  BY <1>4 DEF PaymentsStep
<1>5. CASE RolesStep
  BY <1>5 DEF RolesStep
<1> QED
  BY <1>1, <1>2, <1>3, <1>4, <1>5 DEF ChatNext

LEMMA ObserversAreTyped == ObserversAssumption
  BY ConstantsAssumption DEF ObserversAssumption

LEMMA ObserverHolds ==
    ChatSpec => [](which = "room" /\ OneAtATime => ObserverInv)
<1> DEFINE Sound == which = "room" /\ OneAtATime => ObserverInv
<1>1. ChatInit => Sound
  BY ObserverStarts, ObserversAreTyped DEF ChatInit
<1>2. Sound /\ [ChatNext]_all => Sound'
  BY ChatRunsAlone, ObserverGoesOn, ObserversAreTyped
<1> QED
  BY <1>1, <1>2, PTL DEF ChatSpec

\* Whatever is observed, left and fetched again, an observer holds what the bridge held:
\* no value that never was, the current one when nothing is under way, through one
\* observable and one handler (MatrixChatClient, observable.rs).
THEOREM ObserversAlwaysAgree == ChatSpec => []ObserversAgree
<1>1. ChatSpec => [](which = "room" => Room!TypeOK)
  <2> DEFINE Sound == which = "room" => Room!TypeOK
  <2>1. ChatInit => Sound
    BY ObserverStarts, ObserversAreTyped DEF ChatInit, ObserverInv
  <2>2. Sound /\ [ChatNext]_all => Sound'
    BY ChatRunsAlone, ObserversTyped, ObserversAreTyped
  <2> QED
    BY <2>1, <2>2, PTL DEF ChatSpec
<1>2. /\ which = "room" => Room!TypeOK
      /\ which = "room" /\ OneAtATime => ObserverInv
      => ObserversAgree
  BY QuietIsCurrent
     DEF ObserversAgree, NeverGarbled, QuietViewIsCurrent, NoLeakedObservable, ObservedOnce
<1> QED
  BY <1>1, <1>2, ObserverHolds, PTL

\* An observed value moves forward only, and through versions that the bridge had
\* (applyObservableUpdates).
THEOREM ViewIsAlwaysMirror == ChatSpec => ViewIsMirror
<1>1. ChatInit => Room!MirrorOfTruth!Init
  BY DEF ChatInit, Room!Init, Room!Missing, Room!MirrorOfTruth!Init
<1> DEFINE Sound == which = "room" /\ OneAtATime => ObserverInv
<1>2. Sound /\ Sound' /\ [ChatNext]_all
      => [which = "room" /\ OneAtATime => Room!MirrorOfTruth!Next]_<<truth, view>>
  <2> SUFFICES ASSUME Sound, Sound', [ChatNext]_all, which = "room", OneAtATime
               PROVE  Room!MirrorOfTruth!Next \/ UNCHANGED <<truth, view>>
    OBVIOUS
  <2>1. ObserverInv /\ ObserverInv' /\ [Room!Next]_(Room!vars)
    BY ChatRunsAlone
  <2>2. [Copy!Next]_(Copy!vars)
    BY <2>1, CopyStep, ObserversAreTyped
  <2> QED
    BY <2>2 DEF Copy!Next, Copy!vars, Copy!Change, Copy!CatchUp, Room!MirrorOfTruth!Next,
       Room!MirrorOfTruth!Change, Room!MirrorOfTruth!CatchUp
<1> QED
  BY <1>1, <1>2, ObserverHolds, PTL DEF ChatSpec, ViewIsMirror

\* A group opened from a link is never listed as joined, whatever previews are fetched;
\* and however calls about roles and members overlap, fail and read what is stale, nobody
\* who was removed is brought back by a call about something else, and a role or a setting
\* is undone only by a call that had not read it (selectMatrixChatsList,
\* setRoomPowerLevels).
THEOREM RoomsAreAlwaysAsShown == ChatSpec => []RoomsAreAsShown
<1>1. ChatSpec => [](which = "previews" => RoomsInv)
  <2> DEFINE Sound == which = "previews" => RoomsInv
  <2>1. ChatInit => Sound
    BY RoomsStart, ConstantsAssumption DEF ChatInit
  <2>2. Sound /\ [ChatNext]_all => Sound'
    BY ChatRunsAlone, RoomsGoOn, ConstantsAssumption
  <2> QED
    BY <2>1, <2>2, PTL DEF ChatSpec
<1>2. ChatSpec => [](which = "roles" => RolesInv)
  <2> DEFINE Sound == which = "roles" => RolesInv
  <2>1. ChatInit => Sound
    BY RolesInit DEF ChatInit
  <2>2. Sound /\ [ChatNext]_all => Sound'
    BY ChatRunsAlone, RolesGoOn
  <2> QED
    BY <2>1, <2>2, PTL DEF ChatSpec
<1>3. /\ which = "previews" => RoomsInv
      /\ which = "roles" => RolesInv
      => RoomsAreAsShown
  BY RolesImply, RoomsAreSound DEF RoomsAreAsShown, OnlyDefaultsPreviewed, ChangesAreKept
<1> QED
  BY <1>1, <1>2, <1>3, PTL
=============================================================================
