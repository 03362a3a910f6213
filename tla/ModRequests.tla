----------------------------- MODULE ModRequests -----------------------------
(***************************************************************************)
(* The browser of a mod (FediModBrowser): the mod's page calls WebLN and   *)
(* Nostr functions, or the user follows a link to a payment; an overlay    *)
(* asks the user, does what was accepted and answers the call.             *)
(*                                                                         *)
(* There is one overlay for each kind of request, and one pair of          *)
(* references (overlayResolveRef, overlayRejectRef) to the promise of the  *)
(* call that came last.                                                    *)
(***************************************************************************)
EXTENDS Naturals

CONSTANTS
    Invoices,       \* calls that ask for an invoice
    Payments,       \* calls that ask for a payment
    Signatures,     \* calls that ask for a signature of a Nostr event
    Links,          \* links to a payment, which nothing waits for
    Overlaps,       \* BOOLEAN: a call is made while another one is not answered
    DismissesBusy,  \* BOOLEAN: the user presses beside an overlay that is loading
    MaxOutages      \* bound: times the gateways become unreachable

Calls == Invoices \cup Payments \cup Signatures
Requests == Calls \cup Links
Kinds == {"invoice", "payment", "signature"}
KindOf(r) == CASE r \in Invoices -> "invoice"
               [] r \in Signatures -> "signature"
               [] OTHER -> "payment"

None == "none"

\* No request is of two kinds, or one of the other answers.
ModRequestsAssumption ==
    /\ Invoices \cap Payments = {} /\ Signatures \cap (Invoices \cup Payments) = {}
    /\ Links \cap Calls = {} /\ {None, "refused", "rejected"} \cap Requests = {}
    /\ {Overlaps, DismissesBusy} \subseteq BOOLEAN /\ MaxOutages \in Nat

VARIABLES
    at,         \* each request: "new", "asking" for a gateway, "shown" (or was)
    answer,     \* each call's answer: none, "refused", "rejected", or the
                \* request whose result it was given
    ref,        \* the call whose promise the two references hold, or none
    shown,      \* each overlay's request, or none
    form,       \* the request whose amount is in the overlay's form
    loading,    \* each overlay: isLoading
    tasks,      \* accepted and not done: requests with the form they took
    done,       \* how often each request was done, and with which forms
    gateway,    \* the cached promise: none, "some" or "failed"
    reachable, outages

vars == <<at, answer, ref, shown, form, loading, tasks, done, gateway, reachable, outages>>
screen == <<shown, form, loading>>
network == <<gateway, reachable, outages>>

TypeOK ==
    /\ at \in [Requests -> {"new", "asking", "shown"}]
    /\ answer \in [Calls -> {None, "refused", "rejected"} \cup Requests]
    /\ ref \in Calls \cup {None}
    /\ shown \in [Kinds -> Requests \cup {None}]
    /\ \A k \in Kinds : shown[k] # None => KindOf(shown[k]) = k /\ at[shown[k]] = "shown"
    /\ form \in [Kinds -> Requests \cup {None}] /\ loading \in [Kinds -> BOOLEAN]
    /\ tasks \subseteq [req : Requests, form : Requests]
    /\ done \in [Requests -> [times : Nat, forms : SUBSET Requests]]
    /\ gateway \in {None, "some", "failed"}
    /\ reachable \in BOOLEAN /\ outages \in 0 .. MaxOutages

Init ==
    /\ at = [r \in Requests |-> "new"] /\ answer = [c \in Calls |-> None]
    /\ ref = None
    /\ shown = [k \in Kinds |-> None] /\ form = shown
    /\ loading = [k \in Kinds |-> FALSE] /\ tasks = {}
    /\ done = [r \in Requests |-> [times |-> 0, forms |-> {}]]
    /\ gateway = None /\ reachable \in BOOLEAN /\ outages = 0

Quiet == /\ \A r \in Requests : at[r] # "asking"
         /\ shown = [k \in Kinds |-> None]
Waiting == {c \in Calls : at[c] # "new" /\ answer[c] = None}

\* Mutant: an answer is given to every call that waits.
SettledAll(a) == answer' = [c \in Calls |-> IF at[c] # "new" THEN a ELSE answer[c]]

\* The two references are never taken back: a promise that was settled before
\* stays as it is.
Settled(a) ==
    answer' = IF ref # None /\ answer[ref] = None THEN [answer EXCEPT ![ref] = a]
                                                  ELSE answer
ResetOverlay == shown' = [k \in Kinds |-> None]

-----------------------------------------------------------------------------
\* onMessage, up to its first await; onShouldStartLoadWithRequest for a link.
Call(r) ==
    /\ at[r] = "new"
    /\ (Overlaps \/ (Waiting = {} /\ Quiet))
    /\ at' = [at EXCEPT ![r] = "asking"]
    /\ UNCHANGED <<answer, ref, screen, tasks, done, network>>

\* getActiveGatewayOrThrow: the first answer of listGateways is kept, whatever it is.
NeedsGateway(r) == r \in Invoices \cup Payments
Gateway(r) == IF ~NeedsGateway(r) \/ gateway # None THEN gateway
              ELSE IF reachable THEN "some" ELSE "failed"

Refuse(r) ==
    /\ at[r] = "asking" /\ NeedsGateway(r)
    /\ gateway' = Gateway(r) /\ gateway' = "failed"
    /\ at' = [at EXCEPT ![r] = "shown"] /\ answer' = [answer EXCEPT ![r] = "refused"]
    /\ UNCHANGED <<ref, screen, tasks, done, reachable, outages>>

\* The effect that resets the form runs when isShowing has changed; that of
\* MakeInvoiceOverlay resets isLoading as well.
Shown(r) ==
    LET k == KindOf(r)
        appears == shown[k] = None
    IN  /\ shown' = [shown EXCEPT ![k] = r]
        /\ form' = [form EXCEPT ![k] = IF appears \/ k = "signature" THEN r ELSE @]
        /\ loading' = [loading EXCEPT ![k] = @ /\ ~(appears /\ k = "invoice")]

Show(r) ==
    /\ at[r] = "asking" /\ at' = [at EXCEPT ![r] = "shown"]
    /\ gateway' = Gateway(r)
    /\ (NeedsGateway(r) => gateway' = "some")
    /\ ref' = IF r \in Calls THEN r ELSE ref
    /\ Shown(r)
    /\ UNCHANGED <<answer, tasks, done, reachable, outages>>

-----------------------------------------------------------------------------

\* handleAccept of an overlay, up to its first await.
Accept(k) ==
    /\ shown[k] # None /\ ~loading[k]
    /\ tasks' = tasks \cup {[req |-> shown[k], form |-> form[k]]}
    /\ loading' = [loading EXCEPT ![k] = TRUE]
    /\ UNCHANGED <<at, answer, ref, shown, form, done, network>>

\* MakeInvoiceOverlay leaves isLoading set.
StopLoading(k) == loading' = [loading EXCEPT ![k] = k = "invoice"]

\* What was accepted is done; onAccept.
Finish(t) ==
    /\ t \in tasks /\ tasks' = tasks \ {t}
    /\ done' = [done EXCEPT ![t.req] = [times |-> @.times + 1,
                                        forms |-> @.forms \cup {t.form}]]
    /\ Settled(t.req) /\ ResetOverlay /\ StopLoading(KindOf(t.req))
    /\ UNCHANGED <<at, ref, form, network>>

\* It fails: onReject, but for a signature, which may be tried again.
FinishFails(t) ==
    /\ t \in tasks /\ tasks' = tasks \ {t}
    /\ IF KindOf(t.req) = "signature" THEN UNCHANGED <<answer, shown>>
                                      ELSE Settled("rejected") /\ ResetOverlay
    /\ StopLoading(KindOf(t.req))
    /\ UNCHANGED <<at, ref, form, done, network>>

\* onBackdropPress, or the button to reject, which is disabled while loading.
Dismiss(k) ==
    /\ shown[k] # None /\ (DismissesBusy \/ ~loading[k])
    /\ Settled("rejected") /\ ResetOverlay
    /\ UNCHANGED <<at, ref, form, loading, tasks, done, network>>

-----------------------------------------------------------------------------
Outage ==
    /\ reachable /\ outages < MaxOutages
    /\ reachable' = FALSE /\ outages' = outages + 1
    /\ UNCHANGED <<at, answer, ref, screen, tasks, done, gateway>>

Recovery ==
    /\ ~reachable /\ reachable' = TRUE
    /\ UNCHANGED <<at, answer, ref, screen, tasks, done, gateway, outages>>

Next ==
    \/ \E r \in Requests : Call(r) \/ Show(r)
    \/ \E r \in Calls : Refuse(r)
    \/ \E k \in Kinds : Accept(k) \/ Dismiss(k)
    \/ \E t \in tasks : Finish(t) \/ FinishFails(t)
    \/ Outage \/ Recovery

\* The user does not try a signature that fails again for ever, and answers an
\* overlay in the end; what was accepted ends.
Fairness ==
    /\ \A r \in Requests : WF_vars(Show(r))
    /\ \A r \in Calls : WF_vars(Refuse(r))
    /\ \A k \in Kinds : SF_vars(Dismiss(k))
    /\ WF_vars(\E t \in tasks : Finish(t))
    /\ WF_vars(Recovery)

Spec == Init /\ [][Next]_vars /\ Fairness

-----------------------------------------------------------------------------
\* Nothing is paid, invoiced or signed twice, however calls, links, failures and
\* the user's answers overlap.
DoneOnce == \A r \in Requests : done[r].times <= 1

\* A call is answered with the result of what it asked for ("Save these refs to
\* we can resolve / reject elsewhere").
AnsweredWithOwn == \A c \in Calls : answer[c] \in Requests => answer[c] = c

\* What the mod is told was rejected ("Canceled request") has not been done.
RejectedIsNotDone == \A c \in Calls : answer[c] = "rejected" => done[c].times = 0

\* What is done has the amount of its own request ("Reset form when it appears").
FormIsOfTheRequest == \A r \in Requests : done[r].forms \subseteq {r}

\* Every call is answered ("Wait for user to interact with alert").
EveryCallIsAnswered == \A c \in Calls : at[c] # "new" ~> answer[c] # None

\* A call is refused for want of a gateway only while there is none ("Check for an
\* active gateway or throw error").
RefusedWithoutGateway ==
    [][\A c \in Calls : answer[c] # "refused" /\ answer'[c] = "refused" => ~reachable]_vars
=============================================================================
