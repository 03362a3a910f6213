--------------------------- MODULE PaymentsProofs ---------------------------
(***************************************************************************)
(* What holds of the forms and dialogs that pay and ask for payments, for  *)
(* all amounts, wallets, limits, tokens and calls of mods.  The components *)
(* share no state.  Each has a section of its own, with the invariant that *)
(* its theorems rest on; the last one puts them together.                  *)
(***************************************************************************)
EXTENDS MCPayments, FiniteSetTheorems, TLAPS

-----------------------------------------------------------------------------
\* A call of a mod is done once at most; and calls made one after the other are
\* answered with their own results.

\* The kind of what a task does.
Of(t) == Mods!KindOf(t.req)

LEMMA EachHasAKind ==
    /\ \A r : Mods!KindOf(r) \in Mods!Kinds
    /\ Mods!ModRequestsAssumption => Mods!None \notin Mods!Requests
  BY DEF Mods!KindOf, Mods!Kinds, Mods!ModRequestsAssumption

\* An overlay that does something cannot be accepted, other than that of an invoice
\* of which a later one has taken the place; what is done is not shown again.
WorkIsOnce ==
    /\ \A t \in tasks : at[t.req] = "shown" /\ done[t.req].times = 0
    /\ \A t, u \in tasks : t.req = u.req => t = u
    /\ \A t \in tasks : modsShown[Of(t)] = t.req => loading[Of(t)]
    /\ \A t \in tasks : Of(t) # "invoice" => loading[Of(t)]
    /\ \A t, u \in tasks : Of(t) = Of(u) /\ Of(t) # "invoice" => t = u
    /\ \A r \in Mods!Requests :
        /\ done[r].times <= 1
        /\ done[r].times > 0 => at[r] = "shown" /\ modsShown[Mods!KindOf(r)] # r
    /\ \A k \in Mods!Kinds : modsShown[k] # Mods!None => form[k] # Mods!None
ModsInv == Mods!TypeOK /\ WorkIsOnce

\* What the steps rely on, request by request.
LEMMA ModsFacts ==
    ASSUME Mods!TypeOK
    PROVE  /\ at \in [Mods!Requests -> {"new", "asking", "shown"}]
           /\ loading \in [Mods!Kinds -> BOOLEAN]
           /\ modsShown \in [Mods!Kinds -> Mods!Requests \cup {Mods!None}]
           /\ form \in [Mods!Kinds -> Mods!Requests \cup {Mods!None}]
           /\ answer \in [Mods!Calls -> {Mods!None, "refused", "rejected"} \cup Mods!Requests]
           /\ done \in [Mods!Requests -> [times : Nat, forms : SUBSET Mods!Requests]]
           /\ \A r \in Mods!Requests : done[r].times \in Nat
           /\ \A t \in tasks : t.req \in Mods!Requests /\ t.form \in Mods!Requests
           /\ \A k \in Mods!Kinds : modsShown[k] # Mods!None =>
                Mods!KindOf(modsShown[k]) = k /\ at[modsShown[k]] = "shown"
  BY DEF Mods!TypeOK

\* No overlay is left.
LEMMA ResetShowsNothing ==
    ASSUME Mods!ResetOverlay
    PROVE  /\ modsShown' \in [Mods!Kinds -> Mods!Requests \cup {Mods!None}]
           /\ \A k \in Mods!Kinds : modsShown'[k] = Mods!None
  BY DEF Mods!ResetOverlay

LEMMA AnswersAreTyped ==
    ASSUME Mods!TypeOK, NEW a \in {"rejected"} \cup Mods!Requests, Mods!Settled(a)
    PROVE  answer' \in [Mods!Calls -> {Mods!None, "refused", "rejected"} \cup Mods!Requests]
  BY DEF Mods!TypeOK, Mods!Settled

LEMMA ModsStart ==
    ASSUME Mods!ModRequestsAssumption, Mods!Init
    PROVE  ModsInv
<1>1. Mods!TypeOK
  BY DEF Mods!Init, Mods!TypeOK, Mods!ModRequestsAssumption
<1>2. tasks = {} /\ \A r \in Mods!Requests : done[r].times = 0
  BY DEF Mods!Init
<1>3. \A k \in Mods!Kinds : modsShown[k] = Mods!None
  BY DEF Mods!Init
<1> QED
  BY <1>1, <1>2, <1>3 DEF ModsInv, WorkIsOnce

LEMMA CallStep ==
    ASSUME ModsInv, NEW r \in Mods!Requests, Mods!Call(r)
    PROVE  ModsInv'
<1>1. /\ at[r] = "new" /\ at' = [at EXCEPT ![r] = "asking"]
      /\ UNCHANGED <<answer, ref, modsShown, form, loading, tasks, done, gateway,
                     reachable, outages>>
  BY DEF Mods!Call, Mods!screen, Mods!network
<1>2. \A q \in Mods!Requests : at'[q] = (IF q = r THEN "asking" ELSE at[q])
  BY <1>1, ModsFacts DEF ModsInv
<1>3. Mods!TypeOK'
  BY <1>1, <1>2, ModsFacts DEF ModsInv, Mods!TypeOK
<1>4. \A q \in Mods!Requests : at[q] = "shown" => at'[q] = "shown"
  BY <1>1, <1>2
<1> QED
  BY <1>1, <1>3, <1>4, ModsFacts DEF ModsInv, WorkIsOnce, Of

LEMMA RefuseStep ==
    ASSUME ModsInv, NEW r \in Mods!Calls, Mods!Refuse(r)
    PROVE  ModsInv'
<1>0. r \in Mods!Requests
  BY DEF Mods!Requests
<1>1. /\ at' = [at EXCEPT ![r] = "shown"]
      /\ answer' = [answer EXCEPT ![r] = "refused"]
      /\ gateway' = "failed"
      /\ UNCHANGED <<ref, modsShown, form, loading, tasks, done, reachable, outages>>
  BY DEF Mods!Refuse, Mods!screen
<1>2. \A q \in Mods!Requests : at'[q] = (IF q = r THEN "shown" ELSE at[q])
  BY <1>1, ModsFacts DEF ModsInv
<1>3. Mods!TypeOK'
  BY <1>0, <1>1, <1>2, ModsFacts DEF ModsInv, Mods!TypeOK
<1>4. \A q \in Mods!Requests : at[q] = "shown" => at'[q] = "shown"
  BY <1>1, <1>2
<1> QED
  BY <1>1, <1>3, <1>4, ModsFacts DEF ModsInv, WorkIsOnce, Of

LEMMA ShowStep ==
    ASSUME Mods!ModRequestsAssumption, ModsInv, NEW r \in Mods!Requests, Mods!Show(r)
    PROVE  ModsInv'
<1> DEFINE k == Mods!KindOf(r)
<1>1. /\ at[r] = "asking" /\ at' = [at EXCEPT ![r] = "shown"]
      /\ modsShown' = [modsShown EXCEPT ![k] = r]
      /\ form' = [form EXCEPT ![k] = IF modsShown[k] = Mods!None \/ k = "signature"
                                     THEN r ELSE form[k]]
      /\ loading' = [loading EXCEPT ![k] =
                        loading[k] /\ ~(modsShown[k] = Mods!None /\ k = "invoice")]
      /\ ref' = IF r \in Mods!Calls THEN r ELSE ref
      /\ gateway' \in {gateway, "some", "failed"}
      /\ UNCHANGED <<answer, tasks, done, reachable, outages>>
  BY DEF Mods!Show, Mods!Shown, Mods!Gateway
<1>2. k \in Mods!Kinds /\ r # Mods!None
  BY EachHasAKind
<1>3. \A q \in Mods!Requests : at'[q] = (IF q = r THEN "shown" ELSE at[q])
  BY <1>1, ModsFacts DEF ModsInv
<1>4. /\ \A l \in Mods!Kinds : modsShown'[l] = (IF l = k THEN r ELSE modsShown[l])
      /\ \A l \in Mods!Kinds : l # k => form'[l] = form[l] /\ loading'[l] = loading[l]
      /\ form'[k] = (IF modsShown[k] = Mods!None \/ k = "signature" THEN r ELSE form[k])
      /\ (k # "invoice" => (loading'[k] <=> loading[k]))
  BY <1>1, <1>2, ModsFacts DEF ModsInv
<1>5. ASSUME NEW t \in tasks
      PROVE  t.req # r /\ t.req \in Mods!Requests /\ Of(t) \in Mods!Kinds
  BY <1>1, ModsFacts, EachHasAKind DEF ModsInv, WorkIsOnce, Of
<1>6. done[r].times = 0
  BY <1>1, ModsFacts DEF ModsInv, WorkIsOnce
<1>7. Mods!TypeOK'
  <2>1. /\ form' \in [Mods!Kinds -> Mods!Requests \cup {Mods!None}]
        /\ modsShown' \in [Mods!Kinds -> Mods!Requests \cup {Mods!None}]
        /\ loading' \in [Mods!Kinds -> BOOLEAN]
        /\ at' \in [Mods!Requests -> {"new", "asking", "shown"}]
    BY <1>1, <1>2, ModsFacts DEF ModsInv
  <2>2. \A l \in Mods!Kinds : modsShown'[l] # Mods!None =>
            Mods!KindOf(modsShown'[l]) = l /\ at'[modsShown'[l]] = "shown"
    BY <1>2, <1>3, <1>4, ModsFacts DEF ModsInv
  <2>3. ref' \in Mods!Calls \cup {Mods!None} /\ gateway' \in {Mods!None, "some", "failed"}
    BY <1>1 DEF ModsInv, Mods!TypeOK
  <2> QED
    BY <1>1, <2>1, <2>2, <2>3 DEF ModsInv, Mods!TypeOK
<1>8. WorkIsOnce'
  <2>1. \A t \in tasks : at'[t.req] = "shown"
    BY <1>3, <1>5 DEF ModsInv, WorkIsOnce
  <2>2. \A t \in tasks : modsShown'[Of(t)] = t.req => loading'[Of(t)]
    BY <1>4, <1>5 DEF ModsInv, WorkIsOnce
  <2>3. \A t \in tasks : Of(t) # "invoice" => loading'[Of(t)]
    BY <1>4, <1>5 DEF ModsInv, WorkIsOnce
  <2>4. \A q \in Mods!Requests :
            done[q].times > 0 => at'[q] = "shown" /\ modsShown'[Mods!KindOf(q)] # q
    BY <1>3, <1>4, <1>6, EachHasAKind DEF ModsInv, WorkIsOnce
  <2>5. \A l \in Mods!Kinds : modsShown'[l] # Mods!None => form'[l] # Mods!None
    BY <1>2, <1>4 DEF ModsInv, WorkIsOnce
  <2> QED
    BY <1>1, <2>1, <2>2, <2>3, <2>4, <2>5 DEF ModsInv, WorkIsOnce, Of
<1> QED
  BY <1>7, <1>8 DEF ModsInv

LEMMA AcceptStep ==
    ASSUME ModsInv, NEW k \in Mods!Kinds, Mods!Accept(k)
    PROVE  ModsInv'
<1> DEFINE new == [req |-> modsShown[k], form |-> form[k]]
<1>1. /\ modsShown[k] # Mods!None /\ ~loading[k]
      /\ tasks' = tasks \cup {new} /\ loading' = [loading EXCEPT ![k] = TRUE]
      /\ UNCHANGED <<at, answer, ref, modsShown, form, done, gateway, reachable, outages>>
  BY DEF Mods!Accept, Mods!network
<1>2. /\ new.req = modsShown[k] /\ new.req \in Mods!Requests /\ new.form \in Mods!Requests
      /\ Of(new) = k /\ at[new.req] = "shown"
  BY <1>1, ModsFacts DEF ModsInv, WorkIsOnce, Of
<1>3. new \in [req : Mods!Requests, form : Mods!Requests]
  BY <1>2
<1> HIDE DEF new
<1>4. \A l \in Mods!Kinds : loading'[l] = (IF l = k THEN TRUE ELSE loading[l])
  BY <1>1, ModsFacts DEF ModsInv
<1>5. \A t \in tasks : t.req # new.req /\ (Of(t) = k => k = "invoice") /\ Of(t) \in Mods!Kinds
  BY <1>1, <1>2, EachHasAKind DEF ModsInv, WorkIsOnce, Of
<1>6. done[new.req].times = 0
  BY <1>2, ModsFacts DEF ModsInv, WorkIsOnce, Of
<1>7. Mods!TypeOK'
  <2>1. tasks' \subseteq [req : Mods!Requests, form : Mods!Requests]
    BY <1>1, <1>3 DEF ModsInv, Mods!TypeOK
  <2>2. loading' \in [Mods!Kinds -> BOOLEAN]
    BY <1>1, ModsFacts DEF ModsInv
  <2> QED
    BY <1>1, <2>1, <2>2 DEF ModsInv, Mods!TypeOK
<1>8. WorkIsOnce'
  <2>1. \A t \in tasks' : at[t.req] = "shown" /\ done[t.req].times = 0
    BY <1>1, <1>2, <1>6 DEF ModsInv, WorkIsOnce
  <2>2. \A t, u \in tasks' : t.req = u.req => t = u
    BY <1>1, <1>5 DEF ModsInv, WorkIsOnce
  <2>3. \A t \in tasks' : modsShown[Of(t)] = t.req => loading'[Of(t)]
    BY <1>1, <1>2, <1>4, <1>5 DEF ModsInv, WorkIsOnce
  <2>4. \A t \in tasks' : Of(t) # "invoice" => loading'[Of(t)]
    BY ZenonT(40), <1>1, <1>2, <1>4, <1>5 DEF ModsInv, WorkIsOnce
  <2>5. \A t, u \in tasks' : Of(t) = Of(u) /\ Of(t) # "invoice" => t = u
    BY <1>1, <1>2, <1>5 DEF ModsInv, WorkIsOnce
  <2> QED
    BY <1>1, <2>1, <2>2, <2>3, <2>4, <2>5 DEF ModsInv, WorkIsOnce, Of
<1> QED
  BY <1>7, <1>8 DEF ModsInv

\* The overlay of a task that ends is free, or stays busy with an invoice.
LEMMA LoadingStops ==
    ASSUME ModsInv, NEW t \in tasks, Mods!StopLoading(Of(t))
    PROVE  /\ loading' \in [Mods!Kinds -> BOOLEAN]
           /\ \A u \in tasks \ {t} : Of(u) # "invoice" /\ loading[Of(u)] => loading'[Of(u)]
<1>1. loading' = [loading EXCEPT ![Of(t)] = (Of(t) = "invoice")]
  BY DEF Mods!StopLoading
<1>2. loading' \in [Mods!Kinds -> BOOLEAN]
  BY <1>1, ModsFacts DEF ModsInv
<1>3. ASSUME NEW u \in tasks \ {t}, Of(u) # "invoice", loading[Of(u)]
      PROVE  loading'[Of(u)]
  <2>1. Of(u) # Of(t)
    BY <1>3 DEF ModsInv, WorkIsOnce
  <2>2. Of(u) \in Mods!Kinds
    BY EachHasAKind DEF Of
  <2> QED
    BY <1>1, <1>3, <2>1, <2>2, ModsFacts DEF ModsInv
<1> QED
  BY <1>2, <1>3

\* What ends leaves no overlay, but for a signature that may be tried again.
LEMMA FinishStep ==
    ASSUME Mods!ModRequestsAssumption, ModsInv, NEW t \in tasks, Mods!Finish(t)
    PROVE  ModsInv'
<1>1. /\ tasks' = tasks \ {t}
      /\ done' = [done EXCEPT ![t.req] = [times |-> done[t.req].times + 1,
                                          forms |-> done[t.req].forms \cup {t.form}]]
      /\ Mods!Settled(t.req) /\ Mods!ResetOverlay /\ Mods!StopLoading(Of(t))
      /\ UNCHANGED <<at, ref, form, gateway, reachable, outages>>
  BY DEF Mods!Finish, Mods!network, Of
<1>2. t.req \in Mods!Requests /\ t.form \in Mods!Requests /\ at[t.req] = "shown"
      /\ done[t.req].times = 0 /\ done[t.req].forms \subseteq Mods!Requests
  BY ModsFacts DEF ModsInv, WorkIsOnce
<1> DEFINE one == [times |-> 1, forms |-> done[t.req].forms \cup {t.form}]
<1>3. one \in [times : Nat, forms : SUBSET Mods!Requests] /\ one.times = 1
  BY <1>2
<1>4. done' = [done EXCEPT ![t.req] = one]
  BY <1>1, <1>2
<1> HIDE DEF one
<1>5. /\ done' \in [Mods!Requests -> [times : Nat, forms : SUBSET Mods!Requests]]
      /\ \A r \in Mods!Requests : done'[r].times = (IF r = t.req THEN 1 ELSE done[r].times)
  BY <1>2, <1>3, <1>4, ModsFacts DEF ModsInv
<1>6. /\ modsShown' \in [Mods!Kinds -> Mods!Requests \cup {Mods!None}]
      /\ \A k \in Mods!Kinds : modsShown'[k] = Mods!None
  BY <1>1, ResetShowsNothing
<1>7. /\ loading' \in [Mods!Kinds -> BOOLEAN]
      /\ \A u \in tasks \ {t} : Of(u) # "invoice" /\ loading[Of(u)] => loading'[Of(u)]
  BY <1>1, LoadingStops
<1>8. answer' \in [Mods!Calls -> {Mods!None, "refused", "rejected"} \cup Mods!Requests]
  BY <1>1, <1>2, AnswersAreTyped DEF ModsInv
<1>9. Mods!TypeOK'
  BY <1>1, <1>5, <1>6, <1>7, <1>8 DEF ModsInv, Mods!TypeOK
<1>10. \A u \in tasks' : u \in tasks \ {t} /\ u.req \in Mods!Requests /\ u.req # t.req
                         /\ Of(u) \in Mods!Kinds
  BY <1>1, ModsFacts, EachHasAKind DEF ModsInv, WorkIsOnce, Of
<1>11. WorkIsOnce'
  <2>1. \A u \in tasks' : at'[u.req] = "shown" /\ done'[u.req].times = 0
    BY <1>1, <1>5, <1>10 DEF ModsInv, WorkIsOnce
  <2>2. \A u \in tasks' : modsShown'[Of(u)] # u.req
    BY <1>6, <1>10, EachHasAKind
  <2>3. \A u \in tasks' : Of(u) # "invoice" => loading'[Of(u)]
    BY <1>7, <1>10 DEF ModsInv, WorkIsOnce
  <2>4. \A r \in Mods!Requests :
            /\ done'[r].times <= 1
            /\ done'[r].times > 0 => at'[r] = "shown" /\ modsShown'[Mods!KindOf(r)] # r
    BY <1>1, <1>2, <1>5, <1>6, EachHasAKind DEF ModsInv, WorkIsOnce
  <2> QED
    BY <1>6, <1>10, <2>1, <2>2, <2>3, <2>4 DEF ModsInv, WorkIsOnce, Of
<1> QED
  BY <1>9, <1>11 DEF ModsInv

LEMMA FinishFailsStep ==
    ASSUME Mods!ModRequestsAssumption, ModsInv, NEW t \in tasks, Mods!FinishFails(t)
    PROVE  ModsInv'
<1>1. /\ tasks' = tasks \ {t} /\ Mods!StopLoading(Of(t))
      /\ \/ Of(t) = "signature" /\ UNCHANGED <<answer, modsShown>>
         \/ Mods!Settled("rejected") /\ Mods!ResetOverlay
      /\ UNCHANGED <<at, ref, form, done, gateway, reachable, outages>>
  BY DEF Mods!FinishFails, Mods!network, Of
<1>2. /\ loading' \in [Mods!Kinds -> BOOLEAN]
      /\ \A u \in tasks \ {t} : Of(u) # "invoice" /\ loading[Of(u)] => loading'[Of(u)]
  BY <1>1, LoadingStops
<1>3. \A u \in tasks' : u \in tasks \ {t} /\ u.req \in Mods!Requests
                        /\ Of(u) \in Mods!Kinds
  BY <1>1, ModsFacts, EachHasAKind DEF Of, ModsInv
<1>4. \A u \in tasks' : Of(u) # "invoice" => loading'[Of(u)]
  BY <1>2, <1>3 DEF ModsInv, WorkIsOnce
<1>5. CASE Of(t) = "signature" /\ UNCHANGED <<answer, modsShown>>
  <2>1. Mods!TypeOK'
    BY <1>1, <1>2, <1>5 DEF ModsInv, Mods!TypeOK
  <2>2. loading' = [loading EXCEPT !["signature"] = FALSE]
    BY <1>1, <1>5 DEF Mods!StopLoading
  <2>3. \A u \in tasks' : modsShown'[Of(u)] = u.req => loading'[Of(u)]
    <3> SUFFICES ASSUME NEW u \in tasks', modsShown[Of(u)] = u.req PROVE loading'[Of(u)]
      BY <1>5
    <3>1. Of(u) # "signature" /\ loading[Of(u)]
      BY <1>3, <1>5 DEF ModsInv, WorkIsOnce
    <3> QED
      BY <1>3, <2>2, <3>1, ModsFacts DEF ModsInv
  <2> QED
    BY <1>1, <1>3, <1>4, <1>5, <2>1, <2>3 DEF ModsInv, WorkIsOnce, Of
<1>6. CASE Mods!Settled("rejected") /\ Mods!ResetOverlay
  <2>1. /\ modsShown' \in [Mods!Kinds -> Mods!Requests \cup {Mods!None}]
        /\ \A k \in Mods!Kinds : modsShown'[k] = Mods!None
    BY <1>6, ResetShowsNothing
  <2>2. answer' \in [Mods!Calls -> {Mods!None, "refused", "rejected"} \cup Mods!Requests]
    BY <1>6, AnswersAreTyped DEF ModsInv
  <2>3. Mods!TypeOK'
    BY <1>1, <1>2, <2>1, <2>2 DEF ModsInv, Mods!TypeOK
  <2>4. \A r \in Mods!Requests : modsShown'[Mods!KindOf(r)] # r
    BY <2>1, EachHasAKind
  <2> QED
    BY <1>1, <1>3, <1>4, <2>1, <2>3, <2>4 DEF ModsInv, WorkIsOnce, Of
<1> QED
  BY <1>1, <1>5, <1>6

LEMMA DismissStep ==
    ASSUME Mods!ModRequestsAssumption, ModsInv, NEW k \in Mods!Kinds, Mods!Dismiss(k)
    PROVE  ModsInv'
<1>1. /\ Mods!Settled("rejected") /\ Mods!ResetOverlay
      /\ UNCHANGED <<at, ref, form, loading, tasks, done, gateway, reachable, outages>>
  BY DEF Mods!Dismiss, Mods!network
<1>2. /\ modsShown' \in [Mods!Kinds -> Mods!Requests \cup {Mods!None}]
      /\ \A l \in Mods!Kinds : modsShown'[l] = Mods!None
  BY <1>1, ResetShowsNothing
<1>3. answer' \in [Mods!Calls -> {Mods!None, "refused", "rejected"} \cup Mods!Requests]
  BY <1>1, AnswersAreTyped DEF ModsInv
<1>4. Mods!TypeOK'
  BY <1>1, <1>2, <1>3 DEF ModsInv, Mods!TypeOK
<1>5. \A r \in Mods!Requests : modsShown'[Mods!KindOf(r)] # r
  BY <1>2, EachHasAKind
<1>6. \A t \in tasks : t.req \in Mods!Requests
  BY ModsFacts DEF ModsInv
<1> QED
  BY <1>1, <1>2, <1>4, <1>5, <1>6 DEF ModsInv, WorkIsOnce, Of

LEMMA ModsGoOn ==
    ASSUME Mods!ModRequestsAssumption, ModsInv, [Mods!Next]_(Mods!vars)
    PROVE  ModsInv'
<1>1. CASE UNCHANGED Mods!vars
  BY <1>1 DEF Mods!vars, ModsInv, Mods!TypeOK, WorkIsOnce, Of
<1>2. CASE Mods!Outage \/ Mods!Recovery
  <2>0. MaxOutages \in Nat /\ outages \in 0 .. MaxOutages
    BY DEF ModsInv, Mods!TypeOK, Mods!ModRequestsAssumption
  <2>1. /\ reachable' \in BOOLEAN /\ outages' \in 0 .. MaxOutages
        /\ UNCHANGED <<at, answer, ref, modsShown, form, loading, tasks, done, gateway>>
    <3>1. CASE Mods!Outage
      <4>1. outages < MaxOutages /\ outages' = outages + 1
        BY <3>1 DEF Mods!Outage
      <4>2. outages' \in 0 .. MaxOutages
        BY <2>0, <4>1
      <4>3. reachable' = FALSE
        BY <3>1 DEF Mods!Outage
      <4> QED
        BY <3>1, <4>2, <4>3 DEF Mods!Outage, Mods!screen
    <3>2. CASE Mods!Recovery
      BY <2>0, <3>2 DEF Mods!Recovery, Mods!screen
    <3> QED
      BY <1>2, <3>1, <3>2
  <2>2. Mods!TypeOK'
    BY <2>1 DEF ModsInv, Mods!TypeOK
  <2> QED
    BY <2>1, <2>2 DEF ModsInv, WorkIsOnce, Of
<1> QED
  BY <1>1, <1>2, CallStep, ShowStep, RefuseStep, AcceptStep, DismissStep,
     FinishStep, FinishFailsStep DEF Mods!Next

\* Nothing is paid, invoiced or signed twice, however calls, links, failures, busy
\* overlays and the user's answers overlap (FediModBrowser's overlays and the
\* isLoading of each).
THEOREM NothingIsDoneTwice ==
    ASSUME Mods!ModRequestsAssumption
    PROVE  Mods!Spec => [](Mods!TypeOK /\ Mods!DoneOnce)
<1>1. Mods!Init => ModsInv
  BY ModsStart
<1>2. ModsInv /\ [Mods!Next]_(Mods!vars) => ModsInv'
  BY ModsGoOn
<1>3. ModsInv => Mods!TypeOK /\ Mods!DoneOnce
  BY DEF ModsInv, WorkIsOnce, Mods!DoneOnce
<1> QED
  BY <1>1, <1>2, <1>3, PTL DEF Mods!Spec

-----------------------------------------------------------------------------
\* One call after the other, and no overlay pressed away while it is busy: what
\* waits for an answer is asking for a gateway or has the overlay and the two
\* references; at most one request does.
Shows(r) == modsShown[Mods!KindOf(r)] = r
OneAtATime ==
    /\ \A r, q \in Mods!Requests : at[r] = "asking" => ~Shows(q) /\ (at[q] = "asking" => q = r)
    /\ \A r, q \in Mods!Requests : Shows(r) /\ Shows(q) => q = r
OwnAnswers ==
    /\ \A c \in Mods!Calls :
        /\ at[c] # "new" /\ answer[c] = Mods!None => at[c] = "asking" \/ (Shows(c) /\ ref = c)
        /\ Shows(c) \/ at[c] # "shown" => answer[c] = Mods!None
        /\ answer[c] \in Mods!Requests => answer[c] = c
        /\ done[c].times > 0 => answer[c] = c
    /\ ref # Mods!None => ref \in Mods!Calls /\ at[ref] = "shown"
OwnForms ==
    /\ \A t \in tasks : Shows(t.req) /\ t.form = t.req
    /\ \A r \in Mods!Requests : Shows(r) => form[Mods!KindOf(r)] = r
    /\ \A r \in Mods!Requests : done[r].forms \subseteq {r}
InTurn == ModsInv /\ OneAtATime /\ OwnAnswers /\ OwnForms


LEMMA CallsAreRequests ==
    ASSUME Mods!ModRequestsAssumption
    PROVE  /\ \A c \in Mods!Calls : c \in Mods!Requests /\ c \notin Links
           /\ \A r \in Mods!Requests : r \in Mods!Calls \/ r \in Links
           /\ Mods!None \notin Mods!Requests
           /\ "rejected" \notin Mods!Requests /\ "refused" \notin Mods!Requests
  BY DEF Mods!ModRequestsAssumption, Mods!Requests

\* The references hold the call whose overlay is shown; those of a link are of a
\* call that has its answer.
LEMMA OnlyTheShownIsSettled ==
    ASSUME Mods!ModRequestsAssumption, InTurn, NEW r \in Mods!Requests, Shows(r),
           NEW a \in {"rejected"} \cup Mods!Requests, Mods!Settled(a)
    PROVE  \A c \in Mods!Calls : answer'[c] = IF c = r THEN a ELSE answer[c]
<1>1. /\ answer \in [Mods!Calls -> {Mods!None, "refused", "rejected"} \cup Mods!Requests]
      /\ at[r] = "shown"
  BY ModsFacts, EachHasAKind, CallsAreRequests DEF InTurn, ModsInv, Shows
<1>2. CASE r \in Mods!Calls
  <2>1. answer[r] = Mods!None /\ ref = r
    BY <1>1, <1>2 DEF InTurn, OwnAnswers
  <2>2. r # Mods!None
    BY CallsAreRequests
  <2>3. answer' = [answer EXCEPT ![r] = a]
    BY <2>1, <2>2 DEF Mods!Settled
  <2> QED
    BY <1>1, <1>2, <2>3
<1>3. CASE r \notin Mods!Calls
  <2>1. ASSUME ref # Mods!None, answer[ref] = Mods!None PROVE FALSE
    <3>1. ref \in Mods!Calls /\ ref \in Mods!Requests /\ at[ref] = "shown"
      BY <2>1, CallsAreRequests DEF InTurn, OwnAnswers
    <3>2. Shows(ref)
      BY <2>1, <3>1 DEF InTurn, OwnAnswers
    <3> QED
      BY <1>3, <3>1, <3>2 DEF InTurn, OneAtATime
  <2>2. answer' = answer
    BY <2>1 DEF Mods!Settled
  <2> QED
    BY <1>3, <2>2
<1> QED
  BY <1>2, <1>3

LEMMA TurnBegins ==
    ASSUME Mods!ModRequestsAssumption, Mods!Init
    PROVE  InTurn
<1>1. ModsInv
  BY ModsStart
<1>2. /\ \A r \in Mods!Requests : at[r] = "new" /\ modsShown[Mods!KindOf(r)] = Mods!None
                                 /\ done[r].times = 0 /\ done[r].forms = {}
      /\ \A c \in Mods!Calls : answer[c] = Mods!None
      /\ ref = Mods!None /\ tasks = {}
  BY EachHasAKind DEF Mods!Init
<1> QED
  BY <1>1, <1>2, CallsAreRequests DEF InTurn, OneAtATime, OwnAnswers, OwnForms, Shows

LEMMA CallInTurn ==
    ASSUME Mods!ModRequestsAssumption, InTurn, ModsInv',
           NEW r \in Mods!Requests, Mods!Call(r)
    PROVE  InTurn'
<1>1. /\ at[r] = "new" /\ at' = [at EXCEPT ![r] = "asking"]
      /\ UNCHANGED <<answer, ref, modsShown, form, loading, tasks, done, gateway,
                     reachable, outages>>
      /\ Mods!Waiting = {} /\ Mods!Quiet
  BY DEF Mods!Call, Mods!screen, Mods!network
<1>2. \A q \in Mods!Requests : at'[q] = (IF q = r THEN "asking" ELSE at[q])
  BY <1>1, ModsFacts DEF InTurn, ModsInv
<1>3. \A q \in Mods!Requests : at[q] # "asking" /\ ~Shows(q)
  BY <1>1, EachHasAKind, CallsAreRequests DEF Mods!Quiet, Shows
<1>4. OneAtATime'
  BY <1>1, <1>2, <1>3 DEF OneAtATime, Shows
<1>5. OwnAnswers'
  <2>1. \A c \in Mods!Calls : (Shows(c) <=> Shows(c)') /\ c \in Mods!Requests
    BY <1>1, CallsAreRequests DEF Shows
  <2> QED
    BY <1>1, <1>2, <2>1 DEF InTurn, OwnAnswers
<1>6. OwnForms'
  BY <1>1 DEF InTurn, OwnForms, Shows
<1> QED
  BY <1>4, <1>5, <1>6 DEF InTurn

LEMMA RefuseInTurn ==
    ASSUME Mods!ModRequestsAssumption, InTurn, ModsInv',
           NEW r \in Mods!Calls, Mods!Refuse(r)
    PROVE  InTurn'
<1>0. r \in Mods!Requests
  BY DEF Mods!Requests
<1>1. /\ at[r] = "asking" /\ at' = [at EXCEPT ![r] = "shown"]
      /\ answer' = [answer EXCEPT ![r] = "refused"]
      /\ UNCHANGED <<ref, modsShown, form, loading, tasks, done, reachable, outages>>
  BY DEF Mods!Refuse, Mods!screen
<1>2. /\ \A q \in Mods!Requests : at'[q] = (IF q = r THEN "shown" ELSE at[q])
      /\ \A c \in Mods!Calls : answer'[c] = (IF c = r THEN "refused" ELSE answer[c])
  BY <1>1, ModsFacts DEF InTurn, ModsInv
<1>3. \A q \in Mods!Requests : ~Shows(q) /\ (at[q] = "asking" => q = r)
  BY <1>0, <1>1 DEF InTurn, OneAtATime
<1>4. OneAtATime'
  BY <1>1, <1>2, <1>3 DEF OneAtATime, Shows
<1>5. done[r].times = 0
  BY <1>0, <1>1, ModsFacts DEF InTurn, ModsInv, WorkIsOnce
<1>6. OwnAnswers'
  <2>1. \A c \in Mods!Calls : c \in Mods!Requests /\ (Shows(c) <=> Shows(c)')
    BY <1>1, CallsAreRequests DEF Shows
  <2>2. ASSUME NEW c \in Mods!Calls
        PROVE  /\ at'[c] # "new" /\ answer'[c] = Mods!None
                    => at'[c] = "asking" \/ (Shows(c)' /\ ref' = c)
               /\ Shows(c)' \/ at'[c] # "shown" => answer'[c] = Mods!None
               /\ answer'[c] \in Mods!Requests => answer'[c] = c
               /\ done'[c].times > 0 => answer'[c] = c
    <3>1. CASE c = r
      <4>1. answer'[c] = "refused" /\ at'[c] = "shown" /\ done'[c].times = 0 /\ ~Shows(c)'
        BY <1>0, <1>1, <1>2, <1>3, <1>5, <2>1, <3>1
      <4>2. "refused" # Mods!None /\ "refused" \notin Mods!Requests
        BY CallsAreRequests DEF Mods!None
      <4> QED
        BY <4>1, <4>2
    <3>2. CASE c # r
      <4>1. answer'[c] = answer[c] /\ at'[c] = at[c] /\ done'[c] = done[c] /\ ref' = ref
        BY <1>1, <1>2, <2>1, <3>2
      <4> QED
        BY <2>1, <4>1 DEF InTurn, OwnAnswers
    <3> QED
      BY <3>1, <3>2
  <2>3. ref' # Mods!None => ref' \in Mods!Calls /\ at'[ref'] = "shown"
    BY <1>1, <1>2, <2>1 DEF InTurn, OwnAnswers
  <2> QED
    BY <2>2, <2>3 DEF OwnAnswers
<1>7. OwnForms'
  BY <1>1 DEF InTurn, OwnForms, Shows
<1> QED
  BY <1>4, <1>6, <1>7 DEF InTurn

LEMMA ShowInTurn ==
    ASSUME Mods!ModRequestsAssumption, InTurn, ModsInv',
           NEW r \in Mods!Requests, Mods!Show(r)
    PROVE  InTurn'
<1> DEFINE k == Mods!KindOf(r)
<1>0. k \in Mods!Kinds /\ r # Mods!None
  BY EachHasAKind, CallsAreRequests
<1>1. /\ at[r] = "asking" /\ at' = [at EXCEPT ![r] = "shown"]
      /\ modsShown' = [modsShown EXCEPT ![k] = r]
      /\ form' = [form EXCEPT ![k] = IF modsShown[k] = Mods!None \/ k = "signature"
                                     THEN r ELSE form[k]]
      /\ ref' = IF r \in Mods!Calls THEN r ELSE ref
      /\ UNCHANGED <<answer, tasks, done>>
  BY DEF Mods!Show, Mods!Shown
<1>2. \A q \in Mods!Requests : ~Shows(q) /\ (at[q] = "asking" => q = r)
  BY <1>1 DEF InTurn, OneAtATime
<1>3. modsShown[k] = Mods!None
  <2> SUFFICES ASSUME modsShown[k] # Mods!None PROVE FALSE
    OBVIOUS
  <2>1. modsShown[k] \in Mods!Requests /\ Mods!KindOf(modsShown[k]) = k
    BY <1>0, ModsFacts DEF InTurn, ModsInv
  <2> QED
    BY <1>2, <2>1 DEF Shows
<1>4. /\ \A q \in Mods!Requests : at'[q] = (IF q = r THEN "shown" ELSE at[q])
      /\ \A l \in Mods!Kinds : modsShown'[l] = (IF l = k THEN r ELSE modsShown[l])
      /\ form'[k] = r
  BY <1>0, <1>1, <1>3, ModsFacts DEF InTurn, ModsInv
<1>5. \A q \in Mods!Requests : Shows(q)' <=> q = r
  BY <1>0, <1>2, <1>4, EachHasAKind DEF Shows
<1>6. OneAtATime'
  BY <1>2, <1>4, <1>5 DEF OneAtATime
<1>7. tasks = {}
  BY <1>2, ModsFacts DEF InTurn, ModsInv, OwnForms
<1>8. OwnForms'
  BY <1>1, <1>4, <1>5, <1>7 DEF InTurn, OwnForms
<1>9. OwnAnswers'
  <2>1. ASSUME NEW c \in Mods!Calls
        PROVE  /\ at'[c] # "new" /\ answer'[c] = Mods!None
                    => at'[c] = "asking" \/ (Shows(c)' /\ ref' = c)
               /\ Shows(c)' \/ at'[c] # "shown" => answer'[c] = Mods!None
               /\ answer'[c] \in Mods!Requests => answer'[c] = c
               /\ done'[c].times > 0 => answer'[c] = c
    <3>1. c \in Mods!Requests /\ answer'[c] = answer[c] /\ done'[c] = done[c]
      BY <1>1, CallsAreRequests
    <3>2. CASE c = r
      <4>1. answer[c] = Mods!None /\ Shows(c)' /\ ref' = c
        BY <1>1, <1>5, <3>1, <3>2 DEF InTurn, OwnAnswers
      <4> QED
        BY <3>1, <4>1 DEF InTurn, OwnAnswers
    <3>3. CASE c # r
      <4>1. at'[c] = at[c] /\ ~Shows(c)' /\ ~Shows(c) /\ at[c] # "asking"
        BY <1>2, <1>4, <1>5, <3>1, <3>3
      <4> QED
        BY <3>1, <4>1 DEF InTurn, OwnAnswers
    <3> QED
      BY <3>2, <3>3
  <2>2. ref' # Mods!None => ref' \in Mods!Calls /\ at'[ref'] = "shown"
    BY <1>1, <1>4, CallsAreRequests DEF InTurn, OwnAnswers
  <2> QED
    BY <2>1, <2>2 DEF OwnAnswers
<1> QED
  BY <1>6, <1>8, <1>9 DEF InTurn

LEMMA AcceptInTurn ==
    ASSUME Mods!ModRequestsAssumption, InTurn, ModsInv',
           NEW k \in Mods!Kinds, Mods!Accept(k)
    PROVE  InTurn'
<1> DEFINE new == [req |-> modsShown[k], form |-> form[k]]
<1>1. /\ modsShown[k] # Mods!None /\ tasks' = tasks \cup {new}
      /\ UNCHANGED <<at, answer, ref, modsShown, form, done>>
  BY DEF Mods!Accept
<1>2. modsShown[k] \in Mods!Requests /\ Mods!KindOf(modsShown[k]) = k
  BY <1>1, ModsFacts DEF InTurn, ModsInv
<1>3. Shows(new.req) /\ new.form = new.req
  BY <1>2 DEF Shows, InTurn, OwnForms
<1> HIDE DEF new
<1>4. OneAtATime' /\ OwnAnswers'
  BY <1>1 DEF InTurn, OneAtATime, OwnAnswers, Shows
<1>5. OwnForms'
  BY <1>1, <1>3 DEF InTurn, OwnForms, Shows
<1> QED
  BY <1>4, <1>5 DEF InTurn

\* The request whose overlay is shown is answered, and nothing is shown any more.
LEMMA TurnEnds ==
    ASSUME Mods!ModRequestsAssumption, InTurn, ModsInv',
           NEW r \in Mods!Requests, Shows(r),
           NEW a \in {"rejected"} \cup Mods!Requests, a \in {"rejected", r},
           Mods!Settled(a), Mods!ResetOverlay,
           UNCHANGED <<at, ref, form>>, tasks' = {},
           \A q \in Mods!Requests : done'[q].forms \subseteq {q},
           \A q \in Mods!Requests : q # r => done'[q].times = done[q].times,
           a = "rejected" => done'[r].times = 0
    PROVE  InTurn'
<1>1. \A c \in Mods!Calls : answer'[c] = IF c = r THEN a ELSE answer[c]
  BY OnlyTheShownIsSettled
<1>2. \A q \in Mods!Requests : ~Shows(q)'
  BY ResetShowsNothing, EachHasAKind, CallsAreRequests DEF Shows
<1>3. at[r] = "shown" /\ \A q \in Mods!Requests : at[q] # "asking"
  BY ModsFacts, EachHasAKind, CallsAreRequests DEF InTurn, ModsInv, Shows, OneAtATime
<1>4. OneAtATime'
  BY <1>2, <1>3 DEF OneAtATime
<1>5. OwnForms'
  BY <1>2 DEF OwnForms
<1>6. OwnAnswers'
  <2>1. ASSUME NEW c \in Mods!Calls
        PROVE  /\ at'[c] # "new" /\ answer'[c] = Mods!None
                    => at'[c] = "asking" \/ (Shows(c)' /\ ref' = c)
               /\ Shows(c)' \/ at'[c] # "shown" => answer'[c] = Mods!None
               /\ answer'[c] \in Mods!Requests => answer'[c] = c
               /\ done'[c].times > 0 => answer'[c] = c
    <3>1. c \in Mods!Requests /\ ~Shows(c)' /\ at'[c] = at[c] /\ at[c] # "asking"
      BY <1>2, <1>3, CallsAreRequests
    <3>2. CASE c = r
      <4>1. answer'[c] = a /\ a # Mods!None /\ "rejected" \notin Mods!Requests
        BY <1>1, <3>2, CallsAreRequests DEF Mods!None
      <4> QED
        BY <1>3, <3>1, <3>2, <4>1
    <3>3. CASE c # r
      <4>1. answer'[c] = answer[c] /\ done'[c].times = done[c].times /\ ~Shows(c)
        BY <1>1, <3>1, <3>3 DEF InTurn, OneAtATime
      <4> QED
        BY <3>1, <4>1 DEF InTurn, OwnAnswers
    <3> QED
      BY <3>2, <3>3
  <2> QED
    BY <2>1 DEF InTurn, OwnAnswers
<1> QED
  BY <1>4, <1>5, <1>6 DEF InTurn

\* There is one task at most, that of the request whose overlay is shown.
LEMMA OneTask ==
    ASSUME InTurn, NEW t \in tasks
    PROVE  tasks = {t} /\ t.req \in Mods!Requests /\ Shows(t.req) /\ t.form = t.req
<1>1. \A u \in tasks : u.req \in Mods!Requests /\ Shows(u.req)
  BY ModsFacts DEF InTurn, ModsInv, OwnForms
<1>2. \A u \in tasks : u.req = t.req
  BY <1>1 DEF InTurn, OneAtATime
<1> QED
  BY <1>1, <1>2 DEF InTurn, ModsInv, WorkIsOnce, OwnForms

LEMMA FinishInTurn ==
    ASSUME Mods!ModRequestsAssumption, InTurn, ModsInv',
           NEW t \in tasks, Mods!Finish(t)
    PROVE  InTurn'
<1> DEFINE r == t.req
<1>1. /\ tasks' = tasks \ {t}
      /\ done' = [done EXCEPT ![r] = [times |-> done[r].times + 1,
                                      forms |-> done[r].forms \cup {t.form}]]
      /\ Mods!Settled(r) /\ Mods!ResetOverlay
      /\ UNCHANGED <<at, ref, form>>
  BY DEF Mods!Finish
<1>2. tasks = {t} /\ r \in Mods!Requests /\ Shows(r) /\ t.form = r
  BY OneTask
<1>3. \A q \in Mods!Requests :
        /\ q # r => done'[q] = done[q]
        /\ done'[r].forms = done[r].forms \cup {r}
  BY <1>1, <1>2, ModsFacts DEF InTurn, ModsInv
<1> HIDE DEF r
<1>4. \A q \in Mods!Requests : done'[q].forms \subseteq {q}
  BY <1>2, <1>3 DEF InTurn, OwnForms
<1>5. r # "rejected" /\ tasks' = {}
  BY <1>1, <1>2, CallsAreRequests
<1> QED
  BY <1>1, <1>2, <1>3, <1>4, <1>5, TurnEnds

LEMMA FinishFailsInTurn ==
    ASSUME Mods!ModRequestsAssumption, InTurn, ModsInv',
           NEW t \in tasks, Mods!FinishFails(t)
    PROVE  InTurn'
<1>1. /\ tasks' = tasks \ {t}
      /\ \/ UNCHANGED <<answer, modsShown>>
         \/ Mods!Settled("rejected") /\ Mods!ResetOverlay
      /\ UNCHANGED <<at, ref, form, done>>
  BY DEF Mods!FinishFails
<1>2. tasks = {t} /\ t.req \in Mods!Requests /\ Shows(t.req) /\ done[t.req].times = 0
  BY OneTask DEF InTurn, ModsInv, WorkIsOnce
<1>3. CASE UNCHANGED <<answer, modsShown>>
  BY <1>1, <1>2, <1>3 DEF InTurn, OneAtATime, OwnAnswers, OwnForms, Shows
<1>4. CASE Mods!Settled("rejected") /\ Mods!ResetOverlay
  <2>1. \A q \in Mods!Requests : done'[q].forms \subseteq {q} /\ done'[q].times = done[q].times
    BY <1>1 DEF InTurn, OwnForms
  <2>2. tasks' = {}
    BY <1>1, <1>2
  <2> QED
    BY <1>1, <1>2, <1>4, <2>1, <2>2, TurnEnds
<1> QED
  BY <1>1, <1>3, <1>4

LEMMA DismissInTurn ==
    ASSUME Mods!ModRequestsAssumption, InTurn, ModsInv',
           NEW k \in Mods!Kinds, Mods!Dismiss(k)
    PROVE  InTurn'
<1> DEFINE r == modsShown[k]
<1>1. /\ r # Mods!None /\ ~loading[k] /\ Mods!Settled("rejected") /\ Mods!ResetOverlay
      /\ UNCHANGED <<at, ref, form, tasks, done>>
  BY DEF Mods!Dismiss
<1>2. r \in Mods!Requests /\ Mods!KindOf(r) = k /\ Shows(r)
  BY <1>1, ModsFacts DEF InTurn, ModsInv, Shows
<1> HIDE DEF r
<1>3. tasks = {}
  <2> SUFFICES ASSUME NEW t \in tasks PROVE FALSE
    OBVIOUS
  <2>1. Shows(t.req) /\ t.req = r
    BY <1>2, OneTask DEF InTurn, OneAtATime
  <2>2. loading[k]
    BY <1>2, <2>1 DEF InTurn, ModsInv, WorkIsOnce, Of, Shows
  <2> QED
    BY <1>1, <2>2
<1>4. done[r].times = 0
  BY <1>2, ModsFacts DEF InTurn, ModsInv, WorkIsOnce, Shows
<1>5. \A q \in Mods!Requests : done'[q].forms \subseteq {q} /\ done'[q].times = done[q].times
  BY <1>1 DEF InTurn, OwnForms
<1> QED
  BY <1>1, <1>2, <1>3, <1>4, <1>5, TurnEnds

LEMMA TurnGoesOn ==
    ASSUME Mods!ModRequestsAssumption, InTurn, [Mods!Next]_(Mods!vars)
    PROVE  InTurn'
<1>1. ModsInv'
  BY ModsGoOn DEF InTurn
<1>2. CASE UNCHANGED Mods!vars
  BY <1>1, <1>2 DEF Mods!vars, InTurn, OneAtATime, OwnAnswers, OwnForms, Shows
<1>3. CASE Mods!Outage \/ Mods!Recovery
  BY <1>1, <1>3 DEF Mods!Outage, Mods!Recovery, Mods!screen,
                    InTurn, OneAtATime, OwnAnswers, OwnForms, Shows
<1> QED
  BY <1>1, <1>2, <1>3, CallInTurn, ShowInTurn, RefuseInTurn, AcceptInTurn,
     DismissInTurn, FinishInTurn, FinishFailsInTurn DEF Mods!Next

\* A mod whose calls do not overlap is answered with the result of what it asked for,
\* is told that a call was rejected only if it has not been done, and what is done
\* has the amount of its own request, whatever links the user follows and however
\* gateways, payments and signatures fail (the one pair of references of
\* FediModBrowser, and the forms that are reset when an overlay appears).
THEOREM AnswersAreOfTheCalls ==
    ASSUME Mods!ModRequestsAssumption
    PROVE  Mods!Spec => [](/\ Mods!AnsweredWithOwn
                           /\ Mods!RejectedIsNotDone
                           /\ Mods!FormIsOfTheRequest)
<1> DEFINE Own == Mods!AnsweredWithOwn /\ Mods!RejectedIsNotDone /\ Mods!FormIsOfTheRequest
<1>1. Mods!Init => InTurn
  BY TurnBegins
<1>2. InTurn /\ [Mods!Next]_(Mods!vars) => InTurn'
  BY TurnGoesOn
<1>3. InTurn => Own
  <2> SUFFICES ASSUME InTurn PROVE Own
    OBVIOUS
  <2>1. Mods!AnsweredWithOwn
    BY DEF InTurn, OwnAnswers, Mods!AnsweredWithOwn
  <2>2. Mods!FormIsOfTheRequest
    BY DEF InTurn, OwnForms, Mods!FormIsOfTheRequest
  <2>3. Mods!RejectedIsNotDone
    <3> SUFFICES ASSUME NEW c \in Mods!Calls, answer[c] = "rejected"
                 PROVE  done[c].times = 0
      BY DEF Mods!RejectedIsNotDone
    <3>1. c \in Mods!Requests /\ c # "rejected" /\ done[c].times \in Nat
      BY CallsAreRequests, ModsFacts DEF InTurn, ModsInv
    <3> QED
      BY <3>1 DEF InTurn, OwnAnswers
  <2> QED
    BY <2>1, <2>2, <2>3
<1> QED
  BY <1>1, <1>2, <1>3, PTL DEF Mods!Spec

-----------------------------------------------------------------------------
(* The amount of a form: AmountForm. *)

FormInv == open /\ ~handledAnew => satsShown = amount

LEMMA FormsGoOn ==
    /\ FormInv /\ [Confirm!Next]_(Confirm!vars) => FormInv'
    /\ FormInv /\ [Overlay!Next]_(Overlay!vars) => FormInv'
<1>1. ASSUME FormInv, [Confirm!Next]_(Confirm!vars) PROVE FormInv'
  <2> USE <1>1 DEF FormInv, Confirm!store
  <2>1. CASE UNCHANGED Confirm!vars
    BY <2>1 DEF Confirm!vars
  <2>2. ASSUME NEW l \in Limits, Confirm!Appear(l) PROVE FormInv'
    <3>1. satsShown' = amount'
      BY <2>2 DEF Confirm!Appear
    <3> QED
      BY <3>1
  <2>3. ASSUME NEW d \in Digits, Confirm!PressSats(d) \/ Confirm!PressFiat(d) PROVE FormInv'
    <3>1. satsShown' = amount'
      BY <2>3 DEF Confirm!PressSats, Confirm!PressFiat, Confirm!Show
    <3> QED
      BY <3>1
  <2>4. CASE Confirm!BackspaceSats \/ Confirm!BackspaceFiat \/ Confirm!Suggest
    <3>1. satsShown' = amount'
      BY <2>4 DEF Confirm!BackspaceSats, Confirm!BackspaceFiat, Confirm!Suggest, Confirm!Show
    <3> QED
      BY <3>1
  <2>5. CASE Confirm!Switch \/ Confirm!Send \/ Confirm!RateChanges
    BY <2>5 DEF Confirm!Switch, Confirm!Send, Confirm!RateChanges
  <2>6. ASSUME NEW w \in FormWallets, Confirm!BalanceChanges(w) \/ Confirm!ChooseWallet(w)
        PROVE  FormInv'
    BY <2>6 DEF Confirm!BalanceChanges, Confirm!ChooseWallet
  <2> QED
    BY <2>1, <2>2, <2>3, <2>4, <2>5, <2>6 DEF Confirm!Next
<1>2. ASSUME FormInv, [Overlay!Next]_(Overlay!vars) PROVE FormInv'
  <2> USE <1>2 DEF FormInv, Overlay!store
  <2>1. CASE UNCHANGED Overlay!vars
    BY <2>1 DEF Overlay!vars
  <2>2. ASSUME NEW l \in Limits, Overlay!Appear(l) PROVE FormInv'
    <3>1. satsShown' = amount'
      BY <2>2 DEF Overlay!Appear
    <3> QED
      BY <3>1
  <2>3. ASSUME NEW d \in Digits, Overlay!PressSats(d) \/ Overlay!PressFiat(d) PROVE FormInv'
    <3>1. satsShown' = amount'
      BY <2>3 DEF Overlay!PressSats, Overlay!PressFiat, Overlay!Show
    <3> QED
      BY <3>1
  <2>4. CASE Overlay!BackspaceSats \/ Overlay!BackspaceFiat \/ Overlay!Suggest
    <3>1. satsShown' = amount'
      BY <2>4 DEF Overlay!BackspaceSats, Overlay!BackspaceFiat, Overlay!Suggest, Overlay!Show
    <3> QED
      BY <3>1
  <2>5. CASE Overlay!Switch \/ Overlay!Send \/ Overlay!RateChanges
    BY <2>5 DEF Overlay!Switch, Overlay!Send, Overlay!RateChanges
  <2>6. ASSUME NEW w \in FormWallets, Overlay!BalanceChanges(w) \/ Overlay!ChooseWallet(w)
        PROVE  FormInv'
    BY <2>6 DEF Overlay!BalanceChanges, Overlay!ChooseWallet
  <2> QED
    BY <2>1, <2>2, <2>3, <2>4, <2>5, <2>6 DEF Overlay!Next
<1> QED
  BY <1>1, <1>2

\* What the forms show is what they send, whichever way the amount came to be and
\* whichever wallet is chosen, until the choice of another one sets the amount of the
\* screen that confirms anew; and again once something is typed after that
\* (useAmountInput, useOmniPaymentState, ConfirmSendLightning, SendPaymentOverlay).
THEOREM FormsShowWhatIsSent ==
    /\ Confirm!Spec => []Confirm!ShownIsSent
    /\ Overlay!Spec => []Overlay!ShownIsSent
<1>1. Confirm!Init => FormInv
  BY DEF Confirm!Init, FormInv
<1>2. Overlay!Init => FormInv
  BY DEF Overlay!Init, FormInv
<1>3. FormInv => Confirm!ShownIsSent
  BY DEF FormInv, Confirm!ShownIsSent
<1>4. FormInv => Overlay!ShownIsSent
  BY DEF FormInv, Overlay!ShownIsSent
<1> QED
  BY <1>1, <1>2, <1>3, <1>4, FormsGoOn, PTL DEF Confirm!Spec, Overlay!Spec

-----------------------------------------------------------------------------
(* Paying what was scanned: OmniPayments, each way of paying. *)

\* Each way of paying has calls of its own; what is to be confirmed was typed or asked for.
CallsAreOfTheFlow(flow) ==
    /\ \A c \in calls : c.what = "decode" <=> flow # "onchain"
    /\ screen = "confirm" => input \in Typed[flow] \cup {Asked[flow]}
PayTypes(flow) == Pay(flow)!TypeOK /\ CallsAreOfTheFlow(flow)

LEMMA PaymentsTyped ==
    ASSUME NEW flow \in Flows, Pay(flow)!OmniPaymentsAssumption, PayTypes(flow),
           [Pay(flow)!Next]_(Pay(flow)!vars)
    PROVE  PayTypes(flow)'
<1> USE DEF Pay!TypeOK, Pay!OmniPaymentsAssumption, PayTypes, CallsAreOfTheFlow
<1>1. CASE UNCHANGED Pay(flow)!vars
  BY <1>1 DEF Pay!vars
<1>2. CASE Pay(flow)!Open
  BY <1>2 DEF Pay!Open, Pay!Handle, Pay!Calls
<1>3. CASE Pay(flow)!Continue
  BY <1>3 DEF Pay!Continue, Pay!Calls, Pay!InBounds
<1>4. CASE Pay(flow)!Send
  BY <1>4 DEF Pay!Send, Pay!Payments, Pay!InBounds
<1>5. CASE Pay(flow)!SendOnChain
  BY <1>5 DEF Pay!SendOnChain, Pay!Payments
<1>6. CASE Pay(flow)!Paid
  BY <1>6 DEF Pay!Paid, Pay!Payments
<1>7. CASE Pay(flow)!PayFails
  BY <1>7 DEF Pay!PayFails
<1>8. ASSUME NEW w \in PayingWallets, Pay(flow)!Select(w) PROVE PayTypes(flow)'
  BY <1>8 DEF Pay!Select, Pay!Handle, Pay!Calls
<1>9. ASSUME NEW a \in Typed[flow], Pay(flow)!Type(a) PROVE PayTypes(flow)'
  BY <1>9 DEF Pay!Type
<1>10. ASSUME NEW c \in calls, Pay(flow)!Decoded(c) PROVE PayTypes(flow)'
  BY <1>10 DEF Pay!Decoded, Pay!Calls, Pay!Payments
<1>11. ASSUME NEW c \in calls, Pay(flow)!DecodeFails(c) \/ Pay(flow)!PreviewFails(c) PROVE PayTypes(flow)'
  BY <1>11 DEF Pay!DecodeFails, Pay!PreviewFails
<1>12. ASSUME NEW c \in calls, Pay(flow)!Previewed(c) PROVE PayTypes(flow)'
  <2>1. flow = "onchain" /\ c \in Pay(flow)!Calls
    BY <1>12 DEF Pay!Previewed
  <2>2. calls' \subseteq Pay(flow)!Calls
    BY <1>12, <2>1 DEF Pay!Previewed, Pay!Calls
  <2> QED
    BY <1>12, <2>1, <2>2 DEF Pay!Previewed, Pay!Calls
<1>13. ASSUME NEW c \in calls, Pay(flow)!FeesKnown(c) PROVE PayTypes(flow)'
  BY <1>13 DEF Pay!FeesKnown, Pay!Calls, Pay!Payments
<1> QED
  BY <1>1, <1>2, <1>3, <1>4, <1>5, <1>6, <1>7, <1>8, <1>9, <1>10, <1>11, <1>12, <1>13
     DEF Pay!Next

\* A payment under way was within the bounds when its button was pressed, of the wallet
\* that pays it, although another may be chosen since; on chain, so is what is confirmed
\* for the wallet it was previewed for.
PaysWithin(flow) ==
    /\ Pay(flow)!WithinBalance
    /\ screen = "confirm" /\ ~astray => input <= Balance[wallet]
\* On chain: the wallet cannot be changed any more when the fees are asked for.
FeesFollow(flow) ==
    flow = "onchain" =>
        /\ screen \in {"closed", "form"} =>
           fees = Pay(flow)!None /\ \A c \in calls : c.what = "continue"
        /\ screen = "confirm" =>
           /\ fees \in {Pay(flow)!None, [wallet |-> wallet, amount |-> input]}
           /\ \A c \in calls : c.what = "fees" => c.wallet = wallet /\ c.amount = input
\* Of an invoice: each choice of a wallet asks for its fees, and of an LNURL there are none.
InvoiceFees(flow) ==
    /\ flow = "lnurl" => calls = {} /\ fees = Pay(flow)!None
    /\ flow = "bolt11" =>
        /\ fees # Pay(flow)!None =>
           input = Asked[flow] /\ fees \in [wallet : PayingWallets, amount : {Asked[flow]}]
        /\ screen = "form" /\ fees # Pay(flow)!None /\ ~astray
           /\ (\A c \in calls : c.wallet # wallet) => fees.wallet = wallet
PayInv(flow) ==
    /\ PayTypes(flow) /\ PaysWithin(flow) /\ FeesFollow(flow) /\ InvoiceFees(flow)
    /\ Pay(flow)!SaidIsSent

LEMMA PaymentsStart ==
    ASSUME NEW flow \in Flows, Pay(flow)!OmniPaymentsAssumption, Pay(flow)!Init
    PROVE  PayInv(flow)
<1> USE DEF Pay!Init
<1>1. PayTypes(flow)
  <2>1. omniChanges \in 0 .. WalletChanges /\ calls \subseteq Pay(flow)!Calls
    BY DEF Pay!OmniPaymentsAssumption
  <2> QED
    BY <2>1 DEF PayTypes, Pay!TypeOK, CallsAreOfTheFlow
<1>2. PaysWithin(flow) /\ FeesFollow(flow) /\ InvoiceFees(flow) /\ Pay(flow)!SaidIsSent
  BY DEF PaysWithin, FeesFollow, InvoiceFees, Pay!WithinBalance, Pay!SaidIsSent
<1> QED
  BY <1>1, <1>2 DEF PayInv

LEMMA PaymentsAreSound ==
    ASSUME NEW flow \in Flows, PayInv(flow)
    PROVE  /\ Pay(flow)!TypeOK /\ Pay(flow)!SaidIsSent
           /\ Pay(flow)!WithinBalance /\ Pay(flow)!FeesAreOfThePayment
<1>1. CASE flow = "onchain"
  BY <1>1 DEF PayInv, PayTypes, PaysWithin, FeesFollow, Pay!FeesAreOfThePayment
<1>2. CASE flow = "lnurl"
  BY <1>2 DEF PayInv, PayTypes, PaysWithin, InvoiceFees, Pay!FeesAreOfThePayment
<1>3. CASE flow = "bolt11"
  <2>1. screen # "confirm"
    BY <1>3 DEF PayInv, PayTypes, Pay!TypeOK
  <2>2. Pay(flow)!FeesAreOfThePayment
    BY <1>3, <2>1 DEF PayInv, InvoiceFees, Pay!FeesAreOfThePayment
  <2> QED
    BY <2>2 DEF PayInv, PayTypes, PaysWithin
<1> QED
  BY <1>1, <1>2, <1>3 DEF Flows

LEMMA PaymentsGoOn ==
    ASSUME NEW flow \in Flows, Pay(flow)!OmniPaymentsAssumption, PayInv(flow),
           [Pay(flow)!Next]_(Pay(flow)!vars)
    PROVE  PayInv(flow)'
<1>0. PayTypes(flow) /\ PayTypes(flow)'
  BY PaymentsTyped DEF PayInv
<1>1. PaysWithin(flow)'
  <2> USE DEF PaysWithin, PayInv
  <2>1. CASE UNCHANGED Pay(flow)!vars
    BY <2>1 DEF Pay!vars, Pay!WithinBalance
  <2>2. CASE Pay(flow)!Open \/ \E w \in PayingWallets : Pay(flow)!Select(w)
    BY <2>2 DEF Pay!Open, Pay!Select, Pay!Handle, Pay!WithinBalance
  <2>3. CASE Pay(flow)!Continue \/ Pay(flow)!Paid \/ Pay(flow)!PayFails
             \/ \E a \in Typed[flow] : Pay(flow)!Type(a)
    BY <2>3 DEF Pay!Continue, Pay!Paid, Pay!PayFails, Pay!Type, Pay!WithinBalance
  <2>4. CASE Pay(flow)!Send
    BY <2>4 DEF Pay!Send, Pay!InBounds, Pay!WithinBalance
  <2>5. CASE Pay(flow)!SendOnChain
    <3>1. flow = "onchain"
      BY <1>0, <2>5 DEF Pay!SendOnChain, PayTypes, Pay!TypeOK
    <3> QED
      BY <2>5, <3>1 DEF Pay!SendOnChain, Pay!WithinBalance
  <2>6. ASSUME NEW c \in calls, Pay(flow)!Decoded(c) \/ Pay(flow)!DecodeFails(c)
        PROVE  PaysWithin(flow)'
    <3>1. flow # "onchain" /\ screen # "confirm"
      BY <1>0, <2>6 DEF Pay!Decoded, Pay!DecodeFails, PayTypes, CallsAreOfTheFlow, Pay!TypeOK
    <3> QED
      BY <2>6, <3>1 DEF Pay!Decoded, Pay!DecodeFails, Pay!WithinBalance
  <2>7. ASSUME NEW c \in calls, Pay(flow)!Previewed(c) PROVE PaysWithin(flow)'
    BY <2>7 DEF Pay!Previewed, Pay!WithinBalance
  <2>8. ASSUME NEW c \in calls, Pay(flow)!PreviewFails(c) \/ Pay(flow)!FeesKnown(c)
        PROVE  PaysWithin(flow)'
    BY <2>8 DEF Pay!PreviewFails, Pay!FeesKnown, Pay!WithinBalance
  <2> QED
    BY <2>1, <2>2, <2>3, <2>4, <2>5, <2>6, <2>7, <2>8 DEF Pay!Next
<1>2. FeesFollow(flow)'
  <2> SUFFICES ASSUME flow = "onchain" PROVE FeesFollow(flow)'
    BY DEF FeesFollow
  <2> USE DEF FeesFollow, PayInv
  <2>1. CASE UNCHANGED Pay(flow)!vars
    BY <2>1 DEF Pay!vars
  <2>2. CASE Pay(flow)!Open \/ \E w \in PayingWallets : Pay(flow)!Select(w)
    BY <2>2 DEF Pay!Open, Pay!Select, Pay!Handle
  <2>3. CASE Pay(flow)!Continue
    BY <2>3 DEF Pay!Continue
  <2>4. CASE Pay(flow)!Send \/ Pay(flow)!SendOnChain \/ Pay(flow)!Paid \/ Pay(flow)!PayFails
             \/ \E a \in Typed[flow] : Pay(flow)!Type(a)
    BY <2>4 DEF Pay!Send, Pay!SendOnChain, Pay!Paid, Pay!PayFails, Pay!Type
  <2>5. ASSUME NEW c \in calls, Pay(flow)!Decoded(c) \/ Pay(flow)!DecodeFails(c)
        PROVE  FeesFollow(flow)'
    BY <1>0, <2>5 DEF Pay!Decoded, Pay!DecodeFails, PayTypes, CallsAreOfTheFlow
  <2>6. ASSUME NEW c \in calls, Pay(flow)!Previewed(c) PROVE FeesFollow(flow)'
    BY <2>6 DEF Pay!Previewed
  <2>7. ASSUME NEW c \in calls, Pay(flow)!PreviewFails(c) PROVE FeesFollow(flow)'
    BY <2>7 DEF Pay!PreviewFails
  <2>8. ASSUME NEW c \in calls, Pay(flow)!FeesKnown(c) PROVE FeesFollow(flow)'
    BY <2>8 DEF Pay!FeesKnown
  <2> QED
    BY <2>1, <2>2, <2>3, <2>4, <2>5, <2>6, <2>7, <2>8 DEF Pay!Next
<1>3. Pay(flow)!SaidIsSent'
  <2>1. CASE Pay(flow)!Paid
    BY <2>1 DEF Pay!Paid, Pay!SaidIsSent
  <2>2. CASE UNCHANGED <<omniSent, said>>
    BY <2>2 DEF PayInv, Pay!SaidIsSent
  <2>3. Pay(flow)!Paid \/ UNCHANGED <<omniSent, said>>
    BY DEF Pay!Next, Pay!vars, Pay!Open, Pay!Continue, Pay!Select, Pay!Type, Pay!Send,
       Pay!SendOnChain, Pay!PayFails,
       Pay!Decoded, Pay!DecodeFails, Pay!Previewed, Pay!PreviewFails, Pay!FeesKnown
  <2> QED
    BY <2>1, <2>2, <2>3
<1>4. InvoiceFees(flow)'
  <2> USE DEF InvoiceFees, PayInv
  <2>1. CASE flow = "lnurl"
    <3>1. calls = {} /\ fees = Pay(flow)!None
      BY <2>1
    <3> QED
      BY <2>1, <3>1 DEF Pay!Next, Pay!vars, Pay!Open, Pay!Continue, Pay!Select, Pay!Handle,
         Pay!Type, Pay!Send, Pay!SendOnChain, Pay!Paid, Pay!PayFails, Pay!None
  <2>2. CASE flow = "bolt11"
    <3>0. screen # "confirm" /\ \A c \in calls : c.what = "decode" /\ c.wallet \in PayingWallets
      BY <1>0, <2>2 DEF PayTypes, CallsAreOfTheFlow, Pay!TypeOK, Pay!Calls
    <3>1. CASE UNCHANGED Pay(flow)!vars
      BY <2>2, <3>1 DEF Pay!vars, Pay!None
    <3>2. CASE Pay(flow)!Open \/ \E w \in PayingWallets : Pay(flow)!Select(w)
      <4>1. UNCHANGED <<fees, input>> /\ \E c \in calls' : c.wallet = wallet'
        <5> DEFINE new(w) == [what |-> "decode", wallet |-> w, amount |-> Asked[flow]]
        <5>1. CASE Pay(flow)!Open
          <6>1. new(wallet) \in calls' /\ new(wallet).wallet = wallet' /\ UNCHANGED <<fees, input>>
            BY <2>2, <5>1 DEF Pay!Open, Pay!Handle
          <6> QED
            BY <6>1
        <5>2. ASSUME NEW w \in PayingWallets, Pay(flow)!Select(w)
              PROVE  UNCHANGED <<fees, input>> /\ \E c \in calls' : c.wallet = wallet'
          <6>1. new(w) \in calls' /\ new(w).wallet = wallet' /\ UNCHANGED <<fees, input>>
            BY <2>2, <5>2 DEF Pay!Select, Pay!Handle
          <6> QED
            BY <6>1
        <5> QED
          BY <3>2, <5>1, <5>2
      <4> QED
        BY <2>2, <4>1 DEF Pay!None
    <3>3. CASE Pay(flow)!Send \/ Pay(flow)!Paid \/ Pay(flow)!PayFails
      BY <2>2, <3>3 DEF Pay!Send, Pay!Paid, Pay!PayFails, Pay!None
    <3>4. CASE Pay(flow)!Continue \/ Pay(flow)!SendOnChain
               \/ \E a \in Typed[flow] : Pay(flow)!Type(a)
      BY <2>2, <3>0, <3>4 DEF Pay!Continue, Pay!SendOnChain, Pay!Type
    <3>5. ASSUME NEW c \in calls, Pay(flow)!Decoded(c) PROVE InvoiceFees(flow)'
      <4>1. c.wallet \in PayingWallets /\ screen' = screen /\ wallet' = wallet
            /\ astray' = (c.wallet # wallet)
        BY <3>0, <3>5 DEF Pay!Decoded
      <4>2. CASE screen = "form"
        <5>1. input' = Asked[flow] /\ fees' = [wallet |-> c.wallet, amount |-> Asked[flow]]
          BY <3>5, <4>2 DEF Pay!Decoded
        <5> QED
          BY <2>2, <4>1, <5>1
      <4>3. CASE screen # "form"
        <5>1. UNCHANGED <<input, fees>>
          BY <3>5, <4>3 DEF Pay!Decoded
        <5> QED
          BY <2>2, <4>1, <4>3, <5>1 DEF Pay!None
      <4> QED
        BY <4>2, <4>3
    <3>6. ASSUME NEW c \in calls, Pay(flow)!DecodeFails(c) PROVE InvoiceFees(flow)'
      BY <2>2, <3>0, <3>6 DEF Pay!DecodeFails, Pay!None
    <3>7. ASSUME NEW c \in calls,
                 Pay(flow)!Previewed(c) \/ Pay(flow)!PreviewFails(c) \/ Pay(flow)!FeesKnown(c)
          PROVE  InvoiceFees(flow)'
      BY <2>2, <3>0, <3>7 DEF Pay!Previewed, Pay!PreviewFails, Pay!FeesKnown
    <3> QED
      BY <3>1, <3>2, <3>3, <3>4, <3>5, <3>6, <3>7 DEF Pay!Next
  <2> QED
    BY <2>1, <2>2 DEF Flows
<1> QED
  BY <1>0, <1>1, <1>2, <1>3, <1>4 DEF PayInv

\* What a payment was confirmed with. An invoice or an LNURL is not paid beyond what the
\* wallet has that pays it, whichever is chosen meanwhile; a payment on chain is not, if
\* the preview taken last was for that wallet. Once nothing is asked for, the fees shown
\* are those of the wallet and the amount shown; of an invoice, unless the answer taken
\* last was for another wallet or that for the chosen one failed. And what is said to be
\* sent was sent, by services that send the invoice they were asked for
\* (useOmniPaymentState, ConfirmSendLightning, ConfirmSendOnChain).
THEOREM PaidAsConfirmed ==
    ASSUME NEW flow \in Flows, Pay(flow)!OmniPaymentsAssumption
    PROVE  Pay(flow)!Spec => [](/\ Pay(flow)!TypeOK
                                /\ Pay(flow)!WithinBalance
                                /\ Pay(flow)!FeesAreOfThePayment
                                /\ Pay(flow)!SaidIsSent)
<1>1. Pay(flow)!Init => PayInv(flow)
  BY PaymentsStart
<1>2. PayInv(flow) /\ [Pay(flow)!Next]_(Pay(flow)!vars) => PayInv(flow)'
  BY PaymentsGoOn
<1>3. PayInv(flow) => /\ Pay(flow)!TypeOK
                      /\ Pay(flow)!WithinBalance
                      /\ Pay(flow)!FeesAreOfThePayment
                      /\ Pay(flow)!SaidIsSent
  BY PaymentsAreSound
<1> QED
  BY <1>1, <1>2, <1>3, PTL DEF Pay!Spec

-----------------------------------------------------------------------------
(* Asking for a payment on the web: RequestDialog. *)

\* Whatever is made is new, and what is given to a service is an invoice.
DialogTypes ==
    /\ Dialog!TypeOK /\ IsFiniteSet(dialogMade) /\ \E a : a \in Requestable
    /\ dialogGiven # Dialog!None => dialogGiven.lightning
    /\ ~SlowFailures => cancelled = {}
    /\ ~OnChain => dialogIsLightning
    /\ ~Reopens /\ dialogOpen => timers \subseteq {opened}
    /\ opened = 0 => ~dialogOpen /\ ~wants /\ invoice = Dialog!None /\ dialogGiven = Dialog!None

LEMMA OneJobAtMost ==
    ASSUME Dialog!Effect
    PROVE  job' = {} \/ \E j : job' = {j} /\ j = [lightning |-> dialogIsLightning', amount |-> dialogAmount',
                                                 wallet |-> dialogWallet']
  BY DEF Dialog!Effect, Dialog!NoJob

LEMMA JobTypes ==
    ASSUME Dialog!Effect, dialogIsLightning' \in BOOLEAN, dialogAmount' \in Requestable,
           dialogWallet' \in DialogWallets, DialogTypes
    PROVE  /\ job' \subseteq Dialog!Jobs /\ Dialog!Cardinality(job') <= 1
           /\ cancelled' \subseteq Dialog!Jobs /\ (~SlowFailures => cancelled' = {})
<1>1. job' \subseteq Dialog!Jobs
  BY DEF Dialog!Effect, Dialog!NoJob, Dialog!Jobs
<1>2. cancelled' \subseteq Dialog!Jobs /\ (~SlowFailures => cancelled' = {})
  BY DEF Dialog!Effect, DialogTypes, Dialog!TypeOK
<1>3. Cardinality(job') <= 1
  <2>1. CASE job' = {}
    BY <2>1, FS_EmptySet
  <2>2. ASSUME NEW j, job' = {j} PROVE Cardinality(job') <= 1
    <3>1. Cardinality({j}) = 1
      BY FS_Singleton
    <3> QED
      BY <2>2, <3>1
  <2> QED
    BY <2>1, <2>2, OneJobAtMost
<1> QED
  BY <1>1, <1>2, <1>3 DEF Dialog!Cardinality, Cardinality

LEMMA MadeIsNew ==
    ASSUME Dialog!RequestDialogAssumption, DialogTypes, Dialog!Cardinality(dialogMade) < MaxMade,
           NEW r, r.lightning \in BOOLEAN, r.amount \in Requestable, r.wallet \in DialogWallets
    PROVE  /\ Dialog!New(r) \in Dialog!Requests /\ Dialog!New(r) # Dialog!None
           /\ Dialog!New(r).lightning = r.lightning
           /\ Dialog!New(r).amount = r.amount /\ Dialog!New(r).wallet = r.wallet
           /\ IsFiniteSet(dialogMade \cup {Dialog!New(r)})
           /\ dialogMade \cup {Dialog!New(r)} \subseteq Dialog!Requests
<1>1. Dialog!Cardinality(dialogMade) = Cardinality(dialogMade)
  BY DEF Dialog!Cardinality, Cardinality
<1>2. Cardinality(dialogMade) \in Nat
  BY FS_CardinalityType DEF DialogTypes
<1>3. Cardinality(dialogMade) + 1 \in 1 .. MaxMade
  BY <1>1, <1>2 DEF Dialog!RequestDialogAssumption
<1>4. Dialog!New(r) \in Dialog!Requests
  BY <1>1, <1>3 DEF Dialog!New, Dialog!Requests
<1>5. Dialog!New(r).id # 0
  BY <1>1, <1>2 DEF Dialog!New
<1>6. IsFiniteSet(dialogMade \cup {Dialog!New(r)})
  BY FS_AddElement DEF DialogTypes
<1> QED
  BY <1>4, <1>5, <1>6 DEF Dialog!New, Dialog!None, DialogTypes, Dialog!TypeOK

\* What is made, and what is shown, is of the form: the effects drop both when the form
\* or the federation changes.
JobIsOfTheForm ==
    \A j \in job : /\ wants /\ j.lightning = dialogIsLightning
                   /\ j.amount = dialogAmount /\ j.wallet = dialogWallet
AsksForTheForm ==
    IF Lnurl THEN ~wants
    ELSE /\ dialogGiven = Dialog!None
         /\ \A r \in {invoice, dialogAddress} :
               r # Dialog!None => r.amount = dialogAmount /\ r.wallet = dialogWallet
DialogInv == DialogTypes /\ JobIsOfTheForm /\ AsksForTheForm

LEMMA EffectFollows ==
    ASSUME Dialog!Effect
    PROVE  JobIsOfTheForm'
  BY OneJobAtMost DEF Dialog!Effect, Dialog!NoJob, JobIsOfTheForm

\* The form, the federation and the opening of the dialog change.
LEMMA FormSteps ==
    ASSUME Dialog!RequestDialogAssumption, DialogInv,
           \/ Dialog!Close \/ Dialog!Toggle \/ Dialog!Submit
           \/ \E a \in Requestable : Dialog!Edit(a)
           \/ \E w \in DialogWallets : Dialog!SwitchWallet(w)
           \/ \E o \in timers : Dialog!TimerFires(o) /\ dialogOpen
    PROVE  DialogInv'
<1> USE DEF Dialog!form, Dialog!service, Dialog!payments, Dialog!Drop
<1>1. PICK one : one = CHOOSE a \in Requestable : TRUE
  OBVIOUS
<1>2. one \in Requestable
  BY <1>1 DEF Dialog!RequestDialogAssumption
<1>3. /\ Dialog!Effect
      /\ dialogWallet' \in DialogWallets /\ dialogAmount' \in Requestable /\ dialogIsLightning' \in BOOLEAN
      /\ wants' \in BOOLEAN /\ (Lnurl \/ opened = 0 => ~wants') /\ (~OnChain => dialogIsLightning')
      /\ dialogOpen' \in BOOLEAN /\ opened' = opened /\ (dialogOpen' => dialogOpen) /\ timers' \subseteq timers
      /\ withdrawing' \in BOOLEAN /\ received' \in BOOLEAN /\ dialogGiven' = dialogGiven
      /\ dialogMade' = dialogMade /\ dialogPaid' = dialogPaid
      /\ \/ invoice' = Dialog!None /\ dialogAddress' = Dialog!None
         \/ UNCHANGED <<invoice, dialogAddress, dialogAmount, dialogWallet>>
  <2> USE DEF DialogInv, DialogTypes, AsksForTheForm, Dialog!TypeOK
  <2>1. CASE Dialog!Close
    BY <1>1, <1>2, <2>1 DEF Dialog!Close, Dialog!Reset
  <2>2. CASE Dialog!Toggle
    BY <2>2 DEF Dialog!Toggle
  <2>3. CASE Dialog!Submit
    BY <2>3 DEF Dialog!Submit
  <2>4. CASE \E a \in Requestable : Dialog!Edit(a)
    BY <2>4 DEF Dialog!Edit
  <2>5. CASE \E w \in DialogWallets : Dialog!SwitchWallet(w)
    BY <2>5 DEF Dialog!SwitchWallet
  <2>6. CASE \E o \in timers : Dialog!TimerFires(o) /\ dialogOpen
    BY <1>1, <1>2, <2>6 DEF Dialog!TimerFires, Dialog!Reset
  <2> QED
    BY <2>1, <2>2, <2>3, <2>4, <2>5, <2>6
<1>4. DialogTypes'
  <2>1. /\ job' \subseteq Dialog!Jobs /\ Dialog!Cardinality(job') <= 1
        /\ cancelled' \subseteq Dialog!Jobs /\ (~SlowFailures => cancelled' = {})
    BY <1>3, JobTypes DEF DialogInv
  <2>2. /\ invoice' \in Dialog!Requests \cup {Dialog!None}
        /\ invoice' # Dialog!None => invoice'.lightning
        /\ dialogAddress' \in Dialog!Requests \cup {Dialog!None}
        /\ dialogAddress' # Dialog!None => ~dialogAddress'.lightning
    BY <1>3 DEF DialogInv, DialogTypes, Dialog!TypeOK
  <2> QED
    BY <1>3, <2>1, <2>2 DEF DialogInv, DialogTypes, Dialog!TypeOK
<1>5. AsksForTheForm'
  BY <1>3 DEF DialogInv, AsksForTheForm
<1> QED
  BY <1>3, <1>4, <1>5, EffectFollows DEF DialogInv

\* Something is made, or given up.
LEMMA MadeStep ==
    ASSUME Dialog!RequestDialogAssumption, DialogInv, NEW j, Dialog!Made(j)
    PROVE  DialogInv'
<1>1. j \in job /\ j \in Dialog!Jobs /\ Dialog!Cardinality(dialogMade) < MaxMade
  BY DEF Dialog!Made, DialogInv, DialogTypes, Dialog!TypeOK
<1>2. /\ wants /\ j.lightning = dialogIsLightning /\ j.amount = dialogAmount /\ j.wallet = dialogWallet
      /\ j.lightning \in BOOLEAN /\ j.amount \in Requestable /\ j.wallet \in DialogWallets
  BY <1>1 DEF DialogInv, JobIsOfTheForm, Dialog!Jobs
<1> DEFINE n == Dialog!New(j)
<1>3. /\ n \in Dialog!Requests /\ n # Dialog!None /\ n.lightning = j.lightning
      /\ n.amount = dialogAmount /\ n.wallet = dialogWallet
      /\ IsFiniteSet(dialogMade \cup {n}) /\ dialogMade \cup {n} \subseteq Dialog!Requests
  BY <1>1, <1>2, MadeIsNew DEF DialogInv
<1>4. /\ dialogMade' = dialogMade \cup {n} /\ Dialog!Effect
      /\ IF j.lightning THEN invoice' = n /\ dialogAddress' = dialogAddress
                        ELSE dialogAddress' = n /\ invoice' = invoice
      /\ UNCHANGED <<dialogOpen, opened, dialogAmount, dialogWallet, wants, dialogIsLightning,
                     withdrawing, dialogGiven,
                     received, timers, dialogPaid>>
  BY DEF Dialog!Made, Dialog!form, Dialog!service
<1> HIDE DEF n
<1>5. /\ job' \subseteq Dialog!Jobs /\ Dialog!Cardinality(job') <= 1
      /\ cancelled' \subseteq Dialog!Jobs /\ (~SlowFailures => cancelled' = {})
  BY <1>4, JobTypes DEF DialogInv, DialogTypes, Dialog!TypeOK
<1>6. DialogTypes'
  <2>1. /\ invoice' \in Dialog!Requests \cup {Dialog!None}
        /\ invoice' # Dialog!None => invoice'.lightning
        /\ dialogAddress' \in Dialog!Requests \cup {Dialog!None}
        /\ dialogAddress' # Dialog!None => ~dialogAddress'.lightning
    BY <1>2, <1>3, <1>4 DEF DialogInv, DialogTypes, Dialog!TypeOK
  <2>2. dialogMade' \subseteq Dialog!Requests /\ dialogPaid' \subseteq dialogMade' /\ IsFiniteSet(dialogMade')
    BY <1>3, <1>4 DEF DialogInv, DialogTypes, Dialog!TypeOK
  <2> QED
    BY <1>2, <1>4, <1>5, <2>1, <2>2 DEF DialogInv, DialogTypes, Dialog!TypeOK
<1>7. AsksForTheForm'
  BY <1>2, <1>3, <1>4 DEF DialogInv, AsksForTheForm
<1> QED
  BY <1>4, <1>6, <1>7, EffectFollows DEF DialogInv

LEMMA FailsStep ==
    ASSUME DialogInv, NEW j, Dialog!Fails(j)
    PROVE  DialogInv'
<1>1. /\ wants' = FALSE /\ job' = {} /\ cancelled' \subseteq cancelled \cup job
      /\ (~SlowFailures => cancelled' = {})
      /\ UNCHANGED <<dialogOpen, opened, dialogAmount, dialogWallet, dialogIsLightning, invoice,
                     dialogAddress, withdrawing,
                     dialogGiven, received, timers, dialogMade, dialogPaid>>
  BY DEF Dialog!Fails, Dialog!service, Dialog!payments, Dialog!NoJob, DialogInv, DialogTypes
<1>2. Dialog!Cardinality(job') <= 1
  <2>1. Cardinality(job') = 0
    BY <1>1, FS_EmptySet
  <2> QED
    BY <2>1 DEF Dialog!Cardinality, Cardinality
<1>3. job' \subseteq Dialog!Jobs /\ cancelled' \subseteq Dialog!Jobs
  BY <1>1 DEF DialogInv, DialogTypes, Dialog!TypeOK
<1>4. DialogTypes'
  BY <1>1, <1>2, <1>3 DEF DialogInv, DialogTypes, Dialog!TypeOK
<1> QED
  BY <1>1, <1>4 DEF DialogInv, JobIsOfTheForm, AsksForTheForm

\* The withdrawal and the service, and payments.
LEMMA ServiceSteps ==
    ASSUME Dialog!RequestDialogAssumption, DialogInv,
           Dialog!Withdraw \/ Dialog!Answered \/ Dialog!AnsweredNo
    PROVE  DialogInv'
<1> USE DEF Dialog!form, Dialog!shown, Dialog!payments
<1>1. CASE Dialog!Withdraw
  <2> DEFINE q == [lightning |-> TRUE, amount |-> dialogAmount, wallet |-> dialogWallet]
             n == Dialog!New(q)
  <2>1. /\ Lnurl /\ dialogOpen /\ Dialog!Cardinality(dialogMade) < MaxMade /\ withdrawing' = TRUE
        /\ dialogMade' = dialogMade \cup {n} /\ dialogGiven' = n
        /\ UNCHANGED <<dialogOpen, opened, dialogAmount, dialogWallet, wants, dialogIsLightning,
                       invoice, dialogAddress, job,
                       cancelled, received, timers, dialogPaid>>
    BY <1>1 DEF Dialog!Withdraw
  <2>2. q.lightning = TRUE /\ q.amount = dialogAmount /\ q.wallet = dialogWallet
    OBVIOUS
  <2> HIDE DEF q
  <2>3. q.lightning \in BOOLEAN /\ q.amount \in Requestable /\ q.wallet \in DialogWallets
    BY <2>2 DEF DialogInv, DialogTypes, Dialog!TypeOK
  <2>4. /\ n \in Dialog!Requests /\ n # Dialog!None /\ n.lightning = TRUE
        /\ IsFiniteSet(dialogMade \cup {n}) /\ dialogMade \cup {n} \subseteq Dialog!Requests
    BY <2>1, <2>2, <2>3, MadeIsNew DEF DialogInv
  <2> HIDE DEF n
  <2>5. DialogTypes'
    BY <2>1, <2>4 DEF DialogInv, DialogTypes, Dialog!TypeOK
  <2> QED
    BY <2>1, <2>5 DEF DialogInv, JobIsOfTheForm, AsksForTheForm
<1>2. CASE Dialog!Answered
  <2>1. /\ dialogGiven # Dialog!None /\ dialogGiven' = Dialog!None /\ invoice' = dialogGiven /\ Dialog!Effect
        /\ UNCHANGED <<dialogOpen, opened, dialogAmount, dialogWallet, wants, dialogIsLightning,
                       dialogAddress, withdrawing,
                       received, timers, dialogMade, dialogPaid>>
    BY <1>2 DEF Dialog!Answered
  <2>2. Lnurl
    BY <2>1 DEF DialogInv, AsksForTheForm
  <2>3. /\ job' \subseteq Dialog!Jobs /\ Dialog!Cardinality(job') <= 1
        /\ cancelled' \subseteq Dialog!Jobs /\ (~SlowFailures => cancelled' = {})
    BY <2>1, JobTypes DEF DialogInv, DialogTypes, Dialog!TypeOK
  <2>4. DialogTypes'
    BY <2>1, <2>3 DEF DialogInv, DialogTypes, Dialog!TypeOK
  <2> QED
    BY <2>1, <2>2, <2>4, EffectFollows DEF DialogInv, AsksForTheForm
<1>3. CASE Dialog!AnsweredNo
  <2>1. /\ dialogGiven # Dialog!None /\ dialogGiven' = Dialog!None /\ withdrawing' = FALSE
        /\ UNCHANGED <<dialogOpen, opened, dialogAmount, dialogWallet, wants, dialogIsLightning,
                       invoice, dialogAddress, job,
                       cancelled, received, timers, dialogMade, dialogPaid>>
    BY <1>3 DEF Dialog!AnsweredNo
  <2>2. DialogTypes'
    BY <2>1 DEF DialogInv, DialogTypes, Dialog!TypeOK
  <2> QED
    BY <2>1, <2>2 DEF DialogInv, JobIsOfTheForm, AsksForTheForm
<1> QED
  BY <1>1, <1>2, <1>3

LEMMA OtherDialogSteps ==
    ASSUME Dialog!RequestDialogAssumption, DialogInv,
           \/ Dialog!Open \/ \E r \in dialogMade : Dialog!Pay(r)
           \/ \E o \in timers : Dialog!TimerFires(o) /\ ~dialogOpen
    PROVE  DialogInv'
<1> USE DEF Dialog!form, Dialog!shown, Dialog!service, Dialog!payments
<1>1. CASE Dialog!Open
  <2>1. /\ ~dialogOpen /\ dialogOpen' = TRUE /\ opened' = opened + 1 /\ opened < MaxOpened
        /\ (Reopens \/ timers = {})
        /\ UNCHANGED <<dialogAmount, dialogWallet, wants, dialogIsLightning, invoice,
                       dialogAddress, job, cancelled,
                       withdrawing, dialogGiven, received, timers, dialogMade, dialogPaid>>
    BY <1>1 DEF Dialog!Open
  <2>2. opened' \in 0 .. MaxOpened /\ timers' \subseteq 1 .. opened'
    BY <2>1 DEF DialogInv, DialogTypes, Dialog!TypeOK, Dialog!RequestDialogAssumption
  <2>3. DialogTypes'
    BY <2>1, <2>2 DEF DialogInv, DialogTypes, Dialog!TypeOK
  <2> QED
    BY <2>1, <2>3 DEF DialogInv, JobIsOfTheForm, AsksForTheForm
<1>2. ASSUME NEW r \in dialogMade, Dialog!Pay(r) PROVE DialogInv'
  <2>0. /\ dialogPaid' = dialogPaid \cup {r}
        /\ UNCHANGED <<dialogOpen, opened, dialogAmount, dialogWallet, wants, dialogIsLightning,
                       invoice, dialogAddress, job,
                       cancelled, dialogGiven, dialogMade>>
    BY <1>2 DEF Dialog!Pay
  <2>1. /\ withdrawing' \in BOOLEAN /\ received' \in BOOLEAN
        /\ \/ timers' = timers
           \/ opened # 0 /\ timers' = timers \cup {opened}
    <3>1. CASE Dialog!Watches(r)
      <4>1. withdrawing' = FALSE /\ received' = TRUE /\ timers' = timers \cup {opened}
        BY <1>2, <3>1 DEF Dialog!Pay
      <4>2. opened # 0
        BY <3>1 DEF Dialog!Watches, DialogInv, DialogTypes
      <4> QED
        BY <4>1, <4>2
    <3>2. CASE ~Dialog!Watches(r)
      <4>1. UNCHANGED <<withdrawing, received, timers>>
        BY <1>2, <3>2 DEF Dialog!Pay
      <4> QED
        BY <4>1 DEF DialogInv, DialogTypes, Dialog!TypeOK
    <3> QED
      BY <3>1, <3>2
  <2>2. timers' \subseteq 1 .. opened' /\ (~Reopens /\ dialogOpen => timers' \subseteq {opened})
    <3>1. opened \in Nat /\ timers \subseteq 1 .. opened
      BY DEF DialogInv, DialogTypes, Dialog!TypeOK, Dialog!RequestDialogAssumption
    <3>2. ~Reopens /\ dialogOpen => timers \subseteq {opened}
      BY DEF DialogInv, DialogTypes
    <3>3. opened # 0 => opened \in 1 .. opened
      BY <3>1
    <3> QED
      BY <2>0, <2>1, <3>1, <3>2, <3>3
  <2>3. DialogTypes'
    BY <2>0, <2>1, <2>2 DEF DialogInv, DialogTypes, Dialog!TypeOK
  <2> QED
    BY <2>0, <2>3 DEF DialogInv, JobIsOfTheForm, AsksForTheForm
<1>3. ASSUME NEW o \in timers, Dialog!TimerFires(o), ~dialogOpen PROVE DialogInv'
  <2>1. /\ timers' = timers \ {o}
        /\ UNCHANGED <<dialogOpen, opened, dialogAmount, dialogWallet, wants, dialogIsLightning,
                       invoice, dialogAddress, job,
                       cancelled, withdrawing, dialogGiven, received, dialogMade, dialogPaid>>
    BY <1>3 DEF Dialog!TimerFires
  <2>2. DialogTypes'
    BY <2>1 DEF DialogInv, DialogTypes, Dialog!TypeOK
  <2> QED
    BY <2>1, <2>2 DEF DialogInv, JobIsOfTheForm, AsksForTheForm
<1> QED
  BY <1>1, <1>2, <1>3

LEMMA DialogGoesOn ==
    ASSUME Dialog!RequestDialogAssumption, DialogInv, [Dialog!Next]_(Dialog!vars)
    PROVE  DialogInv'
<1>1. CASE UNCHANGED Dialog!vars
  <2>1. DialogTypes'
    BY <1>1 DEF Dialog!vars, DialogInv, DialogTypes, Dialog!TypeOK
  <2> QED
    BY <1>1, <2>1 DEF Dialog!vars, DialogInv, JobIsOfTheForm, AsksForTheForm
<1> QED
  BY <1>1, FormSteps, MadeStep, FailsStep, ServiceSteps, OtherDialogSteps DEF Dialog!Next

\* What the dialog shows asks for the amount of the form, in the active federation. With
\* no requests that fail late, it stops to want one only when the user closes it or when
\* making it fails; and without addresses, a payment of what is shown is noticed, however
\* often the dialog was opened (RequestPaymentDialog).
THEOREM DialogIsTrue ==
    ASSUME Dialog!RequestDialogAssumption
    PROVE  Dialog!Spec => /\ [](Dialog!TypeOK /\ Dialog!ShownIsOfTheForm)
                          /\ ~SlowFailures => Dialog!WantsUntilFailed
                          /\ ~OnChain => Dialog!ShownPaymentIsNoticed
                          /\ ~Reopens => []Dialog!TimersAreOfTheOpening
<1>1. ASSUME Dialog!Init PROVE DialogInv
  <2> USE <1>1 DEF Dialog!Init
  <2>1. Dialog!TypeOK
    <3>1. Cardinality({}) = 0 /\ opened \in 0 .. MaxOpened
      BY FS_EmptySet DEF Dialog!RequestDialogAssumption
    <3>2. Dialog!Cardinality(job) <= 1
      BY <3>1 DEF Dialog!NoJob, Dialog!Cardinality, Cardinality
    <3> QED
      BY <3>1, <3>2 DEF Dialog!TypeOK, Dialog!NoJob
  <2>2. IsFiniteSet(dialogMade)
    BY FS_EmptySet
  <2> QED
    BY <2>1, <2>2 DEF DialogInv, DialogTypes, JobIsOfTheForm, AsksForTheForm, Dialog!NoJob
<1>2. DialogInv /\ [Dialog!Next]_(Dialog!vars) => DialogInv'
  BY DialogGoesOn
<1>3. ASSUME DialogInv PROVE Dialog!TypeOK /\ Dialog!ShownIsOfTheForm
  <2>1. Dialog!None \notin dialogMade
    BY <1>3 DEF DialogInv, DialogTypes, Dialog!TypeOK, Dialog!Requests, Dialog!None
  <2> QED
    BY <1>3, <2>1 DEF DialogInv, DialogTypes, AsksForTheForm, Dialog!ShownIsOfTheForm,
       Dialog!Visible
<1>4. DialogInv /\ ~Reopens => Dialog!TimersAreOfTheOpening
  BY DEF DialogInv, DialogTypes, Dialog!TimersAreOfTheOpening
<1>5. DialogInv /\ ~OnChain => [Dialog!PaymentIsNoticed]_(Dialog!vars)
  <2> SUFFICES ASSUME DialogInv, ~OnChain, NEW r \in dialogMade, Dialog!Visible(r), Dialog!Pay(r)
               PROVE  received'
    BY DEF Dialog!PaymentIsNoticed
  <2>1. r # Dialog!None
    BY DEF DialogInv, DialogTypes, Dialog!TypeOK, Dialog!Requests, Dialog!None
  <2>2. Dialog!Watches(r)
    BY <2>1 DEF DialogInv, DialogTypes, Dialog!Visible, Dialog!Watches
  <2> QED
    BY <2>2 DEF Dialog!Pay
<1>6. DialogInv /\ ~SlowFailures /\ [Dialog!Next]_(Dialog!vars)
        => [Dialog!StopsWantingRightly]_(Dialog!vars)
  <2> SUFFICES ASSUME DialogInv, ~SlowFailures, Dialog!Next, wants, ~wants', dialogOpen'
               PROVE  \E j \in job : Dialog!Fails(j)
    BY DEF Dialog!StopsWantingRightly, Dialog!vars
  <2>1. cancelled = {}
    BY DEF DialogInv, DialogTypes
  <2>2. \E j \in job \cup cancelled : Dialog!Fails(j)
    BY DEF Dialog!Next, Dialog!Open, Dialog!Close, Dialog!Reset, Dialog!Toggle, Dialog!Submit,
       Dialog!Withdraw, Dialog!Answered, Dialog!AnsweredNo, Dialog!Edit, Dialog!SwitchWallet,
       Dialog!Made, Dialog!Pay, Dialog!TimerFires, Dialog!form
  <2> QED
    BY <2>1, <2>2
<1>7. Dialog!Spec => []DialogInv
  BY <1>1, <1>2, PTL DEF Dialog!Spec
<1>8. Dialog!Spec => [](Dialog!TypeOK /\ Dialog!ShownIsOfTheForm)
  BY <1>3, <1>7, PTL
<1>9. ASSUME ~SlowFailures PROVE Dialog!Spec => Dialog!WantsUntilFailed
  <2>1. DialogInv /\ [Dialog!Next]_(Dialog!vars) => [Dialog!StopsWantingRightly]_(Dialog!vars)
    BY <1>6, <1>9
  <2> QED
    BY <1>7, <2>1, PTL DEF Dialog!Spec, Dialog!WantsUntilFailed
<1>10. ASSUME ~OnChain PROVE Dialog!Spec => Dialog!ShownPaymentIsNoticed
  <2>1. DialogInv => [Dialog!PaymentIsNoticed]_(Dialog!vars)
    BY <1>5, <1>10
  <2> QED
    BY <1>7, <2>1, PTL DEF Dialog!ShownPaymentIsNoticed
<1>11. ASSUME ~Reopens PROVE Dialog!Spec => []Dialog!TimersAreOfTheOpening
  <2>1. DialogInv => Dialog!TimersAreOfTheOpening
    BY <1>4, <1>11
  <2> QED
    BY <1>7, <2>1, PTL
<1> QED
  BY <1>8, <1>9, <1>10, <1>11

-----------------------------------------------------------------------------
(* Asking for a payment in the native app: LightningRequests. *)

\* What is made is numbered.
NumberedTo(n) == n \in Nat /\ n <= MaxInvoices /\ DOMAIN made = 1 .. n
RequestTypes ==
    /\ Requests!TypeOK /\ \E n : NumberedTo(n)
    /\ withdrawal \in [at : {"none", "invoice", "callback"}, amount : Requestable \cup {0},
                       invoice : 0 .. MaxInvoices]
    /\ withdrawal.at # "none" => Lnurl /\ withdrawal.amount \in Requestable
    /\ withdrawal.at # "callback" => withdrawal.invoice = 0
    /\ top = "success" => shown \in paid

LEMMA NumberedAre ==
    ASSUME NEW n, NumberedTo(n)
    PROVE  /\ Requests!Ids = 1 .. n /\ Requests!New = n + 1
           /\ Requests!Room <=> n < MaxInvoices
<1>1. Cardinality(1 .. n) = n
  BY FS_Interval DEF NumberedTo
<1> QED
  BY <1>1 DEF NumberedTo, Requests!Ids, Requests!New, Requests!Room, Requests!Cardinality, Cardinality

LEMMA MadeIsNumbered ==
    ASSUME NEW n, NumberedTo(n), Requests!Room, NEW a, Requests!Made(a), MaxInvoices \in Nat
    PROVE  /\ NumberedTo(n + 1)' /\ Requests!New = n + 1 /\ Requests!New \in 1 .. MaxInvoices
           /\ Requests!Ids' = Requests!Ids \cup {Requests!New} /\ Requests!Ids = 1 .. n
           /\ made'[Requests!New] = a
           /\ \A i \in Requests!Ids : made'[i] = made[i]
<1>1. Requests!Ids = 1 .. n /\ Requests!New = n + 1 /\ n < MaxInvoices
  BY NumberedAre
<1>2. DOMAIN made' = 1 .. n + 1 /\ n \in Nat
  BY <1>1 DEF Requests!Made, NumberedTo
<1>3. NumberedTo(n + 1)'
  BY <1>1, <1>2 DEF NumberedTo
<1>4. Requests!Ids' = 1 .. n + 1
  <2>1. Cardinality(1 .. n + 1) = n + 1
    BY <1>2, FS_Interval
  <2> QED
    BY <1>2, <2>1 DEF Requests!Ids, Requests!Cardinality, Cardinality
<1>5. made'[n + 1] = a /\ \A i \in 1 .. n : made'[i] = made[i]
  BY <1>1, <1>2 DEF Requests!Made
<1> QED
  BY <1>1, <1>2, <1>3, <1>4, <1>5

\* Without a withdrawal nobody but the form asks for an invoice, and the form is closed
\* while one is made.
FormIsHeld ==
    ~Lnurl => /\ jobs \subseteq {requestsAmount} /\ (generating \/ jobs = {})
              /\ withdrawal = Requests!NotWaiting
              /\ Requests!ShownAmount
RequestInv == RequestTypes /\ FormIsHeld

LEMMA RequestTypesSame ==
    ASSUME Requests!LightningRequestsAssumption, RequestTypes, UNCHANGED made,
           requestsAmount' \in Requestable, isLightning' \in BOOLEAN, generating' \in BOOLEAN,
           jobs' \subseteq Requestable, address' \in 0 .. MaxInvoices, addressing' \in 0 .. 2,
           \/ withdrawal' = withdrawal \/ withdrawal' = Requests!NotWaiting
           \/ Lnurl /\ \E a \in Requestable : withdrawal' = [at |-> "invoice", amount |-> a, invoice |-> 0],
           given' \in 0 .. MaxInvoices, shown' \in 0 .. MaxInvoices,
           top' \in {"form", "request", "success"}, top' # "form" => shown' \in Requests!Ids,
           paid' \subseteq Requests!Ids, top' = "success" => shown' \in paid'
    PROVE  RequestTypes'
<1>1. Requests!Ids' = Requests!Ids /\ 0 \notin Requests!Ids
  BY DEF Requests!Ids
<1>2. (\E n : NumberedTo(n))'
  BY DEF RequestTypes, NumberedTo
<1>3. \A i \in Requests!Ids : made'[i] \in Requestable \cup {0}
  BY DEF RequestTypes, Requests!TypeOK
<1>4. /\ withdrawal' \in [at : {"none", "invoice", "callback"}, amount : Requestable \cup {0},
                          invoice : 0 .. MaxInvoices]
      /\ withdrawal'.at # "none" => Lnurl /\ withdrawal'.amount \in Requestable
      /\ withdrawal'.at # "callback" => withdrawal'.invoice = 0
      /\ withdrawal'.at = "callback" => withdrawal'.invoice \in Requests!Ids
  <2>1. 0 \in 0 .. MaxInvoices
    BY DEF Requests!LightningRequestsAssumption
  <2> QED
    BY <2>1 DEF RequestTypes, Requests!TypeOK, Requests!NotWaiting
<1>5. Requests!TypeOK'
  BY <1>1, <1>3, <1>4 DEF Requests!TypeOK
<1> QED
  BY <1>2, <1>4, <1>5 DEF RequestTypes

LEMMA RequestTypesGrow ==
    ASSUME Requests!LightningRequestsAssumption, RequestTypes, Requests!Room,
           NEW a \in Requestable \cup {0}, Requests!Made(a),
           requestsAmount' \in Requestable, isLightning' \in BOOLEAN, generating' \in BOOLEAN,
           jobs' \subseteq Requestable, address' \in 0 .. MaxInvoices, addressing' \in 0 .. 2,
           \/ withdrawal' = withdrawal
           \/ withdrawal.at = "invoice" /\ withdrawal' = [withdrawal EXCEPT !.at = "callback", !.invoice = Requests!New],
           given' \in 0 .. MaxInvoices, shown' \in 0 .. MaxInvoices,
           top' \in {"form", "request", "success"},
           top' # "form" => shown' \in Requests!Ids \cup {Requests!New},
           paid' = paid, top' = "success" => shown' \in paid'
    PROVE  RequestTypes'
<1>1. PICK n : NumberedTo(n)
  BY DEF RequestTypes
<1>2. MaxInvoices \in Nat
  BY DEF Requests!LightningRequestsAssumption
<1>3. /\ NumberedTo(n + 1)' /\ Requests!New \in 1 .. MaxInvoices
      /\ Requests!Ids' = Requests!Ids \cup {Requests!New}
      /\ made'[Requests!New] = a
      /\ \A i \in Requests!Ids : made'[i] = made[i]
  BY <1>1, <1>2, MadeIsNumbered
<1>4. (\E m : NumberedTo(m))'
  BY <1>3
<1>5. \A i \in Requests!Ids' : made'[i] \in Requestable \cup {0}
  BY <1>3 DEF RequestTypes, Requests!TypeOK
<1>6. 0 \notin Requests!Ids'
  BY DEF Requests!Ids
<1>7. Requests!New \in 0 .. MaxInvoices
  BY <1>3
<1>8. /\ withdrawal' \in [at : {"none", "invoice", "callback"}, amount : Requestable \cup {0},
                          invoice : 0 .. MaxInvoices]
      /\ withdrawal'.at # "none" => Lnurl /\ withdrawal'.amount \in Requestable
      /\ withdrawal'.at # "callback" => withdrawal'.invoice = 0
      /\ withdrawal'.at = "callback" => withdrawal'.invoice \in Requests!Ids'
  BY <1>3, <1>7 DEF RequestTypes, Requests!TypeOK
<1>9. Requests!TypeOK'
  BY <1>3, <1>5, <1>6, <1>8 DEF RequestTypes, Requests!TypeOK
<1> QED
  BY <1>4, <1>8, <1>9 DEF RequestTypes

LEMMA RequestsGoOn ==
    ASSUME Requests!LightningRequestsAssumption, RequestInv, [Requests!Next]_(Requests!vars)
    PROVE  RequestInv'
<1> USE DEF Requests!chain, Requests!service, Requests!FormShown, Requests!ShownAmount,
            Requests!ShowRequest, Requests!Effect, Requests!NotWaiting, RequestInv, FormIsHeld
<1>1. /\ requestsAmount \in Requestable /\ isLightning \in BOOLEAN /\ generating \in BOOLEAN
      /\ jobs \subseteq Requestable /\ address \in 0 .. MaxInvoices /\ addressing \in 0 .. 2
      /\ given \in 0 .. MaxInvoices /\ shown \in 0 .. MaxInvoices /\ 0 \in 0 .. MaxInvoices
      /\ top \in {"form", "request", "success"} /\ (top # "form" => shown \in Requests!Ids)
      /\ paid \subseteq Requests!Ids /\ (top = "success" => shown \in paid)
      /\ withdrawal.at # "none" => Lnurl
  BY DEF RequestTypes, Requests!TypeOK, Requests!LightningRequestsAssumption
<1>2. CASE UNCHANGED Requests!vars
  <2>1. RequestTypes'
    BY <1>1, <1>2, RequestTypesSame DEF Requests!vars
  <2> QED
    BY <1>2, <2>1 DEF Requests!vars
<1>3. ASSUME NEW a \in Requestable, Requests!Type(a) PROVE RequestInv'
  <2>1. RequestTypes'
    BY <1>1, <1>3, RequestTypesSame DEF Requests!Type
  <2> QED
    BY <1>1, <1>3, <2>1 DEF Requests!Type
<1>4. CASE Requests!Request
  <2>1. RequestTypes'
    BY <1>1, <1>4, RequestTypesSame DEF Requests!Request
  <2> QED
    BY <1>1, <1>4, <2>1 DEF Requests!Request
<1>5. ASSUME NEW a \in Requestable, Requests!EffectMade(a) PROVE RequestInv'
  <2>1. PICK n : NumberedTo(n)
    BY DEF RequestTypes
  <2>2. Requests!New \in 0 .. MaxInvoices /\ made'[Requests!New] = a
    BY <1>5, <2>1, MadeIsNumbered DEF Requests!EffectMade, Requests!LightningRequestsAssumption
  <2>3. RequestTypes'
    BY <1>1, <1>5, <2>2, RequestTypesGrow DEF Requests!EffectMade
  <2> QED
    BY <1>1, <1>5, <2>2, <2>3 DEF Requests!EffectMade
<1>6. ASSUME NEW a \in Requestable, Requests!EffectFails(a) PROVE RequestInv'
  <2>1. RequestTypes'
    BY <1>1, <1>6, RequestTypesSame DEF Requests!EffectFails
  <2> QED
    BY <1>1, <1>6, <2>1 DEF Requests!EffectFails
<1>7. CASE Requests!WithdrawalMade
  <2>1. withdrawal.amount \in Requestable \cup {0} /\ Lnurl
    BY <1>7 DEF Requests!WithdrawalMade, RequestTypes
  <2>2. RequestTypes'
    BY <1>1, <1>7, <2>1, RequestTypesGrow DEF Requests!WithdrawalMade
  <2> QED
    BY <2>1, <2>2
<1>8. CASE Requests!WithdrawalFails
  <2>1. RequestTypes' /\ Lnurl
    BY <1>1, <1>8, RequestTypesSame DEF Requests!WithdrawalFails
  <2> QED
    BY <2>1
<1>9. CASE Requests!WithdrawalAccepted
  <2>1. withdrawal.invoice \in Requests!Ids /\ withdrawal.invoice \in 0 .. MaxInvoices
    BY <1>9 DEF Requests!WithdrawalAccepted, RequestTypes, Requests!TypeOK
  <2>2. RequestTypes' /\ Lnurl
    BY <1>1, <1>9, <2>1, RequestTypesSame DEF Requests!WithdrawalAccepted
  <2> QED
    BY <2>2
<1>10. CASE Requests!Switch
  <2>1. addressing' \in 0 .. 2
    BY <1>1, <1>10 DEF Requests!Switch
  <2>2. RequestTypes'
    BY <1>1, <1>10, <2>1, RequestTypesSame DEF Requests!Switch
  <2> QED
    BY <1>1, <1>10, <2>2 DEF Requests!Switch
<1>11. CASE Requests!AddressMade
  <2>1. PICK n : NumberedTo(n)
    BY DEF RequestTypes
  <2>2. /\ Requests!New \in 0 .. MaxInvoices
        /\ \A i \in Requests!Ids : made'[i] = made[i]
    BY <1>11, <2>1, MadeIsNumbered DEF Requests!AddressMade, Requests!LightningRequestsAssumption
  <2>3. addressing' \in 0 .. 2
    BY <1>1, <1>11 DEF Requests!AddressMade
  <2>4. RequestTypes'
    BY <1>1, <1>11, <2>2, <2>3, RequestTypesGrow DEF Requests!AddressMade
  <2> QED
    BY <1>1, <1>11, <2>2, <2>4 DEF Requests!AddressMade
<1>12. CASE Requests!AddressFails
  <2>1. addressing' \in 0 .. 2
    BY <1>1, <1>12 DEF Requests!AddressFails
  <2>2. RequestTypes'
    BY <1>1, <1>12, <2>1, RequestTypesSame DEF Requests!AddressFails
  <2> QED
    BY <1>1, <1>12, <2>2 DEF Requests!AddressFails
<1>13. ASSUME NEW i \in Requests!Ids, Requests!Pay(i) PROVE RequestInv'
  <2>1. i \in 0 .. MaxInvoices
    <3>1. PICK n : NumberedTo(n)
      BY DEF RequestTypes
    <3>2. i \in 1 .. n /\ n <= MaxInvoices /\ n \in Nat /\ MaxInvoices \in Nat
      BY <3>1, NumberedAre DEF NumberedTo, Requests!LightningRequestsAssumption
    <3> QED
      BY <3>2
  <2>2. RequestTypes'
    BY <1>1, <1>13, <2>1, RequestTypesSame DEF Requests!Pay
  <2> QED
    BY <1>1, <1>13, <2>2 DEF Requests!Pay
<1>14. CASE Requests!Back
  <2>1. RequestTypes'
    BY <1>1, <1>14, RequestTypesSame DEF Requests!Back
  <2> QED
    BY <1>1, <1>14, <2>1 DEF Requests!Back
<1> QED
  BY <1>2, <1>3, <1>4, <1>5, <1>6, <1>7, <1>8, <1>9, <1>10, <1>11, <1>12, <1>13, <1>14
     DEF Requests!Next, Requests!Answers

\* The screen of success is shown for a payment that was made. Without a withdrawal, the
\* invoice that is shown is for the amount of the form, however long it took to make and
\* whatever became of addresses meanwhile (ReceiveLightning, ReceiveQr).
THEOREM RequestsAreShown ==
    ASSUME Requests!LightningRequestsAssumption
    PROVE  Requests!Spec => [](/\ Requests!TypeOK
                               /\ Requests!SuccessIsPaid
                               /\ ~Lnurl => Requests!ShownAmount)
<1>1. ASSUME Requests!Init PROVE RequestInv
  <2> USE <1>1 DEF Requests!Init, Requests!LightningRequestsAssumption
  <2>1. DOMAIN made = {} /\ NumberedTo(0)
    BY DEF NumberedTo
  <2>2. Requests!Ids = {}
    BY <2>1, NumberedAre
  <2>3. Requests!TypeOK
    <3>1. 0 \in 0 .. MaxInvoices
      OBVIOUS
    <3>2. withdrawal.at = "none" /\ withdrawal.invoice = 0
      BY DEF Requests!NotWaiting
    <3> QED
      <4>0. requestsAmount \in Requestable /\ isLightning \in BOOLEAN /\ generating \in BOOLEAN
        OBVIOUS
      <4>1. jobs \subseteq Requestable /\ address \in 0 .. MaxInvoices /\ addressing \in 0 .. 2
        BY <3>1
      <4>2. /\ withdrawal.at \in {"none", "invoice", "callback"}
            /\ withdrawal.at = "callback" <=> withdrawal.invoice \in Requests!Ids
        BY <2>2, <3>2
      <4>3. /\ given \in 0 .. MaxInvoices /\ shown \in 0 .. MaxInvoices /\ top = "form"
            /\ paid \subseteq Requests!Ids
        BY <3>1
      <4> QED
        BY <2>2, <4>0, <4>1, <4>2, <4>3 DEF Requests!TypeOK
  <2> QED
    BY <2>1, <2>2, <2>3 DEF RequestInv, RequestTypes, FormIsHeld, Requests!NotWaiting,
       Requests!ShownAmount
<1>2. RequestInv /\ [Requests!Next]_(Requests!vars) => RequestInv'
  BY RequestsGoOn
<1>3. RequestInv => /\ Requests!TypeOK /\ Requests!SuccessIsPaid
                    /\ ~Lnurl => Requests!ShownAmount
  BY DEF RequestInv, RequestTypes, FormIsHeld, Requests!SuccessIsPaid
<1> QED
  BY <1>1, <1>2, <1>3, PTL DEF Requests!Spec

-----------------------------------------------------------------------------
\* A token of several mints, melted part by part: what is said to be received was
\* received, of the whole token, by the native app and by the web.
Totals == INSTANCE LockMatchingTheorems WITH B <- 1, CollProvider <- 1, CollSeeker <- 1

\* The totals of CashuMelts are those that LockMatchingTheorems is about.
LEMMA SameTotals ==
    ASSUME NEW web
    PROVE  /\ \A f : Melt(web)!Total(f) = Totals!Total(f)
           /\ \A q : Melt(web)!Sum(q) = Totals!Total([i \in DOMAIN q |-> q[i].amount])
<1>1. \A f : Melt(web)!Total(f) = Totals!Total(f)
  BY DEF Melt!Total, Melt!Coins, Totals!Total, Totals!Coins, Melt!Cardinality, Totals!Cardinality
<1> QED
  BY <1>1 DEF Melt!Sum, Melt!Amounts

\* What the wallet got of each part that the mints have taken and owe nothing for.
Got(got, taken, owed, sum) ==
    /\ taken \subseteq DOMAIN Sats
    /\ got = [p \in DOMAIN got |-> got[p]]
    /\ DOMAIN got = taken \ {o.part : o \in owed}
    /\ \A p \in DOMAIN got : got[p] \in Nat /\ got[p] <= Sats[p]
    /\ sum = Totals!Total(got)
Owed(taken, owed) ==
    /\ \A o \in owed : o.part \in taken /\ o.amount \in 1 .. Sats[o.part]
    /\ \A o, u \in owed : o.part = u.part => o = u
And(got, p, n) == [q \in DOMAIN got \cup {p} |-> IF q = p THEN n ELSE got[q]]

LEMMA PartsAreFinite ==
    ASSUME NEW web, Melt(web)!CashuMeltsAssumption
    PROVE  /\ DOMAIN Sats = 1 .. Len(Sats) /\ Len(Sats) \in Nat \ {0}
           /\ \A p \in DOMAIN Sats : Sats[p] \in Nat \ {0}
           /\ Totals!IsAmounts(Sats)
           /\ \A S \in SUBSET DOMAIN Sats : IsFiniteSet(S)
<1>1. /\ DOMAIN Sats = 1 .. Len(Sats) /\ Len(Sats) \in Nat \ {0}
      /\ \A p \in DOMAIN Sats : Sats[p] \in Nat \ {0}
  BY DEF Melt!CashuMeltsAssumption
<1>2. IsFiniteSet(1 .. Len(Sats))
  BY <1>1, FS_Interval
<1>3. \A S \in SUBSET DOMAIN Sats : IsFiniteSet(S)
  BY <1>1, <1>2, FS_Subset
<1>4. Totals!IsFiniteSet(DOMAIN Sats)
  BY <1>3 DEF Totals!IsFiniteSet, IsFiniteSet
<1> QED
  BY <1>1, <1>3, <1>4 DEF Totals!IsAmounts

LEMMA GotAreAmounts ==
    ASSUME NEW web, Melt(web)!CashuMeltsAssumption,
           NEW got, NEW taken, NEW owed, NEW sum, Got(got, taken, owed, sum)
    PROVE  Totals!IsAmounts(got) /\ sum \in Nat /\ sum <= Totals!Total(Sats)
<1>1. DOMAIN got \subseteq DOMAIN Sats /\ sum = Totals!Total(got)
  BY DEF Got
<1>2. IsFiniteSet(DOMAIN got)
  BY <1>1, PartsAreFinite
<1>3. Totals!IsFiniteSet(DOMAIN got)
  BY <1>2 DEF Totals!IsFiniteSet, IsFiniteSet
<1>4. Totals!IsAmounts(got)
  BY <1>3 DEF Totals!IsAmounts, Got
<1>5. \A p \in DOMAIN got : got[p] <= Sats[p]
  BY DEF Got
<1>6. Totals!Total(got) <= Totals!Total(Sats)
  BY <1>1, <1>4, <1>5, PartsAreFinite, Totals!TotalMonotone
<1>7. Totals!Total(got) \in Nat
  BY <1>4, Totals!TotalType
<1> QED
  BY <1>1, <1>4, <1>6, <1>7

\* One more part is paid for.
LEMMA GotOneMore ==
    ASSUME NEW web, Melt(web)!CashuMeltsAssumption,
           NEW got, NEW taken, NEW owed, NEW sum, Got(got, taken, owed, sum),
           NEW p \in DOMAIN Sats \ DOMAIN got, NEW n \in 1 .. Sats[p],
           NEW taken1, NEW owed1, taken1 \subseteq DOMAIN Sats,
           taken1 \ {o.part : o \in owed1} = DOMAIN got \cup {p}
    PROVE  Got(And(got, p, n), taken1, owed1, sum + n)
<1> DEFINE more == And(got, p, n)
           one == [q \in {p} |-> n]
<1>1. n \in Nat /\ n <= Sats[p] /\ DOMAIN got \subseteq DOMAIN Sats /\ sum = Totals!Total(got)
  BY PartsAreFinite DEF Got
<1>2. Totals!IsAmounts(got) /\ sum \in Nat
  BY GotAreAmounts
<1>3. IsFiniteSet(DOMAIN more) /\ IsFiniteSet(DOMAIN one)
  BY <1>1, PartsAreFinite DEF And
<1>4. Totals!IsFiniteSet(DOMAIN more) /\ Totals!IsFiniteSet(DOMAIN one)
  BY <1>3 DEF Totals!IsFiniteSet, IsFiniteSet
<1>5. \A q \in DOMAIN more : more[q] \in Nat /\ more[q] <= Sats[q]
  BY <1>1 DEF And, Got
<1>6. Totals!IsAmounts(more) /\ Totals!IsAmounts(one)
  BY <1>1, <1>4, <1>5 DEF Totals!IsAmounts
<1>7. /\ DOMAIN more = DOMAIN got \cup DOMAIN one /\ DOMAIN got \cap DOMAIN one = {}
      /\ \A q \in DOMAIN got : more[q] = got[q]
      /\ \A q \in DOMAIN one : more[q] = one[q]
  BY DEF And
<1>8. Totals!Total(more) = Totals!Total(got) + Totals!Total(one)
  <2> HIDE DEF more, one
  <2> QED
    BY <1>2, <1>6, <1>7, Totals!TotalSplit
<1>9. Totals!Total(one) = n
  BY <1>1, Totals!TotalOne
<1>10. more = [q \in DOMAIN more |-> more[q]]
  BY DEF And
<1> HIDE DEF one
<1>11. sum + n = Totals!Total(more)
  BY <1>1, <1>8, <1>9
<1>12. DOMAIN more = taken1 \ {o.part : o \in owed1}
  BY DEF And
<1> HIDE DEF more
<1>13. Got(more, taken1, owed1, sum + n)
  BY <1>5, <1>10, <1>11, <1>12 DEF Got
<1> QED
  BY <1>13 DEF more

\* Nothing more is.
LEMMA GotTheSame ==
    ASSUME NEW got, NEW taken, NEW owed, NEW sum, Got(got, taken, owed, sum),
           NEW taken1, NEW owed1, taken1 \subseteq DOMAIN Sats,
           taken1 \ {o.part : o \in owed1} = DOMAIN got
    PROVE  Got(got, taken1, owed1, sum)
  BY DEF Got

-----------------------------------------------------------------------------
QuotesAre(q) ==
    /\ q \in Seq([amount : Nat, fee : Fees]) /\ Len(q) <= Len(Sats)
    /\ \A i \in DOMAIN q : q[i].amount \in 1 .. Sats[i] /\ q[i].fee \in Fees
MeltTypes ==
    /\ step \in {"none", "fee", "quote", "melt"}
    /\ QuotesAre(quotes) /\ melted \in 0 .. Len(quotes)
    /\ fee \in Fees \cup {0} /\ tries \in 0 .. MaxTries
    /\ cashuShown \in Nat /\ failed \in BOOLEAN
    /\ spent \subseteq DOMAIN Sats /\ Owed(spent, owing)
    /\ step \in {"fee", "quote"} => Len(quotes) < Len(Sats) /\ melted = 0
    /\ step = "melt" => melted < Len(quotes)
\* The quotes are made before any is executed.
AllAreQuoted ==
    step \in {"none", "melt"} => quotes = <<>> \/ Len(quotes) = Len(Sats)
\* What executeMelts counts as executed was paid, as it was quoted.
MeltedIsPaid(got) ==
    step = "melt" => \A p \in 1 .. melted : p \in DOMAIN got /\ got[p] = quotes[p].amount
WalletGot ==
    \E got : Got(got, spent, owing, cashuReceived) /\ MeltedIsPaid(got)
SuccessIsLast ==
    cashuShown # 0 =>
        step = "none" /\ owing = {} /\ spent = DOMAIN Sats /\ cashuShown <= cashuReceived
FirstTry ==
    tries = 0 => step = "none" /\ quotes = <<>> /\ melted = 0 /\ cashuShown = 0
MeltInv == MeltTypes /\ AllAreQuoted /\ FirstTry /\ WalletGot /\ SuccessIsLast

LEMMA MeltStart ==
    ASSUME NEW web \in BOOLEAN, Melt(web)!CashuMeltsAssumption, Melt(web)!Init
    PROVE  MeltInv
<1>1. quotes = <<>> /\ step = "none" /\ spent = {} /\ owing = {} /\ cashuReceived = 0
  BY DEF Melt!Init
<1>2. MeltTypes
  <2>1. QuotesAre(<<>>) /\ Len(<<>>) = 0
    BY PartsAreFinite DEF QuotesAre
  <2>2. MaxTries \in Nat /\ Owed({}, {})
    BY DEF Melt!CashuMeltsAssumption, Owed
  <2>3. /\ QuotesAre(quotes) /\ Len(quotes) = 0 /\ Owed(spent, owing)
        /\ step = "none" /\ melted = 0 /\ tries = 0 /\ fee = 0
        /\ cashuShown = 0 /\ spent = {}
    BY <2>1, <2>2 DEF Melt!Init
  <2>4. /\ melted \in 0 .. Len(quotes) /\ tries \in 0 .. MaxTries
        /\ cashuShown \in Nat
    BY <2>2, <2>3
  <2>5. fee \in Fees \cup {0} /\ spent \subseteq DOMAIN Sats
    BY <2>3
  <2>6. failed \in BOOLEAN
    BY Zenon DEF Melt!Init
  <2> QED
    BY <2>3, <2>4, <2>5, <2>6 DEF MeltTypes
<1>3. Got([p \in {} |-> 0], spent, owing, cashuReceived)
  <2>1. Totals!Total([p \in {} |-> 0]) = 0
    BY Totals!TotalEmpty
  <2> QED
    BY <1>1, <2>1 DEF Got
<1>4. WalletGot
  BY <1>1, <1>3 DEF WalletGot, MeltedIsPaid
<1> QED
  BY <1>1, <1>2, <1>4 DEF MeltInv, AllAreQuoted, FirstTry, SuccessIsLast, Melt!Init

\* While nothing is executed the mints' books are as they were.
LEMMA BooksStay ==
    ASSUME WalletGot, UNCHANGED <<spent, owing, cashuReceived>>,
           step' # "melt" \/ melted' = 0
    PROVE  WalletGot'
<1>1. PICK got : Got(got, spent, owing, cashuReceived)
  BY DEF WalletGot
<1>2. Got(got, spent, owing, cashuReceived)'
  BY <1>1 DEF Got
<1> QED
  BY <1>2 DEF WalletGot, MeltedIsPaid

LEMMA QuoteIsAdded ==
    ASSUME NEW web \in BOOLEAN, Melt(web)!CashuMeltsAssumption,
           QuotesAre(quotes), Len(quotes) < Len(Sats), fee \in Fees \cup {0},
           NEW f \in Fees
    PROVE  LET q == Append(quotes, [amount |-> Sats[Len(quotes) + 1] - fee, fee |-> f])
           IN  QuotesAre(q) /\ Len(q) = Len(quotes) + 1
<1> DEFINE n == Sats[Len(quotes) + 1] - fee
           r == [amount |-> n, fee |-> f]
           q == Append(quotes, r)
<1>1. quotes \in Seq([amount : Nat, fee : Fees]) /\ Len(quotes) \in Nat
      /\ DOMAIN quotes = 1 .. Len(quotes)
  BY DEF QuotesAre
<1>2. n \in Nat /\ n \in 1 .. Sats[Len(quotes) + 1]
  BY <1>1, PartsAreFinite DEF Melt!CashuMeltsAssumption
<1>3. r \in [amount : Nat, fee : Fees]
  BY <1>2
<1>4. /\ q \in Seq([amount : Nat, fee : Fees]) /\ Len(q) = Len(quotes) + 1
      /\ DOMAIN q = 1 .. (Len(quotes) + 1)
      /\ \A i \in 1 .. Len(quotes) : q[i] = quotes[i]
      /\ q[Len(quotes) + 1] = r
  <2> HIDE DEF r
  <2> QED
    BY <1>1, <1>3
<1>5. r.amount = n /\ r.fee \in Fees
  OBVIOUS
<1> HIDE DEF q, r, n
<1>6. \A i \in DOMAIN q : q[i].amount \in 1 .. Sats[i] /\ q[i].fee \in Fees
  <2> SUFFICES ASSUME NEW i \in DOMAIN q
               PROVE  q[i].amount \in 1 .. Sats[i] /\ q[i].fee \in Fees
    OBVIOUS
  <2>1. CASE i = Len(quotes) + 1
    BY <1>2, <1>4, <1>5, <2>1
  <2>2. CASE i # Len(quotes) + 1
    <3>1. i \in DOMAIN quotes /\ q[i] = quotes[i]
      BY <1>1, <1>4, <2>2
    <3> QED
      BY <3>1 DEF QuotesAre
  <2> QED
    BY <2>1, <2>2
<1>7. QuotesAre(q) /\ Len(q) = Len(quotes) + 1
  BY <1>1, <1>4, <1>6, PartsAreFinite DEF QuotesAre
<1> QED
  BY <1>7 DEF q, r, n

\* What is asked for and quoted before the melts.
LEMMA AllIsDecoded ==
    ASSUME NEW web \in BOOLEAN, Melt(web)!CashuMeltsAssumption, TokenIsDecoded
    PROVE  Melt(web)!Decoded = Sats
<1>1. CASE OldToken
  <2>1. Sats \in Seq(Nat \ {0}) /\ Len(Sats) = 1
    BY <1>1 DEF Melt!CashuMeltsAssumption, TokenIsDecoded
  <2>2. <<Sats[1]>> = Sats
    BY <2>1
  <2> QED
    BY <1>1, <2>2 DEF Melt!Decoded
<1>2. CASE ~OldToken
  BY <1>2 DEF Melt!Decoded
<1> QED
  BY <1>1, <1>2

LEMMA QuotingStep ==
    ASSUME NEW web \in BOOLEAN, Melt(web)!CashuMeltsAssumption, TokenIsDecoded, MeltInv,
           \/ Melt(web)!Open \/ Melt(web)!Enter \/ Melt(web)!EnterOther
           \/ Melt(web)!Send \/ Melt(web)!QuoteFails
           \/ \E f \in Fees : Melt(web)!FeeKnown(f) \/ Melt(web)!Quoted(f)
    PROVE  MeltInv'
<1>1. /\ MeltTypes /\ AllAreQuoted /\ FirstTry /\ WalletGot /\ SuccessIsLast
      /\ Len(quotes) \in Nat /\ Len(Sats) \in Nat \ {0} /\ MaxTries \in Nat \ {0}
  BY PartsAreFinite DEF MeltInv, MeltTypes, QuotesAre, Melt!CashuMeltsAssumption
<1>2. QuotesAre(<<>>) /\ Len(<<>>) = 0
  BY PartsAreFinite DEF QuotesAre
<1>3. UNCHANGED <<spent, owing, cashuReceived, cashuShown>>
  BY DEF Melt!Open, Melt!Enter, Melt!EnterOther, Melt!Send, Melt!QuoteFails,
         Melt!FeeKnown, Melt!Quoted, Melt!mint
<1>4. cashuShown = 0
  BY <1>1 DEF SuccessIsLast, FirstTry, Melt!Open, Melt!Enter, Melt!EnterOther,
              Melt!Send, Melt!QuoteFails, Melt!FeeKnown, Melt!Quoted
<1>5. SuccessIsLast'
  BY <1>3, <1>4 DEF SuccessIsLast
<1>6. Owed(spent, owing)' /\ spent' \subseteq DOMAIN Sats
  BY <1>1, <1>3 DEF MeltTypes, Owed
<1>7. step' # "melt" \/ melted' = 0
  BY <1>1 DEF MeltTypes, Melt!Open, Melt!Enter, Melt!EnterOther, Melt!Send,
              Melt!QuoteFails, Melt!FeeKnown, Melt!Quoted
<1>8. WalletGot'
  BY <1>1, <1>3, <1>7, BooksStay
<1>9. ASSUME NEW f \in Fees, Melt(web)!Quoted(f)
      PROVE  MeltTypes' /\ AllAreQuoted' /\ FirstTry'
  <2>1. /\ step = "quote" /\ Len(quotes) < Len(Sats) /\ melted = 0 /\ fee \in Fees \cup {0}
        /\ QuotesAre(quotes)
    BY <1>1, <1>9 DEF MeltTypes, Melt!Quoted
  <2>2. QuotesAre(quotes') /\ Len(quotes') = Len(quotes) + 1
    BY <1>9, <2>1, QuoteIsAdded DEF Melt!Quoted
  <2>3. /\ fee' = 0 /\ melted' = 0 /\ UNCHANGED <<tries, failed, cashuShown>>
        /\ step' = IF Len(quotes') < Len(Sats) THEN "fee"
                   ELSE IF web THEN "melt" ELSE "none"
    BY <1>9, <2>1, AllIsDecoded DEF Melt!Quoted
  <2>4. Len(quotes') \in Nat /\ Len(quotes') > 0 /\ Len(quotes') <= Len(Sats)
    BY <1>1, <2>1, <2>2
  <2>5. MeltTypes'
    BY <1>1, <1>6, <2>2, <2>3, <2>4 DEF MeltTypes
  <2>6. AllAreQuoted' /\ FirstTry'
    BY <1>1, <2>1, <2>3, <2>4 DEF AllAreQuoted, FirstTry
  <2> QED
    BY <2>5, <2>6
<1>10. ASSUME ~ \E f \in Fees : Melt(web)!Quoted(f)
       PROVE  MeltTypes' /\ AllAreQuoted' /\ FirstTry'
  <2>1. /\ quotes' \in {quotes, <<>>}
        /\ melted' \in {melted, 0}
        /\ quotes' = <<>> => melted' = 0
        /\ step' \in {"fee", "quote"} => Len(quotes') < Len(Sats) /\ melted' = 0
    BY <1>1, <1>2, <1>10 DEF MeltTypes, FirstTry, Melt!Open, Melt!Enter, Melt!EnterOther,
         Melt!Send, Melt!QuoteFails, Melt!FeeKnown
  <2>2. QuotesAre(quotes') /\ Len(quotes') \in Nat /\ melted' \in 0 .. Len(quotes')
    BY <1>1, <1>2, <2>1 DEF MeltTypes
  <2>3. /\ step' \in {"none", "fee", "quote", "melt"}
        /\ step' = "melt" => melted' < Len(quotes')
    BY <1>1, <1>2, <1>10 DEF MeltTypes, AllAreQuoted, Melt!Open, Melt!Enter, Melt!EnterOther,
         Melt!Send, Melt!QuoteFails, Melt!FeeKnown
  <2>4. fee' \in Fees \cup {0} /\ tries' \in 0 .. MaxTries
    BY <1>1, <1>10 DEF MeltTypes, Melt!Open, Melt!Enter, Melt!EnterOther,
         Melt!Send, Melt!QuoteFails, Melt!FeeKnown
  <2>5. MeltTypes'
    <3>1. failed' \in {TRUE, failed, failed \/ web} /\ failed \in BOOLEAN
      BY <1>1, <1>10 DEF MeltTypes, Melt!Open, Melt!Enter, Melt!EnterOther,
           Melt!Send, Melt!QuoteFails, Melt!FeeKnown
    <3>2. failed' \in BOOLEAN
      BY Zenon, <3>1
    <3> QED
      BY <1>1, <1>3, <1>6, <2>1, <2>2, <2>3, <2>4, <3>2 DEF MeltTypes
  <2>6. AllAreQuoted'
    BY <1>1, <1>10 DEF AllAreQuoted, Melt!Open, Melt!Enter, Melt!EnterOther,
         Melt!Send, Melt!QuoteFails, Melt!FeeKnown
  <2>7. FirstTry'
    BY <1>1, <1>10 DEF MeltTypes, FirstTry, Melt!Open, Melt!Enter, Melt!EnterOther,
         Melt!Send, Melt!QuoteFails, Melt!FeeKnown
  <2> QED
    BY <2>5, <2>6, <2>7
<1> QED
  BY <1>5, <1>8, <1>9, <1>10 DEF MeltInv

\* A step of executeMelts.
LEMMA MeltingStep ==
    ASSUME NEW web \in BOOLEAN, Melt(web)!CashuMeltsAssumption, MeltInv,
           Melt(web)!MeltPaid \/ Melt(web)!MeltPending \/ Melt(web)!MeltUnpaid
    PROVE  MeltInv'
<1> DEFINE p == melted + 1
           n == quotes[p].amount
<1>1. /\ MeltTypes /\ AllAreQuoted /\ FirstTry /\ WalletGot /\ SuccessIsLast
      /\ Len(quotes) \in Nat /\ Len(Sats) \in Nat \ {0} /\ DOMAIN Sats = 1 .. Len(Sats)
      /\ DOMAIN quotes = 1 .. Len(quotes)
  BY PartsAreFinite DEF MeltInv, MeltTypes, QuotesAre
<1>2. step = "melt" /\ cashuShown = 0 /\ tries # 0
  BY <1>1 DEF SuccessIsLast, FirstTry, Melt!MeltPaid, Melt!MeltPending, Melt!MeltUnpaid, Melt!Takes
<1>3. /\ Len(quotes) = Len(Sats) /\ melted \in Nat /\ melted < Len(quotes)
      /\ p \in DOMAIN Sats /\ p \in DOMAIN quotes /\ n \in 1 .. Sats[p]
  <2>1. melted \in Nat /\ melted < Len(quotes) /\ QuotesAre(quotes)
    BY <1>1, <1>2 DEF MeltTypes
  <2>2. quotes # <<>>
    BY <1>1, <2>1
  <2>3. Len(quotes) = Len(Sats)
    BY <1>1, <1>2, <2>2 DEF AllAreQuoted
  <2>4. p \in DOMAIN Sats /\ p \in DOMAIN quotes
    BY <1>1, <2>1, <2>3
  <2> QED
    BY <2>1, <2>3, <2>4 DEF QuotesAre
<1>4. /\ UNCHANGED <<quotes, fee, tries>> /\ failed' \in BOOLEAN
      /\ step' \in {"none", "melt"}
      /\ \/ step' = "none" /\ UNCHANGED <<melted, cashuShown>>
         \/ Melt(web)!MeltPaid /\ Melt(web)!Continue
  BY <1>1, <1>2 DEF MeltTypes, Melt!MeltPaid, Melt!MeltPending, Melt!MeltUnpaid, Melt!Continue, Melt!BreakOff
<1>5. PICK got : Got(got, spent, owing, cashuReceived) /\ MeltedIsPaid(got)
  BY <1>1 DEF WalletGot
<1>6. /\ DOMAIN got = spent \ {o.part : o \in owing} /\ spent \subseteq DOMAIN Sats
      /\ Owed(spent, owing)
  BY <1>1, <1>5 DEF Got, MeltTypes
<1>7. AllAreQuoted' /\ FirstTry'
  BY <1>1, <1>2, <1>3, <1>4 DEF AllAreQuoted, FirstTry
<1>8. CASE Melt(web)!MeltPaid
  <2>1. /\ p \notin spent /\ spent' = spent \cup {p} /\ owing' = owing
        /\ cashuReceived' = cashuReceived + n
    BY <1>8 DEF Melt!MeltPaid, Melt!Takes, Melt!Part
  <2>2. /\ spent' \ {o.part : o \in owing'} = DOMAIN got \cup {p}
        /\ spent' \subseteq DOMAIN Sats /\ p \notin DOMAIN got
    BY <1>3, <1>6, <2>1 DEF Owed
  <2>3. Got(And(got, p, n), spent', owing', cashuReceived')
    <3> HIDE DEF p, n
    <3> QED
      BY <1>3, <1>5, <2>1, <2>2, GotOneMore
  <2>4. Owed(spent', owing')
    BY <1>6, <2>1 DEF Owed
  <2>5. \A q \in 1 .. p : q \in DOMAIN And(got, p, n) /\ And(got, p, n)[q] = quotes[q].amount
    BY <1>2, <1>3, <1>5 DEF MeltedIsPaid, And
  <2>6. CASE step' = "none" /\ UNCHANGED <<melted, cashuShown>>
    <3>1. WalletGot'
      BY <2>3, <2>6 DEF WalletGot, MeltedIsPaid
    <3>2. MeltTypes'
      BY <1>1, <1>3, <1>4, <2>2, <2>4, <2>6 DEF MeltTypes
    <3>3. SuccessIsLast'
      BY <1>2, <2>6 DEF SuccessIsLast
    <3> QED
      BY <1>7, <3>1, <3>2, <3>3 DEF MeltInv
  <2>7. CASE Melt(web)!Continue
    <3>1. /\ melted' = p /\ failed' = failed /\ quotes' = quotes
          /\ IF p = Len(quotes) THEN step' = "none" /\ cashuShown' = Melt(web)!Sum(quotes)
             ELSE UNCHANGED <<step, cashuShown>>
      BY <2>7 DEF Melt!Continue, Melt!Part
    <3>2. WalletGot'
      BY <2>3, <2>5, <3>1 DEF WalletGot, MeltedIsPaid
    <3>3. cashuShown' \in Nat /\ SuccessIsLast'
      <4>1. CASE p # Len(quotes)
        BY <1>2, <3>1, <4>1 DEF SuccessIsLast
      <4>2. CASE p = Len(quotes)
        <5> DEFINE asked == [i \in DOMAIN quotes |-> quotes[i].amount]
                   more == And(got, p, n)
        <5>1. step' = "none" /\ cashuShown' = Totals!Total(asked)
          BY <3>1, <4>2, SameTotals
        <5>2. cashuReceived' = Totals!Total(more)
          BY <2>3 DEF Got
        <5>3. Totals!IsAmounts(more)
          BY <2>3, GotAreAmounts
        <5>4. IsFiniteSet(DOMAIN asked)
          BY <1>1, <1>3, PartsAreFinite
        <5>5. Totals!IsFiniteSet(DOMAIN asked)
          BY <5>4 DEF Totals!IsFiniteSet, IsFiniteSet
        <5>6. \A i \in DOMAIN quotes : quotes[i].amount \in Nat
          BY <1>1 DEF MeltTypes, QuotesAre
        <5>7. Totals!IsAmounts(asked)
          BY <5>5, <5>6 DEF Totals!IsAmounts
        <5>8. DOMAIN asked \subseteq DOMAIN more /\ \A i \in DOMAIN asked : asked[i] = more[i]
          BY <1>1, <2>5, <4>2
        <5>9. \A i \in DOMAIN asked : more[i] \in Nat
          BY <5>3, <5>8 DEF Totals!IsAmounts
        <5>10. spent' = DOMAIN Sats /\ owing' = {}
          <6>1. DOMAIN Sats \subseteq DOMAIN got \cup {p}
            BY <1>1, <1>3, <2>5, <4>2 DEF And
          <6>2. \A o \in owing : o.part \notin DOMAIN got \cup {p}
            BY <1>6, <2>1 DEF Owed
          <6> QED
            BY <1>6, <2>1, <2>2, <6>1, <6>2 DEF Owed
        <5> HIDE DEF asked, more
        <5>11. Totals!Total(asked) <= Totals!Total(more) /\ Totals!Total(asked) \in Nat
          <6>1. \A i \in DOMAIN asked : asked[i] <= more[i]
            BY <5>8, <5>9
          <6> QED
            BY <5>3, <5>7, <5>8, <6>1, Totals!TotalMonotone, Totals!TotalType
        <5> QED
          BY <5>1, <5>2, <5>10, <5>11 DEF SuccessIsLast
      <4> QED
        BY <4>1, <4>2
    <3>4. melted' \in 0 .. Len(quotes') /\ (step' = "melt" => melted' < Len(quotes'))
      <4>1. p \in 0 .. Len(quotes) /\ (p # Len(quotes) => p < Len(quotes))
        <5>1. melted \in Nat /\ Len(quotes) \in Nat /\ melted < Len(quotes)
          BY <1>1, <1>3
        <5> QED
          BY <5>1
      <4>2. p = Len(quotes) => step' = "none"
        BY <3>1
      <4> QED
        BY <3>1, <4>1, <4>2
    <3>5. MeltTypes'
      BY <1>1, <1>4, <2>2, <2>4, <3>1, <3>3, <3>4 DEF MeltTypes
    <3> QED
      BY <1>7, <3>2, <3>3, <3>5 DEF MeltInv
  <2> QED
    BY <1>4, <2>6, <2>7
<1>9. CASE ~ Melt(web)!MeltPaid
  <2>1. step' = "none" /\ UNCHANGED <<melted, cashuShown>>
    BY <1>4, <1>9
  <2>2. Got(got, spent', owing', cashuReceived') /\ Owed(spent', owing') /\ spent' \subseteq DOMAIN Sats
    <3>1. CASE Melt(web)!MeltPending
      <4>1. /\ p \notin spent /\ spent' = spent \cup {p} /\ cashuReceived' = cashuReceived
            /\ owing' = owing \cup {[part |-> p, amount |-> n]}
        BY <3>1 DEF Melt!MeltPending, Melt!Takes, Melt!Part
      <4>2. /\ spent' \ {o.part : o \in owing'} = DOMAIN got
            /\ spent' \subseteq DOMAIN Sats
        BY <1>3, <1>6, <4>1
      <4>3. Owed(spent', owing')
        BY <1>3, <1>6, <4>1 DEF Owed
      <4>4. Got(got, spent', owing', cashuReceived')
        BY <1>5, <4>1, <4>2, GotTheSame
      <4> QED
        BY <4>2, <4>3, <4>4
    <3>2. CASE Melt(web)!MeltUnpaid
      BY <1>5, <1>6, <3>2 DEF Melt!MeltUnpaid, Melt!mint
    <3> QED
      BY <1>9, <3>1, <3>2
  <2>3. WalletGot'
    BY <2>1, <2>2 DEF WalletGot, MeltedIsPaid
  <2>4. MeltTypes'
    BY <1>1, <1>3, <1>4, <2>1, <2>2 DEF MeltTypes
  <2>5. SuccessIsLast'
    BY <1>2, <2>1 DEF SuccessIsLast
  <2> QED
    BY <1>7, <2>3, <2>4, <2>5 DEF MeltInv
<1> QED
  BY <1>8, <1>9

\* The mint's own payment of a part arrives, or comes back.
LEMMA SettleStep ==
    ASSUME NEW web \in BOOLEAN, Melt(web)!CashuMeltsAssumption, MeltInv,
           NEW o \in owing, Melt(web)!Settle(o)
    PROVE  MeltInv'
<1>1. /\ MeltTypes /\ AllAreQuoted /\ FirstTry /\ WalletGot /\ SuccessIsLast
  BY DEF MeltInv
<1>2. UNCHANGED <<step, quotes, fee, melted, tries, cashuShown, failed>>
  BY DEF Melt!Settle
<1>3. cashuShown = 0
  BY <1>1 DEF SuccessIsLast
<1>4. PICK got : Got(got, spent, owing, cashuReceived) /\ MeltedIsPaid(got)
  BY <1>1 DEF WalletGot
<1>5. /\ DOMAIN got = spent \ {u.part : u \in owing} /\ spent \subseteq DOMAIN Sats
      /\ Owed(spent, owing)
  BY <1>1, <1>4 DEF Got, MeltTypes
<1>6. owing' = owing \ {o} /\ o.part \in spent /\ o.amount \in 1 .. Sats[o.part]
  BY <1>5 DEF Melt!Settle, Owed
<1>7. WalletGot' /\ Owed(spent', owing') /\ spent' \subseteq DOMAIN Sats
  <2>1. CASE cashuReceived' = cashuReceived + o.amount /\ spent' = spent
    <3> DEFINE part == o.part
               sum == o.amount
    <3>1. spent' \ {u.part : u \in owing'} = DOMAIN got \cup {part} /\ part \notin DOMAIN got
      BY <1>5, <1>6, <2>1 DEF Owed
    <3>2. Got(And(got, part, sum), spent', owing', cashuReceived')
      <4>1. part \in DOMAIN Sats \ DOMAIN got /\ sum \in 1 .. Sats[part] /\ spent' \subseteq DOMAIN Sats
        BY <1>5, <1>6, <2>1, <3>1
      <4>2. cashuReceived' = cashuReceived + sum
        BY <2>1
      <4> HIDE DEF part, sum
      <4> QED
        BY <1>4, <3>1, <4>1, <4>2, GotOneMore
    <3>3. MeltedIsPaid(And(got, part, sum))'
      BY <1>2, <1>4, <3>1 DEF MeltedIsPaid, And
    <3>4. WalletGot'
      BY <3>2, <3>3 DEF WalletGot
    <3> QED
      BY <1>5, <1>6, <2>1, <3>4 DEF Owed
  <2>2. CASE cashuReceived' = cashuReceived /\ spent' = spent \ {o.part}
    <3>1. spent' \ {u.part : u \in owing'} = DOMAIN got /\ spent' \subseteq DOMAIN Sats
      BY <1>5, <1>6, <2>2 DEF Owed
    <3>2. Got(got, spent', owing', cashuReceived')
      BY <1>4, <2>2, <3>1, GotTheSame
    <3>3. MeltedIsPaid(got)'
      BY <1>2, <1>4 DEF MeltedIsPaid
    <3>4. Owed(spent', owing')
      BY <1>5, <1>6, <2>2 DEF Owed
    <3> QED
      BY <3>1, <3>2, <3>3, <3>4 DEF WalletGot
  <2> QED
    BY <2>1, <2>2 DEF Melt!Settle
<1>8. MeltTypes' /\ AllAreQuoted' /\ FirstTry' /\ SuccessIsLast'
  BY <1>1, <1>2, <1>3, <1>7 DEF MeltTypes, AllAreQuoted, FirstTry, SuccessIsLast
<1> QED
  BY <1>7, <1>8 DEF MeltInv

LEMMA MeltsGoOn ==
    ASSUME NEW web \in BOOLEAN, Melt(web)!CashuMeltsAssumption, TokenIsDecoded, MeltInv,
           [Melt(web)!Next]_(Melt(web)!vars)
    PROVE  MeltInv'
<1>1. CASE UNCHANGED Melt(web)!vars
  BY <1>1 DEF Melt!vars, MeltInv, MeltTypes, AllAreQuoted, FirstTry, WalletGot,
              MeltedIsPaid, SuccessIsLast
<1>2. CASE Melt(web)!Next
  BY <1>2, QuotingStep, MeltingStep, SettleStep DEF Melt!Next, Melt!Answer
<1> QED
  BY <1>1, <1>2

LEMMA MeltsAreSound ==
    ASSUME NEW web \in BOOLEAN, Melt(web)!CashuMeltsAssumption, MeltInv
    PROVE  Melt(web)!TypeOK /\ Melt(web)!SuccessIsWhole /\ Melt(web)!SuccessIsReceived
<1>1. PICK got : Got(got, spent, owing, cashuReceived)
  BY DEF MeltInv, WalletGot
<1>2. cashuReceived \in Nat /\ cashuReceived <= Totals!Total(Sats) /\ Totals!Total(Sats) \in Nat
  BY <1>1, GotAreAmounts, PartsAreFinite, Totals!TotalType
<1>3. Melt(web)!Total(Sats) = Totals!Total(Sats)
  BY SameTotals
<1>4. cashuReceived \in 0 .. Melt(web)!Total(Sats)
  BY <1>2, <1>3
<1>5. /\ Len(quotes) <= Len(Sats)
      /\ \A i \in DOMAIN quotes : quotes[i].amount \in 1 .. Sats[i] /\ quotes[i].fee \in Fees
  BY DEF MeltInv, MeltTypes, QuotesAre
<1>6. Melt(web)!TypeOK
  BY <1>4, <1>5 DEF MeltInv, MeltTypes, Owed, Melt!TypeOK, Melt!Parts
<1> QED
  BY <1>6 DEF MeltInv, SuccessIsLast, Melt!SuccessIsWhole, Melt!SuccessIsReceived, Melt!Parts

\* Of a token of today's format ("cashuB"), or an older one of one mint: after a success
\* the mints have taken the whole token, however often parts of it have failed, and what
\* is said to be received is what the wallet got for it (executeMelts,
\* ConfirmReceiveCashu, ReceiveOffline). Of an older token of several mints
\* decodeCashuTokens keeps the first entry only.
THEOREM MeltsAreTrue ==
    ASSUME NEW web \in BOOLEAN, Melt(web)!CashuMeltsAssumption, TokenIsDecoded
    PROVE  Melt(web)!Spec => [](/\ Melt(web)!TypeOK
                                /\ Melt(web)!SuccessIsWhole
                                /\ Melt(web)!SuccessIsReceived)
<1>1. Melt(web)!Init => MeltInv
  BY MeltStart
<1>2. MeltInv /\ [Melt(web)!Next]_(Melt(web)!vars) => MeltInv'
  BY MeltsGoOn
<1>3. MeltInv => /\ Melt(web)!TypeOK
                 /\ Melt(web)!SuccessIsWhole
                 /\ Melt(web)!SuccessIsReceived
  BY MeltsAreSound
<1> QED
  BY <1>1, <1>2, <1>3, PTL DEF Melt!Spec

-----------------------------------------------------------------------------
(* The forms and dialogs side by side. *)

\* The one that runs takes its own steps only, so that its own specification holds of
\* it, and with it what is proved above.
LEMMA EachRunsAlone ==
    ASSUME [Next]_all
    PROVE  /\ which' = which
           /\ which = "confirm" => [Confirm!Next]_(Confirm!vars)
           /\ which = "overlay" => [Overlay!Next]_(Overlay!vars)
           /\ \A flow \in Flows : which = flow => [Pay(flow)!Next]_(Pay(flow)!vars)
           /\ which = "requests" => [Requests!Next]_(Requests!vars)
           /\ which = "dialog" => [Dialog!Next]_(Dialog!vars)
           /\ which = "native" => [Melt(FALSE)!Next]_(Melt(FALSE)!vars)
           /\ which = "web" => [Melt(TRUE)!Next]_(Melt(TRUE)!vars)
           /\ which = "mods" => [Mods!Next]_(Mods!vars)
<1> USE DEF Flows
<1>1. CASE UNCHANGED all
  BY <1>1 DEF all, formVars, omniVars, requestsVars, dialogVars, cashuVars, modsVars,
     Confirm!vars, Overlay!vars, Pay!vars, Requests!vars, Dialog!vars, Melt!vars, Mods!vars
<1>2. CASE FormStep
  BY <1>2 DEF FormStep
<1>3. CASE OmniStep
  BY <1>3 DEF OmniStep
<1>4. CASE RequestsStep
  BY <1>4 DEF RequestsStep
<1>5. CASE DialogStep
  BY <1>5 DEF DialogStep
<1>6. CASE CashuStep
  BY <1>6 DEF CashuStep
<1>7. CASE ModsStep
  BY <1>7 DEF ModsStep
<1> QED
  BY <1>1, <1>2, <1>3, <1>4, <1>5, <1>6, <1>7 DEF Next

\* In the screen that confirms and in the overlay of several wallets, and in each of the
\* three ways of paying what was scanned: the amount shown is the one sent, unless another
\* wallet has set it anew since; what is paid was within the balance of the wallet that
\* pays, on chain if it was previewed for that wallet; the fees shown, once nothing is
\* asked for, are those of that wallet and amount, of an invoice unless the answer for
\* another came last or its own failed; and what is said to be sent was sent, by services
\* that send the invoice they were asked for (AmountForm and OmniPayments).
THEOREM SentIsAsShown == Spec => []SentAsShown
<1> DEFINE Paid == \A flow \in Flows : which = flow => PayInv(flow)
<1>1. Spec => []Paid
  <2>1. Init => Paid
    BY PaymentsStart, ConstantsAssumption DEF Init
  <2>2. Paid /\ [Next]_all => Paid'
    <3> SUFFICES ASSUME NEW flow \in Flows, PayInv(flow), [Next]_all, which = flow, which' = flow
                 PROVE  PayInv(flow)'
      BY EachRunsAlone
    <3>1. [Pay(flow)!Next]_(Pay(flow)!vars) /\ Pay(flow)!OmniPaymentsAssumption
      BY EachRunsAlone, ConstantsAssumption
    <3> QED
      BY <3>1, PaymentsGoOn
  <2> HIDE DEF Paid
  <2> QED
    BY <2>1, <2>2, PTL DEF Spec
<1>2. Spec => [](which = "confirm" => Confirm!ShownIsSent)
  <2>1. Confirm!Spec => [](Confirm!ShownIsSent)
    BY FormsShowWhatIsSent, PTL
  <2>2. Init /\ which = "confirm" => Confirm!Init
    BY DEF Init
  <2>3. [Next]_all /\ which = "confirm" => [Confirm!Next]_(Confirm!vars)
    BY EachRunsAlone
  <2>4. [Next]_all => ((which = "confirm")' <=> which = "confirm")
    BY EachRunsAlone
  <2> QED
    BY <2>1, <2>2, <2>3, <2>4, PTL DEF Spec, Confirm!Spec
<1>3. Spec => [](which = "overlay" => Overlay!ShownIsSent)
  <2>1. Overlay!Spec => [](Overlay!ShownIsSent)
    BY FormsShowWhatIsSent, PTL
  <2>2. Init /\ which = "overlay" => Overlay!Init
    BY DEF Init
  <2>3. [Next]_all /\ which = "overlay" => [Overlay!Next]_(Overlay!vars)
    BY EachRunsAlone
  <2>4. [Next]_all => ((which = "overlay")' <=> which = "overlay")
    BY EachRunsAlone
  <2> QED
    BY <2>1, <2>2, <2>3, <2>4, PTL DEF Spec, Overlay!Spec
<1>4. /\ Paid
      /\ which = "confirm" => Confirm!ShownIsSent
      /\ which = "overlay" => Overlay!ShownIsSent
      => SentAsShown
  BY PaymentsAreSound DEF SentAsShown, ShownIsSent, WithinBalance, SaidIsSent,
     FeesAreOfThePayment, Flows
<1> HIDE DEF Paid
<1> QED
  BY <1>1, <1>2, <1>3, <1>4, PTL

\* An invoice is shown with the amount of its form, in the native app when the form was
\* not opened for a withdrawal (~Lnurl), on the web when one opening of the dialog in
\* the active federation is looked at; the screen of success is shown for what was paid;
\* and of a token that is decoded as a whole (TokenIsDecoded) the mints have taken all
\* after a success of the native app, and the wallet has got what the web says
\* (LightningRequests, RequestDialog and CashuMelts).
THEOREM RequestsAreAlwaysTrue == Spec => []RequestsAreTrue
<1>1. Spec => [](which = "requests" => Requests!TypeOK /\ Requests!SuccessIsPaid /\ (~Lnurl => Requests!ShownAmount))
  <2>1. Requests!Spec => [](Requests!TypeOK /\ Requests!SuccessIsPaid /\ (~Lnurl => Requests!ShownAmount))
    BY RequestsAreShown, ConstantsAssumption, PTL
  <2>2. Init /\ which = "requests" => Requests!Init
    BY DEF Init
  <2>3. [Next]_all /\ which = "requests" => [Requests!Next]_(Requests!vars)
    BY EachRunsAlone
  <2>4. [Next]_all => ((which = "requests")' <=> which = "requests")
    BY EachRunsAlone
  <2> QED
    BY <2>1, <2>2, <2>3, <2>4, PTL DEF Spec, Requests!Spec
<1>2. Spec => [](which = "dialog" => Dialog!TypeOK /\ Dialog!ShownIsOfTheForm)
  <2>1. Dialog!Spec => [](Dialog!TypeOK /\ Dialog!ShownIsOfTheForm)
    BY DialogIsTrue, ConstantsAssumption, PTL
  <2>2. Init /\ which = "dialog" => Dialog!Init
    BY DEF Init
  <2>3. [Next]_all /\ which = "dialog" => [Dialog!Next]_(Dialog!vars)
    BY EachRunsAlone
  <2>4. [Next]_all => ((which = "dialog")' <=> which = "dialog")
    BY EachRunsAlone
  <2>5. which = "dialog" => /\ ~ which = "withdrawal" /\ ~ which = "withdraw"
                            /\ ~ which = "web" /\ ~ which = "mods"
                            /\ ~ which \notin {"withdrawal", "dialog", "withdraw", "web", "mods"}
    OBVIOUS
  <2> QED
    BY <2>1, <2>2, <2>3, <2>4, <2>5, PTL DEF Spec, Fairness, Dialog!Spec
<1>3. Spec => [](which \in {"native", "web"} => MeltInv)
  <2>1. Init => MeltInv
    BY MeltStart, ConstantsAssumption DEF Init
  <2>2. ASSUME MeltInv, which \in {"native", "web"}, [Next]_all
        PROVE  MeltInv'
    BY <2>2, EachRunsAlone, MeltsGoOn, ConstantsAssumption
  <2>3. [Next]_all /\ (which \in {"native", "web"})' => which \in {"native", "web"}
    BY EachRunsAlone
  <2> QED
    BY <2>1, <2>2, <2>3, PTL DEF Spec
<1>4. /\ which = "requests" =>
           Requests!TypeOK /\ Requests!SuccessIsPaid /\ (~Lnurl => Requests!ShownAmount)
      /\ which = "dialog" => Dialog!TypeOK /\ Dialog!ShownIsOfTheForm
      /\ which \in {"native", "web"} => MeltInv
      => RequestsAreTrue
  BY MeltsAreSound, ConstantsAssumption DEF RequestsAreTrue, ShownAmount, ShownIsOfTheForm,
     SuccessIsPaid, SuccessIsWhole, SuccessIsReceived
<1> QED
  BY <1>1, <1>2, <1>3, <1>4, PTL

\* Of calls of a mod and links that the user follows, one after the other: each call is
\* answered with its own result, what is told to be rejected is not done, what is done
\* has the amount of its request, and nothing is done twice (ModRequests).
THEOREM AnswersAreAlwaysOwn == Spec => []AnswersAreOwn
<1> DEFINE Own == Mods!AnsweredWithOwn /\ Mods!RejectedIsNotDone /\ Mods!FormIsOfTheRequest
<1>1. Spec => [](which = "mods" => Mods!TypeOK /\ Mods!DoneOnce /\ Own)
  <2>1. Mods!Spec => [](Mods!TypeOK /\ Mods!DoneOnce /\ Own)
    BY NothingIsDoneTwice, AnswersAreOfTheCalls, ConstantsAssumption, PTL
  <2>2. Init /\ which = "mods" => Mods!Init
    BY DEF Init
  <2>3. [Next]_all /\ which = "mods" => [Mods!Next]_(Mods!vars)
    BY EachRunsAlone
  <2>4. [Next]_all => ((which = "mods")' <=> which = "mods")
    BY EachRunsAlone
  <2>5. which = "mods" => /\ ~ which = "withdrawal" /\ ~ which = "dialog"
                          /\ ~ which = "withdraw" /\ ~ which = "web"
                          /\ ~ which \notin {"withdrawal", "dialog", "withdraw", "web", "mods"}
    OBVIOUS
  <2> QED
    BY <2>1, <2>2, <2>3, <2>4, <2>5, PTL DEF Spec, Fairness, Mods!Spec
<1>2. (which = "mods" => Mods!TypeOK /\ Mods!DoneOnce /\ Own) => AnswersAreOwn
  BY DEF AnswersAreOwn, AnsweredWithOwn, RejectedIsNotDone, FormIsOfTheRequest
<1> QED
  BY <1>1, <1>2, PTL

=============================================================================
