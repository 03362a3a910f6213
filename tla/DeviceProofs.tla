---------------------------- MODULE DeviceProofs ----------------------------
(***************************************************************************)
(* What holds on a device for every number of changes, restarts, devices,  *)
(* names, digits and guardians: of what it stores, of its index and name,  *)
(* of the PIN, of a social recovery, of the migrations and of the stack of *)
(* screens, for every visit and every depth of the stack.  The components  *)
(* share no state; each has a section of its own, with the invariant that  *)
(* its theorems rest on, and MCDevices runs them side by side.             *)
(***************************************************************************)
EXTENDS MCDevices, FiniteSetTheorems, TLAPS

\* Storage never goes back.  It is written only by a save, a save is due only while
\* the app is loaded (after a failed load no watched field can change), and what is
\* loaded is at least as new as what is stored, because loading takes every stored
\* field that is set.
Kept == Fields \ {"matrixAuth"}

\* The part of the invariant that NoRollback itself does not give.
NewerThanStored ==
    /\ fresh \in Nat
    /\ saving => app = "loaded"
    /\ app = "loaded" => \A f \in Kept : mem[f] >= disk[f]

IInv == TypeOK /\ NewerThanStored

\* What every step relies on, in the form the steps use it.
LEMMA Facts ==
    ASSUME IInv
    PROVE  /\ fresh \in Nat
           /\ \A f \in Fields : mem[f] \in Nat /\ mem[f] <= fresh
           /\ \A f \in Fields : disk[f] \in Nat /\ disk[f] <= fresh
           /\ mem \in [Fields -> 0 .. fresh] /\ disk \in [Fields -> 0 .. fresh]
           /\ bridgeId \in 0 .. fresh
           /\ saving \in BOOLEAN
           /\ app \in {"closed", "loading", "loaded", "failed"}
<1>1. fresh \in Nat
  BY DEF IInv, NewerThanStored
<1>2. mem \in [Fields -> 0 .. fresh] /\ disk \in [Fields -> 0 .. fresh]
  BY DEF IInv, TypeOK
<1>3. \A f \in Fields : mem[f] \in 0 .. fresh /\ disk[f] \in 0 .. fresh
  BY <1>2
<1> QED
  BY <1>1, <1>2, <1>3 DEF IInv, TypeOK

\* A change of one field, whatever the field: its value is the newest.
LEMMA SetKeepsTypes ==
    ASSUME IInv, NEW f \in Fields, Set(f)
    PROVE  TypeOK' /\ fresh' \in Nat /\ \A g \in Kept : mem'[g] >= mem[g]
<1>1. fresh' \in Nat /\ fresh' = fresh + 1
  BY Facts DEF Set
<1>2. mem' \in [Fields -> 0 .. fresh']
  <2>1. mem \in [Fields -> 0 .. fresh']
    BY <1>1, Facts
  <2>2. mem' = [mem EXCEPT ![f] = fresh']
    BY <1>1 DEF Set
  <2> QED
    BY <1>1, <2>1, <2>2
<1>3. disk' \in [Fields -> 0 .. fresh'] /\ bridgeId' \in 0 .. fresh'
  BY <1>1, Facts DEF Set
<1>4. saving' \in BOOLEAN /\ app' = app /\ (saving' => app' \in {"loaded", "failed"})
  BY Facts DEF Set, Listening, IInv, TypeOK
<1>5. ASSUME NEW g \in Kept PROVE mem'[g] >= mem[g]
  <2>1. g \in Fields
    BY DEF Kept
  <2>2. mem[g] \in Nat /\ mem[g] <= fresh
    BY <2>1, Facts
  <2>3. mem'[g] = (IF g = f THEN fresh + 1 ELSE mem[g])
    BY <2>1, Facts DEF Set
  <2> QED
    BY <2>2, <2>3, Facts
<1> QED
  BY <1>1, <1>2, <1>3, <1>4, <1>5, Facts DEF TypeOK

\* A change while the app is loaded leaves what is in memory newer than what is
\* stored.
LEMMA SetLoaded ==
    ASSUME IInv, NEW f \in Fields, Set(f), app = "loaded"
    PROVE  IInv'
<1>1. \A g \in Kept : mem'[g] >= disk'[g]
  <2> SUFFICES ASSUME NEW g \in Kept PROVE mem'[g] >= disk'[g]
    OBVIOUS
  <2>1. g \in Fields
    BY DEF Kept
  <2>2. mem'[g] \in Nat
    <3>1. fresh' \in Nat /\ mem' \in [Fields -> 0 .. fresh']
      BY SetKeepsTypes DEF TypeOK
    <3> QED
      BY <2>1, <3>1
  <2>3. mem[g] \in Nat /\ disk[g] \in Nat /\ mem[g] >= disk[g]
    BY <2>1, Facts DEF IInv, NewerThanStored
  <2>4. mem'[g] >= mem[g]
    BY SetKeepsTypes
  <2>5. disk'[g] = disk[g]
    BY DEF Set
  <2> QED
    BY <2>2, <2>3, <2>4, <2>5
<1> QED
  BY <1>1, SetKeepsTypes DEF IInv, NewerThanStored, Set

\* Before and after a failed load only the rates change, which no save watches.
LEMMA RatesAreNotWatched ==
    ASSUME IInv, Set("btcUsdRate")
    PROVE  saving' = saving
<1>1. \A g \in Watched : g \in Fields /\ g # "btcUsdRate"
  BY DEF Watched, Fields
<1>2. \A g \in Watched : mem'[g] = mem[g]
  BY <1>1, Facts DEF Set
<1>3. ~Changed(mem, mem')
  BY <1>2 DEF Changed
<1> QED
  BY <1>3, Facts DEF Set

\* Loading takes everything that is stored, or nothing is.
LEMMA LoadIsNewer ==
    ASSUME IInv, Load
    PROVE  /\ mem' \in [Fields -> 0 .. fresh]
           /\ \A g \in Kept : mem'[g] >= disk[g]
<1>1. CASE disk = Initial
  <2>1. mem' = mem
    BY <1>1 DEF Load, Merge
  <2>2. \A g \in Fields : disk[g] = 0
    BY <1>1 DEF Initial
  <2> QED
    BY <2>1, <2>2, Facts DEF Kept
<1>2. CASE disk # Initial
  <2>1. mem' = [f \in Fields |->
                   CASE f = "matrixAuth" -> mem[f]
                     [] f = "deviceId" -> IF disk[f] # 0 THEN disk[f] ELSE mem[f]
                     [] OTHER -> disk[f]]
    BY <1>2 DEF Load, Merge
  <2>2. \A g \in Fields : mem'[g] \in {mem[g], disk[g]}
    BY <2>1
  <2>3. mem' \in [Fields -> 0 .. fresh]
    BY <2>1, <2>2, Facts
  <2>4. ASSUME NEW g \in Kept PROVE mem'[g] >= disk[g]
    <3>1. g \in Fields /\ g # "matrixAuth"
      BY DEF Kept
    <3>2. mem'[g] = disk[g] \/ (disk[g] = 0 /\ mem'[g] = mem[g])
      BY <2>1, <3>1
    <3> QED
      BY <3>1, <3>2, Facts
  <2> QED
    BY <2>3, <2>4
<1> QED
  BY <1>1, <1>2

-----------------------------------------------------------------------------
LEMMA Inductive == Spec => []IInv
<1>1. Init => IInv
  <2> SUFFICES ASSUME Init PROVE IInv
    OBVIOUS
  <2>1. Initial \in [Fields -> 0 .. 0]
    BY DEF Initial
  <2>2. /\ app = "closed" /\ mem = Initial /\ disk = Initial /\ saving = FALSE
        /\ bridgeId = 0 /\ fresh = 0
    BY DEF Init
  <2>3. mem \in [Fields -> 0 .. fresh] /\ disk \in [Fields -> 0 .. fresh]
    BY <2>1, <2>2
  <2>4. bridgeId \in 0 .. fresh /\ fresh \in Nat
    BY <2>2
  <2> QED
    BY <2>2, <2>3, <2>4 DEF IInv, TypeOK, NewerThanStored
<1>2. IInv /\ [Next]_vars => IInv'
  <2> SUFFICES ASSUME IInv, [Next]_vars PROVE IInv'
    OBVIOUS
  <2>1. CASE Open
    <3>1. mem' \in [Fields -> 0 .. fresh]
      BY <2>1, Facts DEF Open, Initial
    <3>2. ~saving
      BY <2>1 DEF Open, IInv, NewerThanStored
    <3> QED
      BY <2>1, <3>1, <3>2, Facts DEF Open, IInv, TypeOK, NewerThanStored
  <2>2. CASE FetchPrices
    <3>1. "btcUsdRate" \in Fields
      BY DEF Fields
    <3>2. CASE app = "loaded"
      BY <2>2, <3>1, <3>2, SetLoaded DEF FetchPrices
    <3>3. CASE app # "loaded"
      BY <2>2, <3>1, <3>3, SetKeepsTypes, RatesAreNotWatched
         DEF FetchPrices, IInv, NewerThanStored, Set
    <3> QED
      BY <3>2, <3>3
  <2>3. CASE Load
    <3>1. mem' \in [Fields -> 0 .. fresh] /\ \A g \in Kept : mem'[g] >= disk'[g]
      BY <2>3, LoadIsNewer DEF Load
    <3> QED
      BY <2>3, <3>1, Facts DEF Load, IInv, TypeOK, NewerThanStored
  <2>4. CASE LoadFails
    <3>1. ~saving
      BY <2>4 DEF LoadFails, IInv, NewerThanStored
    <3> QED
      BY <2>4, <3>1, Facts DEF LoadFails, IInv, TypeOK, NewerThanStored
  <2>5. CASE InitializeDeviceId
    BY <2>5, SetLoaded DEF InitializeDeviceId, Fields
  <2>6. CASE InitializeBridge
    <3>1. "deviceId" \in Fields
      BY DEF Fields
    <3>2. bridgeId' \in 0 .. fresh
      BY <2>6, <3>1, Facts DEF InitializeBridge, KeptId
    <3> QED
      BY <2>6, <3>2, Facts DEF InitializeBridge, IInv, TypeOK, NewerThanStored
  <2>7. CASE ChangeSetting
    BY <2>7, SetLoaded DEF ChangeSetting, Fields
  <2>8. CASE SetMatrixAuth
    BY <2>8, SetLoaded DEF SetMatrixAuth, Fields
  <2>9. CASE Save
    <3>1. \A g \in Kept : mem[g] >= mem[g]
      BY Facts DEF Kept
    <3> QED
      BY <2>9, <3>1, Facts DEF Save, IInv, TypeOK, NewerThanStored
  <2>10. CASE Close
    BY <2>10, Facts DEF Close, IInv, TypeOK, NewerThanStored
  <2>11. CASE UNCHANGED vars
    BY <2>11 DEF vars, IInv, TypeOK, NewerThanStored
  <2> QED
    BY <2>1, <2>2, <2>3, <2>4, <2>5, <2>6, <2>7, <2>8, <2>9, <2>10, <2>11 DEF Next
<1> QED
  BY <1>1, <1>2, PTL DEF Spec

\* The redux state, what is stored and the bridge's identifier hold values that
\* were given, and a save is due only where the listener runs.
THEOREM TypesHold == Spec => []TypeOK
<1>1. IInv => TypeOK
  BY DEF IInv
<1> QED
  BY <1>1, Inductive, PTL

\* saveToStorage never replaces a stored field by an older value, whenever the
\* app was closed, however a load ended and whenever prices arrived.
THEOREM NothingRollsBack == Spec => NoRollback
<1>1. IInv /\ [Next]_vars => [\A f \in Fields \ {"matrixAuth"} : disk'[f] >= disk[f]]_vars
  <2> SUFFICES ASSUME IInv, [Next]_vars
               PROVE  \A f \in Fields \ {"matrixAuth"} : disk'[f] >= disk[f]
    OBVIOUS
  <2>1. CASE Save
    <3>1. app = "loaded" /\ disk' = mem
      BY <2>1 DEF Save, IInv, NewerThanStored
    <3> QED
      BY <3>1 DEF IInv, NewerThanStored, Kept
  <2>2. CASE UNCHANGED disk
    BY <2>2, Facts
  <2>3. Save \/ UNCHANGED disk
    BY DEF Next, vars, Open, FetchPrices, Load, LoadFails, InitializeDeviceId,
           InitializeBridge, ChangeSetting, SetMatrixAuth, Close, Set
  <2> QED
    BY <2>1, <2>2, <2>3
<1> QED
  BY <1>1, Inductive, PTL DEF Spec, NoRollback

\* verify_and_return_device_identifier keeps the identifier it was first given.
THEOREM OneIdentifier == Spec => OneDeviceIdentifier
<1>1. [Next]_vars => [bridgeId # 0 => bridgeId' = bridgeId]_vars
  BY DEF Next, vars, Open, FetchPrices, Load, LoadFails, InitializeDeviceId,
         InitializeBridge, KeptId, ChangeSetting, SetMatrixAuth, Save, Close, Set
<1> QED
  BY <1>1, PTL DEF Spec, OneDeviceIdentifier

\* The two together: neither a field nor the identifier goes back.
THEOREM NothingGoesBack == Spec => NothingIsTakenBack
BY NothingRollsBack, OneIdentifier DEF NothingIsTakenBack

-----------------------------------------------------------------------------
\* The index of a device is taken over only by a transfer that the user asked for,
\* when no registration is left from before identifiers were encrypted.

\* Without devices of before identifiers were encrypted no index is owned under a
\* plain identifier, and no chain comes to overwrite one: who is refused under
\* its encrypted identifier did not force, and finds the index owned.
SoundChain(c, owns) ==
    Registration!Asking(c) =>
        /\ c.step # "overwrite"
        /\ c.step = "plain" => ~c.force /\ owns[c.index] # Registration!Nobody
OwnersAreEncrypted ==
    /\ owner \in [Registration!Indices ->
                    Registration!Identifiers \cup {Registration!Nobody}]
    /\ \A i \in Registration!Indices :
        owner[i] # Registration!Nobody => owner[i][2] = "encrypted"
RegistrationInv ==
    /\ OwnersAreEncrypted
    /\ service \in [Devices -> Registration!Chains]
    /\ call \in [Devices -> Registration!Chains]
    /\ \A d \in Devices : SoundChain(service[d], owner) /\ SoundChain(call[d], owner)
    /\ \A d \in Devices : service[d] # Registration!Off => ~service[d].force

LEMMA NewChain ==
    ASSUME NEW i \in Registration!Indices, NEW f \in BOOLEAN
    PROVE  LET c == Registration!Chain(i, f, "encrypted")
           IN  /\ c \in Registration!Chains /\ c.step = "encrypted" /\ c.force = f
               /\ c # Registration!Off
  BY DEF Registration!Chain, Registration!Chains, Registration!Off

\* A chain that has not ended is a record.
LEMMA AskingChain ==
    ASSUME NEW c \in Registration!Chains, c # Registration!Off
    PROVE  /\ c \in [index : Registration!Indices, force : BOOLEAN,
                     step : {"encrypted", "plain", "overwrite", "done", "conflict"}]
           /\ c.index \in Registration!Indices /\ c.force \in BOOLEAN
           /\ \A s \in {"encrypted", "plain", "overwrite", "done", "conflict"} :
                LET e == [c EXCEPT !.step = s]
                IN  /\ e \in Registration!Chains /\ e.step = s /\ e # Registration!Off
                    /\ e.index = c.index /\ e.force = c.force
<1> DEFINE R == [index : Registration!Indices, force : BOOLEAN,
                 step : {"encrypted", "plain", "overwrite", "done", "conflict"}]
<1>1. c \in R
  BY DEF Registration!Chains
<1>2. ASSUME NEW s \in {"encrypted", "plain", "overwrite", "done", "conflict"}
      PROVE  /\ [c EXCEPT !.step = s] \in R
             /\ [c EXCEPT !.step = s].step = s
             /\ [c EXCEPT !.step = s].index = c.index
             /\ [c EXCEPT !.step = s].force = c.force
  BY <1>1
<1>3. \A e \in R : e \in Registration!Chains
  BY DEF Registration!Chains
<1>4. ASSUME NEW s \in {"encrypted", "plain", "overwrite", "done", "conflict"}
      PROVE  [c EXCEPT !.step = s] # Registration!Off
  BY <1>2, <1>4 DEF Registration!Off
<1> QED
  BY <1>1, <1>2, <1>3, <1>4

\* What the server does with one request of a chain, and what becomes of the chain.
LEMMA OneRequest ==
    ASSUME RegistrationInv, NEW d \in Devices, NEW c \in Registration!Chains,
           SoundChain(c, owner), Registration!Asking(c), Registration!Serve(d, c),
           NEW e \in {Registration!Answered(d, c), Registration!Restarted(c)}
    PROVE  /\ OwnersAreEncrypted'
           /\ \A i \in Registration!Indices :
                owner[i] # Registration!Nobody => owner'[i] # Registration!Nobody
           /\ \A i \in Registration!Indices :
                Registration!Owners(i) \notin {{}, Registration!Owners(i)'}
                    => c.index = i /\ c.force /\ Registration!Owners(i)' = {d}
           /\ e \in Registration!Chains /\ e # Registration!Off
           /\ e.index = c.index /\ e.force = c.force
           /\ SoundChain(e, owner')
<1> USE DEF Registration!Nobody
<1>1. /\ c # Registration!Off /\ c.index \in Registration!Indices /\ c.force \in BOOLEAN
      /\ c.step \in {"encrypted", "plain"}
      /\ c.step = "plain" => ~c.force /\ owner[c.index] # Registration!Nobody
  BY AskingChain DEF Registration!Asking, SoundChain
<1>2. \A s \in {"encrypted", "plain", "overwrite", "done", "conflict"} :
        LET x == [c EXCEPT !.step = s]
        IN  /\ x \in Registration!Chains /\ x.step = s /\ x # Registration!Off
            /\ x.index = c.index /\ x.force = c.force
  BY <1>1, AskingChain
<1>3. OwnersAreEncrypted
  BY DEF RegistrationInv
<1>4. c.step = "plain" => ~Registration!Granted(d, c)
  <2> SUFFICES ASSUME c.step = "plain", Registration!Granted(d, c) PROVE FALSE
    OBVIOUS
  <2>1. owner[c.index] = <<d, "plain">>
    BY <1>1 DEF Registration!Granted, Registration!Forced, Registration!Identifier
  <2>2. owner[c.index][2] = "encrypted"
    BY <1>1, <1>3 DEF OwnersAreEncrypted
  <2> QED
    BY <2>1, <2>2
<1>5. CASE ~Registration!Granted(d, c)
  <2>1. owner' = owner
    BY <1>5 DEF Registration!Serve
  <2>2. owner[c.index] # Registration!Nobody /\ ~c.force
    BY <1>1, <1>5 DEF Registration!Granted, Registration!Forced
  <2>3. PICK s \in {"encrypted", "plain", "conflict"} : e = [c EXCEPT !.step = s]
    BY <1>1, <1>5 DEF Registration!Answered, Registration!Restarted, Registration!After
  <2>4. /\ e \in Registration!Chains /\ e # Registration!Off
        /\ e.index = c.index /\ e.force = c.force /\ e.step = s
    BY <1>2, <2>3
  <2>5. SoundChain(e, owner')
    BY <2>1, <2>2, <2>3, <2>4 DEF SoundChain
  <2> QED
    BY <1>3, <2>1, <2>4, <2>5 DEF OwnersAreEncrypted, Registration!Owners
<1>6. CASE Registration!Granted(d, c)
  <2>1. c.step = "encrypted"
    BY <1>1, <1>4, <1>6
  <2>2. owner' = [owner EXCEPT ![c.index] = <<d, "encrypted">>]
    BY <1>6, <2>1 DEF Registration!Serve, Registration!Identifier
  <2>3. <<d, "encrypted">> \in Registration!Identifiers /\ <<d, "encrypted">> # <<>>
        /\ <<d, "encrypted">>[1] = d /\ <<d, "encrypted">>[2] = "encrypted"
    BY DEF Registration!Identifiers
  <2>4. \A i \in Registration!Indices :
          owner'[i] = IF i = c.index THEN <<d, "encrypted">> ELSE owner[i]
    BY <1>3, <2>2 DEF OwnersAreEncrypted
  <2>5. OwnersAreEncrypted'
    <3>1. owner' \in [Registration!Indices ->
                        Registration!Identifiers \cup {Registration!Nobody}]
      BY <1>3, <2>2, <2>3 DEF OwnersAreEncrypted
    <3> QED
      BY <1>3, <2>3, <2>4, <3>1 DEF OwnersAreEncrypted
  <2>6. ASSUME NEW i \in Registration!Indices,
               Registration!Owners(i) \notin {{}, Registration!Owners(i)'}
        PROVE  c.index = i /\ c.force /\ Registration!Owners(i)' = {d}
    <3>1. c.index = i
      BY <2>4, <2>6 DEF Registration!Owners
    <3>2. Registration!Owners(i)' = {d}
      BY <2>3, <2>4, <3>1 DEF Registration!Owners
    <3>3. owner[i] # Registration!Nobody /\ owner[i][1] # d
      BY <2>6, <3>2 DEF Registration!Owners
    <3>4. owner[i] # <<d, "encrypted">>
      BY <2>3, <3>3
    <3> QED
      BY <1>6, <2>1, <3>1, <3>2, <3>3, <3>4
         DEF Registration!Granted, Registration!Forced, Registration!Identifier
  <2>7. PICK s \in {"done", "encrypted"} : e = [c EXCEPT !.step = s]
    BY <1>6, <2>1 DEF Registration!Answered, Registration!Restarted, Registration!After
  <2>8. /\ e \in Registration!Chains /\ e # Registration!Off
        /\ e.index = c.index /\ e.force = c.force /\ e.step = s
    BY <1>2, <2>7
  <2>9. SoundChain(e, owner')
    BY <2>7, <2>8 DEF SoundChain, Registration!Asking
  <2> QED
    BY <2>3, <2>4, <2>5, <2>6, <2>8, <2>9
<1> QED
  BY <1>5, <1>6

LEMMA RegistrationStarts ==
    ASSUME Registration!DeviceAssumption, Legacy = {}, Registration!Init
    PROVE  RegistrationInv
<1> USE DEF Registration!Nobody
<1>1. 0 \in Registration!Indices
  BY DEF Registration!DeviceAssumption, Registration!Indices
<1>2. owner = [i \in Registration!Indices |-> Registration!Nobody]
  BY DEF Registration!Init
<1>3. OwnersAreEncrypted
  BY <1>2 DEF OwnersAreEncrypted
<1>4. Registration!Off \in Registration!Chains /\ ~Registration!Asking(Registration!Off)
  BY DEF Registration!Chains, Registration!Asking
<1> DEFINE c == Registration!Chain(0, FALSE, "encrypted")
<1>5. c \in Registration!Chains /\ c.step = "encrypted" /\ ~c.force
  BY <1>1, NewChain
<1> HIDE DEF c
<1>6. /\ service = [d \in Devices |-> IF d = First THEN c ELSE Registration!Off]
      /\ call = [d \in Devices |-> Registration!Off]
  BY DEF Registration!Init, c
<1>7. \A d \in Devices : /\ call[d] = Registration!Off
                         /\ service[d] \in {c, Registration!Off}
  BY <1>6
<1>8. ASSUME NEW d \in Devices
      PROVE  SoundChain(service[d], owner) /\ SoundChain(call[d], owner)
             /\ (service[d] # Registration!Off => ~service[d].force)
  BY <1>4, <1>5, <1>7 DEF SoundChain
<1>9. service \in [Devices -> Registration!Chains] /\ call \in [Devices -> Registration!Chains]
  BY <1>4, <1>5, <1>6
<1> QED
  BY <1>3, <1>8, <1>9 DEF RegistrationInv

\* A step that leaves the server alone, and gives each device sound chains.
LEMMA OwnersStay ==
    ASSUME RegistrationInv, UNCHANGED owner,
           NEW d \in Devices,
           NEW s \in Registration!Chains, NEW k \in Registration!Chains,
           service' = [service EXCEPT ![d] = s], call' = [call EXCEPT ![d] = k],
           SoundChain(s, owner), SoundChain(k, owner), s # Registration!Off => ~s.force
    PROVE  RegistrationInv' /\ Registration!LeavesOwners
<1>1. OwnersAreEncrypted'
  BY DEF RegistrationInv, OwnersAreEncrypted
<1>2. \A x \in Devices : /\ service'[x] = (IF x = d THEN s ELSE service[x])
                         /\ call'[x] = (IF x = d THEN k ELSE call[x])
  BY DEF RegistrationInv
<1>3. owner' = owner
  OBVIOUS
<1>4. service' \in [Devices -> Registration!Chains] /\ call' \in [Devices -> Registration!Chains]
  BY DEF RegistrationInv
<1>5. ASSUME NEW x \in Devices
      PROVE  /\ SoundChain(service'[x], owner') /\ SoundChain(call'[x], owner')
             /\ service'[x] # Registration!Off => ~service'[x].force
  BY <1>2, <1>3 DEF RegistrationInv
<1>6. Registration!LeavesOwners
  BY DEF Registration!LeavesOwners, Registration!Owners
<1> QED
  BY <1>1, <1>4, <1>5, <1>6 DEF RegistrationInv

\* What is owned stays so, and with it what the other chains have found.
LEMMA OthersStaySound ==
    ASSUME RegistrationInv, NEW c \in Registration!Chains, SoundChain(c, owner),
           \A i \in Registration!Indices :
                owner[i] # Registration!Nobody => owner'[i] # Registration!Nobody
    PROVE  SoundChain(c, owner')
<1>1. Registration!Asking(c) => c.index \in Registration!Indices
  BY AskingChain DEF Registration!Asking
<1> QED
  BY <1>1 DEF SoundChain

LEMMA RenewalsForceNothing ==
    ASSUME RegistrationInv, NEW d \in Devices, Registration!Renew(d)
    PROVE  RegistrationInv' /\ Registration!LeavesOwners
<1>1. PICK e \in {Registration!Answered(d, service[d]), Registration!Restarted(service[d])} :
        Registration!Request(d, service[d], e) /\ service' = [service EXCEPT ![d] = e]
  BY DEF Registration!Renew
<1>2. /\ Registration!Asking(service[d]) /\ Registration!Serve(d, service[d])
      /\ service[d] \in Registration!Chains /\ SoundChain(service[d], owner)
      /\ ~service[d].force
  BY <1>1 DEF Registration!Request, Registration!Asking, RegistrationInv
<1>3. /\ OwnersAreEncrypted'
      /\ \A i \in Registration!Indices :
           owner[i] # Registration!Nobody => owner'[i] # Registration!Nobody
      /\ \A i \in Registration!Indices :
           Registration!Owners(i) \notin {{}, Registration!Owners(i)'}
               => service[d].index = i /\ service[d].force /\ Registration!Owners(i)' = {d}
      /\ e \in Registration!Chains /\ e.force = service[d].force
      /\ SoundChain(e, owner')
  BY <1>2, OneRequest
<1>4. /\ service' \in [Devices -> Registration!Chains]
      /\ \A x \in Devices : service'[x] = (IF x = d THEN e ELSE service[x])
      /\ call' = call
  BY <1>1, <1>3 DEF RegistrationInv, Registration!Renew
<1>5. ASSUME NEW x \in Devices
      PROVE  SoundChain(service'[x], owner') /\ SoundChain(call'[x], owner')
             /\ (service'[x] # Registration!Off => ~service'[x].force)
  <2>1. SoundChain(service[x], owner') /\ SoundChain(call[x], owner')
    BY <1>3, OthersStaySound DEF RegistrationInv
  <2> QED
    BY <1>2, <1>3, <1>4, <2>1 DEF RegistrationInv
<1>6. Registration!LeavesOwners
  BY <1>2, <1>3 DEF Registration!LeavesOwners
<1> QED
  BY <1>3, <1>4, <1>5, <1>6 DEF RegistrationInv

LEMMA OnlyForceTakes ==
    ASSUME RegistrationInv, NEW d \in Devices, Registration!Register(d)
    PROVE  RegistrationInv' /\ Registration!LeavesOwners
<1>1. PICK e \in {Registration!Answered(d, call[d]), Registration!Restarted(call[d])} :
        Registration!Request(d, call[d], e) /\ call' = [call EXCEPT ![d] = e]
  BY DEF Registration!Register
<1>2. /\ Registration!Asking(call[d]) /\ Registration!Serve(d, call[d])
      /\ call[d] \in Registration!Chains /\ SoundChain(call[d], owner)
  BY <1>1 DEF Registration!Request, RegistrationInv
<1>3. /\ OwnersAreEncrypted'
      /\ \A i \in Registration!Indices :
           owner[i] # Registration!Nobody => owner'[i] # Registration!Nobody
      /\ \A i \in Registration!Indices :
           Registration!Owners(i) \notin {{}, Registration!Owners(i)'}
               => call[d].index = i /\ call[d].force /\ Registration!Owners(i)' = {d}
      /\ e \in Registration!Chains
      /\ SoundChain(e, owner')
  BY <1>2, OneRequest
<1>4. /\ call' \in [Devices -> Registration!Chains]
      /\ \A x \in Devices : call'[x] = (IF x = d THEN e ELSE call[x])
      /\ service' = service
  BY <1>1, <1>3 DEF RegistrationInv, Registration!Register
<1>5. ASSUME NEW x \in Devices
      PROVE  SoundChain(service'[x], owner') /\ SoundChain(call'[x], owner')
             /\ (service'[x] # Registration!Off => ~service'[x].force)
  <2>1. SoundChain(service[x], owner') /\ SoundChain(call[x], owner')
    BY <1>3, OthersStaySound DEF RegistrationInv
  <2> QED
    BY <1>3, <1>4, <2>1 DEF RegistrationInv
<1>6. Registration!LeavesOwners
  BY <1>2, <1>3 DEF Registration!LeavesOwners, Registration!TakenByTransfer
<1> QED
  BY <1>3, <1>4, <1>5, <1>6 DEF RegistrationInv

\* The index of a device that registers as a new one is within the bound.
LEMMA FreeIsAnIndex ==
    ASSUME Registration!DeviceAssumption, Registration!Free <= MaxIndex
    PROVE  Registration!Free \in Registration!Indices
<1>1. IsFiniteSet(Registration!Indices)
  BY FS_Interval DEF Registration!Indices, Registration!DeviceAssumption
<1>2. IsFiniteSet(Registration!Registered)
  BY <1>1, FS_Subset DEF Registration!Registered
<1>3. Registration!Free = Cardinality(Registration!Registered)
  BY DEF Registration!Free, Registration!Cardinality, Cardinality
<1>4. Registration!Free \in Nat
  BY <1>2, <1>3, FS_CardinalityType
<1> QED
  BY <1>4 DEF Registration!Indices, Registration!DeviceAssumption

\* A sound chain to begin with, and none.
LEMMA BeginsSound ==
    ASSUME NEW i \in Registration!Indices, NEW f \in BOOLEAN
    PROVE  LET c == Registration!Chain(i, f, "encrypted")
           IN  c \in Registration!Chains /\ SoundChain(c, owner) /\ c.force = f
  BY NewChain DEF SoundChain

LEMMA OffIsSound ==
    Registration!Off \in Registration!Chains /\ SoundChain(Registration!Off, owner)
  BY DEF Registration!Chains, SoundChain, Registration!Asking

LEMMA OwnershipGoesOn ==
    ASSUME Registration!DeviceAssumption, RegistrationInv,
           [Registration!Next]_(Registration!vars)
    PROVE  RegistrationInv' /\ Registration!LeavesOwners
<1> DEFINE Chain(i, f) == Registration!Chain(i, f, "encrypted")
<1>1. CASE UNCHANGED Registration!vars
  BY <1>1 DEF Registration!vars, RegistrationInv, OwnersAreEncrypted,
              Registration!LeavesOwners, Registration!Owners
<1>2. CASE Registration!Next
  <2>1. PICK d \in Devices :
          \/ Registration!Renew(d) \/ Registration!Register(d)
          \/ Registration!Sleep(d) \/ Registration!EnterSeed(d)
          \/ Registration!FetchDevices(d) \/ Registration!NewWallet(d)
          \/ (\E i \in Registration!Indices : Registration!Transfer(d, i))
          \/ Registration!Assign(d) \/ Registration!RegisterFails(d)
          \/ Registration!JoinFederation(d) \/ Registration!Quit(d)
          \/ Registration!Launch(d)
    BY <1>2 DEF Registration!Next
  <2>2. /\ service[d] \in Registration!Chains /\ SoundChain(service[d], owner)
        /\ call[d] \in Registration!Chains /\ SoundChain(call[d], owner)
        /\ service[d] # Registration!Off => ~service[d].force
        /\ [service EXCEPT ![d] = service[d]] = service
        /\ [call EXCEPT ![d] = call[d]] = call
    BY DEF RegistrationInv
  <2>3. CASE Registration!Renew(d)
    BY <2>3, RenewalsForceNothing
  <2>4. CASE Registration!Register(d)
    BY <2>4, OnlyForceTakes
  <2>5. CASE Registration!Sleep(d)
    <3> DEFINE s == [service[d] EXCEPT !.step = "encrypted"]
    <3>1. s \in Registration!Chains /\ s.step = "encrypted" /\ s.force = service[d].force
      BY <2>2, <2>5, AskingChain DEF Registration!Sleep
    <3>2. service' = [service EXCEPT ![d] = s]
      BY <2>2, <2>5 DEF Registration!Sleep
    <3>3. service[d] # Registration!Off /\ owner' = owner /\ call' = call
      BY <2>5 DEF Registration!Sleep
    <3> HIDE DEF s
    <3>4. SoundChain(s, owner) /\ (s # Registration!Off => ~s.force)
      BY <2>2, <3>1, <3>3 DEF SoundChain
    <3> QED
      BY <2>2, <3>1, <3>2, <3>3, <3>4, OwnersStay
  <2>6. CASE Registration!EnterSeed(d)
    BY <2>2, <2>6, OffIsSound, OwnersStay DEF Registration!EnterSeed
  <2>7. CASE Registration!FetchDevices(d)
    BY <2>2, <2>7, OwnersStay DEF Registration!FetchDevices
  <2>8. CASE Registration!NewWallet(d)
    <3> DEFINE c == Chain(Registration!Free, FALSE)
    <3>1. c \in Registration!Chains /\ SoundChain(c, owner)
      BY <2>8, FreeIsAnIndex, BeginsSound DEF Registration!NewWallet
    <3>2. owner' = owner /\ service' = service /\ call' = [call EXCEPT ![d] = c]
      BY <2>8 DEF Registration!NewWallet
    <3> HIDE DEF c
    <3> QED
      BY <2>2, <3>1, <3>2, OwnersStay
  <2>9. ASSUME NEW i \in Registration!Indices, Registration!Transfer(d, i)
        PROVE  RegistrationInv' /\ Registration!LeavesOwners
    <3> DEFINE c == Chain(i, TRUE)
    <3>1. c \in Registration!Chains /\ SoundChain(c, owner)
      BY BeginsSound
    <3>2. owner' = owner /\ service' = service /\ call' = [call EXCEPT ![d] = c]
      BY <2>9 DEF Registration!Transfer
    <3> HIDE DEF c
    <3> QED
      BY <2>2, <3>1, <3>2, OwnersStay
  <2>10. CASE Registration!Assign(d)
    <3> DEFINE c == Chain(call[d].index, FALSE)
    <3>1. call[d].index \in Registration!Indices
      BY <2>2, <2>10, AskingChain DEF Registration!Assign
    <3>2. c \in Registration!Chains /\ SoundChain(c, owner) /\ ~c.force
      BY <3>1, BeginsSound
    <3>3. /\ owner' = owner /\ service' = [service EXCEPT ![d] = c]
          /\ call' = [call EXCEPT ![d] = Registration!Off]
      BY <2>10 DEF Registration!Assign
    <3> HIDE DEF c
    <3> QED
      BY <3>2, <3>3, OffIsSound, OwnersStay
  <2>11. CASE Registration!RegisterFails(d)
    BY <2>2, <2>11, OffIsSound, OwnersStay DEF Registration!RegisterFails
  <2>12. CASE Registration!JoinFederation(d)
    BY <2>2, <2>12, OwnersStay DEF Registration!JoinFederation
  <2>13. CASE Registration!Quit(d)
    BY <2>2, <2>13, OffIsSound, OwnersStay DEF Registration!Quit
  <2>14. CASE Registration!Launch(d)
    <3> DEFINE c == Chain(index[d], FALSE)
               s == IF index[d] \in Registration!Indices THEN c ELSE Registration!Off
    <3>1. index[d] \in Registration!Indices
             => c \in Registration!Chains /\ SoundChain(c, owner) /\ ~c.force
      BY BeginsSound
    <3>2. owner' = owner /\ service' = [service EXCEPT ![d] = s] /\ call' = call
      BY <2>14 DEF Registration!Launch
    <3> HIDE DEF c
    <3>3. s \in Registration!Chains /\ SoundChain(s, owner) /\ (s # Registration!Off => ~s.force)
      BY <3>1, OffIsSound
    <3> HIDE DEF s
    <3> QED
      BY <2>2, <3>2, <3>3, OwnersStay
  <2> QED
    BY <2>1, <2>3, <2>4, <2>5, <2>6, <2>7, <2>8, <2>9, <2>10, <2>11, <2>12, <2>13, <2>14
<1> QED
  BY <1>1, <1>2

\* An index is taken from a device only by a transfer, however requests are served,
\* lost and repeated: no renewal and no registration of a new device takes over what
\* another one owns. Legacy = {}: for devices that registered before identifiers
\* were encrypted the server is forced without a transfer
\* (register_device_for_seed).
THEOREM OnlyTransfersTake ==
    ASSUME Registration!DeviceAssumption, Legacy = {}
    PROVE  Registration!Spec => Registration!OnlyTransfersTakeOver
<1>1. Registration!Init => RegistrationInv
  BY RegistrationStarts
<1>2. RegistrationInv /\ [Registration!Next]_(Registration!vars)
        => RegistrationInv' /\ Registration!LeavesOwners
  BY OwnershipGoesOn
<1> QED
  BY <1>1, <1>2, PTL DEF Registration!Spec, Registration!OnlyTransfersTakeOver

-----------------------------------------------------------------------------
\* Who sees the app has a name, however the app is closed, reopened and recovered.

\* A name that the bridge or redux knows of is that of the account logged in, and
\* the chat runs for an account.
NameIsOfTheAccount ==
    /\ session = "none" => ~cached /\ ~live
    /\ "none" \notin named /\ seed # "none"
    /\ cached => session \in named
    /\ auth = "named" => cached
    /\ onboardingScreen = "in" => session \in named

LEMMA NamesStay ==
    NameIsOfTheAccount /\ [Entry!Next]_(Entry!vars) => NameIsOfTheAccount'
<1> SUFFICES ASSUME NameIsOfTheAccount, [Entry!Next]_(Entry!vars)
             PROVE  NameIsOfTheAccount'
  OBVIOUS
<1> USE DEF NameIsOfTheAccount, Entry!bridge, Entry!redux
<1>1. CASE UNCHANGED Entry!vars
  BY <1>1 DEF Entry!vars
<1>2. CASE Entry!Open
  BY <1>2 DEF Entry!Open, Entry!StartClient
<1>3. CASE Entry!Show
  BY <1>3 DEF Entry!Show
<1>4. CASE Entry!Initialize
  <2>1. session' # "none" /\ (session # "none" => session' = session)
    BY <1>4 DEF Entry!Initialize
  <2>2. cached' => session' \in named
    <3>1. cached => session' \in named
      BY <2>1
    <3>2. cached' => cached \/ session' \in named
      BY <1>4 DEF Entry!Initialize
    <3> QED
      BY <3>1, <3>2
  <2>3. auth' = "named" => cached'
    BY <1>4 DEF Entry!Initialize
  <2>4. named' = named /\ seed' = seed /\ onboardingScreen' = onboardingScreen
    BY <1>4 DEF Entry!Initialize
  <2> QED
    BY <2>1, <2>2, <2>3, <2>4
<1>5. CASE Entry!InitializeFails
  BY <1>5 DEF Entry!InitializeFails
<1>6. CASE Entry!Sync
  BY <1>6 DEF Entry!Sync
<1>7. CASE Entry!SubmitName
  BY <1>7 DEF Entry!SubmitName, Entry!StartClient
<1>8. CASE Entry!SetName
  BY <1>8 DEF Entry!SetName, Entry!CanName
<1>9. CASE Entry!EnterWords
  BY <1>9 DEF Entry!EnterWords, Entry!StartClient
<1>10. CASE Entry!Recovered
  BY <1>10 DEF Entry!Recovered
<1>11. CASE Entry!Close
  BY <1>11 DEF Entry!Close, Entry!Closed
<1>12. CASE Entry!Reopen
  BY <1>12 DEF Entry!Reopen, Entry!Closed
<1>13. CASE Entry!GoOffline
  BY <1>13 DEF Entry!GoOffline
<1>14. CASE Entry!GoOnline
  BY <1>14 DEF Entry!GoOnline
<1> QED
  BY <1>1, <1>2, <1>3, <1>4, <1>5, <1>6, <1>7, <1>8, <1>9, <1>10, <1>11, <1>12,
     <1>13, <1>14 DEF Entry!Next

\* Types of what the first start changes; each action changes a few of them.
LEMMA EntryTypesStay ==
    ASSUME Entry!TypeOK, [Entry!Next]_(Entry!vars)
    PROVE  Entry!TypeOK'
<1> USE DEF Entry!TypeOK, Entry!Seeds, Entry!bridge, Entry!redux
<1>1. CASE UNCHANGED Entry!vars
  BY <1>1 DEF Entry!vars
<1>2. CASE Entry!Open
  BY <1>2 DEF Entry!Open, Entry!StartClient
<1>3. CASE Entry!Show
  BY <1>3 DEF Entry!Show
<1>4. CASE Entry!Initialize
  <2>1. (cached \/ session' \in named) \in BOOLEAN
    OBVIOUS
  <2>2. cached' \in BOOLEAN
    BY <1>4, <2>1, Zenon DEF Entry!Initialize
  <2>3. /\ seed' = seed /\ store' \in Entry!Seeds /\ session' \in Entry!Seeds /\ named' = named
        /\ live' /\ client' \in {"started", "failed"} /\ status' \in {status, "stopped"}
        /\ auth' # "none" => client' = "started"
        /\ onboardingScreen' = onboardingScreen /\ onboardingScreen # "closed"
    BY <1>4 DEF Entry!Initialize
  <2> QED
    BY <2>2, <2>3
<1>5. CASE Entry!InitializeFails
  BY <1>5 DEF Entry!InitializeFails
<1>6. CASE Entry!Sync
  BY <1>6 DEF Entry!Sync
<1>7. CASE Entry!SubmitName
  BY <1>7 DEF Entry!SubmitName, Entry!StartClient
<1>8. CASE Entry!SetName
  <2>1. live => session \in Entry!Seeds
    OBVIOUS
  <2> QED
    BY <1>8, <2>1 DEF Entry!SetName, Entry!CanName
<1>9. CASE Entry!EnterWords
  BY <1>9 DEF Entry!EnterWords, Entry!StartClient
<1>10. CASE Entry!Recovered
  BY <1>10 DEF Entry!Recovered
<1>11. CASE Entry!Close \/ Entry!Reopen
  BY <1>11 DEF Entry!Close, Entry!Reopen, Entry!Closed
<1>12. CASE Entry!GoOffline \/ Entry!GoOnline
  <2>1. /\ <<seed, store, session, cached, live, client, status, auth>>'
              = <<seed, store, session, cached, live, client, status, auth>>
        /\ <<named, onboardingScreen, task>>' = <<named, onboardingScreen, task>>
    BY <1>12 DEF Entry!GoOffline, Entry!GoOnline
  <2> QED
    BY <2>1
<1> QED
  BY <1>1, <1>2, <1>3, <1>4, <1>5, <1>6, <1>7, <1>8, <1>9, <1>10, <1>11, <1>12
     DEF Entry!Next

\* Who is in the app has a display name on the chat server, however attempts to set
\* one and to start the client have failed, been repeated and cut off by closing
\* the app (handleSubmitDisplayName, FediBridgeInitializer, usePersonalRecovery).
THEOREM WhoIsInIsNamed == Entry!Spec => []Entry!InIsNamed
<1>1. Entry!Init => NameIsOfTheAccount
  BY DEF Entry!Init, NameIsOfTheAccount
<1>2. NameIsOfTheAccount => Entry!InIsNamed
  BY DEF NameIsOfTheAccount, Entry!InIsNamed
<1> QED
  BY <1>1, <1>2, NamesStay, PTL DEF Entry!Spec

-----------------------------------------------------------------------------
\* The PIN locks only while there is one, and it is one that was typed twice.

\* While the keychain has no PIN, what the old one protected is unlocked.
GoneIsUnlocked ==
    keychain = Lock!NoPin => loaded = Lock!NoPin \/ protected \subseteq unlocked

LEMMA NothingIsTooShort ==
    ASSUME Lock!PinAssumption
    PROVE  Lock!Len(<<>>) # Length
  BY DEF Lock!PinAssumption, Lock!Len

LEMMA GoneStaysUnlocked ==
    ASSUME Lock!PinAssumption, GoneIsUnlocked, [Lock!Next]_(Lock!vars)
    PROVE  GoneIsUnlocked'
<1> USE DEF GoneIsUnlocked, Lock!stored, Lock!screenVars
<1>1. CASE UNCHANGED Lock!vars
  BY <1>1 DEF Lock!vars
<1>2. ASSUME NEW d \in Digits, Lock!Press(d) \/ Lock!PressSet(d)
      PROVE  GoneIsUnlocked'
  BY <1>2 DEF Lock!Press, Lock!PressSet
<1>3. ASSUME NEW f \in Lock!Features, Lock!Toggle(f)
      PROVE  GoneIsUnlocked'
  <2>1. \A x \in protected' : x \in protected \/ x = f
    BY <1>3 DEF Lock!Toggle, Lock!SymDiff
  <2>2. unlocked' = unlocked \cup {f}
    BY <1>3 DEF Lock!Toggle
  <2> QED
    BY <1>3, <2>1, <2>2 DEF Lock!Toggle
<1>4. CASE Lock!Restart
  BY <1>4 DEF Lock!Restart
<1>5. CASE Lock!Backspace
  BY <1>5 DEF Lock!Backspace
<1>6. CASE Lock!Tick
  BY <1>6 DEF Lock!Tick
<1>7. CASE Lock!Unlock
  BY <1>7 DEF Lock!Unlock
<1>8. CASE Lock!Leave
  BY <1>8 DEF Lock!Leave
<1>9. CASE Lock!OpenNostrSettings
  BY <1>9 DEF Lock!OpenNostrSettings
<1>10. CASE Lock!OpenSetPin
  BY <1>10 DEF Lock!OpenSetPin
<1>11. CASE Lock!BackspaceSet
  BY <1>11 DEF Lock!BackspaceSet
<1>12. CASE Lock!ReEnter
  BY <1>12 DEF Lock!ReEnter
<1>13. CASE Lock!Confirmed
  BY <1>13, NothingIsTooShort DEF Lock!Confirmed, Lock!NoPin
<1>14. CASE Lock!StartOver
  BY <1>14 DEF Lock!StartOver
<1>15. CASE Lock!Reset
  BY <1>15 DEF Lock!Reset
<1> QED
  BY <1>1, <1>2, <1>3, <1>4, <1>5, <1>6, <1>7, <1>8, <1>9, <1>10, <1>11, <1>12,
     <1>13, <1>14, <1>15 DEF Lock!Next

\* Nobody is asked for a PIN that is gone: ResetPin unlocks all that the PIN
\* protected until PinContext reads the keychain again, and what is then made to
\* be protected is unlocked too.
THEOREM NobodyIsLockedOut ==
    ASSUME Lock!PinAssumption
    PROVE  Lock!Spec => []Lock!NoLockWithoutPin
<1>1. Lock!Init => GoneIsUnlocked
  BY DEF Lock!Init, GoneIsUnlocked
<1>2. GoneIsUnlocked /\ [Lock!Next]_(Lock!vars) => GoneIsUnlocked'
  BY GoneStaysUnlocked
<1>3. GoneIsUnlocked => Lock!NoLockWithoutPin
  BY DEF GoneIsUnlocked, Lock!NoLockWithoutPin, Lock!Locked
<1> QED
  BY <1>1, <1>2, <1>3, PTL DEF Lock!Spec

-----------------------------------------------------------------------------
\* What may be typed: digits, not more than a PIN has.
LEMMA TypedHas ==
    ASSUME Lock!PinAssumption, NEW s \in Lock!BoundedSeq(Digits, Length)
    PROVE  /\ Lock!Len(s) \in 0 .. Length /\ s \in [1 .. Lock!Len(s) -> Digits]
           /\ s \in Seq(Digits)
           /\ Lock!Len(s) = Length => s \in Lock!Pins
<1>1. PICK n \in 0 .. Length : s \in [1 .. n -> Digits]
  BY DEF Lock!BoundedSeq, Lock!SeqOf
<1>2. Lock!Len(s) = n
  BY <1>1 DEF Lock!Len, Lock!PinAssumption
<1> QED
  BY <1>1, <1>2 DEF Lock!Pins, Lock!TupleOf

LEMMA TypedIs ==
    ASSUME Lock!PinAssumption, NEW n \in 0 .. Length, NEW s \in [1 .. n -> Digits]
    PROVE  s \in Lock!BoundedSeq(Digits, Length)
  BY DEF Lock!BoundedSeq, Lock!SeqOf

LEMMA OneMoreIsTyped ==
    ASSUME Lock!PinAssumption, NEW s \in Lock!BoundedSeq(Digits, Length),
           Lock!Len(s) < Length, NEW d \in Digits
    PROVE  Lock!Append(s, d) \in Lock!BoundedSeq(Digits, Length) /\ Lock!Append(s, d) # <<>>
<1>1. s \in Seq(Digits) /\ Len(s) \in 0 .. Length
  BY TypedHas DEF Lock!Len
<1>2. Append(s, d) \in Seq(Digits) /\ Len(Append(s, d)) = Len(s) + 1
  BY <1>1
<1>3. Len(s) + 1 \in 0 .. Length
  BY <1>1 DEF Lock!PinAssumption, Lock!Len
<1>4. Append(s, d) \in [1 .. Len(s) + 1 -> Digits] /\ Append(s, d) # <<>>
  <2> DEFINE t == Append(s, d)
  <2>1. t \in Seq(Digits) /\ Len(t) = Len(s) + 1 /\ Len(s) \in Nat
    BY <1>1, <1>2
  <2> HIDE DEF t
  <2>2. t \in [1 .. Len(s) + 1 -> Digits] /\ t # <<>>
    BY <2>1
  <2> QED
    BY <2>2 DEF t
<1> QED
  BY <1>3, <1>4, TypedIs DEF Lock!Append

LEMMA OneIsTyped ==
    ASSUME Lock!PinAssumption
    PROVE  /\ <<>> \in Lock!BoundedSeq(Digits, Length)
           /\ \A d \in Digits : <<d>> \in Lock!BoundedSeq(Digits, Length) /\ <<d>> # <<>>
<1>1. 0 \in 0 .. Length /\ 1 \in 0 .. Length
  BY DEF Lock!PinAssumption
<1>2. <<>> \in [1 .. 0 -> Digits] /\ \A d \in Digits : <<d>> \in [1 .. 1 -> Digits]
  OBVIOUS
<1> QED
  BY <1>1, <1>2, TypedIs

LEMMA OneLessIsTyped ==
    ASSUME Lock!PinAssumption, NEW s \in Lock!BoundedSeq(Digits, Length), s # <<>>
    PROVE  Lock!Front(s) \in Lock!BoundedSeq(Digits, Length)
<1>1. PICK n \in 0 .. Length : s \in [1 .. n -> Digits] /\ Lock!Len(s) = n
  BY TypedHas
<1>2. n # 0
  BY <1>1
<1>3. Lock!Front(s) = [i \in 1 .. n - 1 |-> s[i]]
  BY <1>1, <1>2 DEF Lock!Front, Lock!SubSeq, Lock!PinAssumption
<1>4. n - 1 \in 0 .. Length /\ Lock!Front(s) \in [1 .. n - 1 -> Digits]
  BY <1>1, <1>2, <1>3 DEF Lock!PinAssumption
<1> QED
  BY <1>4, TypedIs

LEMMA MountsTyped ==
    ASSUME Lock!PinAssumption, Lock!Mount
    PROVE  /\ typed' \in Lock!BoundedSeq(Digits, Length) /\ confirm' = <<>>
           /\ confirm' \in Lock!BoundedSeq(Digits, Length)
           /\ reEntering' = FALSE /\ first' = Lock!NoPin
           /\ attempts' \in 0 .. MaxAttempts /\ timeout' = 0 /\ timeout' \in 0 .. 21
  BY OneIsTyped DEF Lock!Mount, Lock!PinAssumption

LEMMA PinTypesStay ==
    ASSUME Lock!PinAssumption, Lock!TypeOK, [Lock!Next]_(Lock!vars)
    PROVE  Lock!TypeOK'
<1> USE DEF Lock!TypeOK, Lock!stored, Lock!screenVars
<1>1. CASE UNCHANGED Lock!vars
  BY <1>1 DEF Lock!vars
<1>2. ASSUME NEW d \in Digits, Lock!Press(d) PROVE Lock!TypeOK'
  <2>1. typed' \in Lock!BoundedSeq(Digits, Length)
    BY <1>2, OneMoreIsTyped, OneIsTyped DEF Lock!Press
  <2>2. /\ attempts' \in 0 .. MaxAttempts /\ timeout' \in 0 .. 21
        /\ timeout' > 0 => attempts' > 2
    BY <1>2 DEF Lock!Press, Lock!TimedOut, Lock!PinAssumption
  <2>3. /\ screen \in Lock!Features /\ screen' = screen /\ confirm' = confirm
        /\ reEntering' = reEntering /\ first' = first
        /\ keychain' = keychain /\ loaded' = loaded
        /\ protected' = protected /\ unlocked' = unlocked
    BY <1>2 DEF Lock!Press
  <2> QED
    BY <2>1, <2>2, <2>3
<1>3. ASSUME NEW d \in Digits, Lock!PressSet(d) PROVE Lock!TypeOK'
  <2>1. typed' \in Lock!BoundedSeq(Digits, Length)
    BY <1>3, OneMoreIsTyped DEF Lock!PressSet
  <2>2. confirm' \in Lock!BoundedSeq(Digits, Length)
    BY <1>3, OneMoreIsTyped, OneIsTyped DEF Lock!PressSet
  <2>3. confirm' # <<>> => reEntering
    BY <1>3 DEF Lock!PressSet
  <2>4. /\ screen = "SetPin" /\ screen' = screen
        /\ reEntering' = reEntering /\ first' = first /\ attempts' = attempts
        /\ timeout' = timeout /\ keychain' = keychain /\ loaded' = loaded
        /\ protected' = protected /\ unlocked' = unlocked
    BY <1>3 DEF Lock!PressSet
  <2> QED
    BY <2>1, <2>2, <2>3, <2>4
<1>4. ASSUME NEW f \in Lock!Features, Lock!Toggle(f) PROVE Lock!TypeOK'
  <2>1. protected' \subseteq Lock!Features /\ unlocked' \subseteq Lock!Features
    BY <1>4 DEF Lock!Toggle, Lock!SymDiff
  <2> QED
    BY <1>4, <2>1 DEF Lock!Toggle
<1>5. CASE Lock!Restart
  BY <1>5, MountsTyped DEF Lock!Restart, Lock!Features
<1>6. CASE Lock!Backspace
  BY <1>6, OneLessIsTyped DEF Lock!Backspace
<1>7. CASE Lock!Tick
  BY <1>7 DEF Lock!Tick
<1>8. CASE Lock!Unlock
  BY <1>8, MountsTyped DEF Lock!Unlock
<1>9. CASE Lock!Leave \/ Lock!OpenNostrSettings \/ Lock!OpenSetPin
  <2>1. Lock!Mount /\ UNCHANGED Lock!stored /\ screen' \in Lock!Features \cup {"main", "SetPin"}
    BY <1>9 DEF Lock!Leave, Lock!OpenNostrSettings, Lock!OpenSetPin, Lock!Features
  <2> QED
    BY <2>1, MountsTyped
<1>10. CASE Lock!BackspaceSet
  <2>1. confirm' \in Lock!BoundedSeq(Digits, Length) /\ (confirm' # <<>> => reEntering)
    BY <1>10, OneLessIsTyped DEF Lock!BackspaceSet
  <2>2. typed' \in Lock!BoundedSeq(Digits, Length)
    BY <1>10, OneLessIsTyped DEF Lock!BackspaceSet
  <2> QED
    BY <1>10, <2>1, <2>2 DEF Lock!BackspaceSet
<1>11. CASE Lock!ReEnter
  BY <1>11, TypedHas DEF Lock!ReEnter
<1>12. CASE Lock!Confirmed
  <2>1. confirm \in Lock!Pins
    BY <1>12, TypedHas DEF Lock!Confirmed
  <2> QED
    BY <1>12, <2>1, MountsTyped DEF Lock!Confirmed, Lock!Features
<1>13. CASE Lock!StartOver
  BY <1>13, OneIsTyped DEF Lock!StartOver
<1>14. CASE Lock!Reset
  BY <1>14, MountsTyped DEF Lock!Reset, Lock!Features
<1> QED
  BY <1>1, <1>2, <1>3, <1>4, <1>5, <1>6, <1>7, <1>8, <1>9, <1>10, <1>11, <1>12, <1>13,
     <1>14 DEF Lock!Next

LEMMA PinTypesStart ==
    ASSUME Lock!PinAssumption, Lock!Init
    PROVE  Lock!TypeOK
<1>1. typed \in Lock!BoundedSeq(Digits, Length) /\ confirm \in Lock!BoundedSeq(Digits, Length)
  BY OneIsTyped DEF Lock!Init
<1>2. 0 \in 0 .. MaxAttempts
  BY DEF Lock!PinAssumption
<1>3. screen \in Lock!Features \cup {"main", "SetPin"}
  BY DEF Lock!Init, Lock!Features
<1>4. attempts \in 0 .. MaxAttempts /\ timeout = 0 /\ confirm = <<>>
  BY <1>2 DEF Lock!Init
<1>5. /\ keychain \in Lock!Pins \cup {Lock!NoPin} /\ loaded = keychain
      /\ protected = Lock!Features /\ unlocked = {}
      /\ reEntering = FALSE /\ first = Lock!NoPin
  BY DEF Lock!Init
<1>6. /\ timeout \in 0 .. 21 /\ (timeout > 0 => attempts > 2 /\ screen \in Lock!Features)
      /\ confirm # <<>> => screen = "SetPin" /\ reEntering
  BY <1>4
<1>7. /\ keychain \in Lock!Pins \cup {Lock!NoPin} /\ loaded \in Lock!Pins \cup {Lock!NoPin}
      /\ protected \subseteq Lock!Features /\ unlocked \subseteq Lock!Features
  BY <1>5
<1>8. reEntering \in BOOLEAN /\ first \in Lock!Pins \cup {Lock!NoPin}
  BY <1>5
<1> QED
  BY <1>1, <1>3, <1>4, <1>6, <1>7, <1>8 DEF Lock!TypeOK

-----------------------------------------------------------------------------
\* While SetPin asks for the PIN again, the first one is complete and stays.
FirstStays ==
    /\ screen = "SetPin" /\ reEntering => typed = first /\ Lock!Len(typed) = Length
    /\ confirm # <<>> => screen = "SetPin" /\ reEntering

\* Every screen that is mounted begins with nothing typed.
LEMMA MountsEmpty ==
    ASSUME Lock!Mount
    PROVE  FirstStays'
  BY DEF Lock!Mount, FirstStays

StoredWasTyped ==
    keychain' # keychain /\ keychain' # Lock!NoPin => keychain' = first

LEMMA FirstIsStored ==
    ASSUME Lock!PinAssumption, Backspaces = FALSE, FirstStays,
           [Lock!Next]_(Lock!vars)
    PROVE  FirstStays' /\ StoredWasTyped
<1> USE DEF Lock!stored, Lock!screenVars, StoredWasTyped
<1>1. CASE UNCHANGED Lock!vars
  BY <1>1 DEF Lock!vars, FirstStays
<1>2. ASSUME NEW d \in Digits, Lock!Press(d)
      PROVE  FirstStays' /\ StoredWasTyped
  <2>1. screen # "SetPin" /\ screen' = screen /\ confirm' = confirm /\ keychain' = keychain
    BY <1>2 DEF Lock!Press, Lock!Features
  <2> QED
    BY <2>1 DEF FirstStays
<1>3. ASSUME NEW d \in Digits, Lock!PressSet(d)
      PROVE  FirstStays' /\ StoredWasTyped
  <2>1. /\ screen = "SetPin" /\ screen' = screen /\ reEntering' = reEntering
        /\ first' = first /\ keychain' = keychain
    BY <1>3 DEF Lock!PressSet
  <2>2. reEntering => typed' = typed
    BY <1>3, <2>1 DEF Lock!PressSet, Lock!PinAssumption, FirstStays
  <2>3. ~reEntering => confirm' = confirm
    BY <1>3 DEF Lock!PressSet
  <2> QED
    BY <2>1, <2>2, <2>3 DEF FirstStays
<1>4. ASSUME NEW f \in Lock!Features, Lock!Toggle(f)
      PROVE  FirstStays' /\ StoredWasTyped
  BY <1>4 DEF Lock!Toggle, FirstStays
<1>5. CASE Lock!Restart
  BY <1>5, MountsEmpty DEF Lock!Restart
<1>6. CASE Lock!Backspace \/ Lock!BackspaceSet
  BY <1>6 DEF Lock!Backspace, Lock!BackspaceSet
<1>7. CASE Lock!Tick
  BY <1>7 DEF Lock!Tick, FirstStays
<1>8. CASE Lock!Unlock \/ Lock!Leave \/ Lock!OpenNostrSettings \/ Lock!OpenSetPin
  BY <1>8, MountsEmpty
     DEF Lock!Unlock, Lock!Leave, Lock!OpenNostrSettings, Lock!OpenSetPin
<1>9. CASE Lock!ReEnter
  BY <1>9 DEF Lock!ReEnter, FirstStays
<1>10. CASE Lock!Confirmed
  <2>1. confirm # <<>>
    BY <1>10, NothingIsTooShort DEF Lock!Confirmed
  <2>2. keychain' = confirm /\ confirm = typed /\ Lock!Mount
    BY <1>10 DEF Lock!Confirmed, Lock!Matches
  <2> QED
    BY <2>1, <2>2, MountsEmpty DEF FirstStays
<1>11. CASE Lock!StartOver
  BY <1>11 DEF Lock!StartOver, FirstStays
<1>12. CASE Lock!Reset
  BY <1>12, MountsEmpty DEF Lock!Reset
<1> QED
  BY <1>1, <1>2, <1>3, <1>4, <1>5, <1>6, <1>7, <1>8, <1>9, <1>10, <1>11, <1>12
     DEF Lock!Next

\* The PIN that is stored was typed twice, in SetPin, by a user who takes no digit
\* back: however often the screen is left, the PIN is begun again or the app is
\* restarted. A digit taken back while the PIN is entered again is taken from
\* the first one too.
THEOREM StoredPinIsTypedTwice ==
    ASSUME Lock!PinAssumption, Backspaces = FALSE
    PROVE  Lock!Spec => Lock!PinIsTypedTwice
<1>1. Lock!Init => FirstStays
  BY DEF Lock!Init, FirstStays
<1>2. FirstStays /\ [Lock!Next]_(Lock!vars) => FirstStays' /\ StoredWasTyped
  BY FirstIsStored
<1> QED
  BY <1>1, <1>2, PTL DEF Lock!Spec, Lock!PinIsTypedTwice, StoredWasTyped

\* A recovery file is of a backup that all guardians have, and a recovery, of a
\* session they all know.

\* What guardians store, and calls of all of them.
Stores(f) == DOMAIN f \subseteq Recovery!Guardians /\ \A g \in DOMAIN f : f[g] \in Nat
CallsOfAll == [b : Nat, s : Nat, waiting : SUBSET Recovery!Guardians, failed : BOOLEAN]

LEMMA StoredIs ==
    ASSUME NEW f, NEW g, NEW v
    PROVE  /\ DOMAIN Recovery!Stored(f, g, v) = DOMAIN f \cup {g}
           /\ Recovery!Stored(f, g, v)[g] = v
           /\ \A h \in DOMAIN f : h # g => Recovery!Stored(f, g, v)[h] = f[h]
  BY DEF Recovery!Stored

LEMMA ACallIs ==
    ASSUME NEW b \in Nat, NEW s \in Nat
    PROVE  LET c == Recovery!Call(b, s)
           IN  /\ c \in CallsOfAll /\ c.b = b /\ c.s = s
               /\ c.waiting = Recovery!Guardians
  BY DEF Recovery!Call, CallsOfAll

LEMMA IdleIs ==
    Recovery!Idle \in CallsOfAll /\ Recovery!Idle.b = 0 /\ Recovery!Idle.s = 0
  BY DEF Recovery!Idle, CallsOfAll

\* A guardian that answers is waited for no more, and one that refuses or is given
\* up makes the call fail.
LEMMA AnsweredIs ==
    ASSUME NEW c \in CallsOfAll, NEW m, NEW ok \in BOOLEAN
    PROVE  LET e == Recovery!Answered(c, m, ok)
           IN  /\ e \in CallsOfAll /\ e.b = c.b /\ e.s = c.s
               /\ \/ e = c
                  \/ /\ c.b = m.b /\ c.s = m.s
                     /\ e.waiting = c.waiting \ {m.to}
                     /\ e.failed <=> c.failed \/ ~ok
<1>1. CASE ~(c.b = m.b /\ c.s = m.s /\ m.to \in c.waiting)
  BY <1>1 DEF Recovery!Answered
<1>2. CASE c.b = m.b /\ c.s = m.s /\ m.to \in c.waiting
  <2> DEFINE e == [c EXCEPT !.waiting = c.waiting \ {m.to},
                               !.failed = c.failed \/ ~ok]
  <2>1. Recovery!Answered(c, m, ok) = e
    BY <1>2 DEF Recovery!Answered
  <2>2. /\ e \in CallsOfAll
        /\ e.b = c.b /\ e.s = c.s /\ e.waiting = c.waiting \ {m.to}
        /\ e.failed = (c.failed \/ ~ok)
    BY DEF CallsOfAll
  <2> QED
    BY <1>2, <2>1, <2>2
<1> QED
  BY <1>1, <1>2

-----------------------------------------------------------------------------
\* No guardian has a later backup than the last one begun, and while that one is
\* uploaded, or when its file is written, who has accepted it keeps it.
Has(f, g, v) == g \in DOMAIN f /\ f[g] = v
Numbered == given \in [backups : Nat, sessions : Nat]
Addressed ==
    \A m \in sent : m.to \in Recovery!Guardians /\ m.b \in Nat /\ m.s \in Nat
UploadIsLast ==
    /\ upload \in CallsOfAll
    /\ upload # Recovery!Idle =>
        /\ upload.s = 0 /\ upload.b = given.backups /\ given.backups > 0
        /\ given.backups \notin files
        /\ ~upload.failed =>
            \A g \in Recovery!Guardians \ upload.waiting : Has(backup, g, given.backups)
BackupsInv ==
    /\ Numbered /\ Addressed /\ UploadIsLast
    /\ \A m \in sent : m.s = 0 => m.b <= given.backups
    /\ files \subseteq Nat /\ \A b \in files : b <= given.backups
    /\ Stores(backup) /\ \A g \in DOMAIN backup : backup[g] <= given.backups
    /\ Recovery!FilesAreBackedUp

LEMMA BackupsStart ==
    ASSUME Recovery!RecoveryAssumption, Recovery!Init
    PROVE  BackupsInv
<1>1. /\ backup = <<>> /\ sent = {} /\ upload = Recovery!Idle /\ files = {}
      /\ given = [backups |-> 0, sessions |-> 0]
  BY DEF Recovery!Init
<1>2. DOMAIN backup = {}
  BY <1>1
<1> QED
  BY <1>1, <1>2, IdleIs DEF BackupsInv, Numbered, Addressed, UploadIsLast, Stores,
     Recovery!FilesAreBackedUp

\* A guardian stores the last backup, or keeps it.
LEMMA HandleBackupStep ==
    ASSUME BackupsInv, NEW m \in sent, Recovery!HandleBackup(m)
    PROVE  BackupsInv'
<1> DEFINE n == given.backups
           newer == Recovery!NewerBackup(m)
           st == Recovery!Stored(backup, m.to, m.b)
<1>1. /\ m.s = 0 /\ sent' = sent \ {m}
      /\ backup' = IF newer THEN st ELSE backup
      /\ upload' = Recovery!Answered(upload, m, newer)
      /\ UNCHANGED <<files, given>>
  BY DEF Recovery!HandleBackup
<1>2. /\ m.to \in Recovery!Guardians /\ m.b \in Nat /\ m.b <= n /\ n \in Nat
      /\ newer \in BOOLEAN
      /\ newer <=> (m.to \in DOMAIN backup => m.b > backup[m.to])
  BY <1>1 DEF BackupsInv, Addressed, Numbered, Recovery!NewerBackup
<1>3. /\ upload' \in CallsOfAll /\ upload'.b = upload.b /\ upload'.s = upload.s
      /\ \/ upload' = upload
         \/ /\ upload.b = m.b
            /\ upload'.waiting = upload.waiting \ {m.to}
            /\ upload'.failed <=> upload.failed \/ ~newer
  <2>1. newer \in BOOLEAN /\ upload \in CallsOfAll
    BY <1>2 DEF BackupsInv, UploadIsLast
  <2> HIDE DEF newer
  <2> QED
    BY <1>1, <2>1, AnsweredIs
<1>3a. /\ DOMAIN st = DOMAIN backup \cup {m.to} /\ st[m.to] = m.b
       /\ \A h \in DOMAIN backup : h # m.to => st[h] = backup[h]
  BY DEF Recovery!Stored
<1>3b. (newer => backup' = st) /\ (~newer => backup' = backup)
  BY <1>1
<1> HIDE DEF newer, st
<1>4. ASSUME NEW g, Has(backup, g, n) PROVE Has(backup', g, n)
  <2>1. CASE newer /\ g = m.to
    BY <1>2, <1>4, <2>1 DEF Has
  <2>2. CASE ~(newer /\ g = m.to)
    BY <1>3a, <1>3b, <1>4, <2>2 DEF Has
  <2> QED
    BY <2>1, <2>2
<1>5. newer => Has(backup', m.to, m.b)
  BY <1>3a, <1>3b DEF Has
<1>6. Stores(backup') /\ \A g \in DOMAIN backup' : backup'[g] <= n
  <2>1. CASE newer
    <3>1. \A g \in DOMAIN backup' :
            g \in Recovery!Guardians /\ backup'[g] \in Nat /\ backup'[g] <= n
      BY <1>3a, <1>3b, <1>2, <2>1 DEF BackupsInv, Stores
    <3> QED
      BY <3>1 DEF Stores
  <2>2. CASE ~newer
    BY <1>3b, <2>2 DEF BackupsInv
  <2> QED
    BY <2>1, <2>2
<1>7. UploadIsLast'
  <2> SUFFICES ASSUME upload' # Recovery!Idle
               PROVE  /\ upload'.s = 0 /\ upload'.b = n /\ n > 0 /\ n \notin files
                      /\ ~upload'.failed =>
                            \A g \in Recovery!Guardians \ upload'.waiting : Has(backup', g, n)
    BY <1>1, <1>3 DEF UploadIsLast, Has
  <2>1. upload # Recovery!Idle
    <3> SUFFICES ASSUME upload = Recovery!Idle, upload.b = m.b PROVE FALSE
      BY <1>3
    <3> QED
      BY <1>1 DEF Recovery!Answered, Recovery!Idle
  <2>2. /\ upload.s = 0 /\ upload.b = n /\ n > 0 /\ n \notin files
        /\ ~upload.failed =>
             \A g \in Recovery!Guardians \ upload.waiting : Has(backup, g, n)
    BY <2>1 DEF BackupsInv, UploadIsLast
  <2>3. ASSUME ~upload'.failed, NEW g \in Recovery!Guardians \ upload'.waiting
        PROVE  Has(backup', g, n)
    <3>1. CASE upload' = upload
      BY <1>4, <2>2, <2>3, <3>1
    <3>2. CASE /\ upload.b = m.b /\ upload'.waiting = upload.waiting \ {m.to}
               /\ upload'.failed <=> upload.failed \/ ~newer
      <4>1. ~upload.failed /\ newer /\ m.b = n
        BY <2>2, <2>3, <3>2
      <4>2. g = m.to \/ g \in Recovery!Guardians \ upload.waiting
        BY <2>3, <3>2
      <4> QED
        BY <1>4, <1>5, <2>2, <4>1, <4>2
    <3> QED
      BY <1>3, <3>1, <3>2
  <2> QED
    BY <1>3, <2>2, <2>3
<1>8. Recovery!FilesAreBackedUp'
  BY <1>1, <1>4 DEF BackupsInv, Recovery!FilesAreBackedUp, Has
<1> QED
  BY <1>1, <1>6, <1>7, <1>8 DEF BackupsInv, Numbered, Addressed

LEMMA RequestsAre ==
    ASSUME NEW b, NEW s, NEW m \in Recovery!Requests(b, s)
    PROVE  m.to \in Recovery!Guardians /\ m.b = b /\ m.s = s
  BY DEF Recovery!Requests

LEMMA GiveUpStep ==
    ASSUME BackupsInv, NEW m \in sent, Recovery!GiveUp(m)
    PROVE  BackupsInv'
<1>1. /\ upload' = Recovery!Answered(upload, m, FALSE)
      /\ UNCHANGED <<backup, sent, files, given>>
  BY DEF Recovery!GiveUp, Recovery!guardianVars
<1>2. /\ upload' \in CallsOfAll /\ upload'.b = upload.b /\ upload'.s = upload.s
      /\ upload' = upload \/ upload'.failed
  <2>1. upload \in CallsOfAll
    BY DEF BackupsInv, UploadIsLast
  <2> QED
    BY <1>1, <2>1, AnsweredIs
<1>4. upload = Recovery!Idle => upload' = upload
  BY <1>1 DEF Recovery!Answered, Recovery!Idle
<1>5. UploadIsLast'
  BY <1>1, <1>2, <1>4 DEF BackupsInv, UploadIsLast, Has
<1> QED
  BY <1>1, <1>5 DEF BackupsInv, Numbered, Addressed, Recovery!FilesAreBackedUp

LEMMA BeginBackupStep ==
    ASSUME BackupsInv, Recovery!BeginBackup
    PROVE  BackupsInv'
<1> DEFINE n == given.backups + 1
           c == Recovery!Call(n, 0)
<1>1. given \in [backups : Nat, sessions : Nat] /\ given.backups \in Nat
  BY DEF BackupsInv, Numbered
<1>2. /\ given' = [given EXCEPT !.backups = given.backups + 1]
      /\ upload' = Recovery!Call(given'.backups, 0)
      /\ sent' = sent \cup Recovery!Requests(given'.backups, 0)
      /\ UNCHANGED <<backup, files>>
  BY DEF Recovery!BeginBackup, Recovery!guardianVars
<1>3. given' \in [backups : Nat, sessions : Nat] /\ given'.backups = n /\ n \in Nat \ {0}
  BY <1>1, <1>2
<1>4. /\ upload' \in CallsOfAll /\ upload'.b = n /\ upload'.s = 0
      /\ upload'.waiting = Recovery!Guardians
  BY <1>2, <1>3, ACallIs
<1>5. \A m \in sent' : \/ m \in sent
                      \/ (m.to \in Recovery!Guardians /\ m.b = n /\ m.s = 0)
  BY <1>2, <1>3, RequestsAre
<1>6. n \notin files /\ \A b \in files : b <= n
  BY <1>1, <1>3 DEF BackupsInv
<1> HIDE DEF n
<1>7. \A x \in Nat : x <= given.backups => x <= n
  BY <1>1 DEF n
<1>8. UploadIsLast'
  BY <1>2, <1>3, <1>4, <1>6 DEF UploadIsLast
<1>9. Addressed' /\ \A m \in sent' : m.s = 0 => m.b <= given'.backups
  BY <1>3, <1>5, <1>7 DEF BackupsInv, Addressed
<1>10. Stores(backup') /\ \A g \in DOMAIN backup' : backup'[g] <= given'.backups
  BY <1>2, <1>3, <1>7 DEF BackupsInv, Stores
<1>11. Recovery!FilesAreBackedUp'
  BY <1>2, <1>3, <1>6 DEF Recovery!FilesAreBackedUp
<1> QED
  BY <1>2, <1>3, <1>6, <1>8, <1>9, <1>10, <1>11 DEF BackupsInv, Numbered

LEMMA EndBackupStep ==
    ASSUME BackupsInv, Recovery!EndBackup
    PROVE  BackupsInv'
<1>1. /\ upload # Recovery!Idle /\ upload.waiting = {} /\ upload' = Recovery!Idle
      /\ files' = IF upload.failed THEN files ELSE files \cup {upload.b}
      /\ UNCHANGED <<backup, sent, given>>
  BY DEF Recovery!EndBackup, Recovery!guardianVars
<1>2. /\ given.backups \in Nat /\ upload.b = given.backups
      /\ ~upload.failed => \A g \in Recovery!Guardians : Has(backup, g, given.backups)
  BY <1>1 DEF BackupsInv, UploadIsLast, Numbered
<1>3. files' \subseteq Nat /\ \A b \in files' : b <= given.backups
  BY <1>1, <1>2 DEF BackupsInv
<1>4. Recovery!FilesAreBackedUp'
  <2>1. CASE upload.failed
    BY <1>1, <2>1 DEF BackupsInv, Recovery!FilesAreBackedUp
  <2>2. CASE ~upload.failed
    BY <1>1, <1>2, <2>2 DEF Recovery!FilesAreBackedUp, Has
  <2> QED
    BY <2>1, <2>2
<1>5. UploadIsLast'
  BY <1>1, IdleIs DEF UploadIsLast
<1> QED
  BY <1>1, <1>3, <1>4, <1>5 DEF BackupsInv, Numbered, Addressed

LEMMA ChooseFileStep ==
    ASSUME BackupsInv, NEW b \in Recovery!Backups, Recovery!ChooseFile(b)
    PROVE  BackupsInv'
<1> DEFINE n == given.sessions + 1
<1>1. given \in [backups : Nat, sessions : Nat] /\ given.sessions \in Nat
  BY DEF BackupsInv, Numbered
<1>2. /\ given' = [given EXCEPT !.sessions = given.sessions + 1]
      /\ sent' = sent \cup Recovery!Requests(b, given'.sessions)
      /\ UNCHANGED <<backup, upload, files>>
  BY DEF Recovery!ChooseFile, Recovery!guardianVars
<1>3. /\ given' \in [backups : Nat, sessions : Nat] /\ given'.sessions = n /\ n \in Nat \ {0}
      /\ given'.backups = given.backups
  BY <1>1, <1>2
<1>4. b \in Nat
  BY DEF Recovery!Backups
<1>5. \A m \in sent' : \/ m \in sent
                      \/ (m.to \in Recovery!Guardians /\ m.b = b /\ m.s = n)
  BY <1>2, <1>3, RequestsAre
<1> HIDE DEF n
<1>6. Addressed' /\ \A m \in sent' : m.s = 0 => m.b <= given'.backups
  BY <1>3, <1>4, <1>5 DEF BackupsInv, Addressed
<1> QED
  BY <1>2, <1>3, <1>6 DEF BackupsInv, Numbered, UploadIsLast, Has, Recovery!FilesAreBackedUp

LEMMA BackupsLeft ==
    ASSUME BackupsInv, sent' \subseteq sent, UNCHANGED <<backup, upload, files, given>>
    PROVE  BackupsInv'
  BY DEF BackupsInv, Numbered, Addressed, UploadIsLast, Has, Recovery!FilesAreBackedUp

LEMMA BackupsGoOn ==
    ASSUME BackupsInv, [Recovery!Next]_(Recovery!vars)
    PROVE  BackupsInv'
<1> USE DEF Recovery!guardianVars
<1>1. CASE UNCHANGED Recovery!vars
  BY <1>1, BackupsLeft DEF Recovery!vars
<1>2. ASSUME NEW m \in sent, Recovery!HandleRecover(m) PROVE BackupsInv'
  BY <1>2, BackupsLeft DEF Recovery!HandleRecover
<1>3. ASSUME NEW g \in Recovery!Guardians \ Silent, Recovery!ApproveRecovery(g)
      PROVE  BackupsInv'
  BY <1>3, BackupsLeft DEF Recovery!ApproveRecovery
<1>4. CASE Recovery!Started \/ Recovery!Fetch \/ Recovery!Poll \/ Recovery!Approvals
  BY <1>4, BackupsLeft DEF Recovery!Started, Recovery!Fetch, Recovery!Poll,
                           Recovery!Approvals
<1>5. CASE Recovery!Complete \/ Recovery!Cancel \/ Recovery!Register \/ Recovery!Reopen
  BY <1>5, BackupsLeft DEF Recovery!Complete, Recovery!Cancel, Recovery!Register,
                           Recovery!Reopen
<1> QED
  BY <1>1, <1>2, <1>3, <1>4, <1>5, HandleBackupStep, GiveUpStep, BeginBackupStep,
     EndBackupStep, ChooseFileStep DEF Recovery!Next

\* A recovery file that was written is that of the backup at every guardian until
\* another backup is begun, however late requests of earlier ones arrive and
\* whoever does not answer (upload_backup_file, handle_backup).
THEOREM FilesAreOfBackups ==
    ASSUME Recovery!RecoveryAssumption
    PROVE  Recovery!Spec => []Recovery!FilesAreBackedUp
<1>1. Recovery!Init => BackupsInv
  BY BackupsStart
<1>2. BackupsInv /\ [Recovery!Next]_(Recovery!vars) => BackupsInv'
  BY BackupsGoOn
<1>3. BackupsInv => Recovery!FilesAreBackedUp
  BY DEF BackupsInv
<1> QED
  BY <1>1, <1>2, <1>3, PTL DEF Recovery!Spec

-----------------------------------------------------------------------------
\* The same of sessions, when a poll ends before the next one and before the recovery
\* that it is about: a recovery is the last session begun, every guardian has
\* been asked for it, and a new one begins only when there is none.
NoOverlap == PollsOverlap = FALSE
StartIsLast ==
    /\ start \in CallsOfAll
    /\ start # Recovery!Idle =>
        /\ start.s = given.sessions /\ given.sessions > 0
        /\ state = Recovery!None /\ ~qr /\ ~fetching
        /\ ~start.failed =>
            \A g \in Recovery!Guardians \ start.waiting : Has(request, g, given.sessions)
SharesAreOf(s) ==
    /\ s \in [session : Nat, backup : Nat,
               shares : SUBSET (Recovery!Guardians \X Nat)]
    /\ \A x \in s.shares : x[2] = s.backup
StateIsLast ==
    state # Recovery!None =>
        /\ SharesAreOf(state) /\ state.session = given.sessions /\ given.sessions > 0
        /\ \A g \in Recovery!Guardians : Has(request, g, given.sessions)
PollsAreOfTheState ==
    \A p \in polls : polls = {p} /\ p.of = state /\ state # Recovery!None
Approvers(s) == {x[1] : x \in s.shares}
ShownIsOfTheState ==
    /\ state # Recovery!None /\ stage = "fresh" =>
            qr \/ fetching \/ \E p \in polls : p.fetch
    /\ qr => state # Recovery!None /\ shown = Cardinality(Approvers(state))
SessionsInv ==
    /\ BackupsInv
    /\ \A m \in sent : m.s <= given.sessions
    /\ Stores(request) /\ \A g \in DOMAIN request : request[g] <= given.sessions
    /\ DOMAIN share \subseteq Recovery!Guardians
    /\ StartIsLast /\ StateIsLast /\ PollsAreOfTheState /\ ShownIsOfTheState

LEMMA SessionsStart ==
    ASSUME Recovery!RecoveryAssumption, Recovery!Init
    PROVE  SessionsInv
<1>1. /\ request = <<>> /\ share = <<>> /\ sent = {} /\ start = Recovery!Idle
      /\ state = Recovery!None /\ polls = {} /\ qr = FALSE
  BY DEF Recovery!Init
<1>2. DOMAIN request = {} /\ DOMAIN share = {}
  BY <1>1
<1>3. BackupsInv
  BY BackupsStart
<1> QED
  BY <1>1, <1>2, <1>3, IdleIs DEF SessionsInv, Stores, StartIsLast, StateIsLast,
     PollsAreOfTheState, ShownIsOfTheState

\* A guardian takes the request of the last session, or keeps it.
LEMMA HandleRecoverStep ==
    ASSUME SessionsInv, BackupsInv', NEW m \in sent, Recovery!HandleRecover(m)
    PROVE  SessionsInv'
<1> DEFINE n == given.sessions
           newer == Recovery!NewerRequest(m)
           st == Recovery!Stored(request, m.to, m.s)
<1>1. /\ m.s # 0 /\ sent' = sent \ {m}
      /\ request' = IF newer THEN st ELSE request
      /\ start' = Recovery!Answered(start, m, newer)
      /\ UNCHANGED <<share, state, polls, stage, fetching, loops, checked, qr, shown, given>>
  BY DEF Recovery!HandleRecover, Recovery!pageVars
<1>2. /\ m.to \in Recovery!Guardians /\ m.s \in Nat /\ m.s <= n /\ n \in Nat
      /\ newer \in BOOLEAN
      /\ newer => (m.to \in DOMAIN request => m.s > request[m.to])
  BY <1>1 DEF SessionsInv, BackupsInv, Addressed, Numbered, Recovery!NewerRequest
<1>3. /\ start' \in CallsOfAll /\ start'.b = start.b /\ start'.s = start.s
      /\ \/ start' = start
         \/ /\ start.s = m.s
            /\ start'.waiting = start.waiting \ {m.to}
            /\ start'.failed <=> start.failed \/ ~newer
  <2>1. newer \in BOOLEAN /\ start \in CallsOfAll
    BY <1>2 DEF SessionsInv, StartIsLast
  <2> HIDE DEF newer
  <2> QED
    BY <1>1, <2>1, AnsweredIs
<1>4. /\ DOMAIN st = DOMAIN request \cup {m.to} /\ st[m.to] = m.s
      /\ \A h \in DOMAIN request : h # m.to => st[h] = request[h]
  BY DEF Recovery!Stored
<1>5. (newer => request' = st) /\ (~newer => request' = request)
  BY <1>1
<1> HIDE DEF newer, st
<1>6. ASSUME NEW g, Has(request, g, n) PROVE Has(request', g, n)
  <2>1. CASE newer /\ g = m.to
    BY <1>2, <1>6, <2>1 DEF Has
  <2>2. CASE ~(newer /\ g = m.to)
    BY <1>4, <1>5, <1>6, <2>2 DEF Has
  <2> QED
    BY <2>1, <2>2
<1>7. newer => Has(request', m.to, m.s)
  BY <1>4, <1>5 DEF Has
<1>8. Stores(request') /\ \A g \in DOMAIN request' : request'[g] <= n
  <2>1. CASE newer
    <3>1. \A g \in DOMAIN request' :
            g \in Recovery!Guardians /\ request'[g] \in Nat /\ request'[g] <= n
      BY <1>2, <1>4, <1>5, <2>1 DEF SessionsInv, Stores
    <3> QED
      BY <3>1 DEF Stores
  <2>2. CASE ~newer
    BY <1>5, <2>2 DEF SessionsInv
  <2> QED
    BY <2>1, <2>2
<1>9. StartIsLast'
  <2> SUFFICES ASSUME start' # Recovery!Idle
               PROVE  /\ start'.s = n /\ n > 0
                      /\ state = Recovery!None /\ ~qr /\ ~fetching
                      /\ ~start'.failed =>
                            \A g \in Recovery!Guardians \ start'.waiting : Has(request', g, n)
    BY <1>1, <1>3 DEF StartIsLast, Has
  <2>1. start # Recovery!Idle
    <3> SUFFICES ASSUME start = Recovery!Idle PROVE FALSE
      OBVIOUS
    <3> QED
      BY <1>1 DEF Recovery!Answered, Recovery!Idle
  <2>2. /\ start.s = n /\ n > 0 /\ state = Recovery!None /\ ~qr /\ ~fetching
        /\ ~start.failed =>
             \A g \in Recovery!Guardians \ start.waiting : Has(request, g, n)
    BY <2>1 DEF SessionsInv, StartIsLast
  <2>3. ASSUME ~start'.failed, NEW g \in Recovery!Guardians \ start'.waiting
        PROVE  Has(request', g, n)
    <3>1. CASE start' = start
      BY <1>6, <2>2, <2>3, <3>1
    <3>2. CASE /\ start.s = m.s /\ start'.waiting = start.waiting \ {m.to}
               /\ start'.failed <=> start.failed \/ ~newer
      <4>1. ~start.failed /\ newer /\ m.s = n
        BY <2>2, <2>3, <3>2
      <4>2. g = m.to \/ g \in Recovery!Guardians \ start.waiting
        BY <2>3, <3>2
      <4> QED
        BY <1>6, <1>7, <2>2, <4>1, <4>2
    <3> QED
      BY <1>3, <3>1, <3>2
  <2> QED
    BY <1>3, <2>2, <2>3
<1>10. StateIsLast'
  BY <1>1, <1>6 DEF SessionsInv, StateIsLast, SharesAreOf
<1> QED
  BY <1>1, <1>8, <1>9, <1>10 DEF SessionsInv, PollsAreOfTheState, ShownIsOfTheState,
     Approvers

LEMMA GiveUpStart ==
    ASSUME SessionsInv, BackupsInv', NEW m \in sent, Recovery!GiveUp(m)
    PROVE  SessionsInv'
<1>1. /\ start' = Recovery!Answered(start, m, FALSE)
      /\ UNCHANGED <<request, share, sent, state, polls, stage, fetching, qr, shown, given>>
  BY DEF Recovery!GiveUp, Recovery!guardianVars, Recovery!pageVars
<1>2. /\ start' \in CallsOfAll /\ start'.b = start.b /\ start'.s = start.s
      /\ start' = start \/ start'.failed
  <2>1. start \in CallsOfAll
    BY DEF SessionsInv, StartIsLast
  <2> QED
    BY <1>1, <2>1, AnsweredIs
<1>3. start = Recovery!Idle => start' = start
  BY <1>1 DEF Recovery!Answered, Recovery!Idle
<1>4. StartIsLast'
  BY <1>1, <1>2, <1>3 DEF SessionsInv, StartIsLast, Has
<1> QED
  BY <1>1, <1>4 DEF SessionsInv, Stores, StateIsLast, SharesAreOf, Has,
     PollsAreOfTheState, ShownIsOfTheState, Approvers

LEMMA ChooseFileStart ==
    ASSUME SessionsInv, BackupsInv', NEW b \in Recovery!Backups, Recovery!ChooseFile(b)
    PROVE  SessionsInv'
<1> DEFINE n == given.sessions + 1
<1>1. given \in [backups : Nat, sessions : Nat] /\ given.sessions \in Nat
  BY DEF SessionsInv, BackupsInv, Numbered
<1>2. /\ start = Recovery!Idle /\ ~qr /\ ~fetching /\ stage = "fresh"
      /\ \A p \in polls : ~p.fetch
      /\ given' = [given EXCEPT !.sessions = given.sessions + 1]
      /\ start' = Recovery!Call(b, given'.sessions)
      /\ sent' = sent \cup Recovery!Requests(b, given'.sessions)
      /\ UNCHANGED <<request, share, state, polls, stage, fetching, qr, shown>>
  BY DEF Recovery!ChooseFile, Recovery!guardianVars, Recovery!pageVars
<1>3. given'.sessions = n /\ n \in Nat \ {0}
  BY <1>1, <1>2
<1>4. b \in Nat
  BY DEF Recovery!Backups
<1>5. state = Recovery!None
  BY <1>2 DEF SessionsInv, ShownIsOfTheState
<1>6. /\ start' \in CallsOfAll /\ start'.s = n /\ start'.waiting = Recovery!Guardians
  BY <1>2, <1>3, <1>4, ACallIs
<1>7. \A m \in sent' : m \in sent \/ m.s = n
  BY <1>2, <1>3, RequestsAre
<1>8. \A x \in Nat : x <= given.sessions => x <= n
  BY <1>1
<1> HIDE DEF n
<1>9. StartIsLast'
  BY <1>2, <1>3, <1>5, <1>6 DEF StartIsLast
<1>10. \A m \in sent' : m.s <= given'.sessions
  BY <1>3, <1>7, <1>8 DEF SessionsInv, BackupsInv, Addressed
<1>11. Stores(request') /\ \A g \in DOMAIN request' : request'[g] <= given'.sessions
  BY <1>2, <1>3, <1>8 DEF SessionsInv, Stores
<1> QED
  BY <1>2, <1>5, <1>9, <1>10, <1>11 DEF SessionsInv, StateIsLast,
     PollsAreOfTheState, ShownIsOfTheState

LEMMA SessionsLeft ==
    ASSUME SessionsInv, BackupsInv',
           UNCHANGED <<request, start, state, polls, stage, fetching, qr, shown>>,
           given'.sessions = given.sessions,
           \A m \in sent' : m \in sent \/ m.s = 0,
           DOMAIN share' \subseteq Recovery!Guardians
    PROVE  SessionsInv'
<1>1. given.sessions \in Nat
  BY DEF SessionsInv, BackupsInv, Numbered
<1>2. \A m \in sent' : m.s <= given'.sessions
  BY <1>1 DEF SessionsInv
<1> QED
  BY <1>2 DEF SessionsInv, Stores, StartIsLast, StateIsLast, SharesAreOf, Has,
     PollsAreOfTheState, ShownIsOfTheState, Approvers

LEMMA StartedStep ==
    ASSUME SessionsInv, BackupsInv', Recovery!Started
    PROVE  SessionsInv'
<1>1. /\ start # Recovery!Idle /\ start.waiting = {} /\ start' = Recovery!Idle
      /\ \/ start.failed /\ UNCHANGED <<state, fetching>>
         \/ /\ ~start.failed /\ fetching' = TRUE
            /\ state' = [session |-> start.s, backup |-> start.b, shares |-> {}]
      /\ UNCHANGED <<request, share, sent, polls, stage, qr, shown, given>>
  BY DEF Recovery!Started, Recovery!guardianVars
<1>2. /\ start.s = given.sessions /\ given.sessions > 0 /\ start.s \in Nat /\ start.b \in Nat
      /\ state = Recovery!None /\ ~qr
      /\ ~start.failed => \A g \in Recovery!Guardians : Has(request, g, given.sessions)
  BY <1>1 DEF SessionsInv, StartIsLast, CallsOfAll
<1>3. polls = {}
  BY <1>2 DEF SessionsInv, PollsAreOfTheState
<1>4. StartIsLast'
  BY <1>1, IdleIs DEF StartIsLast
<1>5. StateIsLast'
  <2>1. CASE start.failed
    BY <1>1, <1>2, <2>1 DEF StateIsLast
  <2>2. CASE ~start.failed
    <3>1. /\ state'.session = given.sessions /\ state'.shares = {}
          /\ state' \in [session : Nat, backup : Nat,
                         shares : SUBSET (Recovery!Guardians \X Nat)]
      BY <1>1, <1>2, <2>2
    <3> QED
      BY <1>1, <1>2, <2>2, <3>1 DEF StateIsLast, SharesAreOf, Has
  <2> QED
    BY <2>1, <2>2
<1>6. ShownIsOfTheState'
  BY <1>1, <1>2 DEF ShownIsOfTheState
<1> QED
  BY <1>1, <1>3, <1>4, <1>5, <1>6 DEF SessionsInv, Stores, PollsAreOfTheState

LEMMA FetchStep ==
    ASSUME SessionsInv, BackupsInv', Recovery!Fetch
    PROVE  SessionsInv'
<1>1. /\ fetching /\ polls = {} /\ fetching' = FALSE
      /\ \/ state = Recovery!None /\ qr' = FALSE /\ UNCHANGED polls
         \/ state # Recovery!None /\ polls' = {[fetch |-> TRUE, of |-> state]}
            /\ UNCHANGED <<qr, shown>>
      /\ UNCHANGED <<request, share, sent, start, state, stage, given>>
  BY DEF Recovery!Fetch, Recovery!guardianVars
<1>2. start = Recovery!Idle
  BY <1>1 DEF SessionsInv, StartIsLast
<1>3. StartIsLast'
  BY <1>1, <1>2, IdleIs DEF StartIsLast
<1> DEFINE r == [fetch |-> TRUE, of |-> state]
<1>f. r.fetch /\ r.of = state
  OBVIOUS
<1>r. polls' = {} \/ (polls' = {r} /\ state # Recovery!None)
  BY <1>1
<1> HIDE DEF r
<1>4. PollsAreOfTheState'
  BY <1>1, <1>f, <1>r DEF PollsAreOfTheState
<1>5. ShownIsOfTheState'
  <2>1. CASE state = Recovery!None
    BY <1>1, <2>1 DEF ShownIsOfTheState
  <2>2. CASE state # Recovery!None
    <3>1. polls' = {r}
      BY <1>1, <2>2 DEF r
    <3>2. \E p \in polls' : p.fetch
      BY <1>f, <3>1
    <3>3. UNCHANGED <<state, qr, shown>>
      BY <1>1, <2>2
    <3> QED
      BY <3>2, <3>3 DEF SessionsInv, ShownIsOfTheState, Approvers
  <2> QED
    BY <2>1, <2>2
<1> QED
  BY <1>1, <1>3, <1>4, <1>5 DEF SessionsInv, Stores, StateIsLast, SharesAreOf, Has

LEMMA PollStep ==
    ASSUME NoOverlap, SessionsInv, BackupsInv', Recovery!Poll
    PROVE  SessionsInv'
<1>1. /\ state # Recovery!None /\ polls = {}
      /\ polls' = {[fetch |-> FALSE, of |-> state]}
      /\ UNCHANGED <<request, share, sent, start, state, stage, fetching, qr, shown, given>>
  BY DEF NoOverlap, Recovery!Poll, Recovery!guardianVars, Recovery!pageVars
<1> DEFINE r == [fetch |-> FALSE, of |-> state]
<1>r. r.of = state /\ polls' = {r}
  BY <1>1
<1> HIDE DEF r
<1>2. PollsAreOfTheState'
  BY <1>1, <1>r DEF PollsAreOfTheState
<1>3. ShownIsOfTheState'
  BY <1>1 DEF SessionsInv, ShownIsOfTheState, Approvers
<1> QED
  BY <1>1, <1>2, <1>3 DEF SessionsInv, Stores, StartIsLast, StateIsLast, SharesAreOf, Has

\* The shares that are saved are of the backup that is recovered.
LEMMA ApprovalsStep ==
    ASSUME SessionsInv, BackupsInv', Recovery!Approvals
    PROVE  SessionsInv'
<1> DEFINE PutsInto(p, got) ==
        /\ state' = [p.of EXCEPT !.shares = p.of.shares \cup got]
        /\ polls' = polls \ {p} /\ qr' = (qr \/ p.fetch)
<1>p. PICK p \in polls : \E got \in SUBSET Recovery!SharesFor(p.of) : PutsInto(p, got)
  BY DEF Recovery!Approvals
<1>1. PICK got \in SUBSET Recovery!SharesFor(p.of) : PutsInto(p, got)
  BY <1>p
<1>2. /\ shown' = Cardinality(Approvers(state'))
      /\ UNCHANGED <<request, share, sent, start, stage, fetching, given>>
  <2>1. shown' = Recovery!Cardinality({x[1] : x \in state'.shares})
    BY DEF Recovery!Approvals
  <2>2. Recovery!Cardinality({x[1] : x \in state'.shares})
            = Cardinality({x[1] : x \in state'.shares})
    BY DEF Recovery!Cardinality, Cardinality
  <2> QED
    BY <2>1, <2>2 DEF Recovery!Approvals, Recovery!guardianVars, Approvers
<1>3. p.of = state /\ polls = {p} /\ state # Recovery!None
  BY DEF SessionsInv, PollsAreOfTheState
<1>4. /\ SharesAreOf(state) /\ state.session = given.sessions /\ given.sessions > 0
      /\ \A g \in Recovery!Guardians : Has(request, g, given.sessions)
      /\ state.backup \in Nat
  BY <1>3 DEF SessionsInv, StateIsLast, SharesAreOf
<1>5. \A x \in got : x \in Recovery!Guardians \X Nat /\ x[2] = state.backup
  <2> SUFFICES ASSUME NEW x \in got
               PROVE  x \in Recovery!Guardians \X Nat /\ x[2] = state.backup
    OBVIOUS
  <2>1. PICK g \in DOMAIN share :
            /\ share[g] = [session |-> state.session, backup |-> state.backup]
            /\ x = <<g, share[g].backup>>
    BY <1>1, <1>3 DEF Recovery!SharesFor
  <2>2. x = <<g, state.backup>> /\ g \in Recovery!Guardians
    BY <2>1 DEF SessionsInv
  <2> QED
    BY <1>4, <2>2
<1>6. state' = [state EXCEPT !.shares = state.shares \cup got]
  BY <1>1, <1>3
<1>7. SharesAreOf(state') /\ state'.session = state.session
  <2>1. state.shares \cup got \in SUBSET (Recovery!Guardians \X Nat)
    BY <1>4, <1>5 DEF SharesAreOf
  <2>2. /\ state' \in [session : Nat, backup : Nat,
                       shares : SUBSET (Recovery!Guardians \X Nat)]
        /\ state'.session = state.session /\ state'.backup = state.backup
        /\ state'.shares = state.shares \cup got
    BY <1>4, <1>6, <2>1 DEF SharesAreOf
  <2> QED
    BY <1>4, <1>5, <2>2 DEF SharesAreOf
<1>8. start = Recovery!Idle
  BY <1>3 DEF SessionsInv, StartIsLast
<1>9. state' # Recovery!None
  BY <1>4, <1>7 DEF Recovery!None
<1>10. polls' = {}
  BY <1>1, <1>3
<1>11. StateIsLast'
  BY <1>2, <1>4, <1>7 DEF StateIsLast, Has
<1>12. StartIsLast'
  BY <1>2, <1>8, IdleIs DEF StartIsLast
<1>13. ShownIsOfTheState'
  <2>1. stage = "fresh" => qr' \/ fetching'
    BY <1>1, <1>2, <1>3 DEF SessionsInv, ShownIsOfTheState
  <2> QED
    BY <1>2, <1>9, <2>1 DEF ShownIsOfTheState, Approvers
<1> QED
  BY <1>2, <1>10, <1>11, <1>12, <1>13 DEF SessionsInv, Stores, PollsAreOfTheState

\* The recovery ends, or its page does.
LEMMA EndStep ==
    ASSUME NoOverlap, SessionsInv, BackupsInv',
           Recovery!Complete \/ Recovery!Cancel \/ Recovery!Register
    PROVE  SessionsInv'
<1>1. /\ polls = {} /\ polls' = {}
      /\ qr' = FALSE /\ fetching' = fetching
      /\ state' = state \/ state' = Recovery!None
      /\ state' # Recovery!None => stage' # "fresh"
      /\ UNCHANGED <<request, share, sent, start, given>>
  BY DEF NoOverlap, Recovery!Complete, Recovery!Cancel, Recovery!Register,
         Recovery!Unhurried, Recovery!LeavePage, Recovery!guardianVars, Recovery!pageVars
<1>2. StartIsLast'
  BY <1>1 DEF SessionsInv, StartIsLast, Has
<1>3. StateIsLast'
  BY <1>1 DEF SessionsInv, StateIsLast, SharesAreOf, Has
<1>4. ShownIsOfTheState' /\ PollsAreOfTheState'
  BY <1>1 DEF ShownIsOfTheState, PollsAreOfTheState
<1> QED
  BY <1>1, <1>2, <1>3, <1>4 DEF SessionsInv, Stores

LEMMA ReopenStep ==
    ASSUME SessionsInv, BackupsInv', Recovery!Reopen
    PROVE  SessionsInv'
<1>1. /\ start' = Recovery!Idle /\ polls' = {} /\ fetching' = TRUE /\ qr' = FALSE
      /\ UNCHANGED <<request, share, sent, state, stage, given>>
  BY DEF Recovery!Reopen, Recovery!guardianVars
<1>2. StartIsLast' /\ PollsAreOfTheState' /\ ShownIsOfTheState'
  BY <1>1, IdleIs DEF StartIsLast, PollsAreOfTheState, ShownIsOfTheState
<1> QED
  BY <1>1, <1>2 DEF SessionsInv, Stores, StateIsLast, SharesAreOf, Has

LEMMA SessionsGoOn ==
    ASSUME NoOverlap, SessionsInv, [Recovery!Next]_(Recovery!vars)
    PROVE  SessionsInv'
<1> USE DEF Recovery!guardianVars, Recovery!pageVars, Recovery!deviceVars
<1>1. BackupsInv' /\ given.sessions \in Nat /\ DOMAIN share \subseteq Recovery!Guardians
  BY BackupsGoOn DEF SessionsInv, BackupsInv, Numbered
<1>2. CASE UNCHANGED Recovery!vars
  BY <1>1, <1>2, SessionsLeft DEF Recovery!vars
<1>3. ASSUME NEW m \in sent, Recovery!HandleBackup(m) PROVE SessionsInv'
  BY <1>1, <1>3, SessionsLeft DEF Recovery!HandleBackup
<1>4. ASSUME NEW g \in Recovery!Guardians \ Silent, Recovery!ApproveRecovery(g)
      PROVE  SessionsInv'
  <2> DEFINE v == [session |-> request[g], backup |-> backup[g]]
  <2>a. share' = Recovery!Stored(share, g, v)
    BY <1>4 DEF Recovery!ApproveRecovery
  <2> HIDE DEF v
  <2>b. DOMAIN share' = DOMAIN share \cup {g}
    BY <2>a, StoredIs
  <2>1. DOMAIN share' \subseteq Recovery!Guardians
    BY <1>1, <2>b
  <2> QED
    BY <1>1, <1>4, <2>1, SessionsLeft DEF Recovery!ApproveRecovery
<1>5. CASE Recovery!BeginBackup
  <2>1. given'.sessions = given.sessions
    BY <1>5 DEF Recovery!BeginBackup, SessionsInv, BackupsInv, Numbered
  <2>2. \A m \in sent' : m \in sent \/ m.s = 0
    BY <1>5, RequestsAre DEF Recovery!BeginBackup
  <2> QED
    BY <1>1, <1>5, <2>1, <2>2, SessionsLeft DEF Recovery!BeginBackup
<1>6. CASE Recovery!EndBackup
  BY <1>1, <1>6, SessionsLeft DEF Recovery!EndBackup
<1> QED
  BY <1>1, <1>2, <1>3, <1>4, <1>5, <1>6, HandleRecoverStep, GiveUpStart,
     ChooseFileStart, StartedStep, FetchStep, PollStep, ApprovalsStep, EndStep,
     ReopenStep DEF Recovery!Next

\* The approvals shown are no more than the shares there are.
LEMMA ApproversAreShares ==
    ASSUME Recovery!RecoveryAssumption, NEW s, SharesAreOf(s)
    PROVE  /\ Cardinality(Approvers(s)) \in Nat /\ Cardinality(s.shares) \in Nat
           /\ Cardinality(Approvers(s)) <= Cardinality(s.shares)
<1> DEFINE S == s.shares
           f == [x \in S |-> x[1]]
<1>2. IsFiniteSet(Recovery!Guardians \X {s.backup})
  <2>1. IsFiniteSet(Recovery!Guardians)
    BY FS_Interval DEF Recovery!Guardians, Recovery!RecoveryAssumption
  <2>2. IsFiniteSet({s.backup})
    BY FS_Singleton
  <2> QED
    BY <2>1, <2>2, FS_Product
<1>3. S \subseteq Recovery!Guardians \X {s.backup}
  BY DEF SharesAreOf
<1>4. IsFiniteSet(S)
  BY <1>2, <1>3, FS_Subset
<1>5. f \in Surjection(S, Approvers(s))
  BY DEF Surjection, Approvers
<1> HIDE DEF f, S
<1>6. IsFiniteSet(Approvers(s)) /\ Cardinality(Approvers(s)) <= Cardinality(S)
  BY <1>4, <1>5, FS_Surjection
<1> QED
  BY <1>4, <1>6, FS_CardinalityType DEF S

\* What is shown is no more than there is.
LEMMA ShownCombines ==
    ASSUME Recovery!RecoveryAssumption, SessionsInv, qr, Recovery!CanContinue
    PROVE  Recovery!Combines
<1>1. /\ state # Recovery!None /\ shown = Cardinality(Approvers(state))
      /\ SharesAreOf(state)
  BY DEF SessionsInv, ShownIsOfTheState, StateIsLast
<1>2. shown >= Recovery!ThresholdOf(Peers)
  BY DEF Recovery!CanContinue
<1>3. Recovery!ThresholdOf(Peers) \in Int
  BY DEF Recovery!ThresholdOf, Recovery!RecoveryAssumption
<1>4. Cardinality(state.shares) >= Recovery!ThresholdOf(Peers)
  BY <1>1, <1>2, <1>3, ApproversAreShares
<1>5. Recovery!Cardinality(state.shares) = Cardinality(state.shares)
  BY DEF Recovery!Cardinality, Cardinality
<1> QED
  BY <1>1, <1>4, <1>5 DEF Recovery!Combines, SharesAreOf

LEMMA SessionsSuffice ==
    ASSUME Recovery!RecoveryAssumption
    PROVE  SessionsInv => Recovery!GuardiansAreAsked /\ Recovery!NoneRemains
<1>1. SessionsInv => Recovery!GuardiansAreAsked
  BY DEF SessionsInv, StateIsLast, Has, Recovery!GuardiansAreAsked
<1>2. SessionsInv => Recovery!NoneRemains
  BY ShownCombines DEF Recovery!NoneRemains
<1> QED
  BY <1>1, <1>2

LEMMA SessionsAreSound ==
    ASSUME Recovery!RecoveryAssumption, NoOverlap
    PROVE  Recovery!Spec => []SessionsInv
<1>1. Recovery!Init => SessionsInv
  BY SessionsStart
<1>2. SessionsInv /\ [Recovery!Next]_(Recovery!vars) => SessionsInv'
  BY SessionsGoOn
<1> QED
  BY <1>1, <1>2, PTL DEF Recovery!Spec

\* Whoever waits for approvals waits for a session that every guardian has been asked
\* for and that no late request of an earlier one replaces
\* (start_social_recovery_v2, handle_recover).
THEOREM GuardiansKnowTheSession ==
    ASSUME Recovery!RecoveryAssumption, NoOverlap
    PROVE  Recovery!Spec => []Recovery!GuardiansAreAsked
<1> QED
  BY SessionsSuffice, SessionsAreSound, PTL

\* Who is told that no approval remains has the shares to decrypt the seed with:
\* enough of them, and all of the backup of the file (SocialRecovery canContinue,
\* combine_recovered_user_phrase).
THEOREM ApprovalsSuffice ==
    ASSUME Recovery!RecoveryAssumption, NoOverlap
    PROVE  Recovery!Spec => []Recovery!NoneRemains
<1> QED
  BY SessionsSuffice, SessionsAreSound, PTL

\* A recovery that was cancelled, or completed and cleared, does not come back with
\* a poll: one begins with a file only (cancel_social_recovery,
\* social_recovery_approvals).
THEOREM RecoveriesEndForGood ==
    ASSUME Recovery!RecoveryAssumption, NoOverlap
    PROVE  Recovery!Spec => Recovery!EndedForGood
<1> DEFINE Begins == state = Recovery!None /\ state' # Recovery!None
                        => start # Recovery!Idle /\ start' = Recovery!Idle
<1>1. ASSUME SessionsInv, [Recovery!Next]_(Recovery!vars) PROVE Begins
  <2> SUFFICES ASSUME state = Recovery!None, state' # Recovery!None
               PROVE  start # Recovery!Idle /\ start' = Recovery!Idle
    OBVIOUS
  <2> USE DEF Recovery!guardianVars, Recovery!pageVars, Recovery!deviceVars
  <2>1. polls = {}
    BY <1>1 DEF SessionsInv, PollsAreOfTheState
  <2>2. ~Recovery!Approvals
    BY <2>1 DEF Recovery!Approvals
  <2>3. CASE Recovery!Started
    BY <2>3 DEF Recovery!Started
  <2>4. ASSUME NEW m \in sent,
               Recovery!HandleBackup(m) \/ Recovery!HandleRecover(m) \/ Recovery!GiveUp(m)
        PROVE  FALSE
    BY <2>4 DEF Recovery!HandleBackup, Recovery!HandleRecover, Recovery!GiveUp
  <2>5. ASSUME NEW g \in Recovery!Guardians, Recovery!ApproveRecovery(g) PROVE FALSE
    BY <2>5 DEF Recovery!ApproveRecovery
  <2>6. ~Recovery!BeginBackup /\ ~Recovery!EndBackup /\ ~Recovery!Fetch /\ ~Recovery!Poll
    BY DEF Recovery!BeginBackup, Recovery!EndBackup, Recovery!Fetch, Recovery!Poll
  <2>7. ASSUME NEW b \in Recovery!Backups, Recovery!ChooseFile(b) PROVE FALSE
    BY <2>7 DEF Recovery!ChooseFile
  <2>8. ~Recovery!Complete /\ ~Recovery!Cancel /\ ~Recovery!Register /\ ~Recovery!Reopen
    BY DEF Recovery!Complete, Recovery!Cancel, Recovery!Register, Recovery!Reopen
  <2>9. ~UNCHANGED Recovery!vars
    BY DEF Recovery!vars
  <2> QED
    BY <1>1, <2>2, <2>3, <2>4, <2>5, <2>6, <2>7, <2>8, <2>9 DEF Recovery!Next
<1>2. SessionsInv /\ [Recovery!Next]_(Recovery!vars) => [Begins]_(Recovery!vars)
  BY <1>1
<1> QED
  BY <1>2, SessionsAreSound, PTL DEF Recovery!EndedForGood, Recovery!Spec

-----------------------------------------------------------------------------
\* The types, in parts that an action changes or leaves. A call under way is of a backup
\* that was begun, and in a recovery of a session.
StoresOf(f, V) == f \in [DOMAIN f -> V]
GuardiansTyped ==
    /\ DOMAIN backup \subseteq Recovery!Guardians /\ DOMAIN request \subseteq DOMAIN backup
    /\ DOMAIN share \subseteq DOMAIN request
    /\ StoresOf(backup, Recovery!Backups) /\ StoresOf(request, Recovery!Sessions)
    /\ StoresOf(share, [session : Recovery!Sessions, backup : Recovery!Backups])
SentTyped ==
    sent \subseteq [b : Recovery!Backups, s : Recovery!Sessions \cup {0},
                    to : Recovery!Guardians]
CallTyped(c) ==
    c \in Recovery!Calls /\ (c = Recovery!Idle \/ c.b \in Recovery!Backups)
CallsTyped ==
    /\ CallTyped(upload) /\ CallTyped(start) /\ files \subseteq Recovery!Backups
    /\ start = Recovery!Idle \/ start.s \in Recovery!Sessions
StatesTyped ==
    state \in Recovery!States /\ polls \subseteq [fetch : BOOLEAN, of : Recovery!States]
PagesTyped == {fetching, loops, checked, qr} \subseteq BOOLEAN
ShownTyped == shown \in {Recovery!Unknown} \cup 0 .. Peers
CountsTyped ==
    /\ stage \in {"fresh", "recovered", "registered"}
    /\ given \in [backups : Recovery!Backups \cup {0}, sessions : Recovery!Sessions \cup {0}]
    /\ recoveryActs \in 0 .. RecoveryActs
RecoveryTyped ==
    /\ GuardiansTyped /\ SentTyped /\ CallsTyped /\ StatesTyped /\ PagesTyped /\ ShownTyped
    /\ CountsTyped

LEMMA TypedIsTypeOK == RecoveryTyped => Recovery!TypeOK
<1> SUFFICES ASSUME RecoveryTyped PROVE Recovery!TypeOK
  OBVIOUS
<1> USE DEF RecoveryTyped
<1>1. /\ DOMAIN backup \subseteq Recovery!Guardians /\ DOMAIN request \subseteq DOMAIN backup
      /\ DOMAIN share \subseteq DOMAIN request
      /\ backup \in [DOMAIN backup -> Recovery!Backups]
      /\ request \in [DOMAIN request -> Recovery!Sessions]
      /\ share \in [DOMAIN share -> [session : Recovery!Sessions, backup : Recovery!Backups]]
  BY DEF GuardiansTyped, StoresOf
<1>2. {upload, start} \subseteq Recovery!Calls /\ files \subseteq Recovery!Backups
  BY DEF CallsTyped, CallTyped
<1> QED
  BY <1>1, <1>2 DEF Recovery!TypeOK, SentTyped, StatesTyped, PagesTyped, ShownTyped, CountsTyped

LEMMA TypedStart ==
    ASSUME Recovery!RecoveryAssumption, Recovery!Init
    PROVE  RecoveryTyped
<1>1. /\ backup = <<>> /\ request = <<>> /\ share = <<>> /\ sent = {}
      /\ upload = Recovery!Idle /\ start = Recovery!Idle /\ files = {}
      /\ state = Recovery!None /\ polls = {}
  BY DEF Recovery!Init
<1>2. Recovery!Idle \in Recovery!Calls
  BY DEF Recovery!Idle, Recovery!Calls, Recovery!RecoveryAssumption
<1>3. CallsTyped
  BY <1>1, <1>2 DEF CallsTyped, CallTyped
<1>4. GuardiansTyped
  <2>1. DOMAIN backup = {} /\ DOMAIN request = {} /\ DOMAIN share = {}
    BY <1>1
  <2> QED
    BY <1>1, <2>1 DEF GuardiansTyped, StoresOf
<1>5. SentTyped /\ StatesTyped
  BY <1>1 DEF SentTyped, StatesTyped, Recovery!States
<1>6. PagesTyped /\ ShownTyped
  BY DEF Recovery!Init, PagesTyped, ShownTyped
<1>7. CountsTyped
  BY DEF Recovery!Init, CountsTyped, Recovery!RecoveryAssumption
<1> QED
  BY <1>3, <1>4, <1>5, <1>6, <1>7 DEF RecoveryTyped

LEMMA StoredKeepsType ==
    ASSUME NEW f, NEW g, NEW V, NEW v \in V, StoresOf(f, V)
    PROVE  /\ DOMAIN Recovery!Stored(f, g, v) = DOMAIN f \cup {g}
           /\ StoresOf(Recovery!Stored(f, g, v), V)
  BY DEF StoresOf, Recovery!Stored

LEMMA AnsweredKeepsType ==
    ASSUME NEW c, CallTyped(c), NEW m, NEW ok \in BOOLEAN
    PROVE  LET e == Recovery!Answered(c, m, ok)
           IN  CallTyped(e) /\ e.s = c.s /\ (c = Recovery!Idle => e = Recovery!Idle)
<1>1. CASE ~(c.b = m.b /\ c.s = m.s /\ m.to \in c.waiting)
  BY <1>1 DEF Recovery!Answered
<1>2. CASE c.b = m.b /\ c.s = m.s /\ m.to \in c.waiting
  <2> DEFINE e == [c EXCEPT !.waiting = c.waiting \ {m.to}, !.failed = c.failed \/ ~ok]
  <2>1. Recovery!Answered(c, m, ok) = e
    BY <1>2 DEF Recovery!Answered
  <2>2. c # Recovery!Idle
    BY <1>2 DEF Recovery!Idle
  <2>3. e \in Recovery!Calls /\ e.b = c.b /\ e.s = c.s
    BY DEF CallTyped, Recovery!Calls
  <2> QED
    BY <2>1, <2>2, <2>3 DEF CallTyped
<1> QED
  BY <1>1, <1>2

LEMMA NewCallTyped ==
    ASSUME Recovery!RecoveryAssumption,
           NEW b \in Recovery!Backups, NEW s \in Recovery!Sessions \cup {0}
    PROVE  /\ CallTyped(Recovery!Call(b, s)) /\ Recovery!Call(b, s).s = s
           /\ Recovery!Requests(b, s) \subseteq
                [b : Recovery!Backups, s : Recovery!Sessions \cup {0}, to : Recovery!Guardians]
<1>1. b \in 0 .. MaxBackups /\ s \in 0 .. MaxSessions
  BY DEF Recovery!RecoveryAssumption, Recovery!Backups, Recovery!Sessions
<1>2. Recovery!Call(b, s) \in Recovery!Calls /\ Recovery!Call(b, s).b = b /\ Recovery!Call(b, s).s = s
  BY <1>1 DEF Recovery!Call, Recovery!Calls
<1> QED
  BY <1>2 DEF CallTyped, Recovery!Requests

-----------------------------------------------------------------------------
\* Messages, and what the guardians do.
LEMMA GuardianSteps ==
    ASSUME Recovery!RecoveryAssumption, RecoveryTyped,
           \/ \E m \in sent : Recovery!HandleBackup(m) \/ Recovery!HandleRecover(m)
           \/ \E g \in Recovery!Guardians \ Silent : Recovery!ApproveRecovery(g)
    PROVE  GuardiansTyped' /\ SentTyped' /\ CallsTyped'
<1> USE DEF RecoveryTyped, GuardiansTyped
<1>1. ASSUME NEW m \in sent, Recovery!HandleBackup(m)
      PROVE  GuardiansTyped' /\ SentTyped' /\ CallsTyped'
  <2>1. m.b \in Recovery!Backups /\ m.to \in Recovery!Guardians
    BY DEF SentTyped
  <2>2. backup' = IF Recovery!NewerBackup(m) THEN Recovery!Stored(backup, m.to, m.b) ELSE backup
    BY <1>1 DEF Recovery!HandleBackup
  <2>3. StoresOf(backup', Recovery!Backups)
    BY <2>1, <2>2, StoredKeepsType
  <2>4. DOMAIN backup' \subseteq Recovery!Guardians /\ DOMAIN backup \subseteq DOMAIN backup'
    <3>1. DOMAIN backup' \in {DOMAIN backup, DOMAIN backup \cup {m.to}}
      BY <2>2, StoredIs
    <3> QED
      BY <2>1, <3>1
  <2>5. Recovery!NewerBackup(m) \in BOOLEAN
    BY DEF Recovery!NewerBackup
  <2>6. CallTyped(upload')
    BY <1>1, <2>5, AnsweredKeepsType DEF Recovery!HandleBackup, CallsTyped
  <2>7. /\ sent' = sent \ {m} /\ request' = request /\ share' = share /\ files' = files
        /\ start' = start
    BY <1>1 DEF Recovery!HandleBackup, Recovery!deviceVars
  <2> QED
    BY <2>3, <2>4, <2>6, <2>7 DEF SentTyped, CallsTyped
<1>2. ASSUME NEW m \in sent, Recovery!HandleRecover(m)
      PROVE  GuardiansTyped' /\ SentTyped' /\ CallsTyped'
  <2>1. m.s \in Recovery!Sessions /\ m.to \in Recovery!Guardians
    BY <1>2 DEF SentTyped, Recovery!HandleRecover
  <2>2. request' = IF Recovery!NewerRequest(m) THEN Recovery!Stored(request, m.to, m.s) ELSE request
    BY <1>2 DEF Recovery!HandleRecover
  <2>3. StoresOf(request', Recovery!Sessions)
    BY <2>1, <2>2, StoredKeepsType
  <2>4. Recovery!NewerRequest(m) => m.to \in DOMAIN backup
    BY DEF Recovery!NewerRequest, Recovery!SameVideo
  <2>5. DOMAIN request' \subseteq DOMAIN backup /\ DOMAIN request \subseteq DOMAIN request'
    <3>1. \/ DOMAIN request' = DOMAIN request
          \/ Recovery!NewerRequest(m) /\ DOMAIN request' = DOMAIN request \cup {m.to}
      BY <2>2, StoredIs
    <3> QED
      BY <2>4, <3>1
  <2>6. Recovery!NewerRequest(m) \in BOOLEAN
    BY DEF Recovery!NewerRequest
  <2>7. CallTyped(start') /\ (start' = Recovery!Idle \/ start'.s \in Recovery!Sessions)
    BY <1>2, <2>6, AnsweredKeepsType DEF Recovery!HandleRecover, CallsTyped
  <2>8. /\ sent' = sent \ {m} /\ backup' = backup /\ share' = share /\ files' = files
        /\ upload' = upload
    BY <1>2 DEF Recovery!HandleRecover
  <2> QED
    BY <2>3, <2>5, <2>7, <2>8 DEF SentTyped, CallsTyped
<1>3. ASSUME NEW g \in Recovery!Guardians, Recovery!ApproveRecovery(g)
      PROVE  GuardiansTyped' /\ SentTyped' /\ CallsTyped'
  <2> DEFINE v == [session |-> request[g], backup |-> backup[g]]
             V == [session : Recovery!Sessions, backup : Recovery!Backups]
  <2>1. g \in DOMAIN request /\ share' = Recovery!Stored(share, g, v)
    BY <1>3 DEF Recovery!ApproveRecovery
  <2>2. request[g] \in Recovery!Sessions /\ backup[g] \in Recovery!Backups
    BY <2>1 DEF StoresOf
  <2>3. v \in V /\ StoresOf(share, V)
    BY <2>2
  <2> HIDE DEF v, V
  <2>4. StoresOf(share', V) /\ DOMAIN share' = DOMAIN share \cup {g}
    BY <2>1, <2>3, StoredKeepsType
  <2>5. UNCHANGED <<backup, request, sent, upload, files, start>>
    BY <1>3 DEF Recovery!ApproveRecovery, Recovery!deviceVars
  <2> QED
    BY <2>1, <2>4, <2>5 DEF V, SentTyped, CallsTyped
<1> QED
  BY <1>1, <1>2, <1>3

\* One guardian does not answer, or a backup is begun, ends or is chosen.
LEMMA DeviceSteps ==
    ASSUME Recovery!RecoveryAssumption, RecoveryTyped,
           \/ \E m \in sent : Recovery!GiveUp(m)
           \/ Recovery!BeginBackup \/ Recovery!EndBackup
           \/ \E b \in Recovery!Backups : Recovery!ChooseFile(b)
    PROVE  SentTyped' /\ CallsTyped' /\ CountsTyped'
<1> USE DEF RecoveryTyped
<1>1. ASSUME NEW m \in sent, Recovery!GiveUp(m) PROVE SentTyped' /\ CallsTyped' /\ CountsTyped'
  <2>1. /\ upload' = Recovery!Answered(upload, m, FALSE)
        /\ start' = Recovery!Answered(start, m, FALSE)
        /\ UNCHANGED <<sent, files, stage, given>>
    BY <1>1 DEF Recovery!GiveUp
  <2>2. CallTyped(upload') /\ CallTyped(start') /\ start'.s = start.s
        /\ (start = Recovery!Idle => start' = Recovery!Idle)
    BY <2>1, AnsweredKeepsType DEF CallsTyped
  <2>3. recoveryActs' \in 0 .. RecoveryActs
    BY <1>1 DEF Recovery!GiveUp, Recovery!Act, CountsTyped, Recovery!RecoveryAssumption
  <2> QED
    BY <2>1, <2>2, <2>3 DEF SentTyped, CallsTyped, CountsTyped
<1>2. CASE Recovery!BeginBackup
  <2>1. given.backups \in Recovery!Backups \cup {0} /\ given.sessions \in Recovery!Sessions \cup {0}
    BY DEF CountsTyped
  <2>2. given' = [given EXCEPT !.backups = given.backups + 1] /\ given.backups < MaxBackups
    BY <1>2 DEF Recovery!BeginBackup
  <2>3. given.backups + 1 \in Recovery!Backups
    BY <2>1, <2>2 DEF Recovery!Backups, Recovery!RecoveryAssumption
  <2>4. /\ given' \in [backups : Recovery!Backups \cup {0}, sessions : Recovery!Sessions \cup {0}]
        /\ given'.backups \in Recovery!Backups
    BY <2>2, <2>3 DEF CountsTyped
  <2>5. /\ upload' = Recovery!Call(given'.backups, 0)
        /\ sent' = sent \cup Recovery!Requests(given'.backups, 0)
        /\ UNCHANGED <<files, start, stage, recoveryActs>>
    BY <1>2 DEF Recovery!BeginBackup, Recovery!deviceVars
  <2>6. CallTyped(upload')
    BY <2>4, <2>5, NewCallTyped
  <2>7. SentTyped'
    BY <2>4, <2>5, NewCallTyped DEF SentTyped
  <2> QED
    BY <2>4, <2>5, <2>6, <2>7 DEF CallsTyped, CountsTyped
<1>3. CASE Recovery!EndBackup
  <2>1. CallTyped(Recovery!Idle)
    BY DEF CallTyped, Recovery!Idle, Recovery!Calls, Recovery!RecoveryAssumption
  <2>2. upload # Recovery!Idle /\ upload' = Recovery!Idle /\ files' \subseteq files \cup {upload.b}
    BY <1>3 DEF Recovery!EndBackup
  <2>3. upload.b \in Recovery!Backups
    BY <2>2 DEF CallsTyped, CallTyped
  <2>4. UNCHANGED <<sent, start, stage, given, recoveryActs>>
    BY <1>3 DEF Recovery!EndBackup, Recovery!deviceVars
  <2> QED
    BY <2>1, <2>2, <2>3, <2>4 DEF SentTyped, CallsTyped, CountsTyped
<1>4. ASSUME NEW b \in Recovery!Backups, Recovery!ChooseFile(b)
      PROVE  SentTyped' /\ CallsTyped' /\ CountsTyped'
  <2>1. given.backups \in Recovery!Backups \cup {0} /\ given.sessions \in Recovery!Sessions \cup {0}
    BY DEF CountsTyped
  <2>2. given' = [given EXCEPT !.sessions = given.sessions + 1] /\ given.sessions < MaxSessions
    BY <1>4 DEF Recovery!ChooseFile
  <2>3. given.sessions + 1 \in Recovery!Sessions
    BY <2>1, <2>2 DEF Recovery!Sessions, Recovery!RecoveryAssumption
  <2>4. /\ given' \in [backups : Recovery!Backups \cup {0}, sessions : Recovery!Sessions \cup {0}]
        /\ given'.sessions \in Recovery!Sessions
    BY <2>2, <2>3 DEF CountsTyped
  <2>5. /\ start' = Recovery!Call(b, given'.sessions)
        /\ sent' = sent \cup Recovery!Requests(b, given'.sessions)
        /\ UNCHANGED <<files, upload, stage, recoveryActs>>
    BY <1>4 DEF Recovery!ChooseFile
  <2>6. CallTyped(start') /\ start'.s \in Recovery!Sessions
    BY <2>4, <2>5, NewCallTyped
  <2>7. SentTyped'
    BY <2>4, <2>5, NewCallTyped DEF SentTyped
  <2> QED
    BY <2>4, <2>5, <2>6, <2>7 DEF CallsTyped, CountsTyped
<1> QED
  BY <1>1, <1>2, <1>3, <1>4

\* The states of a recovery that are read and saved.
LEMMA SharesTyped ==
    ASSUME GuardiansTyped, NEW s \in Recovery!States, NEW got \in SUBSET Recovery!SharesFor(s)
    PROVE  [s EXCEPT !.shares = s.shares \cup got] \in Recovery!States
<1>1. CASE s = Recovery!None
  <2>1. s.session = 0 /\ s.shares = {}
    BY <1>1 DEF Recovery!None
  <2>2. \A h \in DOMAIN share : share[h].session # 0
    BY DEF GuardiansTyped, StoresOf, Recovery!Sessions
  <2>3. got = {}
    BY <2>1, <2>2 DEF Recovery!SharesFor
  <2>4. [s EXCEPT !.shares = s.shares \cup got] = s
    BY <1>1, <2>1, <2>3 DEF Recovery!None
  <2> QED
    BY <2>4
<1>2. CASE s # Recovery!None
  <2>1. s \in [session : Recovery!Sessions, backup : Recovery!Backups,
               shares : SUBSET (Recovery!Guardians \X Recovery!Backups)]
    BY <1>2 DEF Recovery!States
  <2>2. \A g \in DOMAIN share : g \in Recovery!Guardians /\ share[g].backup \in Recovery!Backups
    BY DEF GuardiansTyped, StoresOf
  <2>3. got \subseteq Recovery!Guardians \X Recovery!Backups
    BY <2>2 DEF Recovery!SharesFor
  <2> QED
    BY <2>1, <2>3 DEF Recovery!States
<1> QED
  BY <1>1, <1>2

LEMMA ApproversAreGuardians ==
    ASSUME Recovery!RecoveryAssumption, NEW s \in Recovery!States
    PROVE  Recovery!Cardinality({x[1] : x \in s.shares}) \in 0 .. Peers
<1> DEFINE A == {x[1] : x \in s.shares}
<1>1. IsFiniteSet(Recovery!Guardians) /\ Cardinality(Recovery!Guardians) = Peers
  BY FS_Interval DEF Recovery!Guardians, Recovery!RecoveryAssumption
<1>2. s.shares \subseteq Recovery!Guardians \X Recovery!Backups
  BY DEF Recovery!States, Recovery!None
<1>3. A \subseteq Recovery!Guardians
  BY <1>2
<1> HIDE DEF A
<1>4. IsFiniteSet(A) /\ Cardinality(A) <= Peers /\ Cardinality(A) \in Nat
  BY <1>1, <1>3, FS_Subset, FS_CardinalityType
<1>5. Cardinality(A) \in 0 .. Peers
  BY <1>4 DEF Recovery!RecoveryAssumption
<1>6. Recovery!Cardinality(A) = Cardinality(A)
  BY DEF Recovery!Cardinality, Cardinality
<1> QED
  BY <1>5, <1>6 DEF A

LEMMA RecoverySteps ==
    ASSUME Recovery!RecoveryAssumption, RecoveryTyped,
           \/ Recovery!Started \/ Recovery!Fetch \/ Recovery!Poll \/ Recovery!Approvals
           \/ Recovery!Complete \/ Recovery!Cancel \/ Recovery!Register \/ Recovery!Reopen
    PROVE  RecoveryTyped'
<1> USE DEF RecoveryTyped
<1>0. /\ Recovery!None \in Recovery!States
      /\ CallTyped(Recovery!Idle)
      /\ Recovery!Unknown \in {Recovery!Unknown} \cup 0 .. Peers
  BY DEF CallTyped, Recovery!Idle, Recovery!Calls, Recovery!RecoveryAssumption, Recovery!States
<1>r. \A b \in BOOLEAN : [fetch |-> b, of |-> state] \in [fetch : BOOLEAN, of : Recovery!States]
  BY DEF StatesTyped
<1>g. ASSUME UNCHANGED <<backup, request, share, sent>> PROVE GuardiansTyped' /\ SentTyped'
  BY <1>g DEF GuardiansTyped, SentTyped
<1>1. CASE Recovery!Started
  <2>1. state' \in Recovery!States
    <3>1. start # Recovery!Idle
      BY <1>1 DEF Recovery!Started
    <3>2. start.s \in Recovery!Sessions /\ start.b \in Recovery!Backups
      BY <3>1 DEF CallsTyped, CallTyped
    <3>3. [session |-> start.s, backup |-> start.b, shares |-> {}] \in Recovery!States
      BY <3>2 DEF Recovery!States
    <3> QED
      BY <1>1, <3>3 DEF Recovery!Started, StatesTyped
  <2>2. fetching' \in BOOLEAN
    BY <1>1 DEF Recovery!Started, PagesTyped
  <2> QED
    BY <1>0, <1>1, <1>g, <2>1, <2>2 DEF Recovery!Started, Recovery!guardianVars, CallsTyped,
       StatesTyped, PagesTyped, ShownTyped, CountsTyped
<1>2. CASE Recovery!Fetch
  <2>1. polls' \subseteq [fetch : BOOLEAN, of : Recovery!States]
    <3>1. polls' = polls \/ polls' = {[fetch |-> TRUE, of |-> state]}
      BY <1>2 DEF Recovery!Fetch
    <3> QED
      BY <1>r, <3>1 DEF StatesTyped
  <2>2. checked' \in BOOLEAN /\ qr' \in BOOLEAN /\ fetching' \in BOOLEAN /\ loops' \in BOOLEAN
    BY <1>2 DEF Recovery!Fetch, PagesTyped
  <2>3. shown' \in {Recovery!Unknown} \cup 0 .. Peers
    BY <1>2 DEF Recovery!Fetch, ShownTyped
  <2>4. UNCHANGED <<backup, request, share, sent, upload, files, start, state, stage, given,
                    recoveryActs>>
    BY <1>2 DEF Recovery!Fetch, Recovery!guardianVars
  <2> QED
    BY <1>g, <2>1, <2>2, <2>3, <2>4 DEF CallsTyped, StatesTyped, PagesTyped, ShownTyped, CountsTyped
<1>3. CASE Recovery!Poll
  <2>1. polls' \subseteq [fetch : BOOLEAN, of : Recovery!States]
    BY <1>3, <1>r DEF Recovery!Poll, StatesTyped
  <2>2. UNCHANGED <<backup, request, share, sent, upload, files, start, state, stage, fetching,
                    loops, checked, qr, shown, given, recoveryActs>>
    BY <1>3 DEF Recovery!Poll, Recovery!guardianVars, Recovery!pageVars
  <2> QED
    BY <1>g, <2>1, <2>2 DEF CallsTyped, StatesTyped, PagesTyped, ShownTyped, CountsTyped
<1>4. CASE Recovery!Approvals
  <2> DEFINE PutsInto(p, got) ==
        /\ IF Recovery!SharesFor(p.of) \subseteq p.of.shares \cup got
           THEN UNCHANGED recoveryActs ELSE Recovery!Act
        /\ state' = [p.of EXCEPT !.shares = p.of.shares \cup got] /\ polls' = polls \ {p}
        /\ qr' = (qr \/ p.fetch) /\ checked' = (checked \/ p.fetch)
  <2>p. PICK p \in polls : \E got \in SUBSET Recovery!SharesFor(p.of) : PutsInto(p, got)
    BY <1>4 DEF Recovery!Approvals
  <2>1. PICK got \in SUBSET Recovery!SharesFor(p.of) : PutsInto(p, got)
    BY <2>p
  <2>2. p.of \in Recovery!States /\ p.fetch \in BOOLEAN
    BY DEF StatesTyped
  <2>3. state' \in Recovery!States
    BY <2>1, <2>2, SharesTyped
  <2>4. shown' = Recovery!Cardinality({x[1] : x \in state'.shares})
    BY <1>4 DEF Recovery!Approvals
  <2>5. ShownTyped'
    BY <2>3, <2>4, ApproversAreGuardians DEF ShownTyped
  <2>6. recoveryActs' \in 0 .. RecoveryActs
    BY <2>1 DEF Recovery!Act, CountsTyped, Recovery!RecoveryAssumption
  <2>7. (qr \/ p.fetch) \in BOOLEAN /\ (checked \/ p.fetch) \in BOOLEAN
    OBVIOUS
  <2>8. qr' \in BOOLEAN /\ checked' \in BOOLEAN
    BY <2>1, <2>7, Zenon
  <2>9. UNCHANGED <<backup, request, share, sent, upload, files, start, stage, fetching, loops, given>>
    BY <1>4 DEF Recovery!Approvals, Recovery!guardianVars
  <2> QED
    BY <1>g, <2>1, <2>3, <2>5, <2>6, <2>8, <2>9
       DEF CallsTyped, StatesTyped, PagesTyped, CountsTyped
<1>5. CASE Recovery!Complete \/ Recovery!Cancel
  <2>1. Recovery!LeavePage /\ UNCHANGED <<backup, request, share, sent, upload, files, start, polls,
                                          given, recoveryActs>>
    BY <1>5 DEF Recovery!Complete, Recovery!Cancel, Recovery!guardianVars
  <2>2. state' \in Recovery!States /\ stage' \in {"fresh", "recovered", "registered"}
    BY <1>0, <1>5 DEF Recovery!Complete, Recovery!Cancel, StatesTyped, CountsTyped
  <2>3. (loops \/ polls # {}) \in BOOLEAN
    OBVIOUS
  <2>4. loops' \in BOOLEAN
    BY <2>1, <2>3, Zenon DEF Recovery!LeavePage
  <2>5. PagesTyped' /\ ShownTyped'
    BY <1>0, <2>1, <2>4 DEF Recovery!LeavePage, PagesTyped, ShownTyped
  <2> QED
    BY <1>g, <2>1, <2>2, <2>5 DEF CallsTyped, StatesTyped, CountsTyped
<1>6. CASE Recovery!Register
  BY <1>0, <1>6, <1>g DEF Recovery!Register, Recovery!guardianVars, Recovery!pageVars, CallsTyped,
     StatesTyped, PagesTyped, ShownTyped, CountsTyped
<1>7. CASE Recovery!Reopen
  <2>1. recoveryActs' \in 0 .. RecoveryActs
    BY <1>7 DEF Recovery!Reopen, Recovery!Act, CountsTyped, Recovery!RecoveryAssumption
  <2> QED
    BY <1>0, <1>7, <1>g, <2>1 DEF Recovery!Reopen, Recovery!guardianVars, CallsTyped,
       StatesTyped, PagesTyped, ShownTyped, CountsTyped
<1> QED
  BY <1>1, <1>2, <1>3, <1>4, <1>5, <1>6, <1>7

LEMMA RecoveryTypesStay ==
    ASSUME Recovery!RecoveryAssumption, RecoveryTyped, [Recovery!Next]_(Recovery!vars)
    PROVE  RecoveryTyped'
<1> USE DEF Recovery!guardianVars, Recovery!pageVars, Recovery!deviceVars
<1>1. ASSUME NEW m \in sent, Recovery!HandleBackup(m) \/ Recovery!HandleRecover(m)
      PROVE  RecoveryTyped'
  <2>1. GuardiansTyped' /\ SentTyped' /\ CallsTyped'
    BY <1>1, GuardianSteps
  <2> QED
    BY <1>1, <2>1 DEF Recovery!HandleBackup, Recovery!HandleRecover, RecoveryTyped, StatesTyped,
       PagesTyped, ShownTyped, CountsTyped
<1>2. ASSUME NEW g \in Recovery!Guardians \ Silent, Recovery!ApproveRecovery(g)
      PROVE  RecoveryTyped'
  <2>1. GuardiansTyped' /\ SentTyped' /\ CallsTyped'
    BY <1>2, GuardianSteps
  <2> QED
    BY <1>2, <2>1 DEF Recovery!ApproveRecovery, RecoveryTyped, StatesTyped, PagesTyped,
       ShownTyped, CountsTyped
<1>3. ASSUME \/ \E m \in sent : Recovery!GiveUp(m)
             \/ Recovery!BeginBackup \/ Recovery!EndBackup
             \/ \E b \in Recovery!Backups : Recovery!ChooseFile(b)
      PROVE  RecoveryTyped'
  <2>1. SentTyped' /\ CallsTyped' /\ CountsTyped'
    BY <1>3, DeviceSteps
  <2>2. UNCHANGED <<backup, request, share, state, polls, fetching, loops, checked, qr, shown>>
    BY <1>3 DEF Recovery!GiveUp, Recovery!BeginBackup, Recovery!EndBackup, Recovery!ChooseFile
  <2> QED
    BY <2>1, <2>2 DEF RecoveryTyped, GuardiansTyped, StatesTyped, PagesTyped, ShownTyped
<1>4. CASE UNCHANGED Recovery!vars
  BY <1>4 DEF Recovery!vars, RecoveryTyped, GuardiansTyped, SentTyped, CallsTyped, StatesTyped,
     PagesTyped, ShownTyped, CountsTyped
<1> QED
  BY <1>1, <1>2, <1>3, <1>4, RecoverySteps DEF Recovery!Next

-----------------------------------------------------------------------------
Totals == INSTANCE LockMatchingTheorems WITH B <- 1, CollProvider <- 1, CollSeeker <- 1

\* Of finitely many numbers one is the greatest.
LEMMA SomeIsGreatest ==
    ASSUME NEW k \in Nat, NEW f, \A i \in 1 .. k : f[i] \in Nat,
           NEW S \in SUBSET (1 .. k), S # {}
    PROVE  \E i \in S : \A j \in S : f[i] >= f[j]
<1> DEFINE Without(n) == \E T \in SUBSET (1 .. n) :
                            T # {} /\ ~ \E i \in T : \A j \in T : f[i] >= f[j]
           bad == {n \in 0 .. k : Without(n)}
<1>1. SUFFICES ASSUME ~ \E i \in S : \A j \in S : f[i] >= f[j]
               PROVE  FALSE
  OBVIOUS
<1>2. k \in bad
  BY <1>1
<1>3. bad \in SUBSET Nat /\ bad # {}
  BY <1>2
<1>4. PICK n \in bad : \A m \in bad : n <= m
  <2> HIDE DEF bad
  <2> QED
    BY <1>3, Totals!LeastNumber
<1>5. PICK T \in SUBSET (1 .. n) : T # {} /\ ~ \E i \in T : \A j \in T : f[i] >= f[j]
  BY <1>4
<1>6. n \in 0 .. k /\ n # 0
  <2>1. n \in 0 .. k
    BY <1>4
  <2>2. CASE n = 0
    <3>1. 1 .. n = {}
      BY <2>2
    <3> QED
      BY <1>5, <3>1
  <2> QED
    BY <2>1, <2>2
<1>7. n - 1 \in 0 .. k /\ n - 1 \notin bad
  <2>1. n - 1 \in 0 .. k /\ ~ (n <= n - 1)
    BY <1>6
  <2> HIDE DEF bad
  <2> QED
    BY <1>4, <2>1
<1>8. T \ {n} \in SUBSET (1 .. n - 1)
  BY <1>5, <1>6
<1>9. CASE T \ {n} = {}
  <2>1. T = {n}
    BY <1>5, <1>9, Zenon
  <2>2. f[n] \in Nat
    BY <1>6
  <2> QED
    BY <1>5, <2>1, <2>2
<1>10. CASE T \ {n} # {}
  <2>1. PICK i \in T \ {n} : \A j \in T \ {n} : f[i] >= f[j]
    BY <1>7, <1>8, <1>10
  <2>2. \A j \in T : f[j] \in Nat
    BY <1>5, <1>6
  <2>3. f[i] \in Nat /\ f[n] \in Nat
    BY <1>6, <2>1, <2>2
  <2>4. CASE f[i] >= f[n]
    BY <1>5, <2>1, <2>4
  <2>5. CASE f[n] >= f[i]
    <3>1. n \in T
      BY <1>5, <2>1, <2>2, <2>3 
    <3> QED
      BY <1>5, <2>1, <2>2, <2>3, <2>5
  <2> QED
    BY <2>3, <2>4, <2>5
<1> QED
  BY <1>9, <1>10

-----------------------------------------------------------------------------
\* What was read stays unread for no longer than before the migrations.

\* The entry is of one shape, its messages are those that were stored, and the marks
\* of what was read are those that were stored, but for the markers of version 2,
\* which its next migration leaves out.
KnownVersion == version \in 2 .. Migrations!LatestVersion
StoredMarks == stored.messages \in Lists /\ stored.read \in Migrations!ReadMarks(stored.messages)
Shaped(e) == DOMAIN e = DOMAIN Migrations!Entry /\ e.messages = stored.messages
MarksOf(v, e) ==
    /\ v = 2 => e.roles = NoEntry
    /\ v = 3 => e.roles = NoEntry \/ e.read = stored.read
    /\ v \in 4 .. 13 => e.read = stored.read
    /\ v <= 13 => \A c \in Chats, i \in DOMAIN stored.messages : e.paymentRead[c] # <<i>>
SeenOf(v, e) == v \in 3 .. 13 => e.seen \in Migrations!Ids(stored.messages) \cup {NoEntry}
NotLater(e) ==
    \A c \in Chats : e.readAt[c] # NoEntry =>
        /\ stored.read[c] # NoEntry
        /\ e.readAt[c] <= stored.messages[stored.read[c][1]].sentAt
TimesOf(v, e) ==
    v > 13 => e.read = Migrations!Nothing /\ e.paymentSeen = NoEntry /\ NotLater(e)
MigrationsInv ==
    /\ KnownVersion /\ StoredMarks
    /\ chat # NoEntry =>
        Shaped(chat) /\ MarksOf(version, chat) /\ SeenOf(version, chat) /\ TimesOf(version, chat)

\* A list has finitely many messages, each with a time.
LEMMA MessagesAreListed ==
    ASSUME Migrations!ListAssumption, NEW l \in Lists
    PROVE  /\ \E k \in Nat : DOMAIN l = 1 .. k
           /\ \A i \in DOMAIN l : l[i].sentAt \in Nat
<1> DEFINE Message == [chat : Chats, sentAt : Nat, payment : BOOLEAN, updatedAt : Nat]
<1>1. \A m \in Message : m.sentAt \in Nat
  OBVIOUS
<1>2. l \in Seq(Message)
  BY DEF Migrations!ListAssumption
<1> HIDE DEF Message
<1>3. Len(l) \in Nat /\ DOMAIN l = 1 .. Len(l)
  BY <1>2
<1>4. \A i \in DOMAIN l : l[i] \in Message
  BY <1>2
<1> QED
  BY <1>1, <1>3, <1>4

\* The identifier of an update is that of no message.
LEMMA UpdatesAreNoMessages ==
    ASSUME Migrations!ListAssumption, NEW l \in Lists, NEW c \in Chats, NEW i \in DOMAIN l
    PROVE  Migrations!PaymentsReadAll(l)[c] # <<i>> /\ Migrations!Nothing[c] # <<i>>
<1>1. \A x : Migrations!UpdateIdOf(l, x) # <<i>>
  BY DEF Migrations!UpdateIdOf, Migrations!ListAssumption
<1>2. \E x : Migrations!PaymentsReadAll(l)[c] = Migrations!UpdateIdOf(l, x)
  BY DEF Migrations!PaymentsReadAll
<1>3. Migrations!Nothing[c] = NoEntry
  BY DEF Migrations!Nothing
<1> QED
  BY <1>1, <1>2, <1>3 DEF Migrations!ListAssumption

\* The last message is one of the messages.
LEMMA LastIsSeen ==
    ASSUME Migrations!ListAssumption, NEW l \in Lists
    PROVE  Migrations!SeenAll(l) \in Migrations!Ids(l) \cup {NoEntry}
<1> DEFINE f == [i \in DOMAIN l |-> l[i].sentAt]
           best == {i \in DOMAIN l : \A j \in DOMAIN l : f[i] >= f[j]}
           last == [i \in DOMAIN l |-> i]
<1>1. \A i \in DOMAIN l : l[i].sentAt \in Nat
  BY MessagesAreListed
<1>2. PICK k \in Nat : DOMAIN l = 1 .. k
  BY MessagesAreListed
<1>3. CASE DOMAIN l = {}
  BY <1>3 DEF Migrations!SeenAll, Migrations!LastLatest, Migrations!IdOf
<1>4. CASE DOMAIN l # {}
  <2>1. \A i \in 1 .. k : f[i] \in Nat
    BY <1>1, <1>2
  <2>2. \E i \in DOMAIN l : \A j \in DOMAIN l : f[i] >= f[j]
    <3> HIDE DEF f
    <3> QED
      BY <1>2, <1>4, <2>1, SomeIsGreatest
  <2>3. best \in SUBSET (1 .. k) /\ best # {}
    BY <1>2, <2>2
  <2>4. \A i \in 1 .. k : last[i] = i /\ last[i] \in Nat
    BY <1>2
  <2>5. \E i \in best : \A j \in best : last[i] >= last[j]
    <3> HIDE DEF last, best
    <3> QED
      BY <2>3, <2>4, SomeIsGreatest
  <2>6. \E i \in best : \A j \in best : i >= j
    BY <2>3, <2>4, <2>5
  <2>7. Migrations!Max(best) \in best
    <3> HIDE DEF best
    <3> QED
      BY <2>6 DEF Migrations!Max
  <2>8. best = {i \in DOMAIN l : \A j \in DOMAIN l : l[i].sentAt >= l[j].sentAt}
    BY <1>1
  <2>9. Migrations!SeenAll(l) = Migrations!IdOf(Migrations!Max(best))
    <3> HIDE DEF best
    <3> QED
      BY <1>4, <2>8 DEF Migrations!SeenAll, Migrations!LastLatest
  <2>10. Migrations!Max(best) \in DOMAIN l
    BY <2>7
  <2> QED
    <3> HIDE DEF best
    <3> QED
      BY <2>9, <2>10 DEF Migrations!IdOf, Migrations!Ids
<1> QED
  BY <1>3, <1>4

\* The time of a mark is that of the message it marks, when no payment has its
\* identifier.
LEMMA TimeOfMark ==
    ASSUME Migrations!ListAssumption, NEW l \in Lists,
           NEW c \in Chats, NEW rd \in Migrations!ReadMarks(l), NEW pid,
           \A i \in DOMAIN l : pid # <<i>>, Migrations!At(l, rd[c], pid) # NoEntry
    PROVE  rd[c] # NoEntry /\ Migrations!At(l, rd[c], pid) <= l[rd[c][1]].sentAt
<1>1. PICK m \in DOMAIN l : rd[c] = <<m>>
  BY DEF Migrations!At, Migrations!Ids
<1>2. {p \in DOMAIN l : <<p>> = pid} = {}
  OBVIOUS
<1>3. \A i \in DOMAIN l : <<i>> = rd[c] <=> i = m
  BY <1>1
<1>4. (CHOOSE i \in DOMAIN l : <<i>> = rd[c]) = m
  BY <1>1, <1>3
<1>5. {l[p].updatedAt : p \in {i \in DOMAIN l : <<i>> = pid}} = {}
  BY <1>2
<1>6. Migrations!At(l, rd[c], pid) = Migrations!Max({l[m].sentAt} \cup {})
  BY <1>1, <1>4, <1>5 DEF Migrations!At, Migrations!LaterOf, Migrations!Ids
<1>7. l[m].sentAt \in Nat
  BY MessagesAreListed
<1>8. PICK t : t = l[m].sentAt
  OBVIOUS
<1>9. Migrations!Max({t} \cup {}) = t
  <2>1. \E x \in {t} \cup {} : \A y \in {t} \cup {} : x >= y
    BY <1>7, <1>8
  <2>2. Migrations!Max({t} \cup {}) \in {t} \cup {}
    BY <2>1 DEF Migrations!Max
  <2> QED
    BY <2>2
<1>10. rd[c] # NoEntry /\ rd[c][1] = m
  BY <1>1 DEF Migrations!ListAssumption
<1> QED
  BY <1>6, <1>7, <1>8, <1>9, <1>10

LEMMA MigrationsStart ==
    ASSUME Migrations!ChatAssumption, Migrations!ListAssumption, Migrations!VersionAssumption,
           Migrations!Init
    PROVE  MigrationsInv
<1>1. version \in {2, 3, 9, 13} /\ stored = chat
  BY DEF Migrations!Init, Migrations!VersionAssumption
<1>2. PICK msgs \in Lists : Migrations!StoredAs(version, msgs)
  BY DEF Migrations!Init
<1>3. PICK m \in BOOLEAN,
           r \in {NoEntry} \cup
                 (IF version > 2 THEN [Groups -> Roles \cup {NoEntry}] ELSE {}),
           rd \in IF version > 2 THEN Migrations!ReadMarks(msgs) ELSE {Migrations!Nothing},
           s \in IF version > 2 THEN Migrations!Ids(msgs) \cup {NoEntry} ELSE {NoEntry},
           pr \in IF version > 9 THEN {Migrations!PaymentsReadAll(msgs), Migrations!Nothing}
                                 ELSE {Migrations!Nothing} :
        chat = [Migrations!Entry EXCEPT
                    !.member = m, !.messages = msgs, !.roles = r, !.read = rd, !.seen = s,
                    !.paymentRead = pr]
  BY <1>2 DEF Migrations!StoredAs
<1>4. /\ DOMAIN chat = DOMAIN Migrations!Entry /\ chat.messages = msgs
      /\ chat.roles = r /\ chat.read = rd /\ chat.seen = s /\ chat.paymentRead = pr
  BY <1>3 DEF Migrations!Entry
<1>5. Migrations!Nothing \in Migrations!ReadMarks(msgs)
  BY DEF Migrations!Nothing, Migrations!ReadMarks
<1>6. rd \in Migrations!ReadMarks(msgs) /\ s \in Migrations!Ids(msgs) \cup {NoEntry}
  BY <1>1, <1>3, <1>5
<1>7. \A c \in Chats, i \in DOMAIN msgs : pr[c] # <<i>>
  <2>1. pr = Migrations!PaymentsReadAll(msgs) \/ pr = Migrations!Nothing
    BY <1>1, <1>3
  <2> QED
    BY <2>1, UpdatesAreNoMessages
<1>8. KnownVersion /\ StoredMarks
  BY <1>1, <1>4, <1>6 DEF KnownVersion, StoredMarks, Migrations!LatestVersion
<1>9. version = 2 => r = NoEntry
  BY <1>3
<1>10. Shaped(chat) /\ MarksOf(version, chat) /\ SeenOf(version, chat)
  BY <1>1, <1>4, <1>6, <1>7, <1>9 DEF Shaped, MarksOf, SeenOf
<1>11. TimesOf(version, chat)
  BY <1>1 DEF TimesOf
<1> QED
  BY <1>8, <1>10, <1>11 DEF MigrationsInv

\* What a migration writes: each leaves the entry out or changes some of its fields.
LEMMA BecomesSound ==
    ASSUME MigrationsInv, NEW e, Migrations!Become(e), version < Migrations!LatestVersion,
           e # NoEntry => /\ Shaped(e) /\ MarksOf(version + 1, e)
                          /\ SeenOf(version + 1, e) /\ TimesOf(version + 1, e)
    PROVE  MigrationsInv'
<1>1. version' = version + 1 /\ chat' = e /\ stored' = stored
  BY DEF Migrations!Become
<1>2. KnownVersion' /\ StoredMarks'
  BY <1>1 DEF MigrationsInv, KnownVersion, StoredMarks, Migrations!LatestVersion
<1>3. ASSUME e # NoEntry
      PROVE  Shaped(chat)' /\ MarksOf(version, chat)' /\ SeenOf(version, chat)'
             /\ TimesOf(version, chat)'
  BY <1>1, <1>3 DEF Shaped, MarksOf, SeenOf, TimesOf, NotLater
<1> QED
  BY <1>1, <1>2, <1>3 DEF MigrationsInv

\* One lemma for each migration that touches the chat.
LEMMA Migrate2Step ==
    ASSUME Migrations!ListAssumption, MigrationsInv, Migrations!Migrate2
    PROVE  MigrationsInv'
<1> DEFINE e == [chat EXCEPT !.read = Migrations!ReadAll(chat.messages),
                             !.seen = Migrations!SeenAll(chat.messages)]
<1>1. version = 2 /\ version < Migrations!LatestVersion
  BY DEF Migrations!Migrate2, Migrations!LatestVersion
<1>2. CASE ~ Migrations!Signed
  BY <1>1, <1>2, BecomesSound DEF Migrations!Migrate2
<1>3. CASE Migrations!Signed
  <2>1. Shaped(chat) /\ MarksOf(version, chat) /\ chat.messages \in Lists
    BY <1>3 DEF MigrationsInv, Migrations!Signed, Shaped, StoredMarks
  <2>2. Migrations!SeenAll(chat.messages) \in Migrations!Ids(stored.messages) \cup {NoEntry}
    BY <2>1, LastIsSeen DEF Shaped
  <2>3. /\ DOMAIN e = DOMAIN chat /\ e.messages = chat.messages /\ e.roles = chat.roles
        /\ e.seen = Migrations!SeenAll(chat.messages) /\ e.paymentRead = chat.paymentRead
    BY <2>1 DEF Shaped, Migrations!Entry
  <2>4. Shaped(e) /\ MarksOf(3, e) /\ SeenOf(3, e) /\ TimesOf(3, e)
    BY <1>1, <2>1, <2>2, <2>3 DEF Shaped, MarksOf, SeenOf, TimesOf
  <2>5. Migrations!Become(e)
    BY <1>3 DEF Migrations!Migrate2
  <2> HIDE DEF e
  <2> QED
    BY <1>1, <2>4, <2>5, BecomesSound
<1> QED
  BY <1>2, <1>3

LEMMA Migrate3Step ==
    ASSUME MigrationsInv, Migrations!Migrate3
    PROVE  MigrationsInv'
<1>1. version = 3 /\ version < Migrations!LatestVersion
  BY DEF Migrations!Migrate3, Migrations!LatestVersion
<1>2. CASE Migrations!Become(NoEntry)
  BY <1>1, <1>2, BecomesSound
<1>3. CASE /\ chat # NoEntry /\ chat.roles # NoEntry
           /\ \E a : Migrations!Become(a) /\ (a = chat \/ \E x : a = [chat EXCEPT !.affiliations = x])
  <2>1. PICK e : Migrations!Become(e) /\ (e = chat \/ \E x : e = [chat EXCEPT !.affiliations = x])
    BY <1>3
  <2>2. Shaped(chat) /\ MarksOf(version, chat) /\ SeenOf(version, chat)
    BY <1>3 DEF MigrationsInv
  <2>3. /\ DOMAIN e = DOMAIN chat /\ e.messages = chat.messages /\ e.read = chat.read
        /\ e.seen = chat.seen /\ e.paymentRead = chat.paymentRead
    BY <2>1, <2>2 DEF Shaped, Migrations!Entry
  <2>4. Shaped(e) /\ MarksOf(4, e) /\ SeenOf(4, e) /\ TimesOf(4, e)
    BY <1>1, <1>3, <2>2, <2>3 DEF Shaped, MarksOf, SeenOf, TimesOf
  <2> QED
    BY <1>1, <2>1, <2>4, BecomesSound
<1>4. ASSUME chat # NoEntry, chat.roles # NoEntry
      PROVE  \E a : Migrations!Become(a) /\ (a = chat \/ \E x : a = [chat EXCEPT !.affiliations = x])
  <2>1. CASE Migrations!Known = {}
    BY <1>4, <2>1 DEF Migrations!Migrate3
  <2>2. CASE Migrations!Known # {}
    <3>1. PICK g \in Migrations!Known :
              Migrations!Become([chat EXCEPT !.affiliations =
                  [Migrations!Nothing EXCEPT ![g] = Migrations!Affiliation(chat.roles[g])]])
      BY <1>4, <2>2 DEF Migrations!Migrate3
    <3> QED
      BY <3>1
  <2> QED
    BY <2>1, <2>2
<1> QED
  BY <1>2, <1>3, <1>4 DEF Migrations!Migrate3

LEMMA Migrate9Step ==
    ASSUME Migrations!ListAssumption, MigrationsInv, Migrations!Migrate9
    PROVE  MigrationsInv'
<1> DEFINE e == [chat EXCEPT !.paymentRead = Migrations!PaymentsReadAll(chat.messages),
                             !.paymentSeen = Migrations!PaymentSeenAll(chat.messages)]
<1>1. version = 9 /\ version < Migrations!LatestVersion
  BY DEF Migrations!Migrate9, Migrations!LatestVersion
<1>2. CASE ~ Migrations!Signed
  BY <1>1, <1>2, BecomesSound DEF Migrations!Migrate9
<1>3. CASE Migrations!Signed
  <2>1. Shaped(chat) /\ MarksOf(version, chat) /\ SeenOf(version, chat) /\ chat.messages \in Lists
    BY <1>3 DEF MigrationsInv, Migrations!Signed, Shaped, StoredMarks
  <2>2. \A c \in Chats, i \in DOMAIN stored.messages :
            Migrations!PaymentsReadAll(chat.messages)[c] # <<i>>
    BY <2>1, UpdatesAreNoMessages DEF Shaped
  <2>3. /\ DOMAIN e = DOMAIN chat /\ e.messages = chat.messages /\ e.read = chat.read
        /\ e.seen = chat.seen /\ e.paymentRead = Migrations!PaymentsReadAll(chat.messages)
    BY <2>1 DEF Shaped, Migrations!Entry
  <2>4. Shaped(e) /\ MarksOf(10, e) /\ SeenOf(10, e) /\ TimesOf(10, e)
    BY <1>1, <2>1, <2>2, <2>3 DEF Shaped, MarksOf, SeenOf, TimesOf
  <2>5. Migrations!Become(e)
    BY <1>3 DEF Migrations!Migrate9
  <2> HIDE DEF e
  <2> QED
    BY <1>1, <2>4, <2>5, BecomesSound
<1> QED
  BY <1>2, <1>3

LEMMA Migrate13Step ==
    ASSUME Migrations!ListAssumption, MigrationsInv, Migrations!Migrate13
    PROVE  MigrationsInv'
<1> DEFINE times == [c \in Chats |->
                        Migrations!At(chat.messages, chat.read[c], chat.paymentRead[c])]
           seenAt == Migrations!At(chat.messages, chat.seen, chat.paymentSeen)
           e == [chat EXCEPT !.readAt = times, !.seenAt = seenAt,
                             !.read = Migrations!Nothing, !.seen = NoEntry,
                             !.paymentRead = Migrations!Nothing, !.paymentSeen = NoEntry]
<1>1. version = 13 /\ version < Migrations!LatestVersion
  BY DEF Migrations!Migrate13, Migrations!LatestVersion
<1>2. CASE ~ Migrations!Signed
  BY <1>1, <1>2, BecomesSound DEF Migrations!Migrate13
<1>3. CASE Migrations!Signed
  <2>1. /\ Shaped(chat) /\ MarksOf(version, chat) /\ stored.messages \in Lists
        /\ stored.read \in Migrations!ReadMarks(stored.messages)
    BY <1>3 DEF MigrationsInv, Migrations!Signed, StoredMarks
  <2>2. chat.messages = stored.messages /\ chat.read = stored.read
    BY <1>1, <2>1 DEF Shaped, MarksOf
  <2>3. \A c \in Chats, i \in DOMAIN stored.messages : chat.paymentRead[c] # <<i>>
    BY <1>1, <2>1 DEF MarksOf
  <2>4. \A c \in Chats : times[c] # NoEntry =>
            /\ stored.read[c] # NoEntry
            /\ times[c] <= stored.messages[stored.read[c][1]].sentAt
    BY <2>1, <2>2, <2>3, TimeOfMark
  <2>5. Migrations!Become(e)
    BY <1>3 DEF Migrations!Migrate13
  <2> HIDE DEF times, seenAt
  <2>6. /\ DOMAIN e = DOMAIN chat /\ e.messages = chat.messages /\ e.readAt = times
        /\ e.read = Migrations!Nothing /\ e.paymentSeen = NoEntry
    BY <2>1 DEF Shaped, Migrations!Entry
  <2> HIDE DEF e
  <2>7. Shaped(e) /\ MarksOf(14, e) /\ SeenOf(14, e) /\ TimesOf(14, e)
    BY <1>1, <2>1, <2>4, <2>6 DEF Shaped, MarksOf, SeenOf, TimesOf, NotLater
  <2> QED
    BY <1>1, <2>5, <2>7, BecomesSound
<1> QED
  BY <1>2, <1>3

LEMMA MigrationsGoOn ==
    ASSUME Migrations!ListAssumption, MigrationsInv, [Migrations!Next]_(Migrations!vars)
    PROVE  MigrationsInv'
<1>1. CASE UNCHANGED Migrations!vars
  <2>1. version' = version /\ chat' = chat /\ stored' = stored
    BY <1>1 DEF Migrations!vars
  <2> QED
    BY <2>1 DEF MigrationsInv, KnownVersion, StoredMarks, Shaped, MarksOf, SeenOf, TimesOf,
                NotLater
<1>2. CASE Migrations!Migrate2
  BY <1>2, Migrate2Step
<1>3. CASE Migrations!Migrate3
  BY <1>3, Migrate3Step
<1>4. CASE Migrations!Migrate9
  BY <1>4, Migrate9Step
<1>5. CASE Migrations!Migrate13
  BY <1>5, Migrate13Step
<1>6. CASE Migrations!AddRatesAndModes \/ Migrations!AddSteps \/ Migrations!AddFeatures
  <2>1. Migrations!Become(chat) /\ version \in 4 .. 19 /\ version # 13
    BY <1>6 DEF Migrations!AddRatesAndModes, Migrations!AddSteps, Migrations!AddFeatures,
                Migrations!LatestVersion
  <2>2. ASSUME chat # NoEntry
        PROVE  /\ Shaped(chat) /\ MarksOf(version + 1, chat)
               /\ SeenOf(version + 1, chat) /\ TimesOf(version + 1, chat)
    <3>1. Shaped(chat) /\ MarksOf(version, chat) /\ SeenOf(version, chat) /\ TimesOf(version, chat)
      BY <2>2 DEF MigrationsInv
    <3> QED
      BY <2>1, <3>1 DEF MarksOf, SeenOf, TimesOf
  <2>3. version < Migrations!LatestVersion
    BY <2>1 DEF Migrations!LatestVersion
  <2> QED
    BY <2>1, <2>2, <2>3, BecomesSound
<1> QED
  BY <1>1, <1>2, <1>3, <1>4, <1>5, <1>6 DEF Migrations!Next

LEMMA MigrationsAreSound ==
    MigrationsInv => Migrations!TypeOK /\ Migrations!NothingReadUnread
<1> SUFFICES ASSUME MigrationsInv
             PROVE  Migrations!TypeOK /\ Migrations!NothingReadUnread
  OBVIOUS
<1>1. chat # NoEntry =>
          Shaped(chat) /\ SeenOf(version, chat) /\ TimesOf(version, chat)
  BY DEF MigrationsInv
<1>2. version \in 2 .. Migrations!LatestVersion
  BY DEF MigrationsInv, KnownVersion
<1>3. Migrations!TypeOK
  BY <1>1, <1>2 DEF Migrations!TypeOK, Shaped, SeenOf, TimesOf
<1>4. Migrations!NothingReadUnread
  BY <1>1 DEF Migrations!NothingReadUnread, TimesOf, NotLater, Migrations!LatestVersion
<1> QED
  BY <1>3, <1>4

-----------------------------------------------------------------------------
\* The screens (Navigation).  What may be on the stack, and what may be awaited, is said
\* of each screen and each call alone (May, MayAwait).  How they stand to each other is
\* the rest (Stacked, Awaited), and holds in a visit with a call at a time: above a
\* confirmation there is only what a call opens that was still awaited, and what leads on
\* to nothing but such screens (Over); and while a payment is awaited its confirmation is
\* not below another screen, so that what takes the place of the last screen takes its.
AllScreens == Screens!Always \cup Screens!HomeAndChat \cup Screens!Wallet \cup
    Screens!Backups \cup Screens!SettingsAndPools \cup Screens!Locking
Over == {"BugReportSuccess", "ConfirmSendOnChain", "SendOfflineQr", "SendSuccess",
    "BitcoinRequest", "ReceiveSuccess", "EnterDisplayName", "CompleteRecoveryAssist",
    "RecoveryAssistSuccess", "SetPin", "CreatedPin"}
Registering == {"RecoveryWalletOptions", "RecoveryWalletTransfer",
    "RecoveryDeviceSelection", "RecoveryNewWallet"}
PinScreens == {"SetPin", "CreatedPin", "PinAccess"}
Shut == Screens!Locking \cup {"LockedDevice", "PersonalRecoverySuccess",
    "CompleteSocialRecovery"} \cup Registering

\* What a visit with a call at a time, and without links or federations that end, is for.
Sole(v) == ~v.links /\ v.calls = 1 /\ v.ended = {}

\* What may be on the stack, in such a visit or not.
May(sole, a, t) ==
    /\ t \in Screens!Routes(a)
    /\ t \in PinScreens => a.backedUp
    /\ ~Screens!IsUnlocked(a, "app") =>
         t \in Shut \/ (a.cancelled /\ t \in {"Splash", "Eula"})
    /\ sole => t \notin a.paid /\ t # "PopupFederationEnded"

\* The order of the stack.
Stacked(st) ==
    /\ \A i, j \in 1 .. Len(st) : i < j /\ st[i] \in Screens!Confirmations =>
         st[j] \in Over /\ (st[j] = "ConfirmSendOnChain" => st[i] # "ConfirmSendOnChain")
    /\ \A i, j \in 1 .. Len(st) : i < j /\ st[j] \in Registering => st[i] \in Registering

\* The ways to unlock the app are not mixed with the screens that are there anyway.
Whole(st) == \A i, j \in 1 .. Len(st) : st[i] \in Screens!Locking => st[j] \in Screens!Locking

\* What is awaited, and what the stack is like while it is.
LockedCalls == {"recoveryQr", "completeSocialRecovery", "transferExistingWallet",
    "createNewWallet", "checkMnemonic"}
Pays(c) ==
    CASE c = "payInvoice" -> "ConfirmSendLightning"
      [] c = "payAddress" -> "ConfirmSendOnChain"
      [] c = "meltCashuTokens" -> "ConfirmReceiveCashu"
      [] c = "increaseStableBalance" -> "StabilityConfirmDeposit"
      [] c = "decreaseStableBalance" -> "StabilityConfirmWithdraw"
      [] c = "sendMatrixPaymentPush" -> "ConfirmSendChatPayment"
      [] OTHER -> "none"
OverCalls == {"setDisplayName", "approveSocialRecoveryRequest", "payAddress"}
OnboardCalls == {"transferExistingWallet", "createNewWallet"}
Awaitable == {
    "setDisplayName", "joinFederation", "leaveFederation", "leaveEndedFederation",
    "recoverFromMnemonic", "transferExistingWallet", "createNewWallet",
    "validateRecoveryFile", "recoveryQr", "completeSocialRecovery", "checkMnemonic",
    "submitBugReport", "socialRecoveryDownloadVerificationDoc",
    "approveSocialRecoveryRequest", "generateEcash", "previewPayAddress",
    "payAddress", "payInvoice", "generateInvoice", "lnurlWithdraw", "receiveEcash",
    "meltCashuTokens", "increaseStableBalance", "decreaseStableBalance",
    "createMatrixRoom", "sendMatrixDirectMessage", "sendMatrixPaymentRequest",
    "sendMatrixPaymentPush", "setMatrixRoomName", "inviteUserToMatrixRoom",
    "joinMatrixRoom"}
Call == [call : Awaitable, named : BOOLEAN, active : Feds \cup {"none"}, mounted : BOOLEAN]
MayAwait(sole, a, k) ==
    /\ k \in Call
    /\ ~Screens!IsUnlocked(a, "app") => k.mounted /\ k.call \in LockedCalls
    /\ k.call = "checkMnemonic" => a.status
    /\ sole => k.call # "leaveEndedFederation"

\* While a device is registered, the tabs are below whatever they lead to.
Outside == Registering \cup {"TabsNavigator"} \cup {"FederationGreeting",
    "UploadAvatarImage", "Splash", "EnterDisplayName", "Eula", "ChooseRecoveryMethod",
    "LocateSocialRecovery", "PersonalRecovery", "PersonalRecoverySuccess", "PinAccess",
    "CreatedPin", "SetPin", "LockScreen", "ResetPinStart", "ResetPin", "LockedDevice",
    "CompleteSocialRecovery", "SocialRecoverySuccess", "SocialRecoveryFailure",
    "SelectRecoveryFileSuccess", "SelectRecoveryFileFailure"}
Awaited(c, st) ==
    /\ c \notin OverCalls => \A i \in 1 .. Len(st) - 1 : st[i] \notin Screens!Confirmations
    /\ \A i \in 1 .. Len(st) - 1 : st[i] # Pays(c)
    /\ c = "previewPayAddress" => \A i \in 1 .. Len(st) : st[i] # "ConfirmSendOnChain"
    /\ c \in OnboardCalls => \A i \in 1 .. Len(st) :
         st[i] \in Outside \/ (\E j \in 1 .. i - 1 : st[j] = "TabsNavigator")

Ordered(st, cs) ==
    /\ \A k, l \in cs : k = l
    /\ Stacked(st)
    /\ \A k \in cs : k.mounted => Awaited(k.call, st)
Known(a) == a \in Screens!Facts /\ (a.pin \/ a.status => a.backedUp)
Holds(sole, st, cs, a) ==
    /\ Known(a)
    /\ st \in Seq(AllScreens) /\ st # <<>>
    /\ Whole(st) /\ \A i \in 1 .. Len(st) : May(sole, a, st[i])
    /\ IsFiniteSet(cs) /\ \A k \in cs : MayAwait(sole, a, k)
    /\ sole => Ordered(st, cs)
ScreensInv == visit \in Visits /\ Holds(Sole(visit), stack, calls, facts)

\* What else screens decide by does not change what may be there.
Steady(a, b) ==
    /\ Known(b) /\ b.status = a.status
    /\ Screens!IsUnlocked(b, "app") = Screens!IsUnlocked(a, "app")
    /\ a.backedUp => b.backedUp
    /\ a.cancelled => b.cancelled
    /\ b.paid \subseteq a.paid

-----------------------------------------------------------------------------
\* What becomes of a stack: it gets shorter, or something new comes onto it, takes the
\* place of its last screen, or of all of it.
Top(st) == st[Len(st)]
Shorter(st, n) == SubSeq(st, 1, n)
Instead(st, t) == Append(SubSeq(st, 1, Len(st) - 1), t)

\* What a user may open on a screen.
Opening(x, t) ==
    /\ x \notin Screens!Confirmations
    /\ t \notin {"ConfirmSendOnChain", "PopupFederationEnded"}
    /\ x \in Over => t \in Over
    /\ t \in Registering => x \in Registering
    /\ x \in Outside => x = "TabsNavigator" \/ t \in Outside
    /\ x \in Screens!Locking <=> t \in Screens!Locking
Behind(x, t) ==
    x \in Shut \cup {"Splash", "Eula"} /\ t \in Screens!Always =>
        t \in Shut \/ (x = "Splash" /\ t = "Eula")

LastIndex(st, s) == Screens!Max({i \in 1 .. Len(st) : st[i] = s})
LEMMA LastOf ==
    ASSUME NEW st \in Seq(AllScreens), NEW s, s \in Screens!ToSet(st)
    PROVE  LastIndex(st, s) \in 1 .. Len(st)
<1> DEFINE I == {i \in 1 .. Len(st) : st[i] = s}
<1>1. I # {}
  BY DEF Screens!ToSet
<1>2. \E m \in I : \A n \in I : m >= n
  <2> DEFINE k == Len(st)
             f == [i \in 1 .. k |-> i]
  <2>1. k \in Nat /\ I \in SUBSET (1 .. k) /\ \A i \in 1 .. k : f[i] \in Nat /\ f[i] = i
    OBVIOUS
  <2> HIDE DEF I, k, f
  <2>2. \E m \in I : \A n \in I : f[m] >= f[n]
    BY <1>1, <2>1, SomeIsGreatest
  <2> QED
    BY <2>1, <2>2
<1>3. Screens!Max(I) \in I
  BY <1>2 DEF Screens!Max
<1> QED
  BY <1>3 DEF LastIndex

LEMMA ShorterIsOrdered ==
    ASSUME NEW st \in Seq(AllScreens), NEW n \in 1 .. Len(st)
    PROVE  /\ Shorter(st, n) \in Seq(AllScreens) /\ Len(Shorter(st, n)) = n
           /\ \A i \in 1 .. n : Shorter(st, n)[i] = st[i]
           /\ Stacked(st) => Stacked(Shorter(st, n))
           /\ \A c : Awaited(c, st) => Awaited(c, Shorter(st, n))
<1>1. Shorter(st, n) \in Seq(AllScreens) /\ Len(Shorter(st, n)) = n
  BY DEF Shorter
<1>2. \A i \in 1 .. n : Shorter(st, n)[i] = st[i]
  BY DEF Shorter
<1>3. Len(st) \in Nat /\ 1 .. n \subseteq 1 .. Len(st) /\ 1 .. n - 1 \subseteq 1 .. Len(st) - 1
      /\ 1 .. n - 1 \subseteq 1 .. n
  OBVIOUS
<1> HIDE DEF Shorter
<1>4. Stacked(st) => Stacked(Shorter(st, n))
  BY <1>1, <1>2, <1>3 DEF Stacked
<1>5. ASSUME NEW c, Awaited(c, st) PROVE Awaited(c, Shorter(st, n))
  <2> DEFINE s == Shorter(st, n)
  <2>1. \A i \in 1 .. n - 1 : s[i] = st[i] /\ i \in 1 .. Len(st) - 1
    BY <1>2, <1>3
  <2>2. c \in OnboardCalls => \A i \in 1 .. n :
            s[i] \in Outside \/ (\E j \in 1 .. i - 1 : s[j] = "TabsNavigator")
    <3> SUFFICES ASSUME c \in OnboardCalls, NEW i \in 1 .. n, s[i] \notin Outside
                 PROVE  \E j \in 1 .. i - 1 : s[j] = "TabsNavigator"
      OBVIOUS
    <3>1. st[i] \notin Outside /\ i \in 1 .. Len(st)
      BY <1>2
    <3>2. PICK j \in 1 .. i - 1 : st[j] = "TabsNavigator"
      BY <1>5, <3>1 DEF Awaited
    <3>3. j \in 1 .. n
      BY <3>2
    <3> QED
      BY <1>2, <3>2, <3>3
  <2> QED
    BY <1>1, <1>2, <1>3, <1>5, <2>1, <2>2 DEF Awaited
<1> QED
  BY <1>1, <1>2, <1>4, <1>5

LEMMA OntoIsOrdered ==
    ASSUME NEW st \in Seq(AllScreens), st # <<>>, NEW t \in AllScreens,
           Opening(Top(st), t)
    PROVE  /\ Stacked(st) => Stacked(Append(st, t))
           /\ \A c : Awaited(c, st) => Awaited(c, Append(st, t))
<1> DEFINE n == Len(st)
           s == Append(st, t)
<1>1. n \in Nat /\ n >= 1 /\ s \in Seq(AllScreens) /\ Len(s) = n + 1 /\ s[n + 1] = t
      /\ \A i \in 1 .. n : s[i] = st[i]
  OBVIOUS
<1>2. st[n] \notin Screens!Confirmations /\ t # "ConfirmSendOnChain"
      /\ (st[n] \in Over => t \in Over) /\ (t \in Registering => st[n] \in Registering)
      /\ (st[n] \in Outside => st[n] = "TabsNavigator" \/ t \in Outside)
  BY DEF Opening, Top
<1> HIDE DEF s, n
<1>3. ASSUME Stacked(st) PROVE Stacked(s)
  <2>1. ASSUME NEW i \in 1 .. n + 1, NEW j \in 1 .. n + 1, i < j, s[i] \in Screens!Confirmations
        PROVE  s[j] \in Over /\ (s[j] = "ConfirmSendOnChain" => s[i] # "ConfirmSendOnChain")
    <3>1. i \in 1 .. n /\ s[i] = st[i]
      BY <1>1, <2>1
    <3>2. CASE j \in 1 .. n
      BY <1>1, <1>3, <2>1, <3>1, <3>2 DEF Stacked, n
    <3>3. CASE j = n + 1
      <4>1. i < n
        BY <1>1, <1>2, <2>1, <3>1
      <4>2. st[n] \in Over
        BY <1>1, <1>3, <2>1, <3>1, <4>1 DEF Stacked, n
      <4> QED
        BY <1>1, <1>2, <3>3, <4>2
    <3> QED
      BY <1>1, <3>2, <3>3
  <2>2. ASSUME NEW i \in 1 .. n + 1, NEW j \in 1 .. n + 1, i < j, s[j] \in Registering
        PROVE  s[i] \in Registering
    <3>1. i \in 1 .. n /\ s[i] = st[i]
      BY <1>1, <2>2
    <3>2. CASE j \in 1 .. n
      BY <1>1, <1>3, <2>2, <3>1, <3>2 DEF Stacked, n
    <3>3. CASE j = n + 1
      <4>1. st[n] \in Registering
        BY <1>1, <1>2, <2>2, <3>3
      <4> QED
        BY <1>1, <1>3, <3>1, <4>1 DEF Stacked, n
    <3> QED
      BY <1>1, <3>2, <3>3
  <2> QED
    BY <1>1, <2>1, <2>2 DEF Stacked
<1>4. ASSUME NEW c, Awaited(c, st) PROVE Awaited(c, s)
  <2>1. c \notin OverCalls => \A i \in 1 .. n : s[i] \notin Screens!Confirmations
    BY <1>1, <1>2, <1>4 DEF Awaited, n
  <2>2. \A i \in 1 .. n : s[i] # Pays(c)
    <3>1. Pays(c) \in Screens!Confirmations \/ Pays(c) = "none"
      BY DEF Pays, Screens!Confirmations
    <3>2. st[n] # Pays(c)
      <4>1. st[n] # "none"
        <5>1. st[n] \in AllScreens
          BY <1>1 DEF n
        <5> QED
          BY <5>1 DEF AllScreens, Screens!Always, Screens!HomeAndChat, Screens!Wallet,
             Screens!Backups, Screens!SettingsAndPools, Screens!Locking
      <4> QED
        BY <1>2, <3>1, <4>1
    <3>3. \A i \in 1 .. n : i \in 1 .. n - 1 \/ i = n
      BY <1>1
    <3> QED
      BY <1>1, <1>4, <3>2, <3>3 DEF Awaited, n
  <2>3. c = "previewPayAddress" => \A i \in 1 .. n + 1 : s[i] # "ConfirmSendOnChain"
    <3>1. \A i \in 1 .. n + 1 : i \in 1 .. n \/ i = n + 1
      BY <1>1
    <3> QED
      BY <1>1, <1>2, <1>4, <3>1 DEF Awaited, n
  <2>4. ASSUME c \in OnboardCalls, NEW i \in 1 .. n + 1, s[i] \notin Outside
        PROVE  \E j \in 1 .. i - 1 : s[j] = "TabsNavigator"
    <3>1. CASE i \in 1 .. n
      <4>1. PICK j \in 1 .. i - 1 : st[j] = "TabsNavigator"
        BY <1>1, <1>4, <2>4, <3>1 DEF Awaited, n
      <4> QED
        BY <1>1, <3>1, <4>1
    <3>2. CASE i = n + 1
      <4>1. CASE st[n] = "TabsNavigator"
        BY <1>1, <3>2, <4>1
      <4>2. CASE st[n] # "TabsNavigator"
        <5>1. st[n] \notin Outside
          BY <1>1, <1>2, <2>4, <3>2, <4>2
        <5>2. PICK j \in 1 .. n - 1 : st[j] = "TabsNavigator"
          BY <1>1, <1>4, <2>4, <5>1 DEF Awaited, n
        <5> QED
          BY <1>1, <3>2, <5>2
      <4> QED
        BY <4>1, <4>2
    <3> QED
      BY <1>1, <3>1, <3>2
  <2> QED
    BY <1>1, <2>1, <2>2, <2>3, <2>4 DEF Awaited
<1> QED
  BY <1>3, <1>4 DEF s

LEMMA OntoIsStacked ==
    ASSUME NEW st \in Seq(AllScreens), st # <<>>, NEW t \in AllScreens, Stacked(st),
           \A i \in 1 .. Len(st) : st[i] \in Screens!Confirmations =>
               t \in Over /\ (t = "ConfirmSendOnChain" => st[i] # "ConfirmSendOnChain"),
           t \notin Registering
    PROVE  Stacked(Append(st, t))
<1> DEFINE n == Len(st)
           s == Append(st, t)
<1>1. n \in Nat /\ n >= 1 /\ s \in Seq(AllScreens) /\ Len(s) = n + 1 /\ s[n + 1] = t
      /\ \A i \in 1 .. n : s[i] = st[i]
  OBVIOUS
<1>2. \A i \in 1 .. n : st[i] \in Screens!Confirmations =>
          t \in Over /\ (t = "ConfirmSendOnChain" => st[i] # "ConfirmSendOnChain")
  OBVIOUS
<1> HIDE DEF s
<1>3. ASSUME NEW i \in 1 .. n + 1, NEW j \in 1 .. n + 1, i < j
      PROVE  /\ s[i] \in Screens!Confirmations =>
                s[j] \in Over /\ (s[j] = "ConfirmSendOnChain" => s[i] # "ConfirmSendOnChain")
             /\ s[j] \in Registering => s[i] \in Registering
  <2>1. i \in 1 .. n /\ s[i] = st[i] /\ (j \in 1 .. n \/ j = n + 1)
    BY <1>1, <1>3
  <2>2. CASE j \in 1 .. n
    BY <1>1, <1>3, <2>1, <2>2 DEF Stacked
  <2>3. CASE j = n + 1
    BY <1>1, <1>2, <2>1, <2>3
  <2> QED
    BY <2>1, <2>2, <2>3
<1> QED
  BY <1>1, <1>3 DEF Stacked, s

LEMMA InsteadIs ==
    ASSUME NEW st \in Seq(AllScreens), st # <<>>, NEW t \in AllScreens
    PROVE  /\ Instead(st, t) \in Seq(AllScreens) /\ Len(Instead(st, t)) = Len(st)
           /\ Len(st) \in Nat /\ Len(st) >= 1
           /\ Instead(st, t)[Len(st)] = t
           /\ \A i \in 1 .. Len(st) - 1 : Instead(st, t)[i] = st[i]
<1> DEFINE n == Len(st)
           f == SubSeq(st, 1, n - 1)
<1>1. n \in Nat /\ n >= 1
  OBVIOUS
<1>2. f \in Seq(AllScreens) /\ Len(f) = n - 1 /\ \A i \in 1 .. n - 1 : f[i] = st[i]
  <2>1. CASE n = 1
    <3>1. f = <<>>
      BY <2>1
    <3> QED
      BY <2>1, <3>1
  <2>2. CASE n > 1
    <3>1. n - 1 \in 1 .. Len(st)
      BY <1>1, <2>2
    <3> QED
      BY <3>1, ShorterIsOrdered DEF Shorter
  <2> HIDE DEF f, n
  <2>3. n = 1 \/ n > 1
    BY <1>1
  <2> QED
    BY <2>1, <2>2, <2>3
<1>3. Instead(st, t) = Append(f, t)
  BY DEF Instead
<1> HIDE DEF f
<1> QED
  BY <1>1, <1>2, <1>3

LEMMA InsteadIsStacked ==
    ASSUME NEW st \in Seq(AllScreens), st # <<>>, NEW t \in AllScreens, Stacked(st),
           \A i \in 1 .. Len(st) - 1 : st[i] \in Screens!Confirmations => t \in Over,
           t # "ConfirmSendOnChain", t \in Registering => Top(st) \in Registering
    PROVE  Stacked(Instead(st, t))
<1> DEFINE n == Len(st)
           s == Instead(st, t)
<1>1. /\ n \in Nat /\ n >= 1 /\ Len(s) = n /\ s[n] = t
      /\ \A i \in 1 .. n - 1 : s[i] = st[i]
  BY InsteadIs
<1> HIDE DEF s
<1>2. ASSUME NEW i \in 1 .. n, NEW j \in 1 .. n, i < j
      PROVE  /\ s[i] \in Screens!Confirmations =>
                s[j] \in Over /\ (s[j] = "ConfirmSendOnChain" => s[i] # "ConfirmSendOnChain")
             /\ s[j] \in Registering => s[i] \in Registering
  <2>1. i \in 1 .. n - 1 /\ s[i] = st[i] /\ (j \in 1 .. n - 1 \/ j = n)
    BY <1>1, <1>2
  <2>2. CASE j \in 1 .. n - 1
    BY <1>1, <1>2, <2>1, <2>2 DEF Stacked
  <2>3. CASE j = n
    <3>1. t \in Registering => st[n] \in Registering
      BY DEF Top
    <3> QED
      BY <1>1, <1>2, <2>1, <2>3, <3>1 DEF Stacked
  <2> QED
    BY <2>1, <2>2, <2>3
<1> QED
  BY <1>1, <1>2 DEF Stacked, s

\* What a user may have take the place of a screen.
Placing(x, t) ==
    /\ x # "TabsNavigator" \/ t \in Outside
    /\ x \notin Over \/ t \in Over
    /\ t \in Registering => x \in Registering
    /\ x \in Outside => t \in Outside
    /\ x \in Screens!Locking <=> t \in Screens!Locking
    /\ t \notin {"ConfirmSendOnChain", "PopupFederationEnded"}

LEMMA InsteadIsOrdered ==
    ASSUME NEW st \in Seq(AllScreens), st # <<>>, NEW t \in AllScreens,
           Placing(Top(st), t)
    PROVE  /\ Stacked(st) => Stacked(Instead(st, t))
           /\ \A c : Awaited(c, st) => Awaited(c, Instead(st, t))
<1> DEFINE n == Len(st)
           s == Instead(st, t)
<1>1. /\ n \in Nat /\ n >= 1 /\ Len(s) = n /\ s[n] = t
      /\ \A i \in 1 .. n - 1 : s[i] = st[i]
  BY InsteadIs
<1>2. t # "ConfirmSendOnChain" /\ (st[n] \in Over => t \in Over)
      /\ (t \in Registering => st[n] \in Registering) /\ (st[n] \in Outside => t \in Outside)
  BY DEF Placing, Top
<1>3. \A i \in 1 .. n - 1 : i \in 1 .. n /\ i < n
  BY <1>1
<1>4. ASSUME Stacked(st) PROVE Stacked(s)
  <2>1. \A i \in 1 .. n - 1 : st[i] \in Screens!Confirmations => t \in Over
    BY <1>1, <1>2, <1>3, <1>4 DEF Stacked
  <2> QED
    BY <1>2, <1>4, <2>1, InsteadIsStacked DEF Top
<1> HIDE DEF s
<1>5. ASSUME NEW c, Awaited(c, st) PROVE Awaited(c, s)
  <2>1. \A i \in 1 .. n : i \in 1 .. n - 1 \/ i = n
    BY <1>1
  <2>2. ASSUME c \in OnboardCalls, NEW i \in 1 .. n, s[i] \notin Outside
        PROVE  \E j \in 1 .. i - 1 : s[j] = "TabsNavigator"
    <3>1. st[i] \notin Outside
      BY <1>1, <1>2, <2>1, <2>2
    <3>2. PICK j \in 1 .. i - 1 : st[j] = "TabsNavigator"
      BY <1>1, <1>5, <2>2, <3>1 DEF Awaited
    <3>3. j \in 1 .. n - 1
      BY <1>1, <3>2
    <3> QED
      BY <1>1, <3>2, <3>3
  <2>3. c \notin OverCalls => \A i \in 1 .. n - 1 : s[i] \notin Screens!Confirmations
    BY <1>1, <1>5 DEF Awaited
  <2>4. \A i \in 1 .. n - 1 : s[i] # Pays(c)
    BY <1>1, <1>5 DEF Awaited
  <2>5. c = "previewPayAddress" => \A i \in 1 .. n : s[i] # "ConfirmSendOnChain"
    BY <1>1, <1>2, <1>3, <1>5, <2>1 DEF Awaited
  <2> QED
    BY <1>1, <2>2, <2>3, <2>4, <2>5 DEF Awaited
<1> QED
  BY <1>4, <1>5 DEF s

LEMMA AloneIsOrdered ==
    ASSUME NEW t, t \in Outside
    PROVE  Stacked(<<t>>) /\ \A c : Awaited(c, <<t>>)
<1> DEFINE s == <<t>>
<1>1. Len(s) = 1 /\ s[1] = t
  OBVIOUS
<1>2. t # "ConfirmSendOnChain"
  BY DEF Outside, Registering
<1> HIDE DEF s
<1>3. Stacked(s)
  BY <1>1 DEF Stacked
<1>4. ASSUME NEW c PROVE Awaited(c, s)
  BY <1>1, <1>2 DEF Awaited
<1> QED
  BY <1>3, <1>4 DEF s

LEMMA AppendIs ==
    ASSUME NEW st \in Seq(AllScreens), NEW t \in AllScreens
    PROVE  /\ Append(st, t) \in Seq(AllScreens) /\ Len(Append(st, t)) = Len(st) + 1
           /\ Append(st, t)[Len(st) + 1] = t
           /\ \A i \in 1 .. Len(st) : Append(st, t)[i] = st[i]
OBVIOUS

\* A room, or its settings.
RoomLike(s) == s = Screens!Room \/ s = Screens!RoomSettingsOf
LEMMA RoomIs ==
    ASSUME NEW s, RoomLike(s)
    PROVE  /\ s \in Seq(AllScreens) /\ Len(s) \in {2, 3}
           /\ s[1] = "TabsNavigator" /\ s[2] = "ChatRoomConversation"
           /\ Len(s) = 3 => s[3] = "RoomSettings"
<1>1. "TabsNavigator" \in AllScreens /\ "ChatRoomConversation" \in AllScreens
      /\ "RoomSettings" \in AllScreens
  BY DEF AllScreens, Screens!HomeAndChat
<1> DEFINE r == Screens!Room
<1>2. r \in Seq(AllScreens) /\ Len(r) = 2
      /\ r[1] = "TabsNavigator" /\ r[2] = "ChatRoomConversation"
  BY <1>1 DEF Screens!Room
<1>3. Screens!RoomSettingsOf = Append(r, "RoomSettings")
  BY DEF Screens!RoomSettingsOf
<1> HIDE DEF r
<1>4. Append(r, "RoomSettings") \in Seq(AllScreens) /\ Len(Append(r, "RoomSettings")) = 3
      /\ Append(r, "RoomSettings")[3] = "RoomSettings"
      /\ Append(r, "RoomSettings")[1] = r[1] /\ Append(r, "RoomSettings")[2] = r[2]
  BY <1>1, <1>2, AppendIs
<1> QED
  BY <1>2, <1>3, <1>4 DEF RoomLike, r

LEMMA RoomIsOrdered ==
    ASSUME NEW s, RoomLike(s)
    PROVE  Stacked(s) /\ \A c : Awaited(c, s)
<1>1. /\ Len(s) \in {2, 3} /\ s[1] = "TabsNavigator" /\ s[2] = "ChatRoomConversation"
      /\ Len(s) = 3 => s[3] = "RoomSettings"
  BY RoomIs
<1>2. \A i \in 1 .. Len(s) : i = 1 \/ i = 2 \/ (i = 3 /\ Len(s) = 3)
  <2>1. CASE Len(s) = 2
    BY <2>1
  <2>2. CASE Len(s) = 3
    BY <2>2
  <2> QED
    BY <1>1, <2>1, <2>2
<1>3. \A i \in 1 .. Len(s) : s[i] \notin Screens!Confirmations /\ (i # 1 => s[i] \notin Registering)
  BY <1>1, <1>2 DEF Screens!Confirmations, Registering
<1>4. Stacked(s)
  <2>1. \A j \in 1 .. Len(s) : s[j] \notin Registering
    BY <1>1, <1>3 DEF Registering
  <2> QED
    BY <1>3, <2>1 DEF Stacked
<1>5. ASSUME NEW c PROVE Awaited(c, s)
  <2>1. \A i \in 1 .. Len(s) : s[i] # Pays(c)
    BY <1>1, <1>2 DEF Pays
  <2>2. \A i \in 1 .. Len(s) : s[i] # "ConfirmSendOnChain"
    BY <1>1, <1>2
  <2>3. \A i \in 1 .. Len(s) : s[i] \in Outside \/ (\E j \in 1 .. i - 1 : s[j] = "TabsNavigator")
    <3>1. s[1] \in Outside
      BY <1>1 DEF Outside
    <3>2. \A i \in 1 .. Len(s) : i # 1 => 1 \in 1 .. i - 1
      BY <1>1
    <3> QED
      BY <1>1, <1>2, <3>1, <3>2
  <2> QED
    BY <1>1, <1>3, <2>1, <2>2, <2>3 DEF Awaited
<1> QED
  BY <1>4, <1>5

-----------------------------------------------------------------------------
\* The invariant through what becomes of the stack.
LEMMA MayStays ==
    ASSUME NEW sole, NEW a, NEW b, Steady(a, b), NEW t, May(sole, a, t)
    PROVE  May(sole, b, t)
<1>1. Screens!Routes(b) = Screens!Routes(a)
  BY DEF Steady, Screens!Routes
<1> QED
  BY <1>1 DEF Steady, May

LEMMA AwaitStays ==
    ASSUME NEW sole, NEW a, NEW b, Steady(a, b), NEW k, MayAwait(sole, a, k)
    PROVE  MayAwait(sole, b, k)
BY DEF Steady, MayAwait

LEMMA HoldsSteady ==
    ASSUME NEW sole, NEW st, NEW cs, NEW a, NEW b, Holds(sole, st, cs, a), Steady(a, b)
    PROVE  Holds(sole, st, cs, b)
<1>1. \A i \in 1 .. Len(st) : May(sole, b, st[i])
  BY MayStays DEF Holds
<1>2. \A k \in cs : MayAwait(sole, b, k)
  BY AwaitStays DEF Holds
<1> QED
  BY <1>1, <1>2 DEF Holds, Steady

LEMMA HoldsShorter ==
    ASSUME NEW sole, NEW st, NEW cs, NEW a, Holds(sole, st, cs, a), NEW n \in 1 .. Len(st)
    PROVE  Holds(sole, Shorter(st, n), cs, a)
<1>1. st \in Seq(AllScreens)
  BY DEF Holds
<1>2. /\ Shorter(st, n) \in Seq(AllScreens) /\ Len(Shorter(st, n)) = n
      /\ \A i \in 1 .. n : Shorter(st, n)[i] = st[i]
  BY <1>1, ShorterIsOrdered
<1>3. Ordered(st, cs) => Ordered(Shorter(st, n), cs)
  BY <1>1, ShorterIsOrdered DEF Ordered
<1>4. Shorter(st, n) # <<>> /\ \A i \in 1 .. n : i \in 1 .. Len(st)
  BY <1>1, <1>2
<1> HIDE DEF Shorter
<1>5. Whole(Shorter(st, n))
  BY <1>2, <1>4 DEF Holds, Whole
<1> QED
  BY <1>2, <1>3, <1>4, <1>5 DEF Holds

LEMMA MayOpen ==
    ASSUME NEW sole, NEW st, NEW cs, NEW a, Holds(sole, st, cs, a),
           NEW t, t \in Screens!Routes(a), Behind(Top(st), t),
           t \in PinScreens => a.backedUp, t \notin a.paid, t # "PopupFederationEnded"
    PROVE  May(sole, a, t)
<1>1. Len(st) \in 1 .. Len(st)
  BY DEF Holds
<1>2. May(sole, a, Top(st))
  BY <1>1 DEF Holds, Top
<1>3. ASSUME ~Screens!IsUnlocked(a, "app")
      PROVE  t \in Shut \/ (a.cancelled /\ t \in {"Splash", "Eula"})
  <2>1. t \in Screens!Always \/ t \in Screens!Locking
    BY <1>3 DEF Screens!Routes
  <2>2. Top(st) \in Shut \/ (a.cancelled /\ Top(st) \in {"Splash", "Eula"})
    BY <1>2, <1>3 DEF May
  <2>3. "Splash" \notin Shut
    BY DEF Shut, Registering, Screens!Locking
  <2>4. CASE t \in Screens!Locking
    BY <2>4 DEF Shut
  <2>5. CASE t \in Screens!Always
    BY <2>2, <2>3, <2>5 DEF Behind
  <2> QED
    BY <2>1, <2>4, <2>5
<1> QED
  BY <1>3 DEF May

LEMMA RoutesAre ==
    ASSUME NEW a, NEW t, t \in Screens!Routes(a) PROVE t \in AllScreens
BY DEF Screens!Routes, AllScreens

LEMMA TopIsLike ==
    ASSUME NEW st \in Seq(AllScreens), st # <<>>, Whole(st), NEW t,
           Top(st) \in Screens!Locking <=> t \in Screens!Locking
    PROVE  \A i \in 1 .. Len(st) : st[i] \in Screens!Locking <=> t \in Screens!Locking
<1>1. Len(st) \in 1 .. Len(st)
  OBVIOUS
<1> QED
  BY <1>1 DEF Whole, Top

\* While the app is unlocked there are none of the ways to unlock it.
LEMMA FreeIsWhole ==
    ASSUME NEW sole, NEW a, Screens!IsUnlocked(a, "app"), NEW s,
           \A i \in 1 .. Len(s) : May(sole, a, s[i])
    PROVE  Whole(s)
<1>1. \A t \in Screens!Routes(a) : t \notin Screens!Locking
  BY DEF Screens!Routes, Screens!Always, Screens!HomeAndChat, Screens!Wallet,
     Screens!Backups, Screens!SettingsAndPools, Screens!Locking
<1> QED
  BY <1>1 DEF May, Whole

LEMMA HoldsOnto ==
    ASSUME NEW sole, NEW st, NEW cs, NEW a, Holds(sole, st, cs, a),
           NEW t, May(sole, a, t), Opening(Top(st), t)
    PROVE  Holds(sole, Append(st, t), cs, a)
<1>1. st \in Seq(AllScreens) /\ st # <<>> /\ t \in AllScreens
  BY RoutesAre DEF Holds, May
<1> DEFINE s == Append(st, t)
<1>2. /\ s \in Seq(AllScreens) /\ s # <<>>
      /\ \A i \in 1 .. Len(s) : (i \in 1 .. Len(st) /\ s[i] = st[i]) \/ s[i] = t
  BY <1>1
<1>3. Ordered(st, cs) => Ordered(s, cs)
  BY <1>1, OntoIsOrdered DEF Ordered
<1> HIDE DEF s
<1>4. \A i \in 1 .. Len(s) : May(sole, a, s[i])
  BY <1>2 DEF Holds
<1>5. Whole(s)
  <2>1. \A i \in 1 .. Len(st) : st[i] \in Screens!Locking <=> t \in Screens!Locking
    BY <1>1, TopIsLike DEF Holds, Opening
  <2> QED
    BY <1>2, <2>1 DEF Whole
<1>6. Holds(sole, s, cs, a)
  BY <1>2, <1>3, <1>4, <1>5 DEF Holds
<1> QED
  BY <1>6 DEF s

LEMMA HoldsInstead ==
    ASSUME NEW sole, NEW st, NEW cs, NEW a, Holds(sole, st, cs, a),
           NEW t, May(sole, a, t), Placing(Top(st), t)
    PROVE  Holds(sole, Instead(st, t), cs, a)
<1>1. st \in Seq(AllScreens) /\ st # <<>> /\ t \in AllScreens
  BY RoutesAre DEF Holds, May
<1> DEFINE s == Instead(st, t)
<1>2. /\ s \in Seq(AllScreens) /\ s # <<>>
      /\ \A i \in 1 .. Len(s) : (i \in 1 .. Len(st) /\ s[i] = st[i]) \/ s[i] = t
  <2>1. /\ s \in Seq(AllScreens) /\ Len(s) = Len(st) /\ s[Len(st)] = t
        /\ \A i \in 1 .. Len(st) - 1 : s[i] = st[i]
        /\ Len(st) \in Nat /\ Len(st) >= 1
    BY <1>1, InsteadIs
  <2> HIDE DEF s
  <2>2. s # <<>>
    BY <2>1
  <2>3. \A i \in 1 .. Len(st) : i \in 1 .. Len(st) - 1 \/ i = Len(st)
    BY <2>1
  <2> QED
    BY <2>1, <2>2, <2>3
<1>3. Ordered(st, cs) => Ordered(s, cs)
  BY <1>1, InsteadIsOrdered DEF Ordered
<1> HIDE DEF s
<1>4. \A i \in 1 .. Len(s) : May(sole, a, s[i])
  BY <1>2 DEF Holds
<1>5. Whole(s)
  <2>1. \A i \in 1 .. Len(st) : st[i] \in Screens!Locking <=> t \in Screens!Locking
    BY <1>1, TopIsLike DEF Holds, Placing
  <2> QED
    BY <1>2, <2>1 DEF Whole
<1>6. Holds(sole, s, cs, a)
  BY <1>2, <1>3, <1>4, <1>5 DEF Holds
<1> QED
  BY <1>6 DEF s

LEMMA HoldsAnew ==
    ASSUME NEW sole, NEW st, NEW cs, NEW a, Holds(sole, st, cs, a), NEW s,
           s \in Seq(AllScreens), s # <<>>, \A i \in 1 .. Len(s) : May(sole, a, s[i]),
           Whole(s), Stacked(s), \A c : Awaited(c, s)
    PROVE  Holds(sole, s, cs, a)
BY DEF Holds, Ordered

-----------------------------------------------------------------------------
\* What a user does to the stack.
LEMMA Anyway ==
    ASSUME ScreensInv, UNCHANGED visit, Holds(Sole(visit), stack', calls', facts')
    PROVE  ScreensInv'
BY DEF ScreensInv, Sole

LEMMA TopIs ==
    ASSUME ScreensInv
    PROVE  /\ stack \in Seq(AllScreens) /\ stack # <<>> /\ Screens!Focused = Top(stack)
           /\ Holds(Sole(visit), stack, calls, facts)
           /\ Len(stack) \in Nat /\ Len(stack) \in 1 .. Len(stack)
           /\ Screens!Front(stack) = SubSeq(stack, 1, Len(stack) - 1)
           /\ \A t : Append(Screens!Front(stack), t) = Instead(stack, t)
           /\ \A i \in 1 .. Len(stack) : May(Sole(visit), facts, stack[i])
<1>1. stack \in Seq(AllScreens) /\ stack # <<>> /\ Holds(Sole(visit), stack, calls, facts)
  BY DEF ScreensInv, Holds
<1>2. Screens!Front(stack) = SubSeq(stack, 1, Len(stack) - 1)
  BY DEF Screens!Front
<1>3. Screens!Focused = Top(stack)
  BY DEF Screens!Focused, Screens!Last, Top
<1>4. Len(stack) \in Nat /\ Len(stack) \in 1 .. Len(stack)
  BY <1>1
<1>5. \A t : Append(Screens!Front(stack), t) = Instead(stack, t)
  BY <1>2 DEF Instead
<1> QED
  BY <1>1, <1>2, <1>3, <1>4, <1>5 DEF Holds

LEMMA SteadyRoutes ==
    ASSUME NEW a, NEW b, Steady(a, b) PROVE Screens!Routes(b) = Screens!Routes(a)
BY DEF Steady, Screens!Routes

\* A route is navigated to.
LEMMA NavigatedIs ==
    ASSUME NEW st \in Seq(AllScreens), st # <<>>, NEW a, NEW t
    PROVE  \/ t \notin Screens!Routes(a) /\ Screens!NavigatedOn(st, a, t) = st
           \/ /\ t \in Screens!Routes(a) /\ t \in Screens!ToSet(st)
              /\ \E n \in 1 .. Len(st) : Screens!NavigatedOn(st, a, t) = Shorter(st, n)
           \/ /\ t \in Screens!Routes(a) /\ t \notin Screens!ToSet(st)
              /\ Screens!NavigatedOn(st, a, t) = Append(st, t)
<1>1. CASE t \in Screens!Routes(a) /\ t \in Screens!ToSet(st)
  <2>1. LastIndex(st, t) \in 1 .. Len(st)
    BY <1>1, LastOf
  <2>2. {i \in 1 .. Len(st) : st[i] = t} # {}
    BY <1>1 DEF Screens!ToSet
  <2>3. Screens!NavigatedOn(st, a, t) = Shorter(st, LastIndex(st, t))
    BY <1>1, <2>2 DEF Screens!NavigatedOn, Screens!SelectLastInSeq, Shorter, LastIndex
  <2> QED
    BY <1>1, <2>1, <2>3
<1> QED
  BY <1>1 DEF Screens!NavigatedOn

LEMMA Opens ==
    ASSUME ScreensInv, NEW s, Screens!At(s), NEW t, Opening(s, t), Behind(s, t),
           Steady(facts, facts'), t \in PinScreens => facts'.backedUp, t \notin facts'.paid,
           UNCHANGED <<visit, calls>>, stack' = Screens!Navigated(t) \/ stack' = Screens!Pushed(t)
    PROVE  ScreensInv'
<1>1. Top(stack) = s
  BY TopIs DEF Screens!At
<1>2. Holds(Sole(visit), stack, calls, facts')
  BY TopIs, HoldsSteady
<1>3. Screens!Routes(facts') = Screens!Routes(facts)
  BY SteadyRoutes
<1>4. \/ stack' = stack
      \/ \E n \in 1 .. Len(stack) : stack' = Shorter(stack, n)
      \/ t \in Screens!Routes(facts') /\ stack' = Append(stack, t)
  <2>1. CASE stack' = Screens!Navigated(t)
    BY <1>3, <2>1, TopIs, NavigatedIs DEF Screens!Navigated
  <2>2. CASE stack' = Screens!Pushed(t)
    BY <1>3, <2>2 DEF Screens!Pushed
  <2> QED
    BY <2>1, <2>2
<1>5. ASSUME t \in Screens!Routes(facts') PROVE Holds(Sole(visit), Append(stack, t), calls, facts')
  <2>1. t # "PopupFederationEnded"
    BY DEF Opening
  <2>2. May(Sole(visit), facts', t)
    BY <1>1, <1>2, <1>5, <2>1, MayOpen
  <2> QED
    BY <1>1, <1>2, <2>2, HoldsOnto
<1>6. Holds(Sole(visit), stack', calls', facts')
  BY <1>2, <1>4, <1>5, HoldsShorter
<1> QED
  BY <1>6, Anyway

LEMMA Places ==
    ASSUME ScreensInv, NEW s, Screens!At(s), NEW t, Placing(s, t), Behind(s, t),
           Steady(facts, facts'), t \in PinScreens => facts'.backedUp, t \notin facts'.paid,
           UNCHANGED <<visit, calls>>, stack' = Screens!Replaced(t)
    PROVE  ScreensInv'
<1>1. Top(stack) = s
  BY TopIs DEF Screens!At
<1>2. Holds(Sole(visit), stack, calls, facts')
  BY TopIs, HoldsSteady
<1>3. \/ stack' = stack
      \/ t \in Screens!Routes(facts') /\ stack' = Instead(stack, t)
  BY SteadyRoutes, TopIs DEF Screens!Replaced
<1>4. ASSUME t \in Screens!Routes(facts') PROVE Holds(Sole(visit), Instead(stack, t), calls, facts')
  <2>1. t # "PopupFederationEnded"
    BY DEF Placing
  <2>2. May(Sole(visit), facts', t)
    BY <1>1, <1>2, <1>4, <2>1, MayOpen
  <2> QED
    BY <1>1, <1>2, <2>2, HoldsInstead
<1>5. Holds(Sole(visit), stack', calls', facts')
  BY <1>2, <1>3, <1>4
<1> QED
  BY <1>5, Anyway

LEMMA Starts ==
    ASSUME ScreensInv, NEW s, Screens!At(s), NEW t, t \in Outside, Behind(s, t),
           Steady(facts, facts'), t \in PinScreens => facts'.backedUp,
           UNCHANGED <<visit, calls>>, stack' = Screens!Reset(<<t>>)
    PROVE  ScreensInv'
<1>1. Top(stack) = s
  BY TopIs DEF Screens!At
<1>2. Holds(Sole(visit), stack, calls, facts')
  BY TopIs, HoldsSteady
<1>3. \/ stack' = stack
      \/ t \in Screens!Routes(facts') /\ stack' = <<t>>
  <2>1. t \in Screens!ToSet(<<t>>)
    BY DEF Screens!ToSet
  <2> QED
    BY <2>1, SteadyRoutes DEF Screens!Reset
<1>4. ASSUME t \in Screens!Routes(facts') PROVE Holds(Sole(visit), <<t>>, calls, facts')
  <2>1. t # "PopupFederationEnded" /\ t \notin Screens!Confirmations
    BY DEF Outside, Registering, Screens!Confirmations
  <2>2. t \notin facts'.paid
    BY <2>1 DEF Steady, Known, Screens!Facts
  <2>3. May(Sole(visit), facts', t)
    BY <1>1, <1>2, <1>4, <2>1, <2>2, MayOpen
  <2>4. <<t>> \in Seq(AllScreens) /\ <<t>> # <<>> /\ Len(<<t>>) = 1 /\ <<t>>[1] = t
    BY <1>4, RoutesAre
  <2>5. Stacked(<<t>>) /\ \A c : Awaited(c, <<t>>)
    BY AloneIsOrdered
  <2> DEFINE one == <<t>>
  <2>6. \A i \in 1 .. Len(one) : May(Sole(visit), facts', one[i])
    BY <2>3, <2>4
  <2>7. one \in Seq(AllScreens) /\ one # <<>> /\ Stacked(one) /\ \A c : Awaited(c, one)
    BY <2>4, <2>5
  <2>8. Whole(one)
    BY <2>4 DEF Whole
  <2> HIDE DEF one
  <2>9. Holds(Sole(visit), one, calls, facts')
    BY <1>2, <2>6, <2>7, <2>8, HoldsAnew
  <2> QED
    BY <2>9 DEF one
<1>5. Holds(Sole(visit), stack', calls', facts')
  BY <1>2, <1>3, <1>4
<1> QED
  BY <1>5, Anyway

\* While the app is unlocked, a room may be shown.
LEMMA RoomMay ==
    ASSUME NEW sole, NEW a, Known(a), Screens!IsUnlocked(a, "app"), NEW s, RoomLike(s)
    PROVE  /\ s \in Seq(AllScreens) /\ s # <<>> /\ \A i \in 1 .. Len(s) : May(sole, a, s[i])
           /\ Whole(s) /\ Stacked(s) /\ \A c : Awaited(c, s)
<1>1. \A t \in {"TabsNavigator", "ChatRoomConversation", "RoomSettings"} :
          /\ t \in AllScreens /\ t \in Screens!Routes(a) /\ t \notin Screens!Confirmations
          /\ t \notin PinScreens /\ t # "PopupFederationEnded"
  BY DEF AllScreens, Screens!Routes, Screens!HomeAndChat, Screens!Confirmations, PinScreens
<1>2. a.paid \subseteq Screens!Confirmations
  BY DEF Known, Screens!Facts
<1>3. \A t \in {"TabsNavigator", "ChatRoomConversation", "RoomSettings"} : May(sole, a, t)
  BY <1>1, <1>2 DEF May
<1>4. /\ Len(s) \in {2, 3} /\ s[1] = "TabsNavigator" /\ s[2] = "ChatRoomConversation"
      /\ Len(s) = 3 => s[3] = "RoomSettings"
  BY RoomIs
<1>5. \A i \in 1 .. Len(s) : i = 1 \/ i = 2 \/ (i = 3 /\ Len(s) = 3)
  <2>1. CASE Len(s) = 2
    BY <2>1
  <2>2. CASE Len(s) = 3
    BY <2>2
  <2> QED
    BY <1>4, <2>1, <2>2
<1>6. s \in Seq(AllScreens) /\ s # <<>>
  BY <1>4, RoomIs
<1>7. \A i \in 1 .. Len(s) : May(sole, a, s[i])
  BY <1>3, <1>4, <1>5
<1>8. Stacked(s) /\ \A c : Awaited(c, s)
  BY RoomIsOrdered
<1>9. Whole(s)
  BY <1>7, FreeIsWhole
<1> QED
  BY <1>6, <1>7, <1>8, <1>9

LEMMA Rooms ==
    ASSUME ScreensInv, NEW s, Screens!At(s), s \notin Shut \cup {"Splash", "Eula"},
           NEW st, RoomLike(st), UNCHANGED <<visit, calls, facts>>, stack' = Screens!Reset(st)
    PROVE  ScreensInv'
<1>1. Top(stack) = s
  BY TopIs DEF Screens!At
<1>2. Screens!IsUnlocked(facts, "app")
  BY <1>1, TopIs DEF May, Top
<1>3. Known(facts) /\ Holds(Sole(visit), stack, calls, facts)
  BY TopIs DEF Holds
<1>4. Holds(Sole(visit), st, calls, facts)
  BY <1>2, <1>3, RoomMay, HoldsAnew
<1>5. Holds(Sole(visit), stack', calls', facts')
  BY <1>3, <1>4 DEF Screens!Reset
<1> QED
  BY <1>5, Anyway

LEMMA Shrinks ==
    ASSUME ScreensInv, UNCHANGED <<visit, calls, facts>>, stack' = Screens!WentBack
    PROVE  ScreensInv'
<1>1. \/ stack' = stack
      \/ Len(stack) - 1 \in 1 .. Len(stack) /\ stack' = Shorter(stack, Len(stack) - 1)
  BY TopIs DEF Screens!WentBack, Shorter
<1>2. Holds(Sole(visit), stack', calls', facts')
  BY <1>1, TopIs, HoldsShorter
<1> QED
  BY <1>2, Anyway

LEMMA StaysSteady == ASSUME ScreensInv PROVE Steady(facts, facts)
BY TopIs DEF Holds, Steady

LEMMA NotPaid ==
    ASSUME NEW a, Known(a), NEW t, t \notin Screens!Confirmations PROVE t \notin a.paid
BY DEF Known, Screens!Facts

\* Screens that a button leads to.
MayLead(s, t) == Opening(s, t) /\ Behind(s, t) /\ t \notin Screens!Confirmations
LEMMA Leading ==
    ASSUME ScreensInv, NEW s, NEW to, Screens!Leads(s, to),
           \A t \in to : MayLead(s, t) /\ (t \in PinScreens => facts.backedUp)
    PROVE  ScreensInv'
<1>1. PICK t \in to : Screens!Show(Screens!Navigated(t)) /\ Screens!At(s)
  BY DEF Screens!Leads
<1>2. UNCHANGED <<visit, calls, facts>> /\ stack' = Screens!Navigated(t)
  BY <1>1 DEF Screens!Show
<1>3. Known(facts) /\ Steady(facts, facts)
  BY TopIs, StaysSteady DEF Holds
<1>4. t \notin facts.paid /\ Opening(s, t) /\ Behind(s, t)
  BY <1>3, NotPaid DEF MayLead
<1> QED
  BY <1>1, <1>2, <1>3, <1>4, Opens

-----------------------------------------------------------------------------
\* What a user has a screen call.
Calling(x, c) ==
    /\ x \in Over => c \in OverCalls
    /\ Pays(c) \in {x, "none"}
    /\ c = "previewPayAddress" => x \notin Over /\ x \notin Screens!Confirmations
    /\ c \in OnboardCalls => x \in Registering
LEMMA CalledIsAwaited ==
    ASSUME NEW st \in Seq(AllScreens), st # <<>>, Stacked(st), NEW c, Calling(Top(st), c)
    PROVE  Awaited(c, st)
<1> DEFINE n == Len(st)
<1>1. n \in Nat /\ n >= 1 /\ Top(st) = st[n] /\ \A i \in 1 .. n : i \in 1 .. n - 1 \/ i = n
  BY DEF Top
<1>2. \A i \in 1 .. n - 1 : i \in 1 .. n /\ n \in 1 .. n /\ i < n
  BY <1>1
<1>3. \A i \in 1 .. n - 1 : st[i] \in Screens!Confirmations =>
          st[n] \in Over /\ (st[n] = "ConfirmSendOnChain" => st[i] # "ConfirmSendOnChain")
  BY <1>2 DEF Stacked
<1>4. c \notin OverCalls => \A i \in 1 .. n - 1 : st[i] \notin Screens!Confirmations
  BY <1>1, <1>3 DEF Calling
<1>5. ASSUME NEW i \in 1 .. n - 1 PROVE st[i] # Pays(c)
  <2>1. st[i] # "none"
    <3>1. st[i] \in AllScreens
      BY <1>2
    <3> QED
      BY <3>1 DEF AllScreens, Screens!Always, Screens!HomeAndChat, Screens!Wallet,
         Screens!Backups, Screens!SettingsAndPools, Screens!Locking
  <2>2. Pays(c) \in Screens!Confirmations \cup {"none"}
    BY DEF Pays, Screens!Confirmations
  <2>3. \A t \in Screens!Confirmations : t \in Over => t = "ConfirmSendOnChain"
    BY DEF Screens!Confirmations, Over
  <2>4. Pays(c) = "none" \/ Pays(c) = st[n]
    BY <1>1 DEF Calling
  <2> QED
    BY <1>3, <2>1, <2>2, <2>3, <2>4
<1>6. c = "previewPayAddress" => \A i \in 1 .. n : st[i] # "ConfirmSendOnChain"
  <2>1. "ConfirmSendOnChain" \in Screens!Confirmations
    BY DEF Screens!Confirmations
  <2> QED
    BY <1>1, <1>3, <2>1 DEF Calling
<1>7. ASSUME c \in OnboardCalls, NEW i \in 1 .. n PROVE st[i] \in Outside
  <2>1. st[n] \in Registering
    BY <1>1, <1>7 DEF Calling
  <2>2. st[i] \in Registering
    BY <1>1, <1>2, <2>1 DEF Stacked
  <2> QED
    BY <2>2 DEF Outside
<1> QED
  BY <1>4, <1>5, <1>6, <1>7 DEF Awaited

\* A call from behind the lock is one of few.
ShutCalls(x, c) == x \in Shut \cup {"Splash", "Eula"} => c \in LockedCalls
LEMMA Awaits ==
    ASSUME ScreensInv, NEW s, Screens!At(s), NEW c \in Awaitable, Calling(s, c), ShutCalls(s, c),
           c = "checkMnemonic" => facts.status,
           s # "PopupFederationEnded" => c # "leaveEndedFederation",
           Screens!MayCall(c), Screens!Await(c),
           UNCHANGED <<visit, stack>>, Steady(facts, facts')
    PROVE  ScreensInv'
<1> DEFINE it == [call |-> c, named |-> facts.named, active |-> facts.active, mounted |-> TRUE]
           sole == Sole(visit)
<1>1. Top(stack) = s
  BY TopIs DEF Screens!At
<1>2. calls' = calls \cup {it}
  BY DEF Screens!Await
<1>3. it \in Call /\ it.call = c /\ it.mounted
  BY TopIs DEF Holds, Known, Screens!Facts, Call
<1> HIDE DEF it, sole
<1>4. Holds(sole, stack, calls, facts) /\ May(sole, facts, s)
  BY <1>1, TopIs DEF Top, sole
<1>5. sole => calls = {}
  <2>1. sole => visit.calls = 1
    BY DEF sole, Sole
  <2>2. IsFiniteSet(calls)
    BY <1>4 DEF Holds
  <2>3. Cardinality(calls) < visit.calls
    <3>1. Screens!Cardinality(calls) = Cardinality(calls)
      BY DEF Screens!Cardinality, Cardinality
    <3> QED
      BY <3>1 DEF Screens!MayCall
  <2>4. Cardinality(calls) \in Nat
    BY <2>2, FS_CardinalityType
  <2>5. sole => Cardinality(calls) < 1
    BY <2>1, <2>3
  <2> DEFINE n == Cardinality(calls)
  <2>6. n \in Nat
    BY <2>4
  <2> HIDE DEF n
  <2>7. n < 1 => n = 0
    BY <2>6
  <2> QED
    BY <2>2, <2>5, <2>7, FS_EmptySet DEF n
<1>6. MayAwait(sole, facts, it)
  <2>1. ~Screens!IsUnlocked(facts, "app") => c \in LockedCalls
    BY <1>4 DEF May, ShutCalls
  <2>2. sole => c # "leaveEndedFederation"
    BY <1>4 DEF May
  <2> QED
    BY <1>3, <2>1, <2>2 DEF MayAwait
<1>7. sole => Ordered(stack, calls')
  <2> SUFFICES ASSUME sole PROVE Ordered(stack, calls')
    OBVIOUS
  <2>1. calls' = {it}
    BY <1>2, <1>5
  <2>2. Stacked(stack)
    BY <1>4 DEF Holds, Ordered
  <2>3. Awaited(c, stack)
    BY <1>1, <2>2, TopIs, CalledIsAwaited
  <2> QED
    BY <1>3, <2>1, <2>2, <2>3 DEF Ordered
<1>8. IsFiniteSet(calls')
  BY <1>2, <1>4, FS_AddElement DEF Holds
<1>9. Holds(sole, stack, calls', facts)
  BY <1>2, <1>4, <1>6, <1>7, <1>8 DEF Holds
<1>10. Holds(sole, stack', calls', facts')
  BY <1>9, HoldsSteady
<1> QED
  BY <1>10, Anyway DEF sole

LEMMA Calls ==
    ASSUME ScreensInv, NEW s, NEW c \in Awaitable, Screens!Calls(s, c), Calling(s, c),
           ShutCalls(s, c), c = "checkMnemonic" => facts.status,
           s # "PopupFederationEnded" => c # "leaveEndedFederation"
    PROVE  ScreensInv'
<1>1. Screens!At(s) /\ Screens!MayCall(c) /\ Screens!Await(c) /\ UNCHANGED <<visit, stack, facts>>
  BY DEF Screens!Calls
<1>2. Steady(facts, facts')
  BY <1>1, StaysSteady
<1> QED
  BY <1>1, <1>2, Awaits

-----------------------------------------------------------------------------
\* What the end of a call that is awaited finds, and what it may make of the stack.
Pending(k, c) ==
    /\ k \in calls /\ k.call = c /\ k.mounted
    /\ MayAwait(Sole(visit), facts, k)
    /\ Sole(visit) => Stacked(stack) /\ Awaited(c, stack)
Fine(sole, s, b) ==
    /\ s \in Seq(AllScreens) /\ s # <<>>
    /\ Whole(s) /\ \A i \in 1 .. Len(s) : May(sole, b, s[i])
    /\ sole => Stacked(s)

LEMMA Ending ==
    ASSUME ScreensInv, NEW seen, NEW c, NEW s, NEW b, Screens!EndsHavingSeen(seen, c, s, b),
           Steady(facts, b), \A k : Pending(k, c) => Fine(Sole(visit), s, b)
    PROVE  ScreensInv'
<1> DEFINE sole == Sole(visit)
<1>1. PICK k \in calls :
          /\ k.call = c /\ calls' = calls \ {k}
          /\ stack' = IF k.mounted THEN s ELSE stack
          /\ facts' = b /\ UNCHANGED visit
  BY DEF Screens!EndsHavingSeen
<1>2. Holds(sole, stack, calls, facts) /\ Holds(sole, stack, calls, b)
  BY TopIs, HoldsSteady
<1>3. Fine(sole, stack', b)
  <2>1. CASE k.mounted
    <3>1. Pending(k, c)
      BY <1>1, <1>2, <2>1 DEF Pending, Holds, Ordered
    <3> QED
      BY <1>1, <2>1, <3>1
  <2>2. CASE ~k.mounted
    BY <1>1, <1>2, <2>2 DEF Fine, Holds, Ordered
  <2> QED
    BY <2>1, <2>2
<1> HIDE DEF sole
<1>4. IsFiniteSet(calls') /\ \A l \in calls' : MayAwait(sole, b, l)
  BY <1>1, <1>2, FS_RemoveElement DEF Holds
<1>5. sole => calls' = {}
  BY <1>1, <1>2 DEF Holds, Ordered
<1>6. Holds(sole, stack', calls', facts')
  BY <1>1, <1>2, <1>3, <1>4, <1>5 DEF Holds, Ordered, Fine
<1> QED
  BY <1>1, <1>6, Anyway DEF sole

\* What a screen that a call opens must be like, from what is awaited and routes alone.
LEMMA PendingMay ==
    ASSUME ScreensInv, NEW k, NEW c, Pending(k, c), NEW b, Steady(facts, b), NEW t,
           t \in Screens!Routes(facts),
           c \in LockedCalls => t \notin Screens!Always \cup Screens!Locking,
           t \in PinScreens => b.backedUp, t \notin b.paid, t # "PopupFederationEnded"
    PROVE  May(Sole(visit), b, t) /\ Screens!IsUnlocked(b, "app")
<1>1. Screens!Routes(b) = Screens!Routes(facts)
  BY SteadyRoutes
<1>2. Screens!IsUnlocked(b, "app")
  <2> SUFFICES ASSUME ~Screens!IsUnlocked(b, "app") PROVE FALSE
    OBVIOUS
  <2>1. ~Screens!IsUnlocked(facts, "app")
    BY DEF Steady
  <2>2. c \in LockedCalls
    BY <2>1 DEF Pending, MayAwait
  <2>3. t \in Screens!Always \/ t \in Screens!Locking
    BY <2>1 DEF Screens!Routes
  <2> QED
    BY <2>2, <2>3
<1> QED
  BY <1>1, <1>2 DEF May

LEMMA FineAsIs ==
    ASSUME ScreensInv, NEW b, Steady(facts, b) PROVE Fine(Sole(visit), stack, b)
<1>1. Holds(Sole(visit), stack, calls, b)
  BY TopIs, HoldsSteady
<1> QED
  BY <1>1 DEF Holds, Ordered, Fine

LEMMA FineInstead ==
    ASSUME ScreensInv, NEW k, NEW c, Pending(k, c), NEW b, Steady(facts, b), NEW t,
           May(Sole(visit), b, t), Screens!IsUnlocked(b, "app"), c \in OverCalls => t \in Over,
           t \notin Registering, t # "ConfirmSendOnChain"
    PROVE  Fine(Sole(visit), Instead(stack, t), b)
<1>1. stack \in Seq(AllScreens) /\ stack # <<>> /\ t \in AllScreens
  BY TopIs, RoutesAre DEF May
<1>2. Fine(Sole(visit), stack, b)
  BY FineAsIs
<1> DEFINE s == Instead(stack, t)
           n == Len(stack)
<1>3. /\ s \in Seq(AllScreens) /\ Len(s) = n /\ n \in Nat /\ n >= 1 /\ s[n] = t
      /\ \A i \in 1 .. n - 1 : s[i] = stack[i]
  BY <1>1, InsteadIs
<1>4. \A i \in 1 .. n : i \in 1 .. n - 1 \/ i = n
  BY <1>3
<1>5. Sole(visit) => Stacked(s)
  <2>1. ASSUME Sole(visit), NEW i \in 1 .. n - 1, stack[i] \in Screens!Confirmations
        PROVE  t \in Over
    BY <2>1 DEF Pending, Awaited
  <2> QED
    BY <1>1, <2>1, InsteadIsStacked DEF Pending
<1> HIDE DEF s
<1>6. s # <<>>
  BY <1>3
<1>7. \A i \in 1 .. n : May(Sole(visit), b, s[i])
  BY <1>2, <1>3, <1>4 DEF Fine
<1>8. Whole(s)
  BY <1>3, <1>7, FreeIsWhole
<1>9. Fine(Sole(visit), s, b)
  BY <1>3, <1>5, <1>6, <1>7, <1>8 DEF Fine
<1> QED
  BY <1>9 DEF s

LEMMA FineOnto ==
    ASSUME ScreensInv, NEW b, Steady(facts, b), NEW t,
           May(Sole(visit), b, t), Screens!IsUnlocked(b, "app"), t \notin Registering,
           Sole(visit) => \A i \in 1 .. Len(stack) : stack[i] \in Screens!Confirmations =>
               t \in Over /\ (t = "ConfirmSendOnChain" => stack[i] # "ConfirmSendOnChain")
    PROVE  Fine(Sole(visit), Append(stack, t), b)
<1>1. stack \in Seq(AllScreens) /\ stack # <<>> /\ t \in AllScreens
  BY TopIs, RoutesAre DEF May
<1>2. Fine(Sole(visit), stack, b)
  BY FineAsIs
<1> DEFINE s == Append(stack, t)
<1>3. /\ s \in Seq(AllScreens) /\ s # <<>>
      /\ \A i \in 1 .. Len(s) : (i \in 1 .. Len(stack) /\ s[i] = stack[i]) \/ s[i] = t
  BY <1>1
<1>4. Sole(visit) => Stacked(s)
  BY <1>1, <1>2, OntoIsStacked DEF Fine
<1> HIDE DEF s
<1>5. \A i \in 1 .. Len(s) : May(Sole(visit), b, s[i])
  BY <1>2, <1>3 DEF Fine
<1>6. Whole(s)
  BY <1>5, FreeIsWhole
<1>7. Fine(Sole(visit), s, b)
  BY <1>3, <1>4, <1>5, <1>6 DEF Fine
<1> QED
  BY <1>7 DEF s

LEMMA FineShorter ==
    ASSUME ScreensInv, NEW b, Steady(facts, b), NEW n \in 1 .. Len(stack)
    PROVE  Fine(Sole(visit), Shorter(stack, n), b)
<1>1. Holds(Sole(visit), stack, calls, b)
  BY TopIs, HoldsSteady
<1>2. Holds(Sole(visit), Shorter(stack, n), calls, b)
  BY <1>1, HoldsShorter
<1> QED
  BY <1>2 DEF Holds, Ordered, Fine

LEMMA FineAlone ==
    ASSUME NEW sole, NEW b, NEW t, May(sole, b, t), t \in Outside
    PROVE  Fine(sole, <<t>>, b)
<1> DEFINE one == <<t>>
<1>1. one \in Seq(AllScreens) /\ one # <<>> /\ Len(one) = 1 /\ one[1] = t
  BY RoutesAre DEF May
<1>2. Stacked(one)
  BY AloneIsOrdered
<1> HIDE DEF one
<1>3. \A i \in 1 .. Len(one) : May(sole, b, one[i])
  BY <1>1
<1>4. Whole(one)
  BY <1>1 DEF Whole
<1>5. Fine(sole, one, b)
  BY <1>1, <1>2, <1>3, <1>4 DEF Fine
<1> QED
  BY <1>5 DEF one

\* What the end of a call opens, or has take the place of what is shown.
MayEnd(c, b, t) ==
    /\ c \in LockedCalls => t \notin Screens!Always \cup Screens!Locking
    /\ t \in PinScreens => b.backedUp
    /\ t \notin b.paid /\ t # "PopupFederationEnded" /\ t \notin Registering

LEMMA EndsInstead ==
    ASSUME ScreensInv, NEW seen, NEW c, NEW t, NEW b,
           Screens!EndsHavingSeen(seen, c, Screens!Replaced(t), b), Steady(facts, b),
           MayEnd(c, b, t), c \in OverCalls => t \in Over, t # "ConfirmSendOnChain"
    PROVE  ScreensInv'
<1> DEFINE s == Screens!Replaced(t)
<1>1. \/ s = stack
      \/ t \in Screens!Routes(facts) /\ s = Instead(stack, t)
  BY TopIs DEF Screens!Replaced
<1> HIDE DEF s
<1>2. ASSUME NEW k, Pending(k, c) PROVE Fine(Sole(visit), s, b)
  <2>1. CASE s = stack
    BY <2>1, FineAsIs
  <2>2. CASE t \in Screens!Routes(facts) /\ s = Instead(stack, t)
    <3>1. May(Sole(visit), b, t) /\ Screens!IsUnlocked(b, "app")
      BY <1>2, <2>2, PendingMay DEF MayEnd
    <3> QED
      BY <1>2, <2>2, <3>1, FineInstead DEF MayEnd
  <2> QED
    BY <1>1, <2>1, <2>2
<1> QED
  BY <1>2, Ending DEF s

\* Onto a confirmation comes only what may be over it; other calls are awaited where
\* there is none.
EndsOver(c, t) ==
    \/ t \in Over /\ t # "ConfirmSendOnChain"
    \/ c = "previewPayAddress" /\ t = "ConfirmSendOnChain"
    \/ c \in OnboardCalls /\ t = "TabsNavigator"
    \/ c = "leaveEndedFederation"
LEMMA EndsOnto ==
    ASSUME ScreensInv, NEW seen, NEW c, NEW t, NEW b, NEW s,
           Screens!EndsHavingSeen(seen, c, s, b), Steady(facts, b),
           s = Screens!Navigated(t) \/ (s = Screens!Pushed(t) /\ c \notin OnboardCalls),
           MayEnd(c, b, t), EndsOver(c, t)
    PROVE  ScreensInv'
<1>1. \/ s = stack
      \/ \E n \in 1 .. Len(stack) : s = Shorter(stack, n)
      \/ /\ t \in Screens!Routes(facts) /\ s = Append(stack, t)
         /\ c \in OnboardCalls => t \notin Screens!ToSet(stack)
  <2>1. CASE s = Screens!Navigated(t)
    BY <2>1, TopIs, NavigatedIs DEF Screens!Navigated
  <2>2. CASE s = Screens!Pushed(t) /\ c \notin OnboardCalls
    BY <2>2 DEF Screens!Pushed
  <2> QED
    BY <2>1, <2>2
<1>2. ASSUME NEW k, Pending(k, c) PROVE Fine(Sole(visit), s, b)
  <2>1. CASE s = stack
    BY <2>1, FineAsIs
  <2>2. CASE \E n \in 1 .. Len(stack) : s = Shorter(stack, n)
    BY <2>2, FineShorter
  <2>3. CASE /\ t \in Screens!Routes(facts) /\ s = Append(stack, t)
             /\ c \in OnboardCalls => t \notin Screens!ToSet(stack)
    <3>1. May(Sole(visit), b, t) /\ Screens!IsUnlocked(b, "app")
      BY <1>2, <2>3, PendingMay DEF MayEnd
    <3>2. ASSUME Sole(visit), NEW i \in 1 .. Len(stack), stack[i] \in Screens!Confirmations
          PROVE  t \in Over /\ (t = "ConfirmSendOnChain" => stack[i] # "ConfirmSendOnChain")
      <4>1. Awaited(c, stack) /\ c # "leaveEndedFederation"
        BY <1>2, <3>2 DEF Pending, MayAwait
      <4>2. CASE t \in Over /\ t # "ConfirmSendOnChain"
        BY <4>2
      <4>3. CASE c = "previewPayAddress" /\ t = "ConfirmSendOnChain"
        BY <4>1, <4>3 DEF Awaited, Over
      <4>4. CASE c \in OnboardCalls /\ t = "TabsNavigator"
        <5>1. \A j \in 1 .. Len(stack) : stack[j] # "TabsNavigator"
          BY <2>3, <4>4 DEF Screens!ToSet
        <5>2. stack[i] \in Outside
          <6>1. \A j \in 1 .. i - 1 : j \in 1 .. Len(stack)
            OBVIOUS
          <6> QED
            BY <4>1, <4>4, <5>1, <6>1 DEF Awaited
        <5>3. stack[i] \notin Screens!Confirmations
          BY <5>2 DEF Outside, Registering, Screens!Confirmations
        <5> QED
          BY <3>2, <5>3
      <4> QED
        BY <4>1, <4>2, <4>3, <4>4 DEF EndsOver
    <3> QED
      BY <2>3, <3>1, <3>2, FineOnto DEF MayEnd
  <2> QED
    BY <1>1, <2>1, <2>2, <2>3
<1> QED
  BY <1>2, Ending

LEMMA EndsAlone ==
    ASSUME ScreensInv, NEW seen, NEW c, NEW t, NEW b,
           Screens!EndsHavingSeen(seen, c, Screens!Reset(<<t>>), b), Steady(facts, b),
           MayEnd(c, b, t), t \in Outside
    PROVE  ScreensInv'
<1> DEFINE s == Screens!Reset(<<t>>)
<1>1. \/ s = stack
      \/ t \in Screens!Routes(facts) /\ s = <<t>>
  <2>1. t \in Screens!ToSet(<<t>>)
    BY DEF Screens!ToSet
  <2> QED
    BY <2>1 DEF Screens!Reset
<1> HIDE DEF s
<1>2. ASSUME NEW k, Pending(k, c) PROVE Fine(Sole(visit), s, b)
  <2>1. CASE s = stack
    BY <2>1, FineAsIs
  <2>2. CASE t \in Screens!Routes(facts) /\ s = <<t>>
    <3>1. May(Sole(visit), b, t) /\ Screens!IsUnlocked(b, "app")
      BY <1>2, <2>2, PendingMay DEF MayEnd
    <3> QED
      BY <2>2, <3>1, FineAlone
  <2> QED
    BY <1>1, <2>1, <2>2
<1> QED
  BY <1>2, Ending DEF s

LEMMA EndsInRoom ==
    ASSUME ScreensInv, NEW seen, NEW c, NEW st,
           Screens!EndsHavingSeen(seen, c, Screens!Reset(st), facts),
           RoomLike(st), c \notin LockedCalls
    PROVE  ScreensInv'
<1> DEFINE s == Screens!Reset(st)
<1>1. s = stack \/ s = st
  BY DEF Screens!Reset
<1> HIDE DEF s
<1>2. Steady(facts, facts)
  BY StaysSteady
<1>3. ASSUME NEW k, Pending(k, c) PROVE Fine(Sole(visit), s, facts)
  <2>1. CASE s = stack
    BY <1>2, <2>1, FineAsIs
  <2>2. CASE s = st
    <3>1. Screens!IsUnlocked(facts, "app")
      BY <1>3 DEF Pending, MayAwait
    <3>2. Known(facts)
      BY TopIs DEF Holds
    <3> QED
      BY <2>2, <3>1, <3>2, RoomMay DEF Fine
  <2> QED
    BY <1>1, <2>1, <2>2
<1> QED
  BY <1>2, <1>3, Ending DEF s

\* A payment that is awaited ends: its confirmation gives way to something else.
Alike(a, b) ==
    /\ Known(b) /\ b.status = a.status
    /\ Screens!IsUnlocked(b, "app") = Screens!IsUnlocked(a, "app")
    /\ a.backedUp => b.backedUp
    /\ a.cancelled => b.cancelled
PayingBy(b, c, s) ==
    /\ Alike(facts, b) /\ b.paid \subseteq facts.paid \cup {s}
    /\ (\A k \in calls : k.call = c => ~k.mounted) => b.paid \subseteq facts.paid

LEMMA MayAlike ==
    ASSUME NEW sole, NEW a, NEW b, Alike(a, b), NEW t, May(sole, a, t), sole => t \notin b.paid
    PROVE  May(sole, b, t)
<1>1. Screens!Routes(b) = Screens!Routes(a)
  BY DEF Alike, Screens!Routes
<1> QED
  BY <1>1 DEF Alike, May

LEMMA Confirming ==
    ASSUME ScreensInv, NEW seen, NEW c, NEW s, NEW st, NEW b,
           Screens!EndsHavingSeen(seen, c, st, b), PayingBy(b, c, s),
           \A k : Pending(k, c) => /\ Fine(Sole(visit), st, facts)
                                   /\ Sole(visit) => \A i \in 1 .. Len(st) : st[i] # s
    PROVE  ScreensInv'
<1> DEFINE sole == Sole(visit)
<1>1. PICK k \in calls :
          /\ k.call = c /\ calls' = calls \ {k}
          /\ stack' = IF k.mounted THEN st ELSE stack
          /\ facts' = b /\ UNCHANGED visit
  BY DEF Screens!EndsHavingSeen
<1>2. Holds(sole, stack, calls, facts) /\ Alike(facts, b)
  BY TopIs DEF PayingBy
<1>3. /\ Fine(sole, stack', facts)
      /\ sole => \A i \in 1 .. Len(stack') : stack'[i] \notin b.paid
  <2>1. CASE k.mounted
    <3>1. Pending(k, c)
      BY <1>1, <1>2, <2>1 DEF Pending, Holds, Ordered
    <3>2. Fine(sole, st, facts) /\ (sole => \A i \in 1 .. Len(st) : st[i] # s)
      BY <3>1
    <3>3. sole => \A i \in 1 .. Len(st) : st[i] \notin facts.paid
      BY <3>2 DEF Fine, May
    <3> QED
      BY <1>1, <2>1, <3>2, <3>3 DEF PayingBy
  <2>2. CASE ~k.mounted
    <3>1. stack' = stack
      BY <1>1, <2>2
    <3>2. Fine(sole, stack, facts)
      BY <1>2 DEF Fine, Holds, Ordered
    <3>3. sole => b.paid \subseteq facts.paid
      BY <1>1, <1>2, <2>2 DEF PayingBy, Holds, Ordered
    <3>4. sole => \A i \in 1 .. Len(stack) : stack[i] \notin facts.paid
      BY <3>2 DEF Fine, May
    <3> QED
      BY <3>1, <3>2, <3>3, <3>4
  <2> QED
    BY <2>1, <2>2
<1>4. \A i \in 1 .. Len(stack') : May(sole, b, stack'[i])
  BY <1>2, <1>3, MayAlike DEF Fine
<1> HIDE DEF sole
<1>5. IsFiniteSet(calls') /\ \A l \in calls' : MayAwait(sole, b, l)
  <2>1. \A l \in calls : MayAwait(sole, b, l)
    BY <1>2 DEF Holds, MayAwait, Alike
  <2> QED
    BY <1>1, <1>2, <2>1, FS_RemoveElement DEF Holds
<1>6. sole => calls' = {}
  BY <1>1, <1>2 DEF Holds, Ordered
<1>7. Holds(sole, stack', calls', facts')
  BY <1>1, <1>2, <1>3, <1>4, <1>5, <1>6 DEF Holds, Ordered, Fine, Alike
<1> QED
  BY <1>1, <1>7, Anyway DEF sole

LEMMA PaysInstead ==
    ASSUME ScreensInv, NEW seen, NEW c, NEW t, NEW b,
           Screens!EndsHavingSeen(seen, c, Screens!Replaced(t), b), PayingBy(b, c, Pays(c)),
           c \notin LockedCalls, c \in OverCalls => t \in Over,
           t \in Screens!HomeAndChat \cup Screens!Wallet \cup Screens!Backups
                   \cup Screens!SettingsAndPools,
           t \notin Screens!Confirmations \cup PinScreens \cup Registering,
           t # "PopupFederationEnded", t # Pays(c)
    PROVE  ScreensInv'
<1> DEFINE s == Screens!Replaced(t)
<1>1. Steady(facts, facts) /\ t \notin facts.paid
  BY StaysSteady, TopIs, NotPaid DEF Holds
<1>2. ASSUME Screens!IsUnlocked(facts, "app")
      PROVE  t \in Screens!Routes(facts) /\ s = Instead(stack, t)
  BY <1>2, TopIs DEF Screens!Replaced, Screens!Routes
<1> HIDE DEF s
<1>3. ASSUME NEW k, Pending(k, c)
      PROVE  Fine(Sole(visit), s, facts) /\ (Sole(visit) => \A i \in 1 .. Len(s) : s[i] # Pays(c))
  <2>1. Screens!IsUnlocked(facts, "app")
    BY <1>3 DEF Pending, MayAwait
  <2>2. t \in Screens!Routes(facts) /\ s = Instead(stack, t)
    BY <1>2, <2>1
  <2>3. May(Sole(visit), facts, t)
    BY <1>1, <1>3, <2>2, PendingMay
  <2>4. Fine(Sole(visit), s, facts)
    BY <1>1, <1>3, <2>1, <2>2, <2>3, FineInstead DEF Screens!Confirmations
  <2>5. /\ Len(s) = Len(stack) /\ Len(stack) \in Nat /\ s[Len(stack)] = t
        /\ \A i \in 1 .. Len(stack) - 1 : s[i] = stack[i]
    <3>1. t \in AllScreens
      BY <2>2, RoutesAre
    <3> QED
      BY <2>2, <3>1, TopIs, InsteadIs
  <2>6. Sole(visit) => \A i \in 1 .. Len(stack) - 1 : stack[i] # Pays(c)
    BY <1>3 DEF Pending, Awaited
  <2>7. \A i \in 1 .. Len(stack) : i \in 1 .. Len(stack) - 1 \/ i = Len(stack)
    BY <2>5
  <2> QED
    BY <2>4, <2>5, <2>6, <2>7
<1> QED
  BY <1>3, Confirming DEF s

-----------------------------------------------------------------------------
\* The screens, one by one.
\* Screens with nothing but buttons that lead to others: before a wallet is there,
LEMMA LeadsOutside ==
    ASSUME ScreensInv,
           \/ Screens!Splash \/ Screens!PublicFederations
           \/ Screens!ChooseRecoveryMethod \/ Screens!RecoveryWalletOptions
           \/ Screens!RecoveryWalletTransfer \/ Screens!SocialRecoveryFailure
    PROVE  ScreensInv'
<1> USE DEF MayLead, Opening, Behind, Outside, Over, Registering, Shut, PinScreens,
    Screens!Confirmations, Screens!Locking, Screens!Always
<1>1. CASE Screens!Splash
  BY <1>1, Leading DEF Screens!Splash
<1>2. CASE Screens!PublicFederations
  BY <1>2, Leading DEF Screens!PublicFederations
<1>3. CASE Screens!ChooseRecoveryMethod
  BY <1>3, Leading DEF Screens!ChooseRecoveryMethod
<1>4. CASE Screens!RecoveryWalletOptions
  BY <1>4, Leading DEF Screens!RecoveryWalletOptions
<1>5. CASE Screens!RecoveryWalletTransfer
  BY <1>5, Leading DEF Screens!RecoveryWalletTransfer
<1>6. CASE Screens!SocialRecoveryFailure
  BY <1>6, Leading DEF Screens!SocialRecoveryFailure
<1> QED
  BY <1>1, <1>2, <1>3, <1>4, <1>5, <1>6

\* and in it.
LEMMA LeadsInside ==
    ASSUME ScreensInv,
           \/ Screens!ChooseBackupMethod \/ Screens!StartPersonalBackup
           \/ Screens!DeveloperSettings \/ Screens!FediModSettings
           \/ Screens!StartSocialBackup \/ Screens!RecordBackupVideo
           \/ Screens!CompleteSocialBackup \/ Screens!StartRecoveryAssist
           \/ Screens!SendOfflineAmount \/ Screens!SendOfflineQr
           \/ Screens!BitcoinRequest \/ Screens!StableBalanceIntro
           \/ Screens!StabilityHome \/ Screens!ChatRoomInvite
    PROVE  ScreensInv'
<1> USE DEF MayLead, Opening, Behind, Outside, Over, Registering, Shut, PinScreens,
    Screens!Confirmations, Screens!Locking, Screens!Always
<1>1. CASE Screens!ChooseBackupMethod
  BY <1>1, Leading DEF Screens!ChooseBackupMethod
<1>2. CASE Screens!StartPersonalBackup
  BY <1>2, Leading DEF Screens!StartPersonalBackup
<1>3. CASE Screens!DeveloperSettings
  BY <1>3, Leading DEF Screens!DeveloperSettings
<1>4. CASE Screens!FediModSettings
  BY <1>4, Leading DEF Screens!FediModSettings
<1>5. CASE Screens!StartSocialBackup
  BY <1>5, Leading DEF Screens!StartSocialBackup
<1>6. CASE Screens!RecordBackupVideo
  BY <1>6, Leading DEF Screens!RecordBackupVideo
<1>7. CASE Screens!CompleteSocialBackup
  BY <1>7, Leading DEF Screens!CompleteSocialBackup
<1>8. CASE Screens!StartRecoveryAssist
  BY <1>8, Leading DEF Screens!StartRecoveryAssist
<1>9. CASE Screens!SendOfflineAmount
  BY <1>9, Leading DEF Screens!SendOfflineAmount
<1>10. CASE Screens!SendOfflineQr
  BY <1>10, Leading DEF Screens!SendOfflineQr
<1>11. CASE Screens!BitcoinRequest
  BY <1>11, Leading DEF Screens!BitcoinRequest
<1>12. CASE Screens!StableBalanceIntro
  BY <1>12, Leading DEF Screens!StableBalanceIntro
<1>13. CASE Screens!StabilityHome
  BY <1>13, Leading DEF Screens!StabilityHome
<1>14. CASE Screens!ChatRoomInvite
  BY <1>14, Leading DEF Screens!ChatRoomInvite
<1> QED
  BY <1>1, <1>2, <1>3, <1>4, <1>5, <1>6, <1>7, <1>8, <1>9, <1>10, <1>11, <1>12, <1>13, <1>14

LEMMA LeadsFurther ==
    ASSUME ScreensInv,
           \/ Screens!StabilityInitiated \/ Screens!TabsNavigator \/ Screens!Settings
    PROVE  ScreensInv'
<1> USE DEF MayLead, Opening, Behind, Outside, Over, Registering, Shut, PinScreens,
    Screens!Confirmations, Screens!Locking, Screens!Always
<1>1. CASE Screens!StabilityInitiated
  BY <1>1, Leading DEF Screens!StabilityInitiated
<1>2. CASE Screens!TabsNavigator
  BY <1>2, Leading DEF Screens!TabsNavigator
<1>3. CASE Screens!Settings
  BY <1>3, Leading DEF Screens!Settings, Screens!CreateOrManagePin
<1> QED
  BY <1>1, <1>2, <1>3

LEMMA Resetting ==
    ASSUME ScreensInv, NEW s, Screens!At(s), NEW t, Screens!Show(Screens!Reset(<<t>>)),
           t \in Outside, Behind(s, t), t \in PinScreens => facts.backedUp
    PROVE  ScreensInv'
<1>1. UNCHANGED <<visit, calls, facts>> /\ stack' = Screens!Reset(<<t>>)
  BY DEF Screens!Show
<1>2. Steady(facts, facts)
  BY StaysSteady
<1> QED
  BY <1>1, <1>2, Starts

LEMMA Replacing ==
    ASSUME ScreensInv, NEW s, Screens!At(s), NEW t, Screens!Show(Screens!Replaced(t)),
           Placing(s, t), Behind(s, t), t \notin PinScreens, t \notin Screens!Confirmations
    PROVE  ScreensInv'
<1>1. UNCHANGED <<visit, calls, facts>> /\ stack' = Screens!Replaced(t)
  BY DEF Screens!Show
<1>2. Steady(facts, facts) /\ t \notin facts.paid
  BY StaysSteady, TopIs, NotPaid DEF Holds
<1> QED
  BY <1>1, <1>2, Places

LEMMA Pushing ==
    ASSUME ScreensInv, NEW s, Screens!At(s), NEW t, Screens!Show(Screens!Pushed(t)),
           MayLead(s, t), t \notin PinScreens
    PROVE  ScreensInv'
<1>1. UNCHANGED <<visit, calls, facts>> /\ stack' = Screens!Pushed(t)
  BY DEF Screens!Show
<1>2. Steady(facts, facts) /\ t \notin facts.paid
  BY StaysSteady, TopIs, NotPaid DEF Holds, MayLead
<1> QED
  BY <1>1, <1>2, Opens DEF MayLead

\* What was on the stack was there for a reason.
LEMMA AtMay ==
    ASSUME ScreensInv, NEW s, Screens!At(s)
    PROVE  May(Sole(visit), facts, s) /\ Top(stack) = s
BY TopIs DEF Screens!At, Top

\* Screens that are left for others.
LEMMA Moving ==
    ASSUME ScreensInv,
           \/ Screens!Back \/ Screens!Close \/ Screens!Done \/ Screens!UploadAvatarImage
           \/ Screens!FederationGreeting \/ Screens!PersonalRecoverySuccess
           \/ Screens!SelectRecoveryFileSuccess \/ Screens!SelectRecoveryFileFailure
           \/ Screens!SocialRecoverySuccess \/ Screens!CreatedPin \/ Screens!AddFediMod
           \/ Screens!SocialBackupProcessing \/ Screens!ConfirmRecoveryAssist
           \/ Screens!NewMessage
    PROVE  ScreensInv'
<1> DEFINE s == Screens!Focused
<1>1. Screens!At(s)
  BY DEF Screens!At
<1>2. "TabsNavigator" \in Outside /\ "TabsNavigator" \notin PinScreens
      /\ \A x : Behind(x, "TabsNavigator")
  BY DEF Outside, PinScreens, Behind, Screens!Always
<1> USE DEF Placing, Behind, Outside, Over, Registering, Shut, PinScreens,
    Screens!Confirmations, Screens!Locking, Screens!Always
<1>3. CASE Screens!Back
  <2>1. CASE Screens!Show(Screens!WentBack)
    BY <2>1, Shrinks DEF Screens!Show
  <2>2. CASE s \in Screens!BackButtonAtBottom /\ Screens!Show(Screens!Navigated("TabsNavigator"))
    <3>1. MayLead(s, "TabsNavigator")
      BY <2>2 DEF Screens!BackButtonAtBottom, MayLead, Opening
    <3>2. UNCHANGED <<visit, calls, facts>> /\ stack' = Screens!Navigated("TabsNavigator")
      BY <2>2 DEF Screens!Show
    <3>3. Steady(facts, facts) /\ "TabsNavigator" \notin facts.paid
      BY StaysSteady, TopIs, NotPaid DEF Holds
    <3> HIDE DEF s
    <3> QED
      BY <1>1, <1>2, <3>1, <3>2, <3>3, Opens DEF MayLead
  <2> QED
    BY <1>3, <2>1, <2>2 DEF Screens!Back
<1>4. CASE Screens!Close
  BY <1>1, <1>2, <1>4, Resetting DEF Screens!Close
<1>5. CASE Screens!Done
  BY <1>2, <1>5, Resetting DEF Screens!Done, Screens!Success
<1>6. CASE Screens!UploadAvatarImage
  BY <1>6, Resetting DEF Screens!UploadAvatarImage
<1>7. CASE Screens!FederationGreeting
  BY <1>7, Replacing DEF Screens!FederationGreeting
<1>8. CASE Screens!PersonalRecoverySuccess
  BY <1>8, Resetting DEF Screens!PersonalRecoverySuccess, Screens!Success
<1>9. CASE Screens!SelectRecoveryFileSuccess
  BY <1>9, Resetting DEF Screens!SelectRecoveryFileSuccess, Screens!Success
<1>10. CASE Screens!SelectRecoveryFileFailure
  BY <1>10, Replacing DEF Screens!SelectRecoveryFileFailure
<1>11. CASE Screens!SocialRecoverySuccess
  <2>1. Screens!Entry(facts) \in {"LockScreen", "TabsNavigator", "Splash"}
    BY DEF Screens!Entry
  <2> QED
    BY <1>11, <2>1, Resetting DEF Screens!SocialRecoverySuccess, Screens!Success
<1>12. CASE Screens!CreatedPin
  <2>1. facts.backedUp
    BY <1>12, AtMay DEF Screens!CreatedPin, Screens!Success, May
  <2> QED
    BY <1>12, <2>1, Resetting DEF Screens!CreatedPin, Screens!Success
<1>13. CASE Screens!AddFediMod
  BY <1>13, Shrinks DEF Screens!AddFediMod, Screens!Show
<1>14. CASE Screens!SocialBackupProcessing
  BY <1>14, Replacing DEF Screens!SocialBackupProcessing
<1>15. CASE Screens!ConfirmRecoveryAssist
  BY <1>15, Replacing DEF Screens!ConfirmRecoveryAssist
<1>16. CASE Screens!NewMessage
  BY <1>16, Replacing, Pushing DEF Screens!NewMessage, MayLead, Opening
<1> QED
  BY <1>3, <1>4, <1>5, <1>6, <1>7, <1>8, <1>9, <1>10, <1>11, <1>12, <1>13, <1>14, <1>15, <1>16

-----------------------------------------------------------------------------
\* What the ends of calls change of the facts.
LEMMA SteadyBut ==
    ASSUME ScreensInv, NEW b \in Screens!Facts,
           b.pin = facts.pin, b.status = facts.status, b.protected = facts.protected,
           b.unlocked = facts.unlocked, b.backedUp = facts.backedUp,
           b.cancelled = facts.cancelled, b.paid \subseteq facts.paid
    PROVE  Steady(facts, b)
<1>1. Known(facts)
  BY TopIs DEF Holds
<1> QED
  BY <1>1 DEF Steady, Known, Screens!IsUnlocked

LEMMA SteadyNamed ==
    ASSUME ScreensInv, NEW b, b \in BOOLEAN PROVE Steady(facts, [facts EXCEPT !.named = b])
<1> DEFINE a == [facts EXCEPT !.named = b]
<1>1. facts \in Screens!Facts
  BY TopIs DEF Holds, Known
<1>2. a \in Screens!Facts /\ a.pin = facts.pin /\ a.status = facts.status
      /\ a.protected = facts.protected /\ a.unlocked = facts.unlocked
      /\ a.backedUp = facts.backedUp /\ a.cancelled = facts.cancelled /\ a.paid = facts.paid
  BY <1>1 DEF Screens!Facts
<1> HIDE DEF a
<1>3. Steady(facts, a)
  BY <1>2, SteadyBut
<1> QED
  BY <1>3 DEF a

LEMMA SteadyJoined ==
    ASSUME ScreensInv, NEW feds \in SUBSET Feds, NEW active \in Feds \cup {"none"}
    PROVE  /\ Steady(facts, [facts EXCEPT !.joined = feds, !.active = active])
           /\ Steady(facts, [facts EXCEPT !.joined = feds, !.leaving = "none",
                                          !.active = active])
<1> DEFINE a == [facts EXCEPT !.joined = feds, !.active = active]
           d == [facts EXCEPT !.joined = feds, !.leaving = "none", !.active = active]
<1>1. facts \in Screens!Facts
  BY TopIs DEF Holds, Known
<1>2. a \in Screens!Facts /\ a.pin = facts.pin /\ a.status = facts.status
      /\ a.protected = facts.protected /\ a.unlocked = facts.unlocked
      /\ a.backedUp = facts.backedUp /\ a.cancelled = facts.cancelled /\ a.paid = facts.paid
  BY <1>1 DEF Screens!Facts
<1>3. d \in Screens!Facts /\ d.pin = facts.pin /\ d.status = facts.status
      /\ d.protected = facts.protected /\ d.unlocked = facts.unlocked
      /\ d.backedUp = facts.backedUp /\ d.cancelled = facts.cancelled /\ d.paid = facts.paid
  BY <1>1 DEF Screens!Facts
<1> HIDE DEF a, d
<1>4. Steady(facts, a) /\ Steady(facts, d)
  BY <1>2, <1>3, SteadyBut
<1> QED
  BY <1>4 DEF a, d

LEMMA SteadyLeft ==
    ASSUME ScreensInv, NEW f, NEW b, b \in Screens!LeavesOf(f) PROVE Steady(facts, b)
<1> DEFINE rest == facts.joined \ {f}
<1>1. facts.joined \in SUBSET Feds /\ facts.active \in Feds \cup {"none"}
  BY TopIs DEF Holds, Known, Screens!Facts
<1>2. PICK g \in Feds \cup {"none"} :
          b = [facts EXCEPT !.joined = rest, !.leaving = "none", !.active = g]
  BY <1>1 DEF Screens!LeavesOf
<1>3. rest \in SUBSET Feds
  BY <1>1
<1> HIDE DEF rest
<1> QED
  BY <1>2, <1>3, SteadyJoined

LEMMA SteadyLeaving ==
    ASSUME ScreensInv, NEW f \in Feds \cup {"none"}
    PROVE  Steady(facts, [facts EXCEPT !.leaving = f])
<1> DEFINE a == [facts EXCEPT !.leaving = f]
<1>1. facts \in Screens!Facts
  BY TopIs DEF Holds, Known
<1>2. a \in Screens!Facts /\ a.pin = facts.pin /\ a.status = facts.status
      /\ a.protected = facts.protected /\ a.unlocked = facts.unlocked
      /\ a.backedUp = facts.backedUp /\ a.cancelled = facts.cancelled /\ a.paid = facts.paid
  BY <1>1 DEF Screens!Facts
<1> HIDE DEF a
<1>3. Steady(facts, a)
  BY <1>2, SteadyBut
<1> QED
  BY <1>3 DEF a

LEMMA SteadyRecovery ==
    ASSUME ScreensInv
    PROVE  /\ Steady(facts, [facts EXCEPT !.indexed = TRUE])
           /\ Steady(facts, [facts EXCEPT !.begun = TRUE])
           /\ Steady(facts, [facts EXCEPT !.lock = TRUE])
           /\ Steady(facts, [facts EXCEPT !.beforePin = TRUE])
           /\ Steady(facts, [facts EXCEPT !.begun = FALSE, !.recovering = FALSE,
                                          !.indexed = FALSE])
<1> DEFINE a == [facts EXCEPT !.indexed = TRUE]
           b == [facts EXCEPT !.begun = TRUE]
           c == [facts EXCEPT !.lock = TRUE]
           d == [facts EXCEPT !.beforePin = TRUE]
           e == [facts EXCEPT !.begun = FALSE, !.recovering = FALSE, !.indexed = FALSE]
<1>1. facts \in Screens!Facts
  BY TopIs DEF Holds, Known
<1> DEFINE Same(x) == /\ x \in Screens!Facts /\ x.pin = facts.pin /\ x.status = facts.status
                      /\ x.protected = facts.protected /\ x.unlocked = facts.unlocked
                      /\ x.backedUp = facts.backedUp /\ x.cancelled = facts.cancelled
                      /\ x.paid = facts.paid
<1>2. Same(a)
  BY <1>1 DEF Screens!Facts
<1>3. Same(b)
  BY <1>1 DEF Screens!Facts
<1>4. Same(c)
  BY <1>1 DEF Screens!Facts
<1>5. Same(d)
  BY <1>1 DEF Screens!Facts
<1>6. Same(e)
  BY <1>1 DEF Screens!Facts
<1> HIDE DEF a, b, c, d, e
<1>7. \A x : Same(x) => Steady(facts, x)
  BY SteadyBut
<1>8. Steady(facts, a) /\ Steady(facts, b) /\ Steady(facts, c) /\ Steady(facts, d)
      /\ Steady(facts, e)
  BY <1>2, <1>3, <1>4, <1>5, <1>6, <1>7
<1> QED
  BY <1>8 DEF a, b, c, d, e

LEMMA SteadyAsked ==
    ASSUME ScreensInv, NEW t
    PROVE  Steady(facts, Screens!Asked(t)) /\ t \notin Screens!Asked(t).paid
<1> DEFINE a == Screens!Asked(t)
<1>1. facts \in Screens!Facts
  BY TopIs DEF Holds, Known
<1>2. a \in Screens!Facts /\ a.pin = facts.pin /\ a.status = facts.status
      /\ a.protected = facts.protected /\ a.unlocked = facts.unlocked
      /\ a.backedUp = facts.backedUp /\ a.cancelled = facts.cancelled
      /\ a.paid = facts.paid \ {t}
  BY <1>1 DEF Screens!Facts, Screens!Asked
<1> HIDE DEF a
<1>3. Steady(facts, a) /\ t \notin a.paid
  BY <1>2, SteadyBut
<1> QED
  BY <1>3 DEF a

\* The calls that screens make.
Called(s, c) ==
    /\ c \in Awaitable /\ Calling(s, c) /\ ShutCalls(s, c)
    /\ c \notin {"checkMnemonic", "leaveEndedFederation"}
LEMMA CalledAre ==
    /\ Called("EnterDisplayName", "setDisplayName")
    /\ Called("JoinFederation", "joinFederation")
    /\ Called("PersonalRecovery", "recoverFromMnemonic")
    /\ Called("RecoveryDeviceSelection", "transferExistingWallet")
    /\ Called("RecoveryNewWallet", "createNewWallet")
    /\ Called("LocateSocialRecovery", "validateRecoveryFile")
    /\ Called("SelectRecoveryFileFailure", "validateRecoveryFile")
    /\ Called("CompleteSocialRecovery", "recoveryQr")
    /\ Called("CompleteSocialRecovery", "completeSocialRecovery")
    /\ Called("BugReport", "submitBugReport")
    /\ Called("ScanSocialRecoveryCode", "socialRecoveryDownloadVerificationDoc")
    /\ Called("CompleteRecoveryAssist", "approveSocialRecoveryRequest")
    /\ Called("ConfirmSendEcash", "generateEcash")
    /\ Called("SendOnChainAmount", "previewPayAddress")
    /\ Called("ReceiveLightning", "generateInvoice")
    /\ Called("ReceiveLightning", "lnurlWithdraw")
    /\ Called("ConfirmReceiveOffline", "receiveEcash")
    /\ Called("StabilityConfirmDeposit", "increaseStableBalance")
    /\ Called("StabilityConfirmWithdraw", "decreaseStableBalance")
    /\ Called("CreateGroup", "createMatrixRoom")
    /\ Called("ChatUserConversation", "sendMatrixDirectMessage")
    /\ Called("ChatWallet", "sendMatrixPaymentRequest")
    /\ Called("ConfirmSendChatPayment", "sendMatrixPaymentPush")
    /\ Called("EditGroup", "setMatrixRoomName")
    /\ Called("ScanMemberCode", "inviteUserToMatrixRoom")
    /\ Called("ConfirmJoinPublicGroup", "joinMatrixRoom")
    /\ Called("ConfirmSendOnChain", "payAddress")
    /\ Called("ConfirmSendLightning", "payInvoice")
    /\ Called("ConfirmReceiveCashu", "meltCashuTokens")
<1>1. Called("EnterDisplayName", "setDisplayName")
  BY DEF Called, Awaitable, Calling, ShutCalls, Pays, OverCalls, OnboardCalls, LockedCalls, Over,
     Registering, Shut, Screens!Locking, Screens!Confirmations
<1>2. Called("JoinFederation", "joinFederation")
  BY DEF Called, Awaitable, Calling, ShutCalls, Pays, OverCalls, OnboardCalls, LockedCalls, Over,
     Registering, Shut, Screens!Locking, Screens!Confirmations
<1>3. Called("PersonalRecovery", "recoverFromMnemonic")
  BY DEF Called, Awaitable, Calling, ShutCalls, Pays, OverCalls, OnboardCalls, LockedCalls, Over,
     Registering, Shut, Screens!Locking, Screens!Confirmations
<1>4. Called("RecoveryDeviceSelection", "transferExistingWallet")
  BY DEF Called, Awaitable, Calling, ShutCalls, Pays, OverCalls, OnboardCalls, LockedCalls, Over,
     Registering, Shut, Screens!Locking, Screens!Confirmations
<1>5. Called("RecoveryNewWallet", "createNewWallet")
  BY DEF Called, Awaitable, Calling, ShutCalls, Pays, OverCalls, OnboardCalls, LockedCalls, Over,
     Registering, Shut, Screens!Locking, Screens!Confirmations
<1>6. Called("LocateSocialRecovery", "validateRecoveryFile")
  BY DEF Called, Awaitable, Calling, ShutCalls, Pays, OverCalls, OnboardCalls, LockedCalls, Over,
     Registering, Shut, Screens!Locking, Screens!Confirmations
<1>7. Called("SelectRecoveryFileFailure", "validateRecoveryFile")
  BY DEF Called, Awaitable, Calling, ShutCalls, Pays, OverCalls, OnboardCalls, LockedCalls, Over,
     Registering, Shut, Screens!Locking, Screens!Confirmations
<1>8. Called("CompleteSocialRecovery", "recoveryQr")
  BY DEF Called, Awaitable, Calling, ShutCalls, Pays, OverCalls, OnboardCalls, LockedCalls, Over,
     Registering, Shut, Screens!Locking, Screens!Confirmations
<1>9. Called("CompleteSocialRecovery", "completeSocialRecovery")
  BY DEF Called, Awaitable, Calling, ShutCalls, Pays, OverCalls, OnboardCalls, LockedCalls, Over,
     Registering, Shut, Screens!Locking, Screens!Confirmations
<1>10. Called("BugReport", "submitBugReport")
  BY DEF Called, Awaitable, Calling, ShutCalls, Pays, OverCalls, OnboardCalls, LockedCalls, Over,
     Registering, Shut, Screens!Locking, Screens!Confirmations
<1>11. Called("ScanSocialRecoveryCode", "socialRecoveryDownloadVerificationDoc")
  BY DEF Called, Awaitable, Calling, ShutCalls, Pays, OverCalls, OnboardCalls, LockedCalls, Over,
     Registering, Shut, Screens!Locking, Screens!Confirmations
<1>12. Called("CompleteRecoveryAssist", "approveSocialRecoveryRequest")
  BY DEF Called, Awaitable, Calling, ShutCalls, Pays, OverCalls, OnboardCalls, LockedCalls, Over,
     Registering, Shut, Screens!Locking, Screens!Confirmations
<1>13. Called("ConfirmSendEcash", "generateEcash")
  BY DEF Called, Awaitable, Calling, ShutCalls, Pays, OverCalls, OnboardCalls, LockedCalls, Over,
     Registering, Shut, Screens!Locking, Screens!Confirmations
<1>14. Called("SendOnChainAmount", "previewPayAddress")
  BY DEF Called, Awaitable, Calling, ShutCalls, Pays, OverCalls, OnboardCalls, LockedCalls, Over,
     Registering, Shut, Screens!Locking, Screens!Confirmations
<1>15. Called("ReceiveLightning", "generateInvoice")
  BY DEF Called, Awaitable, Calling, ShutCalls, Pays, OverCalls, OnboardCalls, LockedCalls, Over,
     Registering, Shut, Screens!Locking, Screens!Confirmations
<1>16. Called("ReceiveLightning", "lnurlWithdraw")
  BY DEF Called, Awaitable, Calling, ShutCalls, Pays, OverCalls, OnboardCalls, LockedCalls, Over,
     Registering, Shut, Screens!Locking, Screens!Confirmations
<1>17. Called("ConfirmReceiveOffline", "receiveEcash")
  BY DEF Called, Awaitable, Calling, ShutCalls, Pays, OverCalls, OnboardCalls, LockedCalls, Over,
     Registering, Shut, Screens!Locking, Screens!Confirmations
<1>18. Called("StabilityConfirmDeposit", "increaseStableBalance")
  BY DEF Called, Awaitable, Calling, ShutCalls, Pays, OverCalls, OnboardCalls, LockedCalls, Over,
     Registering, Shut, Screens!Locking, Screens!Confirmations
<1>19. Called("StabilityConfirmWithdraw", "decreaseStableBalance")
  BY DEF Called, Awaitable, Calling, ShutCalls, Pays, OverCalls, OnboardCalls, LockedCalls, Over,
     Registering, Shut, Screens!Locking, Screens!Confirmations
<1>20. Called("CreateGroup", "createMatrixRoom")
  BY DEF Called, Awaitable, Calling, ShutCalls, Pays, OverCalls, OnboardCalls, LockedCalls, Over,
     Registering, Shut, Screens!Locking, Screens!Confirmations
<1>21. Called("ChatUserConversation", "sendMatrixDirectMessage")
  BY DEF Called, Awaitable, Calling, ShutCalls, Pays, OverCalls, OnboardCalls, LockedCalls, Over,
     Registering, Shut, Screens!Locking, Screens!Confirmations
<1>22. Called("ChatWallet", "sendMatrixPaymentRequest")
  BY DEF Called, Awaitable, Calling, ShutCalls, Pays, OverCalls, OnboardCalls, LockedCalls, Over,
     Registering, Shut, Screens!Locking, Screens!Confirmations
<1>23. Called("ConfirmSendChatPayment", "sendMatrixPaymentPush")
  BY DEF Called, Awaitable, Calling, ShutCalls, Pays, OverCalls, OnboardCalls, LockedCalls, Over,
     Registering, Shut, Screens!Locking, Screens!Confirmations
<1>24. Called("EditGroup", "setMatrixRoomName")
  BY DEF Called, Awaitable, Calling, ShutCalls, Pays, OverCalls, OnboardCalls, LockedCalls, Over,
     Registering, Shut, Screens!Locking, Screens!Confirmations
<1>25. Called("ScanMemberCode", "inviteUserToMatrixRoom")
  BY DEF Called, Awaitable, Calling, ShutCalls, Pays, OverCalls, OnboardCalls, LockedCalls, Over,
     Registering, Shut, Screens!Locking, Screens!Confirmations
<1>26. Called("ConfirmJoinPublicGroup", "joinMatrixRoom")
  BY DEF Called, Awaitable, Calling, ShutCalls, Pays, OverCalls, OnboardCalls, LockedCalls, Over,
     Registering, Shut, Screens!Locking, Screens!Confirmations
<1>27. Called("ConfirmSendOnChain", "payAddress")
  BY DEF Called, Awaitable, Calling, ShutCalls, Pays, OverCalls, OnboardCalls, LockedCalls, Over,
     Registering, Shut, Screens!Locking, Screens!Confirmations
<1>28. Called("ConfirmSendLightning", "payInvoice")
  BY DEF Called, Awaitable, Calling, ShutCalls, Pays, OverCalls, OnboardCalls, LockedCalls, Over,
     Registering, Shut, Screens!Locking, Screens!Confirmations
<1>29. Called("ConfirmReceiveCashu", "meltCashuTokens")
  BY DEF Called, Awaitable, Calling, ShutCalls, Pays, OverCalls, OnboardCalls, LockedCalls, Over,
     Registering, Shut, Screens!Locking, Screens!Confirmations
<1> QED
  BY <1>1, <1>2, <1>3, <1>4, <1>5, <1>6, <1>7, <1>8, <1>9, <1>10, <1>11, <1>12, <1>13, <1>14, <1>15, <1>16, <1>17, <1>18, <1>19, <1>20, <1>21, <1>22, <1>23, <1>24, <1>25, <1>26, <1>27, <1>28, <1>29

LEMMA Asks ==
    ASSUME ScreensInv, NEW s, NEW c, Screens!Calls(s, c), Called(s, c) PROVE ScreensInv'
BY Calls DEF Called

\* What most calls open: a screen that nobody is afraid of.
Common(c, t) ==
    /\ c \in LockedCalls => t \notin Screens!Always \cup Screens!Locking
    /\ t \notin PinScreens \cup Registering \cup Screens!Confirmations
    /\ t # "PopupFederationEnded"

LEMMA CommonMayEnd ==
    ASSUME NEW c, NEW t, Common(c, t), NEW b, Steady(facts, b) PROVE MayEnd(c, b, t)
BY NotPaid DEF Common, MayEnd, Steady

LEMMA InsteadOf ==
    ASSUME ScreensInv, NEW c, NEW t, NEW b, Steady(facts, b), Common(c, t),
           Screens!EndsAs(c, Screens!Replaced(t), b), c \in OverCalls => t \in Over
    PROVE  ScreensInv'
<1>1. MayEnd(c, b, t)
  BY CommonMayEnd
<1>2. t # "ConfirmSendOnChain"
  BY DEF Common, Screens!Confirmations
<1> QED
  BY <1>1, <1>2, EndsInstead DEF Screens!EndsAs

LEMMA Thereby ==
    ASSUME ScreensInv, NEW c, NEW t, NEW b, Steady(facts, b), Common(c, t), EndsOver(c, t),
           \/ Screens!EndsAs(c, Screens!Navigated(t), b)
           \/ Screens!EndsAs(c, Screens!Pushed(t), b) /\ c \notin OnboardCalls
    PROVE  ScreensInv'
<1>1. MayEnd(c, b, t)
  BY CommonMayEnd
<1>2. CASE Screens!EndsAs(c, Screens!Navigated(t), b)
  <2> DEFINE s == Screens!Navigated(t)
  <2>1. PICK seen \in BOOLEAN : Screens!EndsHavingSeen(seen, c, s, b)
    BY <1>2 DEF Screens!EndsAs
  <2>2. s = Screens!Navigated(t)
    OBVIOUS
  <2> HIDE DEF s
  <2> QED
    BY <1>1, <2>1, <2>2, EndsOnto
<1>3. CASE Screens!EndsAs(c, Screens!Pushed(t), b) /\ c \notin OnboardCalls
  <2> DEFINE s == Screens!Pushed(t)
  <2>1. PICK seen \in BOOLEAN : Screens!EndsHavingSeen(seen, c, s, b)
    BY <1>3 DEF Screens!EndsAs
  <2>2. s = Screens!Pushed(t)
    OBVIOUS
  <2> HIDE DEF s
  <2> QED
    BY <1>1, <1>3, <2>1, <2>2, EndsOnto
<1> QED
  BY <1>2, <1>3

LEMMA Afresh ==
    ASSUME ScreensInv, NEW c, NEW t, NEW b, Steady(facts, b), Common(c, t), t \in Outside,
           Screens!EndsAs(c, Screens!Reset(<<t>>), b)
    PROVE  ScreensInv'
<1>1. MayEnd(c, b, t)
  BY CommonMayEnd
<1> QED
  BY <1>1, EndsAlone DEF Screens!EndsAs

LEMMA InRoom ==
    ASSUME ScreensInv, NEW c, c \notin LockedCalls, NEW st, RoomLike(st),
           Screens!Ends(c, Screens!Reset(st))
    PROVE  ScreensInv'
BY EndsInRoom DEF Screens!Ends, Screens!EndsAs

\* Calls that open another screen, with what it is;
Onto(c, t) == Common(c, t) /\ EndsOver(c, t)
LEMMA OntoAre ==
    /\ Onto("submitBugReport", "BugReportSuccess")
    /\ Onto("socialRecoveryDownloadVerificationDoc", "CompleteRecoveryAssist")
    /\ Onto("generateEcash", "SendOfflineQr")
    /\ Onto("generateInvoice", "BitcoinRequest")
    /\ Onto("lnurlWithdraw", "BitcoinRequest")
    /\ Onto("receiveEcash", "ReceiveSuccess")
    /\ Onto("transferExistingWallet", "TabsNavigator")
    /\ Onto("transferExistingWallet", "EnterDisplayName")
    /\ Onto("createNewWallet", "TabsNavigator")
    /\ Onto("createNewWallet", "EnterDisplayName")
    /\ Onto("leaveEndedFederation", "TabsNavigator")
    /\ Onto("leaveEndedFederation", "LockScreen")
    /\ Onto("leaveEndedFederation", "Splash")
<1>1. Onto("submitBugReport", "BugReportSuccess")
  BY DEF Onto, Common, LockedCalls, PinScreens, Registering, Screens!Always, Screens!Locking,
     Screens!Confirmations, EndsOver, Over, OnboardCalls
<1>2. Onto("socialRecoveryDownloadVerificationDoc", "CompleteRecoveryAssist")
  BY DEF Onto, Common, LockedCalls, PinScreens, Registering, Screens!Always, Screens!Locking,
     Screens!Confirmations, EndsOver, Over, OnboardCalls
<1>3. Onto("generateEcash", "SendOfflineQr")
  BY DEF Onto, Common, LockedCalls, PinScreens, Registering, Screens!Always, Screens!Locking,
     Screens!Confirmations, EndsOver, Over, OnboardCalls
<1>4. Onto("generateInvoice", "BitcoinRequest")
  BY DEF Onto, Common, LockedCalls, PinScreens, Registering, Screens!Always, Screens!Locking,
     Screens!Confirmations, EndsOver, Over, OnboardCalls
<1>5. Onto("lnurlWithdraw", "BitcoinRequest")
  BY DEF Onto, Common, LockedCalls, PinScreens, Registering, Screens!Always, Screens!Locking,
     Screens!Confirmations, EndsOver, Over, OnboardCalls
<1>6. Onto("receiveEcash", "ReceiveSuccess")
  BY DEF Onto, Common, LockedCalls, PinScreens, Registering, Screens!Always, Screens!Locking,
     Screens!Confirmations, EndsOver, Over, OnboardCalls
<1>7. Onto("transferExistingWallet", "TabsNavigator")
  BY DEF Onto, Common, LockedCalls, PinScreens, Registering, Screens!Always, Screens!Locking,
     Screens!Confirmations, EndsOver, Over, OnboardCalls
<1>8. Onto("transferExistingWallet", "EnterDisplayName")
  BY DEF Onto, Common, LockedCalls, PinScreens, Registering, Screens!Always, Screens!Locking,
     Screens!Confirmations, EndsOver, Over, OnboardCalls
<1>9. Onto("createNewWallet", "TabsNavigator")
  BY DEF Onto, Common, LockedCalls, PinScreens, Registering, Screens!Always, Screens!Locking,
     Screens!Confirmations, EndsOver, Over, OnboardCalls
<1>10. Onto("createNewWallet", "EnterDisplayName")
  BY DEF Onto, Common, LockedCalls, PinScreens, Registering, Screens!Always, Screens!Locking,
     Screens!Confirmations, EndsOver, Over, OnboardCalls
<1>11. Onto("leaveEndedFederation", "TabsNavigator")
  BY DEF Onto, Common, LockedCalls, PinScreens, Registering, Screens!Always, Screens!Locking,
     Screens!Confirmations, EndsOver, Over, OnboardCalls
<1>12. Onto("leaveEndedFederation", "LockScreen")
  BY DEF Onto, Common, LockedCalls, PinScreens, Registering, Screens!Always, Screens!Locking,
     Screens!Confirmations, EndsOver, Over, OnboardCalls
<1>13. Onto("leaveEndedFederation", "Splash")
  BY DEF Onto, Common, LockedCalls, PinScreens, Registering, Screens!Always, Screens!Locking,
     Screens!Confirmations, EndsOver, Over, OnboardCalls
<1> QED
  BY <1>1, <1>2, <1>3, <1>4, <1>5, <1>6, <1>7, <1>8, <1>9, <1>10, <1>11, <1>12, <1>13

\* those that have it take the place of what is shown;
InsteadBy(c, t) == Common(c, t) /\ (c \in OverCalls => t \in Over)
LEMMA InsteadAre ==
    /\ InsteadBy("joinFederation", "TabsNavigator")
    /\ InsteadBy("joinFederation", "EnterDisplayName")
    /\ InsteadBy("leaveFederation", "TabsNavigator")
    /\ InsteadBy("leaveFederation", "LockScreen")
    /\ InsteadBy("leaveFederation", "Splash")
    /\ InsteadBy("validateRecoveryFile", "SelectRecoveryFileSuccess")
    /\ InsteadBy("validateRecoveryFile", "SelectRecoveryFileFailure")
    /\ InsteadBy("approveSocialRecoveryRequest", "RecoveryAssistSuccess")
    /\ InsteadBy("createMatrixRoom", "ChatRoomConversation")
    /\ InsteadBy("sendMatrixDirectMessage", "ChatRoomConversation")
    /\ InsteadBy("inviteUserToMatrixRoom", "TabsNavigator")
<1>1. InsteadBy("joinFederation", "TabsNavigator")
  BY DEF InsteadBy, Common, LockedCalls, PinScreens, Registering, Screens!Always, Screens!Locking,
     Screens!Confirmations, OverCalls, Over
<1>2. InsteadBy("joinFederation", "EnterDisplayName")
  BY DEF InsteadBy, Common, LockedCalls, PinScreens, Registering, Screens!Always, Screens!Locking,
     Screens!Confirmations, OverCalls, Over
<1>3. InsteadBy("leaveFederation", "TabsNavigator")
  BY DEF InsteadBy, Common, LockedCalls, PinScreens, Registering, Screens!Always, Screens!Locking,
     Screens!Confirmations, OverCalls, Over
<1>4. InsteadBy("leaveFederation", "LockScreen")
  BY DEF InsteadBy, Common, LockedCalls, PinScreens, Registering, Screens!Always, Screens!Locking,
     Screens!Confirmations, OverCalls, Over
<1>5. InsteadBy("leaveFederation", "Splash")
  BY DEF InsteadBy, Common, LockedCalls, PinScreens, Registering, Screens!Always, Screens!Locking,
     Screens!Confirmations, OverCalls, Over
<1>6. InsteadBy("validateRecoveryFile", "SelectRecoveryFileSuccess")
  BY DEF InsteadBy, Common, LockedCalls, PinScreens, Registering, Screens!Always, Screens!Locking,
     Screens!Confirmations, OverCalls, Over
<1>7. InsteadBy("validateRecoveryFile", "SelectRecoveryFileFailure")
  BY DEF InsteadBy, Common, LockedCalls, PinScreens, Registering, Screens!Always, Screens!Locking,
     Screens!Confirmations, OverCalls, Over
<1>8. InsteadBy("approveSocialRecoveryRequest", "RecoveryAssistSuccess")
  BY DEF InsteadBy, Common, LockedCalls, PinScreens, Registering, Screens!Always, Screens!Locking,
     Screens!Confirmations, OverCalls, Over
<1>9. InsteadBy("createMatrixRoom", "ChatRoomConversation")
  BY DEF InsteadBy, Common, LockedCalls, PinScreens, Registering, Screens!Always, Screens!Locking,
     Screens!Confirmations, OverCalls, Over
<1>10. InsteadBy("sendMatrixDirectMessage", "ChatRoomConversation")
  BY DEF InsteadBy, Common, LockedCalls, PinScreens, Registering, Screens!Always, Screens!Locking,
     Screens!Confirmations, OverCalls, Over
<1>11. InsteadBy("inviteUserToMatrixRoom", "TabsNavigator")
  BY DEF InsteadBy, Common, LockedCalls, PinScreens, Registering, Screens!Always, Screens!Locking,
     Screens!Confirmations, OverCalls, Over
<1> QED
  BY <1>1, <1>2, <1>3, <1>4, <1>5, <1>6, <1>7, <1>8, <1>9, <1>10, <1>11

\* and of all there is.
AloneBy(c, t) == Common(c, t) /\ t \in Outside
LEMMA AloneAre ==
    /\ AloneBy("setDisplayName", "UploadAvatarImage")
    /\ AloneBy("recoverFromMnemonic", "PersonalRecoverySuccess")
    /\ AloneBy("recoveryQr", "SocialRecoveryFailure")
    /\ AloneBy("completeSocialRecovery", "SocialRecoverySuccess")
<1>1. AloneBy("setDisplayName", "UploadAvatarImage")
  BY DEF AloneBy, Common, LockedCalls, PinScreens, Registering, Screens!Always, Screens!Locking,
     Screens!Confirmations, Outside
<1>2. AloneBy("recoverFromMnemonic", "PersonalRecoverySuccess")
  BY DEF AloneBy, Common, LockedCalls, PinScreens, Registering, Screens!Always, Screens!Locking,
     Screens!Confirmations, Outside
<1>3. AloneBy("recoveryQr", "SocialRecoveryFailure")
  BY DEF AloneBy, Common, LockedCalls, PinScreens, Registering, Screens!Always, Screens!Locking,
     Screens!Confirmations, Outside
<1>4. AloneBy("completeSocialRecovery", "SocialRecoverySuccess")
  BY DEF AloneBy, Common, LockedCalls, PinScreens, Registering, Screens!Always, Screens!Locking,
     Screens!Confirmations, Outside
<1> QED
  BY <1>1, <1>2, <1>3, <1>4

LEMMA RoomsAre == RoomLike(Screens!Room) /\ RoomLike(Screens!RoomSettingsOf)
BY DEF RoomLike

\* Screens that do nothing but call, and show what comes of it.
LEMMA Asking ==
    ASSUME ScreensInv,
           \/ Screens!EnterDisplayName \/ Screens!BugReport \/ Screens!ScanSocialRecoveryCode
           \/ Screens!CompleteRecoveryAssist \/ Screens!ConfirmSendEcash
           \/ Screens!ConfirmReceiveOffline \/ Screens!ReceiveLightning
           \/ Screens!CreateGroup \/ Screens!EditGroup \/ Screens!ConfirmJoinPublicGroup
    PROVE  ScreensInv'
<1>1. Steady(facts, facts) /\ Steady(facts, [facts EXCEPT !.named = TRUE])
  BY StaysSteady, SteadyNamed
<1>2. \A c, t : Screens!Ends(c, Screens!Replaced(t)) => Screens!EndsAs(c, Screens!Replaced(t), facts)
  BY DEF Screens!Ends
<1>3. \A c, t : Screens!Ends(c, Screens!Navigated(t)) => Screens!EndsAs(c, Screens!Navigated(t), facts)
  BY DEF Screens!Ends
<1>4. \A c, t : Screens!Ends(c, Screens!Pushed(t)) => Screens!EndsAs(c, Screens!Pushed(t), facts)
  BY DEF Screens!Ends
<1>5. CASE Screens!EnterDisplayName
  BY <1>1, <1>5, Asks, CalledAre, Afresh, AloneAre DEF Screens!EnterDisplayName, AloneBy
<1>6. CASE Screens!BugReport
  BY <1>1, <1>4, <1>6, Asks, CalledAre, Thereby, OntoAre DEF Screens!BugReport, Onto, OnboardCalls
<1>7. CASE Screens!ScanSocialRecoveryCode
  BY <1>1, <1>3, <1>7, Asks, CalledAre, Thereby, OntoAre DEF Screens!ScanSocialRecoveryCode, Onto
<1>8. CASE Screens!CompleteRecoveryAssist
  <2>1. CASE Screens!At("CompleteRecoveryAssist")
             /\ Screens!Show(Screens!Replaced("RecoveryAssistSuccess"))
    BY <2>1, Replacing DEF Placing, Behind, Outside, Over, Registering, PinScreens, Shut,
       Screens!Confirmations, Screens!Locking, Screens!Always
  <2> QED
    BY <1>1, <1>2, <1>8, <2>1, Asks, CalledAre, InsteadOf, InsteadAre
    DEF Screens!CompleteRecoveryAssist, InsteadBy
<1>9. CASE Screens!ConfirmSendEcash
  BY <1>1, <1>3, <1>9, Asks, CalledAre, Thereby, OntoAre DEF Screens!ConfirmSendEcash, Onto
<1>10. CASE Screens!ConfirmReceiveOffline
  BY <1>1, <1>3, <1>10, Asks, CalledAre, Thereby, OntoAre DEF Screens!ConfirmReceiveOffline, Onto
<1>11. CASE Screens!ReceiveLightning
  <2>1. CASE Screens!Leads("ReceiveLightning", {"ReceiveSuccess"})
    BY <2>1, Leading DEF MayLead, Opening, Behind, Outside, Over, Registering, PinScreens, Shut,
       Screens!Confirmations, Screens!Locking, Screens!Always
  <2> QED
    BY <1>1, <1>3, <1>11, <2>1, Asks, CalledAre, Thereby, OntoAre DEF Screens!ReceiveLightning, Onto
<1>12. CASE Screens!CreateGroup
  BY <1>1, <1>2, <1>12, Asks, CalledAre, InsteadOf, InsteadAre DEF Screens!CreateGroup, InsteadBy
<1>13. RoomLike(Screens!Room) /\ RoomLike(Screens!RoomSettingsOf)
  BY RoomsAre
<1>14. CASE Screens!EditGroup
  BY <1>13, <1>14, Asks, CalledAre, InRoom DEF Screens!EditGroup, LockedCalls
<1>15. CASE Screens!ConfirmJoinPublicGroup
  BY <1>13, <1>15, Asks, CalledAre, InRoom DEF Screens!ConfirmJoinPublicGroup, LockedCalls
<1> QED
  BY <1>5, <1>6, <1>7, <1>8, <1>9, <1>10, <1>11, <1>12, <1>14, <1>15

\* In a visit with links anything may be opened anywhere, while the app is unlocked.
LEMMA Loosely ==
    ASSUME ScreensInv, ~Sole(visit), Screens!IsUnlocked(facts, "app"), NEW t, t \notin PinScreens,
           Steady(facts, facts'), UNCHANGED <<visit, calls>>, stack' = Screens!Navigated(t)
    PROVE  ScreensInv'
<1>1. Holds(Sole(visit), stack, calls, facts') /\ Screens!IsUnlocked(facts', "app")
  BY TopIs, HoldsSteady DEF Steady
<1>2. \/ stack' = stack
      \/ \E n \in 1 .. Len(stack) : stack' = Shorter(stack, n)
      \/ t \in Screens!Routes(facts') /\ stack' = Append(stack, t)
  BY SteadyRoutes, TopIs, NavigatedIs DEF Screens!Navigated
<1>3. ASSUME t \in Screens!Routes(facts') PROVE Holds(Sole(visit), Append(stack, t), calls, facts')
  <2>1. May(Sole(visit), facts', t)
    BY <1>1, <1>3 DEF May
  <2>2. stack \in Seq(AllScreens) /\ t \in AllScreens
    BY <1>3, TopIs, RoutesAre
  <2> DEFINE s == Append(stack, t)
  <2>3. /\ s \in Seq(AllScreens) /\ s # <<>>
        /\ \A i \in 1 .. Len(s) : (i \in 1 .. Len(stack) /\ s[i] = stack[i]) \/ s[i] = t
    BY <2>2
  <2> HIDE DEF s
  <2>4. \A i \in 1 .. Len(s) : May(Sole(visit), facts', s[i])
    BY <1>1, <2>1, <2>3 DEF Holds
  <2>5. Whole(s)
    BY <1>1, <2>4, FreeIsWhole
  <2>6. Holds(Sole(visit), s, calls, facts')
    BY <1>1, <2>3, <2>4, <2>5 DEF Holds
  <2> QED
    BY <2>6 DEF s
<1>4. Holds(Sole(visit), stack', calls', facts')
  BY <1>1, <1>2, <1>3, HoldsShorter
<1> QED
  BY <1>4, Anyway

\* Federations: one is joined, or left.
LEMMA EntryIs == ASSUME NEW a PROVE Screens!Entry(a) \in {"LockScreen", "TabsNavigator", "Splash"}
BY DEF Screens!Entry

LEMMA Joining == ASSUME ScreensInv, Screens!JoinFederation PROVE ScreensInv'
<1>1. CASE Screens!Leads("JoinFederation", {"PublicFederations"})
  BY <1>1, Leading DEF MayLead, Opening, Behind, Outside, Over, Registering, PinScreens, Shut,
     Screens!Confirmations, Screens!Locking, Screens!Always
<1>2. CASE Screens!Calls("JoinFederation", "joinFederation")
  BY <1>2, Asks, CalledAre
<1>3. ASSUME NEW f \in Feds \ facts.joined, NEW seen \in BOOLEAN, NEW hasSession \in BOOLEAN,
             Screens!EndsHavingSeen(seen, "joinFederation",
                Screens!Replaced(IF hasSession THEN "TabsNavigator" ELSE "EnterDisplayName"),
                [facts EXCEPT !.joined = @ \cup {f}, !.active = f])
      PROVE  ScreensInv'
  <2> DEFINE t == IF hasSession THEN "TabsNavigator" ELSE "EnterDisplayName"
             b == [facts EXCEPT !.joined = @ \cup {f}, !.active = f]
             feds == facts.joined \cup {f}
  <2>1. facts \in Screens!Facts /\ feds \in SUBSET Feds /\ f \in Feds \cup {"none"}
    BY TopIs DEF Holds, Known, Screens!Facts
  <2>2. b = [facts EXCEPT !.joined = feds, !.active = f]
    BY <2>1 DEF Screens!Facts
  <2>3. Steady(facts, b)
    <3> HIDE DEF feds, b
    <3> QED
      BY <2>1, <2>2, SteadyJoined
  <2>4. t \in {"TabsNavigator", "EnterDisplayName"}
    OBVIOUS
  <2>5. Screens!EndsAs("joinFederation", Screens!Replaced(t), b)
    BY <1>3 DEF Screens!EndsAs
  <2> HIDE DEF t, b
  <2> QED
    BY <2>3, <2>4, <2>5, InsteadOf, InsteadAre DEF InsteadBy
<1> QED
  BY <1>1, <1>2, <1>3 DEF Screens!JoinFederation

LEMMA Leaving ==
    ASSUME ScreensInv, Screens!LeaveFederation \/ Screens!PopupFederationEnded
    PROVE  ScreensInv'
<1>1. ASSUME NEW f \in Feds, Screens!At("Settings"), Screens!MayCall("leaveFederation"),
             Screens!Await("leaveFederation"), facts' = [facts EXCEPT !.leaving = f],
             UNCHANGED <<visit, stack>>
      PROVE  ScreensInv'
  <2>1. Steady(facts, facts')
    BY <1>1, SteadyLeaving
  <2>2. Calling("Settings", "leaveFederation") /\ ShutCalls("Settings", "leaveFederation")
        /\ "leaveFederation" \in Awaitable
    BY DEF Calling, ShutCalls, Pays, OverCalls, OnboardCalls, LockedCalls, Over, Awaitable,
       Registering, Shut, Screens!Locking, Screens!Confirmations
  <2> QED
    BY <1>1, <2>1, <2>2, Awaits
<1>2. ASSUME NEW a \in Screens!LeavesOf(facts.leaving),
             Screens!EndsAs("leaveFederation", Screens!Replaced(Screens!Entry(a)), a)
      PROVE  ScreensInv'
  <2> DEFINE t == Screens!Entry(a)
  <2>1. Steady(facts, a) /\ t \in {"LockScreen", "TabsNavigator", "Splash"}
    BY <1>2, SteadyLeft, EntryIs
  <2> HIDE DEF t
  <2>2. InsteadBy("leaveFederation", t)
    BY <2>1, InsteadAre
  <2> QED
    BY <1>2, <2>1, <2>2, InsteadOf DEF t, InsteadBy
<1>3. CASE Screens!At("TabsNavigator") /\ facts.active \in visit.ended
           /\ Screens!Show(Screens!Navigated("PopupFederationEnded"))
  <2>1. ~Sole(visit)
    BY <1>3 DEF Sole
  <2>2. "TabsNavigator" \notin Shut \cup {"Splash", "Eula"} /\ "TabsNavigator" \notin Screens!Locking
    BY DEF Shut, Registering, Screens!Locking
  <2>3. Screens!IsUnlocked(facts, "app")
    BY <1>3, <2>2, AtMay DEF May
  <2>4. "PopupFederationEnded" \notin PinScreens
    BY DEF PinScreens
  <2>5. UNCHANGED <<visit, calls, facts>> /\ stack' = Screens!Navigated("PopupFederationEnded")
    BY <1>3 DEF Screens!Show
  <2> QED
    BY <2>1, <2>3, <2>4, <2>5, StaysSteady, Loosely
<1>4. CASE Screens!Calls("PopupFederationEnded", "leaveEndedFederation")
  <2>1. /\ Calling("PopupFederationEnded", "leaveEndedFederation")
        /\ ShutCalls("PopupFederationEnded", "leaveEndedFederation")
        /\ "leaveEndedFederation" \in Awaitable
    BY DEF Calling, ShutCalls, Pays, OverCalls, OnboardCalls, LockedCalls, Over, Awaitable,
       Registering, Shut, Screens!Locking, Screens!Confirmations
  <2> QED
    BY <1>4, <2>1, Calls
<1>5. ASSUME NEW a \in Screens!LeavesOf(facts.active),
             Screens!EndsAs("leaveEndedFederation", Screens!Pushed(Screens!Entry(a)), a)
      PROVE  ScreensInv'
  <2> DEFINE t == Screens!Entry(a)
  <2>1. Steady(facts, a) /\ t \in {"LockScreen", "TabsNavigator", "Splash"}
    BY <1>5, SteadyLeft, EntryIs
  <2>2. "leaveEndedFederation" \notin OnboardCalls
    BY DEF OnboardCalls
  <2> HIDE DEF t
  <2>3. Onto("leaveEndedFederation", t)
    BY <2>1, OntoAre
  <2> QED
    BY <1>5, <2>1, <2>2, <2>3, Thereby DEF t, Onto
<1> QED
  BY <1>1, <1>2, <1>3, <1>4, <1>5 DEF Screens!LeaveFederation, Screens!PopupFederationEnded

\* Recovery of a seed, and what is registered then.
LEMMA EndsUnlocked ==
    ASSUME ScreensInv, NEW c, c \notin LockedCalls, NEW st, NEW b, Screens!EndsAs(c, st, b)
    PROVE  Screens!IsUnlocked(facts, "app")
<1>1. PICK k \in calls : k.call = c
  BY DEF Screens!EndsAs, Screens!EndsHavingSeen
<1> QED
  BY <1>1, TopIs DEF Holds, MayAwait

LEMMA SteadyUnpinned ==
    ASSUME ScreensInv, Screens!IsUnlocked(facts, "app"), NEW n \in BOOLEAN
    PROVE  LET a == [facts EXCEPT !.named = n, !.indexed = FALSE] IN
           Steady(facts, a) /\ Steady(facts, Screens!Unpinned(a))
<1> DEFINE a == [facts EXCEPT !.named = n, !.indexed = FALSE]
           b == Screens!Unpinned(a)
<1>1. Known(facts) /\ facts \in Screens!Facts
  BY TopIs DEF Holds, Known
<1>2. a \in Screens!Facts /\ a.pin = facts.pin /\ a.status = facts.status
      /\ a.protected = facts.protected /\ a.unlocked = facts.unlocked
      /\ a.backedUp = facts.backedUp /\ a.cancelled = facts.cancelled /\ a.paid = facts.paid
  BY <1>1 DEF Screens!Facts
<1> HIDE DEF a
<1>3. b \in Screens!Facts /\ b.pin = FALSE /\ b.status = a.status
      /\ b.protected = a.protected /\ b.unlocked = a.unlocked \cup a.protected
      /\ b.backedUp = a.backedUp /\ b.cancelled = a.cancelled /\ b.paid = a.paid
  BY <1>2 DEF Screens!Facts, Screens!Unpinned
<1> HIDE DEF b
<1>4. Steady(facts, a)
  BY <1>2, SteadyBut
<1>5. Steady(facts, b)
  BY <1>1, <1>2, <1>3 DEF Steady, Known, Screens!IsUnlocked
<1> QED
  BY <1>4, <1>5 DEF a, b

LEMMA RecoveringSeed == ASSUME ScreensInv, Screens!PersonalRecovery PROVE ScreensInv'
<1>1. CASE Screens!Calls("PersonalRecovery", "recoverFromMnemonic")
  BY <1>1, Asks, CalledAre
<1>2. ASSUME NEW n \in BOOLEAN,
             LET a == [facts EXCEPT !.named = n, !.indexed = FALSE] IN
             Screens!EndsAs("recoverFromMnemonic", Screens!Reset(<<"PersonalRecoverySuccess">>),
                            IF facts.status THEN Screens!Unpinned(a) ELSE a)
      PROVE  ScreensInv'
  <2> DEFINE a == [facts EXCEPT !.named = n, !.indexed = FALSE]
             b == IF facts.status THEN Screens!Unpinned(a) ELSE a
  <2>1. Screens!EndsAs("recoverFromMnemonic", Screens!Reset(<<"PersonalRecoverySuccess">>), b)
    BY <1>2
  <2>2. Steady(facts, a) /\ Steady(facts, Screens!Unpinned(a))
    <3>1. "recoverFromMnemonic" \notin LockedCalls
      BY DEF LockedCalls
    <3>2. Screens!IsUnlocked(facts, "app")
      <4> HIDE DEF b
      <4> QED
        BY <2>1, <3>1, EndsUnlocked
    <3> QED
      BY <3>2, SteadyUnpinned
  <2>3. Steady(facts, b)
    <3> HIDE DEF a
    <3> QED
      BY <2>2
  <2> HIDE DEF b
  <2> QED
    BY <2>1, <2>3, Afresh, AloneAre DEF AloneBy
<1> QED
  BY <1>1, <1>2 DEF Screens!PersonalRecovery

LEMMA Onboarding ==
    ASSUME ScreensInv, NEW c \in OnboardCalls, Screens!OnboardingEnds(c) PROVE ScreensInv'
<1> DEFINE b == [facts EXCEPT !.indexed = TRUE]
<1>1. PICK seen \in BOOLEAN :
          Screens!EndsHavingSeen(seen, c,
              Screens!Navigated(IF seen THEN "TabsNavigator" ELSE "EnterDisplayName"), b)
  BY DEF Screens!OnboardingEnds
<1>2. Steady(facts, b)
  BY SteadyRecovery
<1> DEFINE t == IF seen THEN "TabsNavigator" ELSE "EnterDisplayName"
<1>3. t \in {"TabsNavigator", "EnterDisplayName"}
  OBVIOUS
<1>4. Screens!EndsAs(c, Screens!Navigated(t), b)
  BY <1>1 DEF Screens!EndsAs
<1> HIDE DEF t, b
<1>5. Onto(c, t)
  BY <1>3, OntoAre DEF OnboardCalls
<1> QED
  BY <1>2, <1>4, <1>5, Thereby DEF Onto

LEMMA Recovering ==
    ASSUME ScreensInv,
           \/ Screens!RecoveryDeviceSelection \/ Screens!RecoveryNewWallet
           \/ Screens!SelectRecoveryFile \/ Screens!CompleteSocialRecovery
    PROVE  ScreensInv'
<1>1. Steady(facts, facts) /\ Steady(facts, [facts EXCEPT !.begun = TRUE])
      /\ Steady(facts, [facts EXCEPT !.begun = FALSE, !.recovering = FALSE, !.indexed = FALSE])
  BY StaysSteady, SteadyRecovery
<1>2. CASE Screens!RecoveryDeviceSelection
  <2>1. CASE Screens!Leads("RecoveryDeviceSelection", {"RecoveryNewWallet"})
    BY <2>1, Leading DEF MayLead, Opening, Behind, Outside, Over, Registering, PinScreens, Shut,
       Screens!Confirmations, Screens!Locking, Screens!Always
  <2> QED
    BY <1>2, <2>1, Asks, CalledAre, Onboarding DEF Screens!RecoveryDeviceSelection, OnboardCalls
<1>3. CASE Screens!RecoveryNewWallet
  BY <1>3, Asks, CalledAre, Onboarding DEF Screens!RecoveryNewWallet, OnboardCalls
<1>4. CASE Screens!SelectRecoveryFile
  BY <1>1, <1>4, Asks, CalledAre, InsteadOf, InsteadAre
  DEF Screens!SelectRecoveryFile, Screens!Ends, InsteadBy
<1>5. CASE Screens!CompleteSocialRecovery
  BY <1>1, <1>5, Asks, CalledAre, Afresh, AloneAre
  DEF Screens!CompleteSocialRecovery, Screens!Ends, AloneBy
<1> QED
  BY <1>2, <1>3, <1>4, <1>5

LEMMA Cancelling == ASSUME ScreensInv, Screens!CancelSocialRecovery PROVE ScreensInv'
<1> DEFINE b == [facts EXCEPT !.begun = FALSE, !.cancelled = TRUE]
           one == <<"Splash">>
<1>1. UNCHANGED <<visit, calls>> /\ facts' = b /\ (stack' = stack \/ stack' = one)
  BY DEF Screens!CancelSocialRecovery, Screens!ShowAs, Screens!Reset
<1>2. Known(facts) /\ facts \in Screens!Facts
  BY TopIs DEF Holds, Known
<1>3. b \in Screens!Facts /\ b.pin = facts.pin /\ b.status = facts.status
      /\ b.protected = facts.protected /\ b.unlocked = facts.unlocked
      /\ b.backedUp = facts.backedUp /\ b.cancelled = TRUE /\ b.paid = facts.paid
  BY <1>2 DEF Screens!Facts
<1> HIDE DEF b
<1>4. Steady(facts, b)
  BY <1>2, <1>3 DEF Steady, Known, Screens!IsUnlocked
<1>5. Holds(Sole(visit), stack, calls, b)
  BY <1>4, TopIs, HoldsSteady
<1>6. one \in Seq(AllScreens) /\ one # <<>> /\ Len(one) = 1 /\ one[1] = "Splash"
  BY DEF AllScreens, Screens!Always
<1>7. "Splash" \in Outside /\ "Splash" \in Screens!Always /\ "Splash" \notin PinScreens
      /\ "Splash" \notin Screens!Confirmations
  BY DEF Outside, Screens!Always, PinScreens, Screens!Confirmations
<1>8. Stacked(one) /\ \A c : Awaited(c, one)
  BY <1>7, AloneIsOrdered
<1> HIDE DEF one
<1>9. Whole(one)
  BY <1>6 DEF Whole
<1>10. May(Sole(visit), b, "Splash")
  <2>1. "Splash" \in Screens!Routes(b)
    BY <1>7 DEF Screens!Routes
  <2>2. "Splash" \notin b.paid
    BY <1>4, <1>7, NotPaid DEF Steady
  <2> QED
    BY <1>3, <1>7, <2>1, <2>2 DEF May
<1>11. \A i \in 1 .. Len(one) : May(Sole(visit), b, one[i])
  BY <1>6, <1>10
<1>12. Holds(Sole(visit), one, calls, b)
  BY <1>5, <1>6, <1>8, <1>9, <1>11, HoldsAnew
<1>13. Holds(Sole(visit), stack', calls', facts')
  BY <1>1, <1>5, <1>12
<1> QED
  BY <1>1, <1>13, Anyway

LEMMA Taken == ASSUME ScreensInv, Screens!DeviceIsLocked PROVE ScreensInv'
<1> DEFINE s == Screens!Focused
<1>1. UNCHANGED <<visit, calls>> /\ facts' = [facts EXCEPT !.lock = TRUE]
      /\ stack' = Screens!Reset(<<"LockedDevice">>)
  BY DEF Screens!DeviceIsLocked, Screens!ShowAs
<1>2. Screens!At(s)
  BY DEF Screens!At
<1>3. "LockedDevice" \in Outside /\ "LockedDevice" \notin PinScreens
      /\ \A x : Behind(x, "LockedDevice")
  BY DEF Outside, PinScreens, Behind, Shut
<1>4. Steady(facts, facts')
  BY <1>1, SteadyRecovery
<1> HIDE DEF s
<1> QED
  BY <1>1, <1>2, <1>3, <1>4, Starts

\* What is paid is paid by its confirmation.
LEMMA ConfirmedIs ==
    ASSUME ScreensInv, NEW s \in Screens!Confirmations, NEW c
    PROVE  PayingBy(Screens!Confirmed(s, c), c, s) /\ Screens!Confirmed(s, c) \in Screens!Facts
<1> DEFINE b == Screens!Confirmed(s, c)
           paid == IF \E k \in calls : k.call = c /\ k.mounted
                   THEN facts.paid \cup {s} ELSE facts.paid
<1>1. Known(facts) /\ facts \in Screens!Facts
  BY TopIs DEF Holds, Known
<1>2. b = [facts EXCEPT !.paid = paid]
  BY <1>1 DEF Screens!Confirmed, Screens!Facts
<1>3. paid \subseteq facts.paid \cup {s} /\ paid \in SUBSET Screens!Confirmations
  BY <1>1 DEF Screens!Facts
<1>4. (\A k \in calls : k.call = c => ~k.mounted) => paid = facts.paid
  OBVIOUS
<1> HIDE DEF paid, b
<1>5. b \in Screens!Facts /\ b.pin = facts.pin /\ b.status = facts.status
      /\ b.protected = facts.protected /\ b.unlocked = facts.unlocked
      /\ b.backedUp = facts.backedUp /\ b.cancelled = facts.cancelled /\ b.paid = paid
  BY <1>1, <1>2, <1>3 DEF Screens!Facts
<1>6. Alike(facts, b)
  BY <1>1, <1>5 DEF Alike, Known, Screens!IsUnlocked
<1>7. PayingBy(b, c, s)
  BY <1>3, <1>4, <1>5, <1>6 DEF PayingBy
<1> QED
  BY <1>5, <1>7 DEF b

LEMMA StabilizedIs ==
    ASSUME ScreensInv, NEW s \in Screens!Confirmations, NEW c, NEW held \in SUBSET Feds
    PROVE  PayingBy(Screens!Stabilized(s, c, held), c, s)
<1> DEFINE a == Screens!Confirmed(s, c)
           b == Screens!Stabilized(s, c, held)
<1>1. PayingBy(a, c, s) /\ a \in Screens!Facts
  BY ConfirmedIs
<1>2. b = [a EXCEPT !.stable = held]
  BY DEF Screens!Stabilized
<1> HIDE DEF a, b
<1>3. b \in Screens!Facts /\ b.pin = a.pin /\ b.status = a.status
      /\ b.protected = a.protected /\ b.unlocked = a.unlocked
      /\ b.backedUp = a.backedUp /\ b.cancelled = a.cancelled /\ b.paid = a.paid
  BY <1>1, <1>2 DEF Screens!Facts
<1>4. PayingBy(b, c, s)
  BY <1>1, <1>3 DEF PayingBy, Alike, Known, Screens!IsUnlocked
<1> QED
  BY <1>4 DEF b

\* The calls that pay, with what takes the place of their confirmation.
PaidBy(s, c, t) ==
    /\ s \in Screens!Confirmations /\ s = Pays(c) /\ Called(s, c)
    /\ c \notin LockedCalls /\ (c \in OverCalls => t \in Over)
    /\ t \in Screens!HomeAndChat \cup Screens!Wallet \cup Screens!Backups
               \cup Screens!SettingsAndPools
    /\ t \notin Screens!Confirmations \cup PinScreens \cup Registering
    /\ t # "PopupFederationEnded" /\ t # s
LEMMA PaidByAre ==
    /\ PaidBy("ConfirmSendOnChain", "payAddress", "SendSuccess")
    /\ PaidBy("ConfirmSendLightning", "payInvoice", "SendSuccess")
    /\ PaidBy("ConfirmReceiveCashu", "meltCashuTokens", "ReceiveSuccess")
    /\ PaidBy("StabilityConfirmDeposit", "increaseStableBalance", "StabilityDepositInitiated")
    /\ PaidBy("StabilityConfirmWithdraw", "decreaseStableBalance", "StabilityWithdrawInitiated")
<1> USE CalledAre DEF PaidBy, Pays, LockedCalls, OverCalls, Over, PinScreens, Registering,
    Screens!Confirmations, Screens!Wallet, Screens!SettingsAndPools
<1>1. PaidBy("ConfirmSendOnChain", "payAddress", "SendSuccess")
  OBVIOUS
<1>2. PaidBy("ConfirmSendLightning", "payInvoice", "SendSuccess")
  OBVIOUS
<1>3. PaidBy("ConfirmReceiveCashu", "meltCashuTokens", "ReceiveSuccess")
  OBVIOUS
<1>4. PaidBy("StabilityConfirmDeposit", "increaseStableBalance", "StabilityDepositInitiated")
  OBVIOUS
<1>5. PaidBy("StabilityConfirmWithdraw", "decreaseStableBalance", "StabilityWithdrawInitiated")
  OBVIOUS
<1> QED
  BY <1>1, <1>2, <1>3, <1>4, <1>5

LEMMA Pay ==
    ASSUME ScreensInv, NEW s, NEW c, NEW t, PaidBy(s, c, t), NEW b, PayingBy(b, c, s),
           Screens!EndsAs(c, Screens!Replaced(t), b)
    PROVE  ScreensInv'
<1>1. PICK seen \in BOOLEAN : Screens!EndsHavingSeen(seen, c, Screens!Replaced(t), b)
  BY DEF Screens!EndsAs
<1> QED
  BY <1>1, PaysInstead DEF PaidBy

LEMMA Confirms ==
    ASSUME ScreensInv, NEW s, NEW c, NEW t, PaidBy(s, c, t), Screens!Confirm(s, c, t)
    PROVE  ScreensInv'
<1>1. PayingBy(Screens!Confirmed(s, c), c, s)
  BY ConfirmedIs DEF PaidBy
<1>2. CASE Screens!Calls(s, c)
  BY <1>2, Asks DEF PaidBy
<1>3. CASE Screens!EndsAs(c, Screens!Replaced(t), Screens!Confirmed(s, c))
  BY <1>1, <1>3, Pay
<1> QED
  BY <1>2, <1>3 DEF Screens!Confirm

LEMMA ActiveIsFed ==
    ASSUME ScreensInv, NEW c, "none" \notin Screens!ActiveAt(c)
    PROVE  Screens!ActiveAt(c) \in SUBSET Feds
<1>1. \A k \in calls : k.active \in Feds \cup {"none"}
  BY TopIs DEF Holds, MayAwait, Call
<1> QED
  BY <1>1 DEF Screens!ActiveAt

LEMMA Stabilizing ==
    ASSUME ScreensInv, Screens!StabilityConfirmDeposit \/ Screens!StabilityConfirmWithdraw
    PROVE  ScreensInv'
<1>1. facts.stable \in SUBSET Feds
  BY TopIs DEF Holds, Known, Screens!Facts
<1>2. CASE Screens!StabilityConfirmDeposit
  <2> DEFINE c == "increaseStableBalance"
             s == "StabilityConfirmDeposit"
             held == facts.stable \cup Screens!ActiveAt(c)
             b == Screens!Stabilized(s, c, held)
  <2>1. CASE Screens!Calls(s, c)
    BY <2>1, Asks, CalledAre
  <2>2. CASE "none" \notin Screens!ActiveAt(c)
             /\ Screens!EndsAs(c, Screens!Replaced("StabilityDepositInitiated"), b)
    <3>1. held \in SUBSET Feds
      BY <1>1, <2>2, ActiveIsFed
    <3>2. PaidBy(s, c, "StabilityDepositInitiated")
      BY PaidByAre
    <3> HIDE DEF held, c, s
    <3>3. PayingBy(b, c, s)
      BY <3>1, <3>2, StabilizedIs DEF PaidBy
    <3> HIDE DEF b
    <3> QED
      BY <2>2, <3>2, <3>3, Pay
  <2> QED
    BY <1>2, <2>1, <2>2 DEF Screens!StabilityConfirmDeposit
<1>3. CASE Screens!StabilityConfirmWithdraw
  <2> DEFINE c == "decreaseStableBalance"
             s == "StabilityConfirmWithdraw"
             held == facts.stable \ Screens!ActiveAt(c)
             b == Screens!Stabilized(s, c, held)
  <2>1. CASE Screens!Calls(s, c)
    BY <2>1, Asks, CalledAre
  <2>2. CASE "none" \notin Screens!ActiveAt(c)
             /\ Screens!EndsAs(c, Screens!Replaced("StabilityWithdrawInitiated"), b)
    <3>1. held \in SUBSET Feds
      BY <1>1
    <3>2. PaidBy(s, c, "StabilityWithdrawInitiated")
      BY PaidByAre
    <3> HIDE DEF held, c, s
    <3>3. PayingBy(b, c, s)
      BY <3>1, <3>2, StabilizedIs DEF PaidBy
    <3> HIDE DEF b
    <3> QED
      BY <2>2, <3>2, <3>3, Pay
  <2> QED
    BY <1>3, <2>1, <2>2 DEF Screens!StabilityConfirmWithdraw
<1> QED
  BY <1>2, <1>3

\* A payment in a chat leads to the room.
LEMMA PayingInChat == ASSUME ScreensInv, Screens!ConfirmSendChatPayment PROVE ScreensInv'
<1> DEFINE s == "ConfirmSendChatPayment"
           c == "sendMatrixPaymentPush"
           st == Screens!Reset(Screens!Room)
           b == Screens!Confirmed(s, c)
<1>1. CASE Screens!Calls(s, c)
  BY <1>1, Asks, CalledAre
<1>2. CASE Screens!EndsAs(c, st, b)
  <2>1. PICK seen \in BOOLEAN : Screens!EndsHavingSeen(seen, c, st, b)
    BY <1>2 DEF Screens!EndsAs
  <2>2. PayingBy(b, c, s)
    BY ConfirmedIs DEF Screens!Confirmations
  <2> HIDE DEF b
  <2>3. c \notin LockedCalls /\ \A t \in {"TabsNavigator", "ChatRoomConversation"} :
            t # s /\ t \in Screens!HomeAndChat
    BY DEF LockedCalls, Screens!HomeAndChat
  <2>4. RoomLike(Screens!Room)
    BY RoomsAre
  <2>5. \A t \in Screens!ToSet(Screens!Room) : t \in {"TabsNavigator", "ChatRoomConversation"}
    BY DEF Screens!ToSet, Screens!Room
  <2> DEFINE room == Screens!Room
  <2>6. \A i \in 1 .. Len(room) : room[i] \in Screens!ToSet(room)
    BY DEF Screens!ToSet
  <2> HIDE DEF room
  <2>7. ASSUME NEW k, Pending(k, c)
        PROVE  Fine(Sole(visit), st, facts) /\ (Sole(visit) => \A i \in 1 .. Len(st) : st[i] # s)
    <3>1. Screens!IsUnlocked(facts, "app")
      BY <2>3, <2>7 DEF Pending, MayAwait
    <3>2. Known(facts)
      BY TopIs DEF Holds
    <3>3. st = room
      BY <2>3, <2>5, <3>1 DEF Screens!Reset, Screens!Routes, room
    <3>4. Fine(Sole(visit), room, facts)
      BY <2>4, <3>1, <3>2, RoomMay DEF Fine, room
    <3>5. \A i \in 1 .. Len(room) : room[i] # s
      BY <2>3, <2>5, <2>6 DEF room
    <3> HIDE DEF s, st, c
    <3> QED
      BY <3>3, <3>4, <3>5
  <2> HIDE DEF s, st, c
  <2> QED
    BY <2>1, <2>2, <2>7, Confirming
<1> QED
  BY <1>1, <1>2 DEF Screens!ConfirmSendChatPayment

\* A confirmation is opened, for something else than what was paid.
LEMMA Offering ==
    ASSUME ScreensInv, NEW s, Screens!At(s), NEW t,
           Screens!ShowAs(Screens!Navigated(t), Screens!Asked(t)),
           Opening(s, t), Behind(s, t), t \notin PinScreens
    PROVE  ScreensInv'
<1>1. UNCHANGED <<visit, calls>> /\ facts' = Screens!Asked(t) /\ stack' = Screens!Navigated(t)
  BY DEF Screens!ShowAs
<1>2. Steady(facts, facts') /\ t \notin facts'.paid
  BY <1>1, SteadyAsked
<1> QED
  BY <1>1, <1>2, Opens

LEMMA Showing ==
    ASSUME ScreensInv, NEW s, Screens!At(s), NEW t, Screens!Show(Screens!Navigated(t)),
           MayLead(s, t), t \notin PinScreens
    PROVE  ScreensInv'
<1>1. UNCHANGED <<visit, calls, facts>> /\ stack' = Screens!Navigated(t)
  BY DEF Screens!Show
<1>2. Steady(facts, facts) /\ t \notin facts.paid
  BY StaysSteady, TopIs, NotPaid DEF Holds, MayLead
<1> QED
  BY <1>1, <1>2, Opens DEF MayLead

\* Payments.
LEMMA PayingFor ==
    ASSUME ScreensInv,
           \/ Screens!Send \/ Screens!SendOnChainAmount \/ Screens!ConfirmSendOnChain
           \/ Screens!ConfirmSendLightning \/ Screens!ConfirmReceiveCashu
           \/ Screens!StabilityDeposit \/ Screens!StabilityWithdraw
    PROVE  ScreensInv'
<1>1. CASE Screens!Send
  <2> USE DEF MayLead, Opening, Behind, Outside, Over, Registering, Shut, PinScreens,
      Screens!Confirmations, Screens!Locking, Screens!Always
  <2> QED
    BY <1>1, Leading, Offering DEF Screens!Send
<1>2. CASE Screens!SendOnChainAmount
  <2> DEFINE c == "previewPayAddress"
             t == "ConfirmSendOnChain"
             s == Screens!Pushed(t)
             b == Screens!Asked(t)
  <2>1. CASE Screens!Calls("SendOnChainAmount", c)
    BY <2>1, Asks, CalledAre
  <2>2. CASE Screens!EndsAs(c, s, b)
    <3>1. PICK seen \in BOOLEAN : Screens!EndsHavingSeen(seen, c, s, b)
      BY <2>2 DEF Screens!EndsAs
    <3>2. Steady(facts, b) /\ t \notin b.paid
      BY SteadyAsked
    <3> HIDE DEF b
    <3>3. MayEnd(c, b, t)
      BY <3>2 DEF MayEnd, LockedCalls, PinScreens, Registering
    <3>4. EndsOver(c, t) /\ c \notin OnboardCalls
      BY DEF EndsOver, OnboardCalls
    <3>5. s = Screens!Pushed(t)
      OBVIOUS
    <3> HIDE DEF s, c, t
    <3> QED
      BY <3>1, <3>2, <3>3, <3>4, <3>5, EndsOnto
  <2> QED
    BY <1>2, <2>1, <2>2 DEF Screens!SendOnChainAmount
<1>3. CASE Screens!ConfirmSendOnChain
  BY <1>3, Confirms, PaidByAre DEF Screens!ConfirmSendOnChain
<1>4. CASE Screens!ConfirmSendLightning
  BY <1>4, Confirms, PaidByAre DEF Screens!ConfirmSendLightning
<1>5. CASE Screens!ConfirmReceiveCashu
  BY <1>5, Confirms, PaidByAre DEF Screens!ConfirmReceiveCashu
<1>6. CASE Screens!StabilityDeposit
  <2> USE DEF Opening, Behind, Outside, Over, Registering, Shut, PinScreens,
      Screens!Confirmations, Screens!Locking, Screens!Always
  <2> QED
    BY <1>6, Offering DEF Screens!StabilityDeposit
<1>7. CASE Screens!StabilityWithdraw
  <2> USE DEF Opening, Behind, Outside, Over, Registering, Shut, PinScreens,
      Screens!Confirmations, Screens!Locking, Screens!Always
  <2> QED
    BY <1>7, Offering DEF Screens!StabilityWithdraw
<1> QED
  BY <1>1, <1>2, <1>3, <1>4, <1>5, <1>6, <1>7

\* Chats.
LEMMA Chatting ==
    ASSUME ScreensInv,
           \/ Screens!ChatsList \/ Screens!ChatScreen \/ Screens!ChatUserConversation
           \/ Screens!ChatRoomConversation \/ Screens!ChatWallet \/ Screens!RoomSettings
           \/ Screens!ChatRoomMembers
    PROVE  ScreensInv'
<1> USE DEF MayLead, Opening, Placing, Behind, Outside, Over, Registering, Shut, PinScreens,
    Screens!Confirmations, Screens!Locking, Screens!Always
<1>1. RoomLike(Screens!Room) /\ RoomLike(Screens!RoomSettingsOf)
  BY RoomsAre
<1>2. CASE Screens!ChatsList
  <2>1. CASE Screens!At("TabsNavigator") /\ Screens!Show(Screens!Reset(Screens!RoomSettingsOf))
    BY <1>1, <2>1, Rooms DEF Screens!Show
  <2> QED
    BY <1>2, <2>1, Leading DEF Screens!ChatsList
<1>3. CASE Screens!ChatScreen
  BY <1>3, Leading, Pushing DEF Screens!ChatScreen
<1>4. CASE Screens!ChatUserConversation
  <2>1. CASE \E s \in {"TabsNavigator", "ChatRoomConversation"} :
                Screens!At("ChatUserConversation") /\ Screens!Show(Screens!Replaced(s))
    BY <2>1, Replacing
  <2>2. CASE Screens!Calls("ChatUserConversation", "sendMatrixDirectMessage")
    BY <2>2, Asks, CalledAre
  <2>3. CASE Screens!Ends("sendMatrixDirectMessage", Screens!Replaced("ChatRoomConversation"))
    BY <2>3, StaysSteady, InsteadOf, InsteadAre DEF InsteadBy, Screens!Ends
  <2> QED
    BY <1>4, <2>1, <2>2, <2>3 DEF Screens!ChatUserConversation
<1>5. CASE Screens!ChatRoomConversation
  BY <1>5, Resetting, Leading, Offering DEF Screens!ChatRoomConversation
<1>6. CASE Screens!ChatWallet
  <2>1. CASE Screens!Ends("sendMatrixPaymentRequest", Screens!Reset(Screens!Room))
    BY <1>1, <2>1, InRoom DEF LockedCalls
  <2> QED
    BY <1>6, <2>1, Asks, CalledAre, Offering DEF Screens!ChatWallet
<1>7. CASE Screens!RoomSettings
  BY <1>7, Leading, Replacing DEF Screens!RoomSettings
<1>8. CASE Screens!ChatRoomMembers
  BY <1>8, Leading, Replacing DEF Screens!ChatRoomMembers
<1> QED
  BY <1>2, <1>3, <1>4, <1>5, <1>6, <1>7, <1>8

LEMMA Inviting == ASSUME ScreensInv, Screens!ScanMemberCode PROVE ScreensInv'
<1>1. CASE Screens!At("ScanMemberCode") /\ Screens!Show(Screens!Replaced("ChatUserConversation"))
  BY <1>1, Replacing DEF Placing, Behind, Outside, Over, Registering, PinScreens, Shut,
     Screens!Confirmations, Screens!Locking, Screens!Always
<1>2. CASE Screens!Calls("ScanMemberCode", "inviteUserToMatrixRoom")
  BY <1>2, Asks, CalledAre
<1> DEFINE c == "inviteUserToMatrixRoom"
<1>3. CASE Screens!Ends(c, IF Len(stack) > 1 THEN Screens!WentBack
                           ELSE Screens!Replaced("TabsNavigator"))
  <2>1. Steady(facts, facts)
    BY StaysSteady
  <2>2. CASE Len(stack) > 1
    <3> DEFINE s == Screens!WentBack
    <3>1. Screens!EndsAs(c, s, facts)
      BY <1>3, <2>2 DEF Screens!Ends
    <3>2. Len(stack) - 1 \in 1 .. Len(stack) /\ s = Shorter(stack, Len(stack) - 1)
      BY <2>2, TopIs DEF Screens!WentBack, Shorter
    <3> HIDE DEF s, c
    <3>3. Fine(Sole(visit), s, facts)
      BY <2>1, <3>2, FineShorter
    <3> QED
      BY <2>1, <3>1, <3>3, Ending DEF Screens!EndsAs
  <2>3. CASE ~(Len(stack) > 1)
    <3>1. Screens!EndsAs(c, Screens!Replaced("TabsNavigator"), facts)
      BY <1>3, <2>3 DEF Screens!Ends
    <3> QED
      BY <2>1, <3>1, InsteadOf, InsteadAre DEF InsteadBy
  <2> QED
    BY <2>2, <2>3
<1> QED
  BY <1>1, <1>2, <1>3 DEF Screens!ScanMemberCode

\* Links and codes.
LEMMA Linking == ASSUME ScreensInv, Screens!Link \/ Screens!Scan PROVE ScreensInv'
<1>1. CASE Screens!Link
  <2>1. PICK t \in Screens!LinkTargets : Screens!ShowAs(Screens!Navigated(t), Screens!Asked(t))
    BY <1>1 DEF Screens!Link
  <2>2. ~Sole(visit) /\ Screens!IsUnlocked(facts, "app")
    BY <1>1 DEF Screens!Link, Sole
  <2>3. t \notin PinScreens
    BY DEF PinScreens, Screens!LinkTargets
  <2>4. UNCHANGED <<visit, calls>> /\ facts' = Screens!Asked(t) /\ stack' = Screens!Navigated(t)
    BY <2>1 DEF Screens!ShowAs
  <2>5. Steady(facts, facts')
    BY <2>4, SteadyAsked
  <2> QED
    BY <2>2, <2>3, <2>4, <2>5, Loosely
<1>2. ASSUME NEW t \in Screens!LinkTargets, Screens!At("TabsNavigator"),
             Screens!ShowAs(Screens!Navigated(t), Screens!Asked(t))
      PROVE  ScreensInv'
  BY <1>2, Offering DEF Opening, Behind, Outside, Over, Registering, Shut, PinScreens,
     Screens!LinkTargets, Screens!Confirmations, Screens!Locking, Screens!Always
<1>3. ASSUME NEW t \in Screens!LinkTargets, NEW s \in {"Send", "JoinFederation", "AddFediMod"},
             Screens!At(s), Screens!ShowAs(Screens!Replaced(t), Screens!Asked(t))
      PROVE  ScreensInv'
  <2>1. UNCHANGED <<visit, calls>> /\ facts' = Screens!Asked(t) /\ stack' = Screens!Replaced(t)
    BY <1>3 DEF Screens!ShowAs
  <2>2. Steady(facts, facts') /\ t \notin facts'.paid
    BY <2>1, SteadyAsked
  <2>3. Placing(s, t) /\ Behind(s, t) /\ t \notin PinScreens
    BY DEF Placing, Behind, Outside, Over, Registering, Shut, PinScreens,
       Screens!LinkTargets, Screens!Locking, Screens!Always
  <2> QED
    BY <1>3, <2>1, <2>2, <2>3, Places
<1>4. CASE Screens!Show(Screens!WentBack)
  BY <1>4, Shrinks DEF Screens!Show
<1> QED
  BY <1>1, <1>2, <1>3, <1>4 DEF Screens!Scan, Screens!At

\* The navigator is mounted.
LEMMA HoldsLaunched ==
    ASSUME NEW sole, NEW a, Known(a), NEW cs, IsFiniteSet(cs),
           \A k \in cs : MayAwait(sole, a, k) /\ ~k.mounted,
           sole => \A k, l \in cs : k = l
    PROVE  Holds(sole, Screens!Launched(a), cs, a)
<1>1. PICK t \in {"LockedDevice", "PersonalRecoverySuccess", "CompleteSocialRecovery",
                  Screens!Entry(a)} : Screens!Launched(a) = <<t>>
  BY DEF Screens!Launched
<1>2. t \in Outside /\ t \notin PinScreens /\ t \notin Screens!Confirmations
      /\ t # "PopupFederationEnded"
  BY <1>1, EntryIs DEF Outside, Registering, PinScreens, Screens!Confirmations
<1>3. t \in Screens!Routes(a)
  BY <1>1 DEF Screens!Routes, Screens!Entry, Screens!Always, Screens!Locking, Screens!HomeAndChat
<1>4. ~Screens!IsUnlocked(a, "app") => t \in Shut
  BY <1>1 DEF Screens!Entry, Shut, Screens!Locking
<1>5. May(sole, a, t)
  BY <1>2, <1>3, <1>4, NotPaid DEF May
<1> DEFINE one == <<t>>
<1>6. one \in Seq(AllScreens) /\ one # <<>> /\ Len(one) = 1 /\ one[1] = t
  BY <1>3, RoutesAre
<1>7. Stacked(one)
  BY <1>2, AloneIsOrdered
<1> HIDE DEF one
<1>8. Whole(one) /\ \A i \in 1 .. Len(one) : May(sole, a, one[i])
  BY <1>5, <1>6 DEF Whole
<1>9. sole => Ordered(one, cs)
  BY <1>7 DEF Ordered
<1>10. Holds(sole, one, cs, a)
  BY <1>6, <1>8, <1>9 DEF Holds
<1> QED
  BY <1>1, <1>10 DEF one

LEMMA Remounted == ASSUME ScreensInv, Screens!Drawer PROVE ScreensInv'
<1>1. CASE \E f \in facts.joined \ {facts.active} :
                LET a == [facts EXCEPT !.active = f] IN
                /\ stack' = Screens!Launched(a) /\ facts' = a /\ UNCHANGED visit
                /\ calls' = {[k EXCEPT !.mounted = FALSE] : k \in calls}
  <2>1. PICK f \in facts.joined \ {facts.active} :
            /\ stack' = Screens!Launched([facts EXCEPT !.active = f])
            /\ facts' = [facts EXCEPT !.active = f] /\ UNCHANGED visit
            /\ calls' = {[k EXCEPT !.mounted = FALSE] : k \in calls}
    BY <1>1
  <2>2. facts \in Screens!Facts
    BY TopIs DEF Holds, Known
  <2>3. /\ facts' \in Screens!Facts /\ facts'.pin = facts.pin /\ facts'.status = facts.status
        /\ facts'.protected = facts.protected /\ facts'.unlocked = facts.unlocked
        /\ facts'.backedUp = facts.backedUp /\ facts'.cancelled = facts.cancelled
        /\ facts'.paid = facts.paid
    BY <2>1, <2>2 DEF Screens!Facts
  <2>4. Steady(facts, facts')
    BY <2>3, SteadyBut
  <2>5. Screens!IsUnlocked(facts', "app")
    BY <2>4 DEF Screens!Drawer, Steady
  <2>6. IsFiniteSet(calls) /\ \A k \in calls : MayAwait(Sole(visit), facts', k)
    BY <2>4, TopIs, AwaitStays DEF Holds
  <2> DEFINE unmounted(k) == [k EXCEPT !.mounted = FALSE]
             F == [k \in calls |-> unmounted(k)]
  <2>7. IsFiniteSet(calls')
    <3>1. calls' = {unmounted(k) : k \in calls}
      BY <2>1
    <3> HIDE DEF unmounted
    <3>2. F \in Surjection(calls, calls')
      BY <3>1 DEF Surjection
    <3> HIDE DEF F
    <3> QED
      BY <2>6, <3>2, FS_Surjection
  <2>8. ASSUME NEW k \in calls
        PROVE  MayAwait(Sole(visit), facts', unmounted(k)) /\ ~unmounted(k).mounted
    <3>1. k \in Call
      BY <2>6 DEF MayAwait
    <3>2. unmounted(k) \in Call /\ unmounted(k).call = k.call /\ unmounted(k).mounted = FALSE
      BY <3>1 DEF Call
    <3> HIDE DEF unmounted
    <3> QED
      BY <2>5, <2>6, <3>2 DEF MayAwait
  <2>9. Sole(visit) => \A k, l \in calls' : k = l
    BY <2>1, TopIs DEF Holds, Ordered
  <2>10. \A k \in calls' : MayAwait(Sole(visit), facts', k) /\ ~k.mounted
    BY <2>1, <2>8
  <2>11. Known(facts')
    BY <2>4 DEF Steady
  <2> HIDE DEF unmounted, F
  <2>12. Holds(Sole(visit), Screens!Launched(facts'), calls', facts')
    BY <2>7, <2>9, <2>10, <2>11, HoldsLaunched
  <2> QED
    BY <2>1, <2>12, Anyway
<1>2. ASSUME NEW t \in {"JoinFederation", "FederationInvite"},
             Screens!Show(Screens!Navigated(t)), visit.links \/ Screens!At("TabsNavigator")
      PROVE  ScreensInv'
  <2>1. Screens!IsUnlocked(facts, "app")
    BY DEF Screens!Drawer
  <2>2. t \notin PinScreens
    BY DEF PinScreens
  <2>3. UNCHANGED <<visit, calls, facts>> /\ stack' = Screens!Navigated(t)
    BY <1>2 DEF Screens!Show
  <2>4. CASE visit.links
    <3>1. ~Sole(visit)
      BY <2>4 DEF Sole
    <3> QED
      BY <2>1, <2>2, <2>3, <3>1, StaysSteady, Loosely
  <2>5. CASE Screens!At("TabsNavigator")
    <3>1. MayLead("TabsNavigator", t)
      BY DEF MayLead, Opening, Behind, Outside, Over, Registering, Shut,
         Screens!Confirmations, Screens!Locking, Screens!Always
    <3> QED
      BY <1>2, <2>2, <2>5, <3>1, Showing
  <2> QED
    BY <1>2, <2>4, <2>5
<1> QED
  BY <1>1, <1>2 DEF Screens!Drawer

LEMMA Failing == ASSUME ScreensInv, Screens!Fails PROVE ScreensInv'
<1>1. PICK k \in calls :
          /\ calls' = calls \ {k} /\ UNCHANGED <<visit, stack>>
          /\ facts' = [facts EXCEPT !.leaving = IF k.call = "leaveFederation"
                                                THEN "none" ELSE @]
  BY DEF Screens!Fails
<1> DEFINE f == IF k.call = "leaveFederation" THEN "none" ELSE facts.leaving
<1>2. facts \in Screens!Facts /\ f \in Feds \cup {"none"}
  BY TopIs DEF Holds, Known, Screens!Facts
<1>3. facts' = [facts EXCEPT !.leaving = f]
  BY <1>1, <1>2 DEF Screens!Facts
<1> HIDE DEF f
<1>4. Steady(facts, facts')
  BY <1>2, <1>3, SteadyLeaving
<1>5. Holds(Sole(visit), stack, calls, facts')
  BY <1>4, TopIs, HoldsSteady
<1>6. IsFiniteSet(calls') /\ calls' \subseteq calls
  BY <1>1, <1>5, FS_RemoveElement DEF Holds
<1>7. Holds(Sole(visit), stack', calls', facts')
  BY <1>1, <1>5, <1>6 DEF Holds, Ordered
<1> QED
  BY <1>1, <1>7, Anyway

LEMMA Restarting == ASSUME ScreensInv, Screens!Restart PROVE ScreensInv'
<1> DEFINE b == Screens!Restarted
<1>1. stack' = Screens!Launched(b) /\ facts' = b /\ calls' = {} /\ UNCHANGED visit
  BY DEF Screens!Restart
<1>2. Known(facts) /\ facts \in Screens!Facts
  BY TopIs DEF Holds, Known
<1>3. b \in Screens!Facts /\ b.pin = facts.pin /\ b.status = facts.pin /\ b.backedUp = facts.backedUp
  <2> DEFINE required == ~facts.indexed
  <2>1. /\ required \in BOOLEAN /\ facts.pin \in BOOLEAN /\ facts.begun \in BOOLEAN
        /\ {} \in SUBSET Screens!Features /\ "none" \in Feds \cup {"none"}
        /\ {} \in SUBSET Screens!Confirmations
    BY <1>2 DEF Screens!Facts
  <2>2. b = [facts EXCEPT !.status = facts.pin, !.unlocked = {}, !.beforePin = FALSE,
                !.required = required, !.recovering = facts.begun, !.lock = FALSE,
                !.leaving = "none", !.cancelled = FALSE, !.paid = {}]
    BY DEF Screens!Restarted
  <2> DEFINE c == [facts EXCEPT !.status = facts.pin, !.unlocked = {}, !.beforePin = FALSE,
                !.required = required]
             d == [c EXCEPT !.recovering = facts.begun, !.lock = FALSE, !.leaving = "none"]
  <2>3. b = [d EXCEPT !.cancelled = FALSE, !.paid = {}]
    BY <2>2
  <2> HIDE DEF b, required
  <2>4. c \in Screens!Facts /\ c.pin = facts.pin /\ c.status = facts.pin
        /\ c.backedUp = facts.backedUp
    BY <1>2, <2>1 DEF Screens!Facts
  <2> HIDE DEF c
  <2>5. d \in Screens!Facts /\ d.pin = facts.pin /\ d.status = facts.pin
        /\ d.backedUp = facts.backedUp
    BY <2>1, <2>4 DEF Screens!Facts
  <2> HIDE DEF d
  <2> QED
    BY <2>1, <2>3, <2>5 DEF Screens!Facts
<1> HIDE DEF b
<1>4. Known(b)
  BY <1>2, <1>3 DEF Known
<1>5. Holds(Sole(visit), Screens!Launched(b), {}, b)
  BY <1>4, HoldsLaunched, FS_EmptySet
<1> QED
  BY <1>1, <1>5, Anyway

-----------------------------------------------------------------------------
\* The PIN.
LEMMA SteadyUnlocked ==
    ASSUME ScreensInv, NEW f \in Screens!Features,
           Screens!IsUnlocked(facts, "app") \/ f # "app"
    PROVE  Steady(facts, Screens!EnterPin(f)) /\ Screens!EnterPin(f) \in Screens!Facts
<1> DEFINE b == Screens!EnterPin(f)
<1>1. Known(facts) /\ facts \in Screens!Facts
  BY TopIs DEF Holds, Known
<1>2. b \in Screens!Facts /\ b.pin = facts.pin /\ b.status = facts.status
      /\ b.protected = facts.protected /\ b.unlocked = facts.unlocked \cup {f}
      /\ b.backedUp = facts.backedUp /\ b.cancelled = facts.cancelled /\ b.paid = facts.paid
  BY <1>1 DEF Screens!Facts, Screens!EnterPin
<1> HIDE DEF b
<1>3. Steady(facts, b)
  BY <1>1, <1>2 DEF Steady, Known, Screens!IsUnlocked
<1> QED
  BY <1>2, <1>3 DEF b

\* What the screens of a PIN, and all that is behind the lock, are there for.
LEMMA AtUnlocked ==
    ASSUME ScreensInv, NEW s, Screens!At(s),
           s \notin Shut \cup {"Splash", "Eula"}
    PROVE  Screens!IsUnlocked(facts, "app")
BY AtMay DEF May

LEMMA Securing ==
    ASSUME ScreensInv,
           \/ Screens!SetPin \/ Screens!PinAccess \/ Screens!FeatureLockScreen
           \/ Screens!CreatePinInstructions \/ Screens!ResetPinStart \/ Screens!RecoveryWords
    PROVE  ScreensInv'
<1>1. Known(facts) /\ facts \in Screens!Facts
  BY TopIs DEF Holds, Known
<1>2. \A s \in {"SetPin", "PinAccess", "RecoveryWords"} : s \notin Shut \cup {"Splash", "Eula"}
  BY DEF Shut, Registering, Screens!Locking
<1>3. CASE Screens!SetPin
  <2>1. Screens!IsUnlocked(facts, "app") /\ facts.backedUp
    BY <1>2, <1>3, AtMay, AtUnlocked DEF Screens!SetPin, May, PinScreens
  <2> DEFINE a == Screens!EnterPin("app")
  <2>2. UNCHANGED <<visit, calls>> /\ facts' = [a EXCEPT !.pin = TRUE]
        /\ stack' = Screens!Navigated("CreatedPin") /\ Screens!At("SetPin")
    BY <1>3 DEF Screens!SetPin, Screens!ShowAs
  <2>3. Steady(facts, a) /\ a \in Screens!Facts
    BY <2>1, SteadyUnlocked DEF Screens!Features
  <2> HIDE DEF a
  <2>4. /\ facts' \in Screens!Facts /\ facts'.pin = TRUE /\ facts'.status = a.status
        /\ facts'.protected = a.protected /\ facts'.unlocked = a.unlocked
        /\ facts'.backedUp = a.backedUp /\ facts'.cancelled = a.cancelled
        /\ facts'.paid = a.paid
    BY <2>2, <2>3 DEF Screens!Facts
  <2>5. Steady(facts, facts') /\ facts'.backedUp
    BY <2>1, <2>3, <2>4 DEF Steady, Known, Screens!IsUnlocked
  <2>6. Opening("SetPin", "CreatedPin") /\ Behind("SetPin", "CreatedPin")
        /\ "CreatedPin" \notin Screens!Confirmations
    BY DEF Opening, Behind, Outside, Over, Registering, Shut, Screens!Confirmations,
       Screens!Locking, Screens!Always
  <2>7. "CreatedPin" \notin facts'.paid
    BY <2>5, <2>6, NotPaid DEF Steady
  <2> QED
    BY <2>2, <2>5, <2>6, <2>7, Opens
<1>4. CASE Screens!PinAccess
  <2>1. Screens!At("PinAccess")
    BY <1>4 DEF Screens!PinAccess, Screens!Leads
  <2>2. Screens!IsUnlocked(facts, "app") /\ facts.backedUp
    BY <1>2, <2>1, AtMay, AtUnlocked DEF May, PinScreens
  <2>3. CASE Screens!Leads("PinAccess", {"SetPin"})
    BY <2>2, <2>3, Leading DEF MayLead, Opening, Behind, Outside, Over, Registering, Shut,
       Screens!Confirmations, Screens!Locking, Screens!Always
  <2>4. ASSUME NEW f \in {"app", "nostrSettings"},
               Screens!ShowAs(stack, [Screens!EnterPin(f) EXCEPT !.protected =
                                          IF f \in @ THEN @ \ {f} ELSE @ \cup {f}])
        PROVE  ScreensInv'
    <3> DEFINE a == Screens!EnterPin(f)
               guarded == IF f \in a.protected THEN a.protected \ {f}
                            ELSE a.protected \cup {f}
    <3>1. UNCHANGED <<visit, stack, calls>>
          /\ facts' = [a EXCEPT !.protected = IF f \in @ THEN @ \ {f} ELSE @ \cup {f}]
      BY <2>4 DEF Screens!ShowAs
    <3>2. Steady(facts, a) /\ a \in Screens!Facts
      BY <2>2, SteadyUnlocked DEF Screens!Features
    <3>3. f \in Screens!Features /\ a.unlocked = facts.unlocked \cup {f}
      BY <1>1 DEF Screens!EnterPin, Screens!Facts, Screens!Features
    <3> HIDE DEF a
    <3>4. facts' = [a EXCEPT !.protected = guarded] /\ guarded \in SUBSET Screens!Features
      BY <3>1, <3>2, <3>3 DEF Screens!Facts
    <3>5. "app" \in guarded /\ f # "app" => "app" \in a.protected
      OBVIOUS
    <3>6. f = "app" => "app" \in a.unlocked
      BY <3>3
    <3>7. "app" \in a.protected /\ f # "app" => "app" \in guarded
      OBVIOUS
    <3> HIDE DEF guarded
    <3>8. /\ facts' \in Screens!Facts /\ facts'.pin = a.pin /\ facts'.status = a.status
          /\ facts'.protected = guarded /\ facts'.unlocked = a.unlocked
          /\ facts'.backedUp = a.backedUp /\ facts'.cancelled = a.cancelled
          /\ facts'.paid = a.paid
      BY <3>2, <3>4 DEF Screens!Facts
    <3>9. Screens!IsUnlocked(facts', "app") = Screens!IsUnlocked(a, "app")
      BY <3>5, <3>6, <3>7, <3>8 DEF Screens!IsUnlocked
    <3>10. Steady(facts, facts')
      BY <3>2, <3>8, <3>9 DEF Steady, Known
    <3>11. Holds(Sole(visit), stack, calls, facts')
      BY <3>10, TopIs, HoldsSteady
    <3> QED
      BY <3>1, <3>11, Anyway
  <2> QED
    BY <1>4, <2>3, <2>4 DEF Screens!PinAccess
<1>5. CASE Screens!FeatureLockScreen
  <2>1. PICK f \in {"changePin", "nostrSettings"} :
            UNCHANGED <<visit, stack, calls>> /\ facts' = Screens!EnterPin(f)
    BY <1>5 DEF Screens!FeatureLockScreen, Screens!ShowAs
  <2>2. Steady(facts, facts')
    BY <2>1, SteadyUnlocked DEF Screens!Features
  <2>3. Holds(Sole(visit), stack, calls, facts')
    BY <2>2, TopIs, HoldsSteady
  <2> QED
    BY <2>1, <2>3, Anyway
<1>6. ASSUME NEW s, Screens!At(s), NEW t,
             Screens!ShowAs(Screens!Navigated(t), [facts EXCEPT !.beforePin = TRUE]),
             MayLead(s, t), t \notin PinScreens
      PROVE  ScreensInv'
  <2>1. UNCHANGED <<visit, calls>> /\ facts' = [facts EXCEPT !.beforePin = TRUE]
        /\ stack' = Screens!Navigated(t)
    BY <1>6 DEF Screens!ShowAs
  <2>2. Steady(facts, facts')
    BY <2>1, SteadyRecovery
  <2>3. t \notin facts'.paid
    BY <1>6, <2>2, NotPaid DEF Steady, MayLead
  <2> QED
    BY <1>6, <2>1, <2>2, <2>3, Opens DEF MayLead
<1>7. CASE Screens!CreatePinInstructions
  <2>1. MayLead("CreatePinInstructions", "ChooseBackupMethod") /\ "ChooseBackupMethod" \notin PinScreens
    BY DEF MayLead, Opening, Behind, Outside, Over, Registering, Shut, PinScreens,
       Screens!Confirmations, Screens!Locking, Screens!Always
  <2> QED
    BY <1>6, <1>7, <2>1 DEF Screens!CreatePinInstructions
<1>8. CASE Screens!ResetPinStart
  <2>1. MayLead("ResetPinStart", "ResetPin") /\ "ResetPin" \notin PinScreens
    BY DEF MayLead, Opening, Behind, Outside, Over, Registering, Shut, PinScreens,
       Screens!Confirmations, Screens!Locking, Screens!Always
  <2> QED
    BY <1>6, <1>8, <2>1 DEF Screens!ResetPinStart
<1>9. CASE Screens!RecoveryWords
  <2>1. \A t \in {"Settings", "SetPin", "TabsNavigator"} : MayLead("RecoveryWords", t)
    BY DEF MayLead, Opening, Behind, Outside, Over, Registering, Shut,
       Screens!Confirmations, Screens!Locking, Screens!Always
  <2>2. Screens!At("RecoveryWords")
    BY <1>9 DEF Screens!RecoveryWords
  <2>3. CASE Screens!Show(Screens!Navigated("Settings"))
    BY <2>1, <2>2, <2>3, Showing DEF PinScreens
  <2>4. ASSUME NEW t \in {"SetPin", "TabsNavigator"}, NEW n \in BOOLEAN,
               Screens!ShowAs(Screens!Navigated(t),
                              [facts EXCEPT !.backedUp = TRUE, !.beforePin = n])
        PROVE  ScreensInv'
    <3>1. UNCHANGED <<visit, calls>> /\ stack' = Screens!Navigated(t)
          /\ facts' = [facts EXCEPT !.backedUp = TRUE, !.beforePin = n]
      BY <2>4 DEF Screens!ShowAs
    <3>2. /\ facts' \in Screens!Facts /\ facts'.pin = facts.pin /\ facts'.status = facts.status
          /\ facts'.protected = facts.protected /\ facts'.unlocked = facts.unlocked
          /\ facts'.backedUp = TRUE /\ facts'.cancelled = facts.cancelled
          /\ facts'.paid = facts.paid
      BY <1>1, <3>1 DEF Screens!Facts
    <3>3. Steady(facts, facts')
      BY <1>1, <3>2 DEF Steady, Known, Screens!IsUnlocked
    <3>4. MayLead("RecoveryWords", t)
      BY <2>1
    <3>5. t \notin facts'.paid
      BY <3>3, <3>4, NotPaid DEF Steady, MayLead
    <3> QED
      BY <2>2, <3>1, <3>2, <3>3, <3>4, <3>5, Opens DEF MayLead
  <2>5. CASE Screens!ShowAs(Screens!Navigated("TabsNavigator"), [facts EXCEPT !.backedUp = TRUE])
    <3>1. [facts EXCEPT !.backedUp = TRUE]
              = [facts EXCEPT !.backedUp = TRUE, !.beforePin = facts.beforePin]
      BY <1>1 DEF Screens!Facts
    <3>2. facts.beforePin \in BOOLEAN
      BY <1>1 DEF Screens!Facts
    <3> QED
      BY <2>4, <2>5, <3>1, <3>2
  <2> QED
    BY <1>9, <2>3, <2>4, <2>5 DEF Screens!RecoveryWords
<1> QED
  BY <1>3, <1>4, <1>5, <1>7, <1>8, <1>9

\* The app is unlocked: of the routes that are gone, all or none were on the stack.
LEMMA ReroutedIs ==
    ASSUME ScreensInv, NEW a, Screens!IsUnlocked(a, "app")
    PROVE  \/ Screens!Rerouted(a) = stack /\ Screens!ToSet(stack) \subseteq Screens!Routes(a)
           \/ Screens!Rerouted(a) = <<Screens!Entry(a)>> /\ ~Screens!IsUnlocked(facts, "app")
<1>1. Whole(stack) /\ \A i \in 1 .. Len(stack) : stack[i] \in Screens!Routes(facts)
  BY TopIs DEF Holds, May
<1>2. CASE Screens!IsUnlocked(facts, "app")
  <2>1. Screens!Routes(a) = Screens!Routes(facts)
    BY <1>2 DEF Screens!Routes
  <2>2. Screens!ToSet(stack) \subseteq Screens!Routes(a)
    BY <1>1, <2>1 DEF Screens!ToSet
  <2> QED
    BY <2>2 DEF Screens!Rerouted
<1>3. CASE ~Screens!IsUnlocked(facts, "app")
  <2>1. \A t \in Screens!Routes(facts) : t \in Screens!Locking \/ t \in Screens!Routes(a)
    BY <1>3 DEF Screens!Routes
  <2>2. Screens!Locking \cap Screens!Routes(a) = {}
    BY DEF Screens!Routes, Screens!Always, Screens!HomeAndChat, Screens!Wallet,
       Screens!Backups, Screens!SettingsAndPools, Screens!Locking
  <2>3. CASE \E i \in 1 .. Len(stack) : stack[i] \in Screens!Locking
    <3>1. \A i \in 1 .. Len(stack) : stack[i] \in Screens!Locking
      BY <1>1, <2>3 DEF Whole
    <3>2. Screens!ToSet(stack) \cap Screens!Routes(a) = {}
      BY <2>2, <3>1 DEF Screens!ToSet
    <3>3. stack[1] \in Screens!ToSet(stack)
      BY TopIs DEF Screens!ToSet
    <3> QED
      BY <1>3, <3>2, <3>3 DEF Screens!Rerouted
  <2>4. CASE \A i \in 1 .. Len(stack) : stack[i] \notin Screens!Locking
    <3>1. Screens!ToSet(stack) \subseteq Screens!Routes(a)
      BY <1>1, <2>1, <2>4 DEF Screens!ToSet
    <3> QED
      BY <3>1 DEF Screens!Rerouted
  <2> QED
    BY <2>3, <2>4
<1> QED
  BY <1>2, <1>3

LEMMA Unlocks ==
    ASSUME ScreensInv, NEW a, Known(a), Screens!IsUnlocked(a, "app"), a.status = facts.status,
           a.backedUp = facts.backedUp, a.paid = facts.paid
    PROVE  Holds(Sole(visit), Screens!Rerouted(a), calls, a)
<1>1. Holds(Sole(visit), stack, calls, facts)
  BY TopIs
<1>2. \A k \in calls : MayAwait(Sole(visit), a, k)
  BY <1>1 DEF Holds, MayAwait
<1>3. CASE Screens!Rerouted(a) = stack /\ Screens!ToSet(stack) \subseteq Screens!Routes(a)
  <2>1. \A i \in 1 .. Len(stack) : May(Sole(visit), a, stack[i])
    BY <1>1, <1>3 DEF Holds, May, Screens!ToSet
  <2> QED
    BY <1>1, <1>2, <1>3, <2>1 DEF Holds
<1>4. CASE Screens!Rerouted(a) = <<Screens!Entry(a)>>
  <2> DEFINE t == Screens!Entry(a)
             one == <<t>>
  <2>1. t \in {"TabsNavigator", "Splash"}
    BY DEF Screens!Entry
  <2>2. t \in Outside /\ t \in Screens!Routes(a) /\ t \notin PinScreens
        /\ t \notin Screens!Confirmations /\ t # "PopupFederationEnded"
    BY <2>1 DEF Outside, PinScreens, Screens!Confirmations, Screens!Routes, Screens!Always,
       Screens!HomeAndChat
  <2> HIDE DEF t
  <2>3. May(Sole(visit), a, t)
    BY <2>2, NotPaid DEF May
  <2>4. one \in Seq(AllScreens) /\ one # <<>> /\ Len(one) = 1 /\ one[1] = t
    BY <2>2, RoutesAre
  <2>5. Stacked(one) /\ \A c : Awaited(c, one)
    BY <2>2, AloneIsOrdered
  <2> HIDE DEF one
  <2>6. Whole(one) /\ \A i \in 1 .. Len(one) : May(Sole(visit), a, one[i])
    BY <2>3, <2>4 DEF Whole
  <2>7. Holds(Sole(visit), one, calls, a)
    BY <1>1, <1>2, <2>4, <2>5, <2>6 DEF Holds, Ordered
  <2> QED
    BY <1>4, <2>7 DEF one, t
<1> QED
  BY <1>3, <1>4, ReroutedIs

LEMMA Unlocking == ASSUME ScreensInv, Screens!LockScreen PROVE ScreensInv'
<1>1. CASE Screens!Leads("LockScreen", {"ResetPinStart"})
  BY <1>1, Leading DEF MayLead, Opening, Behind, Outside, Over, Registering, PinScreens, Shut,
     Screens!Confirmations, Screens!Locking, Screens!Always
<1>2. CASE Screens!ShowAs(Screens!Rerouted(Screens!EnterPin("app")), Screens!EnterPin("app"))
  <2> DEFINE a == Screens!EnterPin("app")
  <2>1. UNCHANGED <<visit, calls>> /\ facts' = a /\ stack' = Screens!Rerouted(a)
    BY <1>2 DEF Screens!ShowAs
  <2>2. Known(facts) /\ facts \in Screens!Facts
    BY TopIs DEF Holds, Known
  <2>3. a \in Screens!Facts /\ a.pin = facts.pin /\ a.status = facts.status
        /\ a.unlocked = facts.unlocked \cup {"app"}
        /\ a.backedUp = facts.backedUp /\ a.paid = facts.paid
    BY <2>2 DEF Screens!Facts, Screens!EnterPin, Screens!Features
  <2> HIDE DEF a
  <2>4. Known(a) /\ Screens!IsUnlocked(a, "app")
    BY <2>2, <2>3 DEF Known, Screens!IsUnlocked
  <2>5. Holds(Sole(visit), Screens!Rerouted(a), calls, a)
    BY <2>3, <2>4, Unlocks
  <2> QED
    BY <2>1, <2>5, Anyway
<1> QED
  BY <1>1, <1>2 DEF Screens!LockScreen

\* A screen over those that there are, once the app is unlocked.
LEMMA HoldsOver ==
    ASSUME NEW sole, NEW st, NEW cs, NEW a, Holds(sole, st, cs, a), Screens!IsUnlocked(a, "app"),
           NEW t, May(sole, a, t), t \in Over, t \notin Registering, t # "ConfirmSendOnChain"
    PROVE  Fine(sole, Append(st, t), a)
<1>1. st \in Seq(AllScreens) /\ st # <<>> /\ t \in AllScreens
  BY RoutesAre DEF Holds, May
<1> DEFINE s == Append(st, t)
<1>2. /\ s \in Seq(AllScreens) /\ s # <<>>
      /\ \A i \in 1 .. Len(s) : (i \in 1 .. Len(st) /\ s[i] = st[i]) \/ s[i] = t
  BY <1>1
<1>3. sole => Stacked(s)
  BY <1>1, OntoIsStacked DEF Holds, Ordered
<1> HIDE DEF s
<1>4. \A i \in 1 .. Len(s) : May(sole, a, s[i])
  BY <1>2 DEF Holds
<1>5. Whole(s)
  BY <1>4, FreeIsWhole
<1>6. Fine(sole, s, a)
  BY <1>2, <1>3, <1>4, <1>5 DEF Fine
<1> QED
  BY <1>6 DEF s

LEMMA Resettled == ASSUME ScreensInv, Screens!ResetPin PROVE ScreensInv'
<1>1. CASE facts.status /\ Screens!Calls("ResetPin", "checkMnemonic")
  <2>1. Calling("ResetPin", "checkMnemonic") /\ ShutCalls("ResetPin", "checkMnemonic")
        /\ "checkMnemonic" \in Awaitable
    BY DEF Calling, ShutCalls, Pays, OverCalls, OnboardCalls, LockedCalls, Over, Awaitable,
       Registering, Shut, Screens!Locking, Screens!Confirmations
  <2> QED
    BY <1>1, <2>1, Calls
<1> DEFINE a == Screens!Unpinned(facts)
           r == Screens!Rerouted(a)
           s == Screens!NavigatedOn(r, a, "SetPin")
           sole == Sole(visit)
<1>2. CASE Screens!EndsAs("checkMnemonic", s, a)
  <2>1. PICK k \in calls :
            /\ k.call = "checkMnemonic" /\ calls' = calls \ {k}
            /\ stack' = IF k.mounted THEN s ELSE stack
            /\ facts' = a /\ UNCHANGED visit
    BY <1>2 DEF Screens!EndsAs, Screens!EndsHavingSeen
  <2>2. Known(facts) /\ facts \in Screens!Facts /\ Holds(sole, stack, calls, facts)
    BY TopIs DEF Holds, Known
  <2>3. a \in Screens!Facts /\ a.pin = FALSE /\ a.status = facts.status
        /\ a.protected = facts.protected /\ a.unlocked = facts.unlocked \cup facts.protected
        /\ a.backedUp = facts.backedUp /\ a.cancelled = facts.cancelled /\ a.paid = facts.paid
    BY <2>2 DEF Screens!Facts, Screens!Unpinned
  <2> HIDE DEF a
  <2>4. Known(a) /\ Screens!IsUnlocked(a, "app")
    BY <2>2, <2>3 DEF Known, Screens!IsUnlocked
  <2>5. MayAwait(sole, facts, k)
    BY <2>2 DEF Holds
  <2>6. a.backedUp
    BY <2>1, <2>2, <2>3, <2>5 DEF MayAwait, Known
  <2>7. Holds(sole, r, calls, a)
    BY <2>3, <2>4, Unlocks
  <2> HIDE DEF r, sole
  <2>8. May(sole, a, "SetPin")
    <3>1. "SetPin" \in Screens!Routes(a) /\ "SetPin" \notin Screens!Confirmations
      BY <2>4 DEF Screens!Routes, Screens!SettingsAndPools, Screens!Confirmations
    <3> QED
      BY <2>4, <2>6, <3>1, NotPaid DEF May
  <2>9. Fine(sole, s, a)
    <3>1. r \in Seq(AllScreens) /\ r # <<>>
      BY <2>7 DEF Holds
    <3>2. \/ s = r
          \/ \E n \in 1 .. Len(r) : s = Shorter(r, n)
          \/ s = Append(r, "SetPin")
      BY <3>1, NavigatedIs
    <3>3. Fine(sole, Append(r, "SetPin"), a)
      BY <2>4, <2>7, <2>8, HoldsOver DEF Over, Registering
    <3>4. \A n \in 1 .. Len(r) : Fine(sole, Shorter(r, n), a)
      <4> TAKE n \in 1 .. Len(r)
      <4>1. Holds(sole, Shorter(r, n), calls, a)
        BY <2>7, HoldsShorter
      <4> QED
        BY <4>1 DEF Holds, Ordered, Fine
    <3>5. Fine(sole, r, a)
      BY <2>7 DEF Holds, Ordered, Fine
    <3> QED
      BY <3>2, <3>3, <3>4, <3>5
  <2>10. ~k.mounted => Fine(sole, stack, a)
    <3> SUFFICES ASSUME ~k.mounted PROVE Fine(sole, stack, a)
      OBVIOUS
    <3>1. Screens!IsUnlocked(facts, "app")
      BY <2>5 DEF MayAwait
    <3>2. Screens!Rerouted(a) = stack
      BY <2>4, <3>1, ReroutedIs
    <3> QED
      BY <2>7, <3>2 DEF Holds, Ordered, Fine, r
  <2> HIDE DEF s
  <2>11. Fine(sole, stack', a)
    BY <2>1, <2>9, <2>10
  <2>12. IsFiniteSet(calls') /\ \A l \in calls' : MayAwait(sole, a, l)
    BY <2>1, <2>7, FS_RemoveElement DEF Holds
  <2>13. sole => calls' = {}
    BY <2>1, <2>2 DEF Holds, Ordered
  <2>14. Holds(sole, stack', calls', facts')
    BY <2>1, <2>4, <2>11, <2>12, <2>13 DEF Holds, Ordered, Fine
  <2> QED
    BY <2>1, <2>14, Anyway DEF sole
<1> QED
  BY <1>1, <1>2 DEF Screens!ResetPin

LEMMA ScreensStart ==
    ASSUME Screens!NavigationAssumption, Screens!Init
    PROVE  ScreensInv
<1>1. visit \in Visits /\ Screens!Visit(visit)
  BY DEF Screens!NavigationAssumption, Screens!Init
<1>2. Known(facts)
  BY <1>1 DEF Screens!Init, Screens!Visit, Known
<1>3. stack = Screens!Launched(facts) /\ calls = {}
  BY DEF Screens!Init
<1>4. IsFiniteSet(calls) /\ \A k \in calls : MayAwait(Sole(visit), facts, k) /\ ~k.mounted
  BY <1>3, FS_EmptySet
<1>5. \A k, l \in calls : k = l
  BY <1>3
<1>6. Holds(Sole(visit), Screens!Launched(facts), calls, facts)
  BY <1>2, <1>4, <1>5, HoldsLaunched
<1> QED
  BY <1>1, <1>3, <1>6 DEF ScreensInv

LEMMA ScreensGoOn ==
    ASSUME ScreensInv, [Screens!Next]_(Screens!vars)
    PROVE  ScreensInv'
<1>1. CASE UNCHANGED Screens!vars
  <2>1. visit' = visit /\ stack' = stack /\ calls' = calls /\ facts' = facts
    BY <1>1 DEF Screens!vars
  <2> QED
    BY <2>1 DEF ScreensInv
<1>2. CASE Screens!Next
  BY <1>2, LeadsOutside, LeadsInside, LeadsFurther, Moving, Asking, Joining, Leaving,
     RecoveringSeed, Recovering, Cancelling, Taken, PayingFor, Stabilizing, PayingInChat,
     Chatting, Inviting, Linking, Remounted, Failing, Restarting, Securing, Unlocking,
     Resettled DEF Screens!Next
<1> QED
  BY <1>1, <1>2

LEMMA ScreensAreSound ==
    ASSUME ScreensInv
    PROVE  /\ Screens!TypeOK /\ Screens!PaidIsNotAsked
           /\ Screens!PinIsBackedUp /\ Screens!LockedIsShut
<1> DEFINE a == facts
<1>1. /\ visit \in Visits /\ Known(facts) /\ stack \in Seq(AllScreens) /\ stack # <<>>
      /\ \A i \in 1 .. Len(stack) : May(Sole(visit), facts, stack[i])
      /\ \A k \in calls : MayAwait(Sole(visit), facts, k)
  BY DEF ScreensInv, Holds
<1>2. \A t \in Screens!ToSet(stack) : May(Sole(visit), facts, t)
  BY <1>1 DEF Screens!ToSet
<1>3. Screens!TypeOK
  <2>1. \A i \in 1 .. Len(stack) : stack[i] \in Screens!Routes(facts)
    BY <1>1 DEF May
  <2>2. stack \in Seq(Screens!Routes(facts))
    BY <1>1, <2>1
  <2>3. \A k \in calls : k \in Call
    BY <1>1 DEF MayAwait
  <2>4. \A k \in calls : {k.named, k.mounted} \subseteq BOOLEAN /\ k.active \in Feds \cup {"none"}
    BY <2>3 DEF Call
  <2>5. facts \in Screens!Facts
    BY <1>1 DEF Known
  <2> QED
    BY <1>1, <2>2, <2>4, <2>5 DEF Screens!TypeOK
<1>4. Screens!PaidIsNotAsked
  BY <1>2 DEF May, Sole, Screens!PaidIsNotAsked
<1>5. Screens!PinIsBackedUp
  <2>1. facts.pin => facts.backedUp
    BY <1>1 DEF Known
  <2>2. Screens!Has("SetPin") => facts.backedUp
    BY <1>2 DEF Screens!Has, May, PinScreens
  <2> QED
    BY <2>1, <2>2 DEF Screens!PinIsBackedUp
<1>6. Screens!LockedIsShut
  BY <1>2 DEF May, Shut, Registering, Screens!LockedIsShut
<1> QED
  BY <1>3, <1>4, <1>5, <1>6

-----------------------------------------------------------------------------
\* All of them side by side.

\* What does not run stays as it is, and what runs takes steps of its own only.
LEMMA DevicesRunAlone ==
    ASSUME [DevicesNext]_allDevices
    PROVE  /\ which' = which
           /\ which = "storage" => [Next]_vars
           /\ which = "migrations" => [Migrations!Next]_(Migrations!vars)
           /\ which = "entry" => [Entry!Next]_(Entry!vars)
           /\ which = "pin" => [Lock!Next]_(Lock!vars)
           /\ which = "recovery" => [Recovery!Next]_(Recovery!vars)
           /\ which = "screens" => [Screens!Next]_(Screens!vars)
<1>1. CASE UNCHANGED allDevices
  BY <1>1 DEF allDevices, migrationsVars, onboardingVars, pinVars, recoveryVars,
     screensVars, Screens!vars, Migrations!vars, Entry!vars, Lock!vars, Recovery!vars, Entry!bridge, Entry!redux,
     Lock!stored, Lock!screenVars, Recovery!guardianVars, Recovery!deviceVars,
     Recovery!pageVars
<1>2. CASE StorageStep
  BY <1>2 DEF StorageStep
<1>3. CASE MigrationsStep
  BY <1>3 DEF MigrationsStep
<1>4. CASE RegistrationStep
  BY <1>4 DEF RegistrationStep
<1>5. CASE OnboardingStep
  BY <1>5 DEF OnboardingStep
<1>6. CASE PinStep
  BY <1>6 DEF PinStep
<1>7. CASE RecoveryStep
  BY <1>7 DEF RecoveryStep
<1>8. CASE ScreensStep
  BY <1>8 DEF ScreensStep
<1> QED
  BY <1>1, <1>2, <1>3, <1>4, <1>5, <1>6, <1>7, <1>8 DEF DevicesNext

\* The invariants of a recovery hold in the composition as well.
LEMMA BackupsHold ==
    DevicesSpec => [](which = "recovery" => BackupsInv /\ RecoveryTyped)
<1> DEFINE Sound == which = "recovery" => BackupsInv /\ RecoveryTyped
<1>1. DevicesInit => Sound
  BY BackupsStart, TypedStart, DevicesConstantsAssumption DEF DevicesInit
<1>2. Sound /\ [DevicesNext]_allDevices => Sound'
  BY DevicesRunAlone, BackupsGoOn, RecoveryTypesStay, DevicesConstantsAssumption
<1> QED
  BY <1>1, <1>2, PTL DEF DevicesSpec

\* Nothing is undone by what happens to a device later: what was unread before the
\* migrations of the stored state is not taken for read, and a recovery file is of a
\* backup that every guardian has, as long as it is the last that was begun
\* (StoredState, StorageMigrations and SocialRecovery).
THEOREM StoredIsAlwaysTrue == DevicesSpec => []StoredIsTrue
<1>1. DevicesSpec => [](which = "storage" => TypeOK)
  <2>1. DevicesInit => Init
    BY DEF DevicesInit
  <2>2. [DevicesNext]_allDevices /\ which = "storage" => [Next]_vars
    BY DevicesRunAlone
  <2>3. [DevicesNext]_allDevices => ((which = "storage")' <=> which = "storage")
    BY DevicesRunAlone
  <2> QED
    BY <2>1, <2>2, <2>3, TypesHold, PTL DEF DevicesSpec, Spec
<1>2. DevicesSpec => [](which = "migrations" => MigrationsInv)
  <2> DEFINE Sound == which = "migrations" => MigrationsInv
  <2>1. DevicesInit => Sound
    BY MigrationsStart, DevicesConstantsAssumption DEF DevicesInit
  <2>2. Sound /\ [DevicesNext]_allDevices => Sound'
    BY DevicesRunAlone, MigrationsGoOn, DevicesConstantsAssumption
  <2> QED
    BY <2>1, <2>2, PTL DEF DevicesSpec
<1>3. /\ which = "storage" => TypeOK
      /\ which = "migrations" => MigrationsInv
      /\ which = "recovery" => BackupsInv /\ RecoveryTyped
      => StoredIsTrue
  BY MigrationsAreSound, TypedIsTypeOK
     DEF StoredIsTrue, NothingReadUnread, FilesAreBackedUp, BackupsInv
<1> QED
  BY <1>1, <1>2, <1>3, BackupsHold, PTL

\* Who is in the app has a name, nobody is asked for a PIN that is gone, and who waits
\* for approvals in a social recovery waits for those that can be given, and can complete
\* it when none remains (Onboarding, Pin and SocialRecovery).
THEOREM EntryIsAlwaysSound == DevicesSpec => []EntryIsSound
<1>1. DevicesSpec => [](which = "entry" => NameIsOfTheAccount /\ Entry!TypeOK)
  <2> DEFINE Sound == which = "entry" => NameIsOfTheAccount /\ Entry!TypeOK
  <2>1. Entry!Init => NameIsOfTheAccount /\ Entry!TypeOK
    BY DEF Entry!Init, NameIsOfTheAccount, Entry!TypeOK, Entry!Seeds
  <2>2. DevicesInit => Sound
    BY <2>1 DEF DevicesInit
  <2>3. Sound /\ [DevicesNext]_allDevices => Sound'
    BY DevicesRunAlone, NamesStay, EntryTypesStay
  <2> QED
    BY <2>2, <2>3, PTL DEF DevicesSpec
<1>2. DevicesSpec => [](which = "pin" => GoneIsUnlocked /\ Lock!TypeOK)
  <2> DEFINE Sound == which = "pin" => GoneIsUnlocked /\ Lock!TypeOK
  <2>1. Lock!Init => GoneIsUnlocked
    BY DEF Lock!Init, GoneIsUnlocked
  <2>2. DevicesInit => Sound
    BY <2>1, PinTypesStart, DevicesConstantsAssumption DEF DevicesInit
  <2>3. Sound /\ [DevicesNext]_allDevices => Sound'
    BY DevicesRunAlone, GoneStaysUnlocked, PinTypesStay, DevicesConstantsAssumption
  <2> QED
    BY <2>2, <2>3, PTL DEF DevicesSpec
<1>3. DevicesSpec => [](which = "recovery" /\ ~PollsOverlap => SessionsInv)
  <2> DEFINE Sound == which = "recovery" /\ ~PollsOverlap => SessionsInv
  <2>1. ~PollsOverlap => NoOverlap
    BY DevicesConstantsAssumption DEF Recovery!RecoveryAssumption, NoOverlap
  <2>2. DevicesInit => Sound
    BY SessionsStart, DevicesConstantsAssumption DEF DevicesInit
  <2>3. Sound /\ [DevicesNext]_allDevices => Sound'
    BY <2>1, DevicesRunAlone, SessionsGoOn
  <2> QED
    BY <2>2, <2>3, PTL DEF DevicesSpec
<1>4. /\ which = "entry" => NameIsOfTheAccount /\ Entry!TypeOK
      /\ which = "pin" => GoneIsUnlocked /\ Lock!TypeOK
      /\ which = "recovery" /\ ~PollsOverlap => SessionsInv
      => EntryIsSound
  <2>1. NameIsOfTheAccount => Entry!InIsNamed
    BY DEF NameIsOfTheAccount, Entry!InIsNamed
  <2>2. GoneIsUnlocked => Lock!NoLockWithoutPin
    BY DEF GoneIsUnlocked, Lock!NoLockWithoutPin, Lock!Locked
  <2> QED
    BY <2>1, <2>2, SessionsSuffice, DevicesConstantsAssumption
       DEF EntryIsSound, InIsNamed, NoLockWithoutPin, GuardiansAreAsked, NoneRemains
<1> QED
  BY <1>1, <1>2, <1>3, <1>4, PTL

\* A payment that was confirmed is not asked for again by the screen that confirmed it,
\* when nothing else is opened meanwhile; there is no PIN, nor a screen to set one, without
\* a backup of the seed; and an app that is locked shows nothing but its locks and what a
\* recovery left off or cancelled leaves, through any visits (Navigation).
THEOREM StackIsAlwaysSound == DevicesSpec => []StackIsSound
<1> DEFINE Sound == which = "screens" => ScreensInv
<1>1. DevicesInit => Sound
  BY ScreensStart, DevicesConstantsAssumption DEF DevicesInit
<1>2. Sound /\ [DevicesNext]_allDevices => Sound'
  BY DevicesRunAlone, ScreensGoOn
<1>3. Sound => StackIsSound
  BY ScreensAreSound DEF StackIsSound
<1> QED
  BY <1>1, <1>2, <1>3, PTL DEF DevicesSpec

=============================================================================
