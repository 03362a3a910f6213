-------------------------- MODULE DeviceRegistration --------------------------
(***************************************************************************)
(* Devices that share one seed.  Every device derives its accounts from    *)
(* the seed and a device index; Fedi's registration server records which   *)
(* device owns which index.  A device that was given the seed by its user  *)
(* (recovery) has no index until it is registered as a new device or takes *)
(* over the index of another one; a device with an index renews its        *)
(* registration for ever and is locked when the index turns out to be      *)
(* another device's.                                                       *)
(*                                                                         *)
(* A registration is a chain of requests (register_device_for_seed), each  *)
(* of which the server may serve while its answer is lost; the whole chain *)
(* is then tried again (register_device_with_backoff).                     *)
(***************************************************************************)
EXTENDS Integers, FiniteSets

CONSTANTS
    Devices,
    First,          \* the device the seed was made on: its index is 0
    Legacy,         \* devices registered before identifiers were encrypted
    MaxIndex,       \* bound
    OnboardsAgain,  \* BOOLEAN: a device with federations may be shown the
                    \* onboarding, because its chat account is not known yet
    MaxActs         \* bound: acts of users, and answers that are lost

DeviceAssumption ==
    /\ First \in Devices /\ Legacy \subseteq {First}
    /\ MaxIndex \in Nat /\ MaxActs \in Nat /\ OnboardsAgain \in BOOLEAN

VARIABLES
    index,      \* AppState.device_index: an index, Unassigned, or Elsewhere (the
                \* device still has a seed of its own)
    joined,     \* devices with joined federations
    service,    \* the renewal task: a chain, or Off
    call,       \* registerAsNewDevice or transferExistingDeviceRegistration, or Off
    owner,      \* the server: the identifier that owns an index, or Nobody
    up,         \* devices on which the app runs
    locked,     \* redux shouldLockDevice
    known,      \* redux registeredDevices: the indices listed
    transfers,  \* history: indices the user asked to transfer
    acts

vars == <<index, joined, service, call, owner, up, locked, known, transfers, acts>>
device == <<index, joined, up, locked, known>>

Indices == 0 .. MaxIndex
Unassigned == -1
Elsewhere == -2
Off == [step |-> "off"]
Chain(i, force, step) == [index |-> i, force |-> force, step |-> step]
Chains == {Off} \cup [index : Indices, force : BOOLEAN,
                      step : {"encrypted", "plain", "overwrite", "done", "conflict"}]

\* A device identifies itself with its identifier, encrypted or plain.
Identifiers == Devices \X {"encrypted", "plain"}
Nobody == <<>>
Owners(i) == IF owner[i] = Nobody THEN {} ELSE {owner[i][1]}

TypeOK ==
    /\ index \in [Devices -> Indices \cup {Unassigned, Elsewhere}]
    /\ joined \subseteq {d \in Devices : index[d] \in Indices}
    /\ service \in [Devices -> Chains] /\ call \in [Devices -> Chains]
    /\ \A d \in Devices :
        /\ service[d] # Off => d \in up /\ index[d] = service[d].index
        /\ call[d] # Off => d \in up /\ index[d] = Unassigned
    /\ owner \in [Indices -> Identifiers \cup {Nobody}]
    /\ {up, locked} \subseteq SUBSET Devices /\ locked \subseteq up
    /\ known \in [Devices -> SUBSET Indices] /\ transfers \subseteq Indices

Init ==
    /\ index = [d \in Devices |-> IF d = First THEN 0 ELSE Elsewhere]
    /\ joined = {} /\ call = [d \in Devices |-> Off]
    /\ service = [d \in Devices |->
                    IF d = First THEN Chain(0, FALSE, "encrypted") ELSE Off]
    /\ owner = [i \in Indices |-> IF i = 0 /\ First \in Legacy
                                  THEN <<First, "plain">> ELSE Nobody]
    /\ up = Devices /\ locked = {} /\ known = [d \in Devices |-> {}]
    /\ transfers = {} /\ acts = 0

Act == acts < MaxActs /\ acts' = acts + 1
Registered == {i \in Indices : owner[i] # Nobody}

-----------------------------------------------------------------------------
\* One request of register_device_for_seed by device d, and the step of the
\* chain that follows: the encrypted identifier, then the plain one, and when
\* that one owns the index the encrypted one again, with force.
Identifier(d, c) == <<d, IF c.step = "plain" THEN "plain" ELSE "encrypted">>
\* Mutant: the plain identifier is registered with force too.
ForcedAgain(c) == c.force \/ c.step # "encrypted"
Forced(c) == c.force \/ c.step = "overwrite"
Granted(d, c) ==
    Forced(c) \/ owner[c.index] \in {Nobody, Identifier(d, c)}

After(step, granted) ==
    CASE step = "encrypted" -> IF granted THEN "done" ELSE "plain"
      [] step = "plain" -> IF granted THEN "overwrite" ELSE "conflict"
      [] step = "overwrite" -> "done"

Asking(c) == c # Off /\ c.step \in {"encrypted", "plain", "overwrite"}

Serve(d, c) ==
    owner' = IF Granted(d, c) THEN [owner EXCEPT ![c.index] = Identifier(d, c)]
             ELSE owner

\* The answer arrives, or is lost and the chain begins again.
Answered(d, c) == [c EXCEPT !.step = After(c.step, Granted(d, c))]
Restarted(c) == [c EXCEPT !.step = "encrypted"]
Request(d, c, next) ==
    /\ Asking(c) /\ Serve(d, c)
    /\ \/ next = Answered(d, c) /\ UNCHANGED acts
       \/ next = Restarted(c) /\ next # Answered(d, c) /\ Act

\* A conflict sends the UI an event, whoever asked.
Conflict(d, c) == locked' = IF c.step = "conflict" THEN locked \cup {d} ELSE locked

-----------------------------------------------------------------------------
\* renew_registration_periodically: it sleeps, and begins again; after a
\* conflict the loop ends.
Renew(d) ==
    /\ Asking(service[d])
    /\ \E c \in {Answered(d, service[d]), Restarted(service[d])} :
        /\ Request(d, service[d], c) /\ Conflict(d, c)
        /\ service' = [service EXCEPT ![d] = c]
    /\ UNCHANGED <<index, joined, call, up, known, transfers>>

Sleep(d) ==
    /\ service[d] # Off /\ service[d].step = "done"
    /\ service' = [service EXCEPT ![d].step = "encrypted"]
    /\ UNCHANGED <<device, call, owner, transfers, acts>>

Usable(d) == d \in up \ locked /\ call[d] = Off

\* recoverFromMnemonic, with the words of the shared seed: the renewal is stopped
\* before it turns out whether the seed may be changed.
EnterSeed(d) ==
    /\ Act /\ Usable(d) /\ (d \in joined => OnboardsAgain)
    /\ service' = [service EXCEPT ![d] = Off]
    /\ index' = [index EXCEPT ![d] = IF d \in joined THEN @ ELSE Unassigned]
    /\ UNCHANGED <<joined, call, owner, up, locked, known, transfers>>

\* fetchRegisteredDevices, after the recovery or when the app starts again.
FetchDevices(d) ==
    /\ Usable(d) /\ index[d] = Unassigned /\ known' = [known EXCEPT ![d] = Registered]
    /\ known' # known
    /\ UNCHANGED <<index, joined, up, locked, service, call, owner, transfers, acts>>

\* registerAsNewDevice: its index is the number of devices registered.  It is
\* offered by PersonalRecoverySuccess when none is listed.
Free == Cardinality(Registered)
NewWallet(d) ==
    /\ Act /\ Usable(d) /\ index[d] = Unassigned /\ known[d] = {} /\ Free <= MaxIndex
    /\ call' = [call EXCEPT ![d] = Chain(Free, FALSE, "encrypted")]
    /\ UNCHANGED <<device, service, owner, transfers>>

\* handleTransfer: any device that is listed may be chosen.
Transfer(d, i) ==
    /\ Act /\ Usable(d) /\ index[d] = Unassigned /\ i \in known[d]
    /\ call' = [call EXCEPT ![d] = Chain(i, TRUE, "encrypted")]
    /\ transfers' = transfers \cup {i}
    /\ UNCHANGED <<device, service, owner>>

Register(d) ==
    /\ Asking(call[d])
    /\ \E c \in {Answered(d, call[d]), Restarted(call[d])} :
        /\ Request(d, call[d], c) /\ Conflict(d, c)
        /\ call' = [call EXCEPT ![d] = c]
    /\ UNCHANGED <<index, joined, service, up, known, transfers>>

\* register_device_with_index: once registered, the index is saved and renewals
\* begin; after a conflict or 120 seconds the call fails.
Assign(d) ==
    /\ call[d] # Off /\ call[d].step = "done"
    /\ index' = [index EXCEPT ![d] = call[d].index]
    /\ service' = [service EXCEPT ![d] = Chain(call[d].index, FALSE, "encrypted")]
    /\ call' = [call EXCEPT ![d] = Off]
    /\ UNCHANGED <<joined, owner, up, locked, known, transfers, acts>>

RegisterFails(d) ==
    /\ call[d] # Off
    /\ \/ call[d].step = "conflict" /\ UNCHANGED acts
       \/ Asking(call[d]) /\ Act
    /\ call' = [call EXCEPT ![d] = Off]
    /\ UNCHANGED <<device, service, owner, transfers>>

\* join_federation, with the accounts of the index.
JoinFederation(d) ==
    /\ Usable(d) /\ index[d] \in Indices /\ d \notin joined
    /\ joined' = joined \cup {d}
    /\ UNCHANGED <<index, up, locked, known, service, call, owner, transfers, acts>>

Quit(d) ==
    /\ Act /\ d \in up /\ up' = up \ {d} /\ locked' = locked \ {d}
    /\ service' = [service EXCEPT ![d] = Off] /\ call' = [call EXCEPT ![d] = Off]
    /\ known' = [known EXCEPT ![d] = {}]
    /\ UNCHANGED <<index, joined, owner, transfers>>

\* DeviceRegistrationService::new.
\* Mutant: renewals only begin with a registration.
LaunchIdle(d) ==
    /\ d \notin up /\ up' = up \cup {d}
    /\ UNCHANGED <<index, joined, service, locked, known, call, owner, transfers, acts>>

Launch(d) ==
    /\ d \notin up /\ up' = up \cup {d}
    /\ service' = [service EXCEPT ![d] =
                      IF index[d] \in Indices THEN Chain(index[d], FALSE, "encrypted")
                      ELSE Off]
    /\ UNCHANGED <<index, joined, locked, known, call, owner, transfers, acts>>

Next == \E d \in Devices :
    \/ Renew(d) \/ Sleep(d) \/ EnterSeed(d) \/ FetchDevices(d)
    \/ NewWallet(d) \/ (\E i \in Indices : Transfer(d, i))
    \/ Register(d) \/ Assign(d) \/ RegisterFails(d)
    \/ JoinFederation(d) \/ Quit(d) \/ Launch(d)

\* The renewal task runs, and the app that was quit is opened again.
Fairness ==
    \A d \in Devices : WF_vars(Renew(d)) /\ WF_vars(Sleep(d)) /\ WF_vars(Launch(d))

Spec == Init /\ [][Next]_vars /\ Fairness

-----------------------------------------------------------------------------
TakenByTransfer(i) ==
    \E d \in Devices : /\ Asking(call[d]) /\ call[d].index = i
                       /\ call[d].force /\ Owners(i)' = {d}
LeavesOwners ==
    \A i \in Indices : Owners(i) \notin {{}, Owners(i)'} => TakenByTransfer(i)

\* An index is taken from a device only by a transfer: neither a renewal nor the
\* registration of a new device takes over what another device owns.
OnlyTransfersTakeOver == [][LeavesOwners]_vars

\* A device whose index was given to another device comes to be locked, however
\* often it is restarted and its answers are lost, or gets another index
\* ("let the UI know that this device should no longer be used").
LosersAreLocked ==
    \A d \in Devices : \A i \in Indices :
        (index[d] = i /\ Owners(i) \notin {{}, {d}})
            ~> (d \in locked \/ index[d] # i \/ Owners(i) = {d})

\* Indices keep "different per-federation accounts (across multiple devices)"
\* apart: two devices join with one index only if the user has transferred it.
SharedOnlyByTransfer ==
    \A d, e \in joined : d # e /\ index[d] = index[e] => index[d] \in transfers

\* A locked device tells that its wallet was transferred to another device.
LockedWasTransferred == \A d \in locked : index[d] \in Indices
=============================================================================
