----------------------------- MODULE StoredState -----------------------------
(***************************************************************************)
(* The state that survives a restart of the app: what redux loads from and *)
(* saves to storage (ui/common/redux/storage.ts, the listener of           *)
(* initializeCommonStore, transformStateToStorage and                      *)
(* hasStorageStateChanged), and the device id, which the bridge keeps too  *)
(* (AppState::verify_and_return_device_identifier).                        *)
(*                                                                         *)
(* One field stands for each way a field is treated:                       *)
(*   language    a setting: loaded, saved when it changes                  *)
(*   deviceId    loaded when stored, else generated once storage is loaded *)
(*   btcUsdRate  fetched when the app starts; loaded; saved with the rest, *)
(*               but its change alone starts no save                       *)
(*   matrixAuth  saved, never loaded: the bridge gives it                  *)
(* The value of a field is its age: 0 is the initial value and every       *)
(* change makes a greater one.                                             *)
(***************************************************************************)
EXTENDS Integers, FiniteSets

CONSTANTS MaxValue, MaxRestarts     \* bounds

ASSUME BoundAssumption == {MaxValue, MaxRestarts} \subseteq Nat

VARIABLES
    app,        \* "closed", "loading", "loaded" or "failed"
    mem,        \* [Fields -> Nat]: the redux state
    disk,       \* [Fields -> Nat]: the stored state; nothing stored is all 0
    saving,     \* the listener's effect waits its 100 ms
    bridgeId,   \* the device identifier of the bridge's own state, 0 for none
    fresh,      \* the greatest value given so far
    restarts

vars == <<app, mem, disk, saving, bridgeId, fresh, restarts>>

Fields == {"language", "deviceId", "btcUsdRate", "matrixAuth"}
Initial == [f \in Fields |-> 0]

\* hasStorageStateChanged: the keys it compares.  It names a key `prices` of the
\* currency slice, which the slice does not have.
Watched == {"language", "deviceId", "matrixAuth"}

TypeOK ==
    /\ app \in {"closed", "loading", "loaded", "failed"}
    /\ mem \in [Fields -> 0 .. fresh] /\ disk \in [Fields -> 0 .. fresh]
    /\ saving \in BOOLEAN /\ (saving => app \in {"loaded", "failed"})
    /\ bridgeId \in 0 .. fresh

Init ==
    /\ app = "closed" /\ mem = Initial /\ disk = Initial /\ saving = FALSE
    /\ bridgeId = 0 /\ fresh = 0 /\ restarts = 0

\* The listener's predicate, once it has been started: any change of a watched
\* field begins the wait anew.
Listening == app \in {"loaded", "failed"}
Changed(old, new) == \E f \in Watched : old[f] # new[f]

Set(f) ==
    /\ fresh < MaxValue
    /\ fresh' = fresh + 1
    /\ mem' = [mem EXCEPT ![f] = fresh + 1]
    /\ saving' = (saving \/ (Listening /\ Changed(mem, mem')))
    /\ UNCHANGED <<app, disk, bridgeId, restarts>>

-----------------------------------------------------------------------------
\* initializeCommonStore: loading and the fetch of prices start at once.
Open ==
    /\ app = "closed"
    /\ app' = "loading" /\ mem' = Initial
    /\ UNCHANGED <<disk, saving, bridgeId, fresh, restarts>>

FetchPrices == app # "closed" /\ Set("btcUsdRate")

\* loadFromStorage.fulfilled in every slice, and the listener starts.
Merge(m, d) ==
    IF d = Initial THEN m
    ELSE [f \in Fields |->
             CASE f = "matrixAuth" -> m[f]
               [] f = "deviceId" -> IF d[f] # 0 THEN d[f] ELSE m[f]
               [] OTHER -> d[f]]

Load ==
    /\ app = "loading"
    /\ app' = "loaded" /\ mem' = Merge(mem, disk)
    /\ UNCHANGED <<disk, saving, bridgeId, fresh, restarts>>

\* getItem, JSON.parse or a migration throws: the listener starts all the same,
\* but nothing is rendered that could change a watched field.
LoadFails ==
    /\ app = "loading"
    /\ app' = "failed"
    /\ UNCHANGED <<mem, disk, saving, bridgeId, fresh, restarts>>

\* initializeDeviceId, by the effect of FediBridgeInitializer.
InitializeDeviceId ==
    app = "loaded" /\ mem["deviceId"] = 0 /\ Set("deviceId")

\* initializeBridge(deviceId): the bridge keeps the first identifier it was given.
TakeNewest(id) == id                                        \* mutant
KeptId(id) == IF bridgeId = 0 THEN id ELSE bridgeId

InitializeBridge ==
    /\ app = "loaded" /\ mem["deviceId"] # 0
    /\ bridgeId' = KeptId(mem["deviceId"])
    /\ UNCHANGED <<app, mem, disk, saving, fresh, restarts>>

\* Settings, and startMatrixClient, once the bridge runs.
ChangeSetting == app = "loaded" /\ bridgeId # 0 /\ mem["deviceId"] # 0 /\ Set("language")
SetMatrixAuth == app = "loaded" /\ bridgeId # 0 /\ mem["deviceId"] # 0 /\ Set("matrixAuth")

\* saveToStorage after the wait: one write of everything.
Save ==
    /\ saving
    /\ saving' = FALSE /\ disk' = mem
    /\ UNCHANGED <<app, mem, bridgeId, fresh, restarts>>

Close ==
    /\ app # "closed" /\ restarts < MaxRestarts
    /\ app' = "closed" /\ saving' = FALSE /\ restarts' = restarts + 1
    /\ UNCHANGED <<mem, disk, bridgeId, fresh>>

Next == Open \/ FetchPrices \/ Load \/ LoadFails \/ InitializeDeviceId \/ InitializeBridge
        \/ ChangeSetting \/ SetMatrixAuth \/ Save \/ Close

\* The wait ends when changes pause for 100 ms; effects of React run.
Fairness == WF_vars(Save) /\ WF_vars(InitializeDeviceId)

Spec == Init /\ [][Next]_vars
FairSpec == Spec /\ Fairness

-----------------------------------------------------------------------------
\* Nothing stored is ever replaced by something older, whenever the app is closed
\* and however a load ends: a failed load leaves what is stored alone.
NoRollback == [][\A f \in Fields \ {"matrixAuth"} : disk'[f] >= disk[f]]_vars

\* The bridge knows the device by one identifier for good, although the one that
\* redux generated may be lost before it is saved and be generated again.
OneDeviceIdentifier == [][bridgeId # 0 => bridgeId' = bridgeId]_vars

\* Neither what is stored nor the identifier goes back.
NothingIsTakenBack == NoRollback /\ OneDeviceIdentifier

\* What the user changed is stored, unless the app is closed or it changes again.
SettingsAreSaved ==
    \A f \in {"language", "deviceId"}, v \in 1 .. MaxValue :
        (app = "loaded" /\ mem[f] = v) ~> (disk[f] = v \/ mem[f] # v \/ app = "closed")

\* "return whether or not there have been any changes that should be persisted"
\* (hasStorageStateChanged): the rates are persisted, so they are saved too.
RatesAreSaved ==
    \A v \in 1 .. MaxValue :
        (app = "loaded" /\ mem["btcUsdRate"] = v)
        ~> (disk["btcUsdRate"] = v \/ mem["btcUsdRate"] # v \/ app = "closed")

\* "Fetch the latest prices immediately" (initializeCommonStore): once fetched,
\* the rates are not replaced by older ones.
RatesDoNotGoBack ==
    [][app # "closed" => mem'["btcUsdRate"] >= mem["btcUsdRate"]]_vars
=============================================================================
