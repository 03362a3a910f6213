# Verification of fedixyz

TLA+ models of fedixyz, the code of the Fedi app: a Rust *bridge* around
fedimint clients, two fedimint modules of its own (*stability pool* and *fedi
social*) that run on the guardians of a federation, and a user interface in
TypeScript, native and web. This document lists the parts of the system, says
what is modelled, what the checks and the proofs show, and what is planned.

- [Inventory](#inventory)
- [Modules](#modules)
- [Runs](#runs)
- [Bounds](#bounds)
- [Fairness and deadlock](#fairness-and-deadlock)
- [Findings](#findings)
- [Observations](#observations)
- [Proofs](#proofs)
- [Only model-checked](#only-model-checked)
- [Not modelled](#not-modelled)
- [Plan](#plan)

Run `tlc -config X.cfg M` for a run X of module M (the table below), and
`tlapm M.tla` for a module of proofs.

## Inventory

Paths are relative to `src/`. `PROJECT.json` lists every component with its
status, and under "hazards" each place where the code is hard to test, with the
properties that cover it.

### Stability pool server (`modules/stability-pool/server`)

Users deposit millisats as *seeks* (to hold a dollar value) or as *provides* (to
be the collateral, for a fee). Time is cut into cycles; deposits are locked for a
cycle at a price that the guardians agree on.

| Part | State | Operations |
|---|---|---|
| Ledger | `IdleBalance`, `StagedSeeks`, `StagedProvides`, `StagedCancellation`, `CurrentCycle`, `PastCycle`, `SeekMetadata`, two sequence counters (`db.rs`) | `process_output` (seek, provide, cancel, undo), `process_input` (withdraw), `audit` |
| Turnover | the same | `settle_locks`, `apply_staged_cancellations`, `restage_remaining_locks`, `calculate_locks_and_write_cycle` with the two matching loops, `distribute_fees_and_write_cycle` |
| Price consensus | `CycleChangeVote`, the last proposal and the prefetched price in memory | `consensus_proposal`, `process_consensus_item`, the prefetch task of `new` |
| Oracle | none | median of exchange APIs |
| API | none | read-only queries, `wait_cancellation_processed` |

Clients submit inputs and outputs in transactions, guardians submit proposals;
fedimint's atomic broadcast orders all of them and every guardian applies them to
its own database, each in a database transaction. What is hard: rounding in a
dozen divisions that together must lose no millisat; a deposit that is split in
two tables, paid out, cancelled in part, merged again and re-sorted; checks made
against the tables of the moment whose subject a later turnover moves; divisors
that are amounts; guardians whose clocks disagree, that lag, restart or lie. What
makes it correct: conservation, over-collateralisation, priority order, truthful
metadata, no account on both sides, no panic, cycles that last their duration and
prices that honest guardians vouch for.

### The bridge (`bridge/fedi-ffi`) and the client of the stability pool

| Part | State | Operations | Hard |
|---|---|---|---|
| Stability pool client (`modules/stability-pool/client`) and sweeper (`federation_v2/stability_pool_sweeper_service.rs`) | a state machine per operation | deposit, withdrawal of the unlocked part, cancellation and claim, sweep of what has stayed idle | three actors claim one idle balance; operations of two parts, one of which fails |
| Fedi fees (`fedi_fee.rs`, `federation_v2/mod.rs`) | per operation a fee status, per direction pending and outstanding totals | charge, settle, refund, remit by a Lightning payment | a payment and a reset in two transactions; reads before awaits; restarts |
| Federations (`bridge.rs`, `storage.rs`) | app state file, a database and a client per federation | join, leave, restart | check-then-act across awaits, crashes between file, memory and database |
| Device registration (`device_registration.rs`, `api.rs`) | device index, registration server | register, renew, transfer | lost answers, timeouts, several devices |
| Matrix (`matrix.rs`, `observable.rs`) | observables with numbered updates | observe, update, cancel, rooms, power levels | events and answers in different channels |
| Social recovery (`bridge.rs`, `modules/fedi-social`) | a recovery and its shares in the app state; per guardian a backup, a request and a share | upload, start, approve, poll, complete, cancel | requests that some guardians have and others not; polls that read before and write after an await |
| Operations and history (`federation_v2/mod.rs`, `rpc.rs`) | operation log, recorded outcomes, notes | send, receive, list transactions | outcomes recorded only while somebody is subscribed |

### The user interface (`ui/common`, `ui/native`, `ui/web`)

Redux state in memory, a part of it stored; components with effects that run
again when what they depend on has changed; calls of the bridge whose answers
come later, in any order; events of the bridge. What is hard everywhere: an
answer, event or effect that belongs to a state that has gone; amounts that are
rounded between msats, sats, cents and fiat; calls that overlap because nothing
prevents it.

| Part | Files | Correct if |
|---|---|---|
| observers of Matrix rooms | `utils/MatrixChatClient.ts`, `utils/observable.ts` | redux shows what the bridge holds |
| rooms and roles | `redux/matrix.ts`, `ChatUserActions.tsx`, ... | invitations are joined, the list follows, changes are kept |
| payments in a chat | `redux/matrix.ts`, `hooks/matrix.ts` | ecash is claimed once, and by whom the timeline says |
| stored state and its migrations | `redux/storage.ts`, `utils/storage.ts` | nothing stored goes back, nothing unread is taken for read |
| onboarding, seeds, PIN | `hooks/recovery.ts`, `hooks/chat.ts`, `PinContext.tsx`, ... | the user gets in, and under the right name |
| federations, transaction history | `redux/federation.ts`, `redux/transactions.ts`, `utils/wallet.ts` | the list and the texts agree with the bridge |
| forms and dialogs of payments and requests | `hooks/amount.ts`, `hooks/pay.ts`, `RequestPaymentDialog.tsx`, ... | what is shown is what is paid |
| Cashu tokens | `utils/cashu.ts` | success means the whole token |
| browser of mods | `FediModBrowser.tsx` and its overlays | each call is answered, with its own result |
| social backup and recovery | `hooks/recovery.ts`, `redux/recovery.ts`, `SocialRecovery.tsx`, ... | enough guardians recover the seed, and an ended recovery stays ended |
| screens of the native app | `MainNavigator.tsx`, `state/navigation.ts`, `screens/` | what was done is not asked for again, and a locked app stays shut |
| stable balance | `redux/wallet.ts`, `hooks/stabilitypool.ts` | what was confirmed is what the pool is asked for |

### Other parts

Backups of a federation's client, the choice of Lightning gateways, metadata and communities (caches of remote files), FFI and
bindings, the legacy XMPP chat, presentation, binaries, build and CI.

## Modules

| Module | Models | Checked by |
|---|---|---|
| `Msats` | arithmetic of the server (`ceil_division`, totals, taking from a list until enough is taken, sharing pro rata); operators only | `Pool` |
| `LockMatching` | the auction of a turnover in closed form; operators only | `Pool` |
| `LockMatchingLoops` | the two while loops of the auction, one iteration per step, proved to compute `LockMatching` | `Stable` |
| `Custody` | what the pool promises as a custodian, without queues, prices or fees: the abstract specification | `Pool` |
| `StabilityPool` | the ledger: one action per intended action of an output, one for an input, one for a turnover; implements `Custody` | `Pool` |
| `StabilityPoolConsensus` | how guardians agree on the moment and the price of a turnover | `Consensus`, `ConsensusLiveness` |
| `StabilityOperations` | one account and all who withdraw from it: user, sweeper, hook, with the client's state machines | `Stable` |
| `StableBalance` | the wallet's view of its stable balance, its forms and what they ask for | `Stable` |
| `Mirror` | a view that follows a list version by version: the abstract specification of an observer | `Chat` |
| `MatrixObservers` | an observable of the bridge and the chat client that mirrors it; implements `Mirror` | `Chat` |
| `MatrixRooms` | invitations, public and default groups, previews, the list of chats | `Chat` |
| `MatrixPayments` | a payment between users of a room: messages, thunks, ecash | `Chat` |
| `RoomRoles` | roles and members of a room as moderators change them | `Chat` |
| `StoredState` | what survives a restart, and the device identifier | `Devices` |
| `StorageMigrations` | migrations of the stored legacy chat | `Devices` |
| `DeviceRegistration` | devices of one seed and the registration server | `Devices` |
| `Onboarding` | display name, words of a seed, start of the chat client | `Devices` |
| `Pin` | the PIN and its screens | `Devices` |
| `SocialRecovery` | backups kept by guardians, requests, shares, and the page that polls for them | `Devices` |
| `Navigation` | the stack of screens of the native app, what buttons, links, the drawer and late answers do to it | `Devices` |
| `WebPages` | the pages of the web app: gates that redirect, what each page calls and where its answers lead | `Wallet` |
| `SpendLimits` | Fedi's and a gateway's fee, the check of a payment and the maximum the user is told of | `Wallet` |
| `FediFees` | the life of a fee from its reservation to its remittance | `Wallet` |
| `Federations` | the federations of a user in bridge and redux | `Wallet` |
| `TransactionList` | log, pages, events and notes of the history | `Wallet` |
| `TransactionText` | what the history says of an operation | `Wallet` |
| `AmountForm` | an amount typed in sats or fiat and sent from a wallet | `Payments` |
| `OmniPayments` | paying what was scanned: fees, amount, invoice and wallet | `Payments` |
| `LightningRequests`, `RequestDialog` | asking for a payment, native and web | `Payments` |
| `CashuMelts` | receiving a Cashu token | `Payments` |
| `ModRequests` | calls of a mod's page and the overlays that answer them | `Payments` |
| `LockMatchingTheorems`, `LockMatchingLoopsProofs`, `StabilityPoolProofs`, `StabilityPoolConsensusProofs`, `MatrixProofs`, `DeviceProofs`, `PaymentsProofs`, `WalletProofs` | theorems and proofs | |

### Compositions for TLC

`StabilityPool` is checked as it is. `MCStabilityPoolConsensus`, `MCChat`,
`MCDevices`, `MCWallet`, `MCPayments` and `MCStable` declare the variables of all
the modules of one part of the system and instantiate each module once or several
times, with the constants of a question (two refetchers; a gateway without fees;
a form with two wallets). The variable `which` says which instance runs; the
others rest in one initial state. `MCStable` extends `LockMatchingLoops` rather than
instantiating it, `MCChat` `MatrixPayments`, `MCDevices` `StoredState` and `MCWallet`
`SpendLimits`: their constants are those of the run, and their properties are its own,
stated of every behaviour. In `MCPayments`, `MCDevices`, `MCStable`, `MCChat` and `MCWallet` the main instance
of each module has constants of the composition, which the configuration
gives values; what it would promise for some values only is guarded by them
(`~PollsOverlap`, `Fresh`, `OneAtATime`, `TokenIsDecoded`, ...), so that the theorems about the composition hold for all
values. `History(h)` in `MCWallet`
is the instance of `TransactionList` for a record `h` of constants, taken twice.
Instances for a second question have fixed constants, and stand in the temporal
properties. So a behaviour is a behaviour of one instance,
and what a run explores is the sum of the instances, not their product: the
modules put side by side do not share state in the code either, or share it
through an action that each of them models (a join, a restart). Modules that do
share state are one module: `Federations` has bridge and redux, `FediFees` the
client's database and all its tasks, `StabilityOperations` the account, the
state machines, the sweeper and the hook, `RoomRoles` server, store and redux.

A property of a composition joins properties of its instances, each guarded with
the value of `which` it is about, and the types of all of them. The exception is
`ViewIsMirror`: the refinement of `Mirror` by `MatrixObservers` (`MirrorSpec`
there). `DevicesFairness` repeats the fairness of the modules action by action,
each action gated with `which`: TLC then has many small conditions to check in
place of one disjunction of all.

### State and actions: the stability pool's server

| `StabilityPool` | Code |
|---|---|
| `idle` | `IdleBalance` |
| `stagedSeeks`, `stagedProvides` | the tables of Vecs, as one function from sequence numbers to items; the part of an account is its Vec |
| `cancellations` | `StagedCancellation` |
| `cycle` | `CurrentCycle`; index 0 stands for none |
| `pastFeeRates` | `PastCycle`, as far as it is read |
| `nextSeek`, `nextProvide` | the sequence counters |
| `provideMark` | no table: which of an account's staged provides the last turnover wrote back, sorted by fee rate, and which were pushed later |
| `txid`, `txStart` | the `txid` of a staged or locked seek, as the first sequence number of its account's seeks in that transaction, and where the transaction under way began |
| `seekMetadata` | `SeekMetadata`, keyed by account and transaction, which `txid` stands for |
| `escrow` | what transactions have paid into the module less what they took out |
| `halted` | the guardians have panicked, and where |
| `Seek`, `Provide`, `CancelRenewal`, `UndoCancelRenewal` | `process_output`, one per `IntendedAction`; rejections leave the state alone |
| `ProcessInput` | `process_input`: idle balance, then staged seeks, then staged provides, each from the back of the Vec |
| `Turnover` | the tail of `process_consensus_item`: settle, cancel, restage, match, take and share fees, write the cycle; one action because it is one database transaction |

`Turnover` calls the steps in the order of the code. Two divisions may panic with
a zero divisor (`DividesByZero`); the action then leaves every table as it was,
as an uncommitted database transaction does, and sets `halted`. The receiver of
the rest of a rounded distribution, which the code picks by the nanoseconds of
the cycle's start, is any. A loop that walks a list and takes from it until it
has enough is `Taken` of `Msats`: item s gives what is still wanted after all the
items before it. Each user says which items come before (`Older`, `Cheaper`,
`NewerOwn`, ...), which is the sorting the code relies on, and how much is
wanted. `Left` is what remains; it drops the items that were reached and emptied,
but keeps the empty ones the loop did not reach, as the code does.
`LockMatchingLoops` models two of these loops as they are written;
`LoopsComputeClosedForm` proves that they compute the closed form.

In `StabilityPoolConsensus` the tables that consensus items change (`votes`,
`cycles`) are one state for all guardians, of which guardian g has applied the
turnovers up to `seen[g]`; `clock` and `lastProposal` are its own. `Propose` is
`consensus_proposal`, `Deliver` is `process_consensus_item` with an honest
guardian's item, `FaultyVote` the same with any item of a faulty one, `CatchUp` a
lagging guardian that applies a turnover, `Restart` a new process (which forgets
its last proposal), `Tick` a clock, `Lose` an item that is never ordered. The
broadcast itself is external and modelled as fedimint promises it: one order for
all, true authors. `Turnover` of `StabilityPool` takes any price of a set where
`StabilityPoolConsensus` says how it is agreed on; the two share nothing else.

### State and actions: the stable balance

| Module | State | Actions |
|---|---|---|
| `StabilityOperations` | `idle`, `fresh`, `old`, `locked`, `cancelled`: the account in the pool; `op`: the operation of the user, the sweeper and the hook; `recorded`: the cycle of the last deposit as the bridge wrote it; `info`, `sweeping`: redux and the hook's mark; `read`: what the sweeper has read; `promise`: what a screen waits for | `Withdraw`, `Deposit`, `Progress` (a transition of the client's state machine of an actor), `Listen` (the listener a thunk adds after its call), `SweeperReads`, `SweeperWithdraws`, `Refresh`, `Sweep` (useMonitorStabilityPool), `TurnOver` |
| `StableBalance` | `rate`, `ecash`, `pool`, `info` (stabilityPoolAccountInfo), `screen`, `amount`, `call` (the last call, its arguments, the balance it found and its outcome) | `OpenDeposit`, `OpenWithdraw`, `Deposit` (increaseStableBalance), `Withdraw` (decreaseStableBalance), `Refresh`, `RateMoves`, `TurnOver`, `Spend`, `Back` |

### State and actions: chat

| Module | State | Actions |
|---|---|---|
| `MatrixObservers` | `truth`, `cursor`, `nextId`: the bridge's value, its observables and their next id; `calls`, `inbox`: what is on its way; `entry`, `handlers`, `view`, `waiting`: the client's map, its registered handlers, what redux shows, refetchers in their await | `Change`, `Forward` (the bridge's task sends an update), `Serve` (observe, cancel), `Receive` (answer or update), `Observe`, `Unobserve`, `Refetch` |
| `MatrixRooms` | `sdk`, `info`, `news`: a room in the sdk, in redux, and updates on their way; `joins`, `entering`, `leaving`, `looking`, `runs`: calls in flight; `federations`, `previews`, `defaults` | invitations, renames and removals by others, `RoomInfo`, `Join`, `JoinPublicGroup`, `LeaveChat`, `OpenLink`, `Preview`, `Previewed` |
| `MatrixPayments` | `room`, `seen`: the room's events and the prefix each user has; `joined`, `attempted`, `tasks`; `notes`, `reissued`: the external mint; `opened`: how often each user opened the chat; history `paidAgain` | `Tap` (the buttons of a payment), `Reopen` (the chat, while a button's thunk runs), `ThunkStep`, `Fail`, `Deliver`, `OtherMessage`, `Join`, `Restart`, `Settle` |
| `RoomRoles` | `server`, `store`, `powers`, `members`: homeserver, the sdk's copy, redux; `calls`; histories of what was accepted, what a later call had not read (`overtaken`), offered and reported | `ChangeRole`, `RemoveUser`, `ToggleBroadcastOnly`, each as its reads and writes (`Read`, `Write`, `Send`, `Fetch`, `Fulfilled`, `Fail`), `Sync`, `Foreign` |

A value of an observable is its version. An update is the difference of two
versions, so that applied to a third it gives `Garbled`, a list that never was.
Sends and reads of the homeserver are external, as the code uses them.

### State and actions: devices

| Module | State | Actions |
|---|---|---|
| `StoredState` | `mem`, `disk`: a value per kind of field (a setting, the device id, rates, chat session); `saving`: the 100 ms of the listener; `bridgeId`; `app` | `Open`, `FetchPrices`, `Load`, `LoadFails`, `InitializeDeviceId`, `InitializeBridge`, `ChangeSetting`, `SetMatrixAuth`, `Save`, `Close` |
| `StorageMigrations` | `version`, `chat`; `stored`, the entry as it was stored | one action per migration that touches the chat, the others summed up in the version they leave |
| `DeviceRegistration` | `index`, `joined`: app state of each device; `service`, `call`: chains of requests under way; `owner`: the server; `up`, `locked`, `known`: the app | `Renew`, `Sleep`, `EnterSeed`, `FetchDevices`, `NewWallet`, `Transfer`, `Register`, `Assign`, `RegisterFails`, `JoinFederation`, `Quit`, `Launch` |
| `Onboarding` | `seed`, `store`, `session`, `cached`: the bridge; `named`: the chat server; `live`, `client`, `status`, `auth`, `screen`, `task` | `Open`, `Initialize`, `SubmitName`, `SetName`, `EnterWords`, `Recovered`, `Sync`, `Close`, `Reopen`, going on- and offline |
| `Pin` | `keychain`, `loaded`: the PIN stored and the one PinContext checks; `protected`, `unlocked`; `screen`, `typed`, `confirm`, `reEntering`, `attempts`, `timeout` | digits and backspaces of each screen, `Unlock`, `Tick`, `ReEnter`, `Confirmed`, `Reset`, `Toggle`, `Restart` |
| `SocialRecovery` | `backup`, `request`, `share`: each guardian's tables; `sent`, `upload`, `start`: what is on its way to them; `files`; `state`: the bridge's recovery, stored; `polls`, `fetching`, `loops`: the tasks that ask for shares; `checked`, `qr`, `shown`: redux and the page; `stage`: the new device's seed; `given`: how many backups and sessions were begun | `BeginBackup`, `EndBackup`, `ChooseFile`, `Started`, `HandleBackup`, `HandleRecover`, `ApproveRecovery`, `GiveUp`, `Poll`, `Approvals`, `Fetch`, `LeavePage`, `Complete`, `Cancel`, `Register`, `Reopen` |
| `Navigation` | `stack`: the routes of MainNavigator; `calls`: what handlers await, with what they had seen; `facts`: what screens read of redux, the keychain and the bridge; `visit`: the session | one action per screen, with its name: the buttons, the calls it awaits and what it does when they end; `Back`, `Close`, `Done`, `Fails`, `Drawer`, `Link`, `Scan`, `DeviceIsLocked`, `Restart` |

A chain of a registration is: the encrypted identifier, then the plain one of
older versions, then the encrypted one with force; each request may be served
while its answer is lost. A field of `StoredState` stands for each way a field is
treated; its value is its age. In `Pin` a debounced value is used only while it is
the current one, the race of the bridge's device id with the start is left out,
and a backup of the seed before the PIN is taken to have been made.

### State and actions: wallet

| Module | State | Actions |
|---|---|---|
| `SpendLimits` | `balance`, `fediPpm`, `gateway`, `told` | `Pay`, `Refuse` (InsufficientBalance), `Other` |
| `FediFees` | the client's database: `ecash`, `op`, `status`, `pending`, `outstanding`; tasks: `calls`, `watching`, `checks`, `remits` | the steps of a send, of a receive and of their ends, `CheckThreshold`, the steps of a remittance, `Restart` |
| `Federations` | bridge: `prefix`, `saved`, `running`, `money`, `leaving`; calls: `join`, `snap`; redux: `list`, `active`, `mods`; `events`, `fetching` | `Join`, `Joined`, `JoinFails`, `Forget` and `Leave`, `Receive`, `UpdateBalance`, `Refresh`, `Refreshed`, `MetadataArrives`, `Switch`, `Restart` |
| `TransactionList` | `began`, `state`, `note`: the log; `list`, `history`: redux; `fetch`, `detail`, `save`: calls and the screen | `Begin`, `Progress`, `Fetch`, `List`, `Fetched`, `FetchFails`, `Open`, `Type`, `Write`, `Noted`, `Close`, `Tick` |
| `TransactionText` | `kind`, `st`, `saved`, `fee`, `fiat` | `Advance`, `Resubscribe`, `ToggleFiat` |
| `WebPages` | `app`: the `page` of the router and the one it is `going` to, what was `given` to a route, the `local` state of the component shown, its `calls` and whether what made them is still mounted, the `camera`, and the `facts` of redux; `visit`: the session | one action per component, with its name; `Arrive`, `Back`, `Fails`, `PopupEnds`, `Receives`, `Panic` |

A federation's metadata, names and previews are left out of `Federations`.
`Restart` there begins after the first refresh, before which the app shows
nothing. In `FediFees` a Lightning payment inside the federation is checked with
a gateway's fee, as in the code.

### State and actions: payments

| Module | State | Actions |
|---|---|---|
| `AmountForm` | `limit`, `amount`; `satsShown`, `fiatShown`, `isFiat`: AmountInput's own texts; `rate`, `balance`, `paying`: redux; `sent`; history `handledAnew`: the amount was set by the choice of a wallet | `Appear`, digits and backspaces in either unit, `Suggest`, `Switch`, `Send`, `RateChanges`, `BalanceChanges`, `ChooseWallet` |
| `OmniPayments` | `wallet`, `screen`, `calls`, `isReady`, `input`, `fees`, `paying`, `sent`, `said`; history `astray`: the answer taken last was for another wallet, or that for the chosen one failed | `Select`, `Open`, `Type`, answers (`Decoded`, `Previewed`, `FeesKnown` and their failures), `Continue`, `Send`, `SendOnChain`, `Paid`, `PayFails` |
| `LightningRequests` | `amount`, `isLightning`, `generating`, `jobs`, `address`, `addressing`, `withdrawal`, `given`, `top`, `shown`, `made`, `paid` | `Type`, `Request`, `Answers`, `Switch`, `Back`, `Pay` |
| `RequestDialog` | the same of the web's dialog, with `job` and `cancelled`: what the last effect waits for and what earlier ones did; `timers` | `Open`, `Close`, `Edit`, `SwitchWallet`, `Toggle`, `Submit`, `Withdraw`, `Answered`, `Made`, `Fails`, `Pay`, `TimerFires` |
| `CashuMelts` | `step`, `quotes`, `fee`, `melted`, `tries`; `shown`, `failed`; `spent`, `owing`, `received`: the external mint and the wallet | `Open`, `Enter`, `Send`, `Answer`, `Settle` |
| `ModRequests` | `at`, `answer`: each request of the page; `ref`: the one pair of references; `shown`, `form`, `loading`: the overlays; `tasks`, `done`, `gateway` | `Call`, `Refuse`, `Show`, `Accept`, `Dismiss`, `Finish`, `FinishFails`, outages |

In `WebPages` a step is what a handler does, followed by the commit (`Committed`):
components that are not shown any more lose their state, effects whose
dependencies changed run, the route's state is forgotten after the children's
effects have read it, and redirects replace the route. A handler goes on after its
call although its component has gone.

Effects of React run when what they depend on has changed and are part of the
action that changed it. Answers of the bridge are actions of their own.

## Runs

A property of a passing run joins what the code must keep of one kind, each part
stated and explained where it is defined, in the module it is about (the last
column names them; two modules may use one name).

| Run | Property | Holds if | Parts |
|---|---|---|---|
| `Pool` (`StabilityPool`) | `TypeOK` | | |
| | `Conservation` | no millisat is lost or created | |
| | `ImplementsCustody` | the ledger is a custodian | refinement of `Custody` |
| | `Collateralised` | locks are covered at the price of the cycle | |
| | `PrioritiesHold` | the auction goes by age and by fee rate, through splits, withdrawals and merges | `OldestSeeksFirst`, `CheapestProvidesFirst` |
| | `MarketClears` | no seek and no provide that fit are left staged | |
| | `ProvidesNeverDivideByZero` | settling the provides does not panic | |
| | `OneSided` | no account seeks and provides | |
| | `CancellationBacked` | a staged cancellation has a lock to cancel | |
| | `MetadataTruthful` | what is locked is on record, and no record is closed before a seek of it has gone for good | |
| | `SeeksKeepValue` | a settlement costs a seek less than a millisat of its value | |
| | `FullCancellationExits` | who cancels everything is out at the next turnover | |
| `Consensus` (`MCStabilityPoolConsensus`) | `MediansAreHonest` | price and time lie between honest votes | |
| | `CyclesAreSound` | no cycle is cut short | `TypeOK`, `CyclesLastTheirDuration` |
| `ConsensusLiveness` (`StabilityPoolConsensus`) | `TurnsOver` | an expired cycle is turned over with a faulty guardian silent | |
| `Stable` (`MCStable`) | `LoopsAgree` | the loops of the auction compute the closed form | `AgreesWithClosedForm`, `RunningTotals` |
| | `AskedIsTaken` | the pool takes what the forms ask for, but for the fee of the bridge, and a success was paid | `DepositIsTaken`, `DepositsWhatWasConfirmed`, `SuccessIsPaid` |
| | `ConfirmedIsDone` | a withdrawal is what was confirmed, whole or not at all, and what the pool allows | `CancellationIsAllowed`, `TakesWhatWasConfirmed`, `AllOrNothing`, `FirstStaysBelowMaximum` |
| | `OperationsEnd` | loops and operations end, screens return, idle balance is swept and nothing else | `LoopsEnd`, `WithdrawalEnds`, `ScreenReturns`, `IdleIsSwept`, `SweepsIdleOnly` |
| `Chat` (`MCChat`) | `ObserversAgree` | no observer shows a list that never was, or goes on without being held | `NeverGarbled`, `QuietViewIsCurrent`, `NoLeakedObservable`, `ObservedOnce` |
| | `ViewIsMirror` | a timeline is a mirror | refinement of `Mirror` |
| | `RoomsAreAsShown` | a group opened from a link is not listed as joined; while calls of two admins overlap, a change is undone by nothing but a call that had not read it, and a removal by none | `OnlyDefaultsPreviewed`, `ChangesAreKept` |
| | `PaymentsAreSound` | ecash is claimed once, paid once in a direct chat unless it was paid again in a chat opened anew, and refunded when the payment was cancelled | `OneClaimAtATime`, `PaidOnce`, `CanceledIsRefunded` |
| | `EndedForGood` | what everybody has seen end is neither reopened nor acted on | |
| | `ChatFollows` | views become current, invitations are joined, the list follows, a payment pushed is claimed; the promises above for a list fetched again and updates that overtake answers; roles changed one after the other are kept, shown, and accepted if offered | `OthersAgree`, `EventuallyCurrent`, `InvitesAreJoined`, `ListFollows`, `PushedIsClaimed` |
| `Devices` (`MCDevices`) | `StoredIsTrue` | migrations take nothing unread for read, a file of a recovery has a backup | `NothingReadUnread`, `FilesAreBackedUp` |
| | `EntryIsSound` | who is in has a name, who is locked out has a PIN, guardians were asked before they give | `InIsNamed`, `NoLockWithoutPin`, `GuardiansAreAsked`, `NoneRemains` |
| | `NothingIsTakenBack` | nothing stored goes back and the device keeps its identifier | `NoRollback`, `OneDeviceIdentifier` |
| | `StackIsSound` | no confirmation of what was paid is left behind, no PIN without a backup, nothing but locks while locked (and what a recovery leaves) | `PaidIsNotAsked`, `PinIsBackedUp`, `LockedIsShut` |
| | `DevicesSettle` | what was set is stored, losers are locked and an index changes its owner by a transfer only, users get in, a recovery with enough guardians is approved and ended for good | `StoredInTheEnd`, `SettingsAreSaved`, `LosersAreLocked`, `OnlyTransfersTakeOver`, `GetsIn`, `SyncSettles`, `PinIsTypedTwice`, `NumpadReturns`, `EndedForGood`, `ApprovedInTheEnd` |
| `Wallet` (`MCWallet`) | `ToldIsExact` | the maximum told is the maximum | `ToldIsTheMost`, `ToldIsAccepted` |
| | `FeesAndJoinsAreRight` | what is reserved is the fees of the sends under way, no fee is charged or remitted twice; the client that runs is the one saved, with a database of its own | `PendingIsOfSends`, `ChargedOnce`, `JoinsAreSafe` |
| | `PagesAreSound` | the web app's pages say what was done, keep what would be lost, and lead somewhere | `SaysWhatWasSent`, `EcashStaysShown`, `JoinIsNotUndone`, `DownloadIsOfActive`, `LeavesNoMoney`, `CameraIsOff`, `ImageIsOffered`, `RedirectsSettle` |
| | `HistoryIsTrue` | list and texts say what happened | `ListedIsCurrent`, `NotesAreKept`, `TypedIsKept`, `SortedByCreation`, `SaidIsSo`, `AmountCoversFees`, `DetailAgrees` |
| | `WalletSettles` | the ecash covers the fees when only sends are charged, and what is reserved stays right when the app ends; fees settle, the list of federations becomes current, every transaction is reached and its end said | `NoOverdraft`, `InterruptedPending`, `FeesSettle`, `EventuallyCurrent`, `EndIsTheEnd`, `EndIsSaid` |
| `Payments` (`MCPayments`) | `SentAsShown` | what is shown is what is sent, within the balance and at the fees shown, unless the choice of a wallet came in between (`handledAnew`, `astray`) | `ShownIsSent`, `WithinBalance`, `SaidIsSent`, `FeesAreOfThePayment` |
| | `SentIsAccepted` | what passes the form's bounds is taken and covered | `SentIsTaken`, `SentIsCovered`, `ShownBoundIsAccepted` |
| | `RequestsAreTrue` | an invoice is of the form, a success was paid, in whole where the token is decoded as a whole | `ShownAmount`, `ShownIsOfTheForm`, `SuccessIsPaid`, `SuccessIsWhole`, `SuccessIsReceived` |
| | `AnswersAreOwn` | a mod's call is answered with its own result, when the mod makes one call after the other, and done once | `AnsweredWithOwn`, `RejectedIsNotDone`, `FormIsOfTheRequest`, `DoneOnce` |
| | `WaitsEnd` | the waits listed end: for a withdrawal, for what the dialog wants, for the mints, for the answer to a mod's call when no other is made | `WithdrawalEnds`, `WantsUntilFailed`, `WantedIsShown`, `ShownPaymentIsNoticed`, `WithdrawalIsNoticed`, `WaitEnds`, `EveryCallIsAnswered` |
| `PoolFeesHalt`, `PoolSeeksHalt` (`StabilityPool`) | `FeesNeverDivideByZero`, `SeeksNeverDivideByZero` | violated: see [Findings](#findings) | |
| `FeesTwice` (`MCWallet`) | `InterruptedChargedOnce` | violated: see [Findings](#findings) | |
| `FederationsTwice` (`Federations`) | `RunningIsSaved` | violated: see [Findings](#findings) | |

The type invariants of the modules of `Stable`, `Chat`, `Devices`, `Wallet` and
`Payments` are conjuncts of invariants of their runs.

Each property of a passing run has a mutant in `PROJECT.json`: a plausible bug
(an operator marked "A bug to catch" or "Mutant") under which TLC finds the property violated.

## Bounds

Fee rates count in parts of `B` and cancellations in parts of `BpsUnit`. The code
uses 10^9 and 10^4; `Pool` uses 4 and 2, with amounts of a few millisats, so that
every rounding happens and every remainder matters: at the real units and amounts
that TLC can enumerate each fee would round to one or nothing. The same holds of
`MILLION` and `MsatsPerSat` in the modules of the wallet. No property depends on
the unit, and the proofs hold for any.

- `Pool`: two accounts, two seeks and two
  provides in a behaviour, three cycles, prices 1 and 3. Two deposits of a side
  are needed for an order among them; a deposit is split, merged and cut again
  over the cycles; in three cycles a lock is made, settled and made again from
  what was settled; prices triple or use up all collateral and divide unevenly.
- Collateral ratio 1:1 in the ledger (the default of the configuration), 2:3 in
  the loops. The loops start from all queues of up to two seeks and three
  provides with amounts 0, 1, 4 and fee rates 0, 1/4, 1.
- Consensus: four guardians, one faulty, threshold three: the smallest federation
  that tolerates a fault. Clocks run to 1 or 2 ticks, which suffices to be before,
  at and after the end of a cycle of duration 0 or 1; two cycles; one restart; one
  lost proposal.
- Chat: a list of three or four versions, observed up to four times, with one
  refetcher, or updates that overtake answers; two rooms, one of them public and a
  default group; two users and one payment, pushed or requested, of two notes and four events at most,
  with one failure, one restart, and the chat opened anew once. Roles: one member and
  another admin, two calls at once and two changes of the other, with a lagging store and
  calls that fail; and two members whose admin makes four calls one after the other.
- Devices: three devices that transfer, two that lose and lock; every stored
  version that a migration treats differently; a PIN of two digits of two, since
  the screens look at no digit; four guardians of whom one approves nothing, the
  smallest federation with a threshold below all, and two guardians with two
  backups of the same video, each in two sessions with one failure or restart.
- Screens: fifteen or so sessions (`SomeVisits` in
  `MCDevices`), each with the screens of one journey and the state it
  starts from; together they visit every screen and fire every action. Up to six
  screens on the stack, one call of a kind at a time, two calls at once in the
  sessions where two handlers can be under way, and links, restarts, the take-over of
  the device and a federation that ends in those where they matter. All screens in
  one session would multiply orders in which unrelated screens are opened.
- Wallet: every balance up to 40 msats with all combinations of fees; three
  payments at once, two remittances, one end of the app; two federations, two
  joins one after the other; five operations in pages of two.
- Web pages: fourteen sessions (`Sessions` in `MCWallet`), each with the pages of one
  journey. A patient user waits for calls and pages before going on, a busy one goes
  on while calls are under way, a hurried one also while a page is coming. The
  properties that speak of patient users say what they cannot promise to others;
  what goes wrong for those is under [Observations](#observations). One call at a
  time, or two in the sessions where handlers overlap.
- Payments: amounts of one or two digits against two balances, limits and rates;
  two wallets to choose from in every form, of which one cannot pay what is scanned; one
  change of the wallet, the rate or the balance under an open form; tokens of two mints
  that are decoded as a whole (`OldToken = FALSE`); two requests of a page at a time.
- Stable balance: two rates, two deposits or withdrawals one after the other, a fee of the
  bridge of 2 %, and an ecash of 41 sats, of which a deposit may leave nothing for it;
  nothing moves under an open form (`Fresh`), and the user alone acts (`Actors`).

What an instance leaves out that the code may do is an explicit constant
(`JoinsOverlap`, `Backspaces`, `DismissesBusy`, `Lag`, ...); where the code then
misses the property, [Observations](#observations) says so.

## Fairness and deadlock

`LockMatchingLoops` has weak fairness of the next iteration: loops are code that
runs. `ConsensusLiveness` is about guardians: fedimint polls each honest
guardian's modules for proposals about once a second and the oracle does not fail
for ever (`Proposes`), what honest guardians submit is ordered in the end
(`DeliverFrom`), and each applies what is ordered (`CatchUp`). Clocks, restarts
and faulty guardians have no fairness; a turnover is promised only once the cycle
has run out on the honest clocks. Lost proposals are left out of that run: after a
loss the code proposes again only when its clock has moved on, so that clocks with
a last tick would turn a loss into a false alarm.

In the compositions an instance whose liveness is checked has the fairness of its
module, and the others have none. It is weak fairness, per task, but for the exceptions
below, of:

- answers of the bridge to calls (`Serve`, `Answers`, `Joined`, `Fetched`, ...) and
  the delivery of its events: tasks of one process with a queue between them;
- the next step of a thunk or state machine that has begun (`ThunkStep`,
  `Progress`): the executor runs tasks that are ready;
- timers (`Save` after 100 ms, `Sleep` of the renewals, `Tick` of the numpad);
- the app being opened again (`Launch`, `Reopen`) where a promise is about what
  the next start does, and, in onboarding, the user trying again;
- the timers that poll the guardians (`Poll`, `Approvals`, ...) and the approval of
  each guardian who is willing, of whom there is a threshold.

Strong fairness is assumed where what is due is interrupted again and again by something
that has no end of its own, and is only ever done in a moment between:

- `Refresh` and `Progress` in `StabilityOperations`: the hook's timer and the executor of
  the client's state machines run for ever, while operations of others, which lock what
  they wait for, come and go;
- `SubmitName` and `Reopen` in `Onboarding` (the instances `Entry` and `Words`): the user
  keeps trying although the network goes and comes back;
- `Dismiss` in `ModRequests`: the user answers an overlay in the end, although a signature
  that fails and is tried again hides its button meanwhile.

Users are otherwise under no obligation, and no fairness is assumed of a failing
network: calls that may fail for ever are in instances without liveness or with a
bound on failures.

Runs say `CHECK_DEADLOCK FALSE` because behaviours end: at the bounds on deposits,
cycles, versions, acts, time and restarts, when loops are done, and when the
guardians have panicked, after which nothing happens.

## Findings

1. `PoolFeesHalt` (`server/src/lib.rs:1491`). After a price drop that uses up all
   the collateral, provides are restaged with amount zero. The next turnovers take
   them first if they are the cheapest; if nothing else is locked, the fees are
   divided by a sum of zero and all guardians panic, at every turnover from then
   on. The stability pool's README has the system operate "in cycles ad infinitum".
2. `PoolSeeksHalt` (`server/src/lib.rs:872`). The fee is rounded up; a remainder
   of one millisat is locked at zero, and if it is the only locked seek its
   settlement divides by zero.
3. `FederationsTwice` (`bridge.rs:429`). Between the check that a federation has
   not been joined and the insertion, the federation is contacted without a lock.
   A second call passes the check, too, and overwrites the saved prefix of the
   database, while the first call's client stays in memory: what it receives is
   in a database that no later start opens.
4. `FeesTwice` (`fedi_fee.rs:356`). The payment of a remittance and the reset of
   the outstanding fees are two transactions; if the app ends between them the
   fees are outstanding again and are remitted again. The comment prefers losing a
   fee to double-charging.

The first two need tiny amounts (a settled or remaining amount of zero), but no
unusual call.

## Observations

Where else the code does not do what a comment, a text of the interface or the
property suggests. Each is a property of the module that no run checks with the
constants given here; checking it with them (and the module's other constants as
in its composition) shows the behaviour.

`StabilityPool`

- `NewestProvidesWithdrawnFirst`, one account, `MaxProvides = 2`, `FeeRates = {0, 1}`
  (`modules/stability-pool/server/src/lib.rs:535`): A withdrawal takes from the back of the
  account's Vec of staged provides, which a turnover writes back sorted by fee rate
  (server/src/lib.rs:1189).
- `OlderProvidesRenewedFirst`, two accounts, `MaxSeeks = MaxProvides = 2`
  (`modules/stability-pool/server/src/lib.rs:1006`): A cancellation takes from the back of
  the account's Vec of locked provides, which the auction fills by fee rate.
- `MetadataTruthful` with `\A s` for `\E s`, so that a closed record has nothing left
  (`modules/stability-pool/server/src/lib.rs:975`): SeekMetadata is keyed by account and
  transaction (`:970`, `:1448`), so of two seeks in one transaction the one that a
  cancellation empties sets fully_withdrawn of both, and initial_amount is that of the first
  alone. The client puts one seek into a transaction (client/src/lib.rs:961); the server
  takes any number.

`MatrixObservers`

- `HeldIsLive`, `Channel = "overtaking"` (`ui/common/utils/MatrixChatClient.ts:551`):
  handleObservableUpdate cancels an observable whose update comes before the answer that
  names it, so that the room, list or indicator is never updated again although the map says
  it is observed.
- `NeverGarbled`, `Channel = "reordering"` (`ui/common/utils/MatrixChatClient.ts:560`):
  Updates are applied in the order of arrival and update_index is never read.
- `ObservedOnce`, `Refetchers = {1, 2}` (`ui/common/utils/MatrixChatClient.ts:423`): Two
  overlapping refetches wait for the cancellation of the same observable, then each deletes
  the key of the map, the second one the fake id of the first, and each creates an
  observable: two handlers apply the same changes to one list.
- `NeverGarbled`, `CallsInOrder = FALSE`, `Unobserves = TRUE`
  (`ui/common/utils/MatrixChatClient.ts:242`): unobserveRoom deletes the key without waiting
  for the cancellation: the old handler is still registered when the room is opened again,
  and an update of the old observable is applied on top of the new initial list.

`MatrixPayments`

- `NoFurtherStatuses` (`ui/common/redux/matrix.ts:739`): No thunk looks at the status of the
  payment when its message is sent, and the timeline shows whichever message is last: a
  request cancelled or rejected while it is being paid becomes accepted.
- `ReceivedIsOwned`, `Pushers = {"a"}` (`ui/common/redux/matrix.ts:670`): claimMatrixPayment
  announces `received` when receiveEcash returns, which it does once the transaction is
  submitted; the payer's cancellation of the same notes can still be accepted instead.
- `FailedClaimIsTriedAgain`, `MaxFailures = 1`, `FairSpec`
  (`ui/common/redux/matrix.ts:727`): After a failed claim the payment is removed from
  receivedPayments, but nothing looks at it again until a message of the room, a federation
  joined or a restart.
- `PaidOnce` without `paidAgain` (`ui/common/hooks/matrix.ts:196`): `isAccepting` and
  `isCanceling` are states of the mounted message. When the chat is left and opened again
  while acceptMatrixPaymentRequest runs (`ui/common/redux/matrix.ts:773`), the request shows
  its button as if nothing were under way; a second press generates a second note and posts
  a second `accepted`. The receiver claims the first at once, and the second, if its message is
  the last, after a restart, when receivedPayments is empty.

`StorageMigrations`

- `KeepsMessages`, `StoredBy = {2, 3}` (`ui/common/utils/storage.ts:234`): The migration to
  version 4 returns the entries made so far for a chat that has no groupRoles, so that the
  chat is dropped with its member and its messages; groupRoles is optional in version 3 and
  no chat migrated from version 2 has it.
- `PaymentsStayRead`, `StoredBy = {9}` (`ui/common/utils/storage.ts:425`): Version 10 stores
  the id of a payment update as `${id}_${updatedAt}` and the migration to version 14 looks
  for a message whose id is that string: it never finds one.

`StoredState`

- `RatesAreSaved` (`ui/common/utils/storage.ts:110`): hasStorageStateChanged compares
  currency.prices, which the slice does not have, and not btcUsdRate and fiatUsdRates (nor
  the groupAffiliations of a chat), so that new rates alone are never saved.
- `RatesDoNotGoBack` (`ui/common/redux/currency.ts:57`): Loading replaces the rates
  unconditionally, also when the fetch begun at the same time has answered first.

`MatrixRooms`

- `HiddenOnlyIfJoined`, `CallsFail = TRUE` (`ui/common/redux/matrix.ts:1130`): The preview
  of a default group is left out when the room is in the list at all, invited or left
  included, while only joined rooms are listed: the group disappears.
- `AllPreviewed` (`ui/common/redux/matrix.ts:310`): The result of a call replaces all
  previews although it looked at the federations of the moment it started; a later call's
  previews are lost when it ends first.
- `NeverRejoins`, `MaxEvents = 4` (`ui/common/redux/matrix.ts:367`): Every update of a room
  one is invited to starts another call to join; the second one may be served after the user
  has left the (public) room again.

`DeviceRegistration`

- `OnlyTransfersTakeOver`, `Legacy = {"phone"}`, `MaxActs = 4`
  (`bridge/fedi-ffi/src/api.rs:358`): After the plain identifier was accepted the encrypted
  one is registered with force, although the index may have been transferred since: a
  renewal takes it back.
- `LosersAreLocked`, `OnboardsAgain = TRUE` (`bridge/fedi-ffi/src/bridge.rs:713`):
  recover_from_mnemonic stops the renewals before recover_mnemonic refuses (federations are
  joined), and nothing starts them again until the app is restarted.
- `SharedOnlyByTransfer`, `MaxActs = 4` (`bridge/fedi-ffi/src/rpc.rs:724`): A new device
  gets the number of registered devices as its index. The first device of a seed has index 0
  before it is registered, so that both derive the same accounts.
- `LockedWasTransferred`, three devices, `MaxActs = 5`
  (`bridge/fedi-ffi/src/device_registration.rs:231`): The conflict event is sent for every
  registration, also for that of a new device whose index was taken meanwhile, and locks the
  device; the screen says "The wallet on this device has been transferred to another
  device." (ui/common/localization/en/common.json:694).

`Onboarding`

- `GetsIn`, `Reopens = FALSE` (`ui/common/utils/MatrixChatClient.ts:109`): hasStarted is set
  before matrixInit is called and never reset: when the first start fails, submitting the
  name again is answered "Matrix client already started" and then fails because matrix is
  not initialized.
- `GetsIn`, `Recovers = Reopens = TRUE` (`bridge/fedi-ffi/src/bridge.rs:706`):
  recover_from_mnemonic replaces the seed and keeps the directory of the chat store, whose
  passphrase is derived from the old seed: once a client was started with that, no start can
  succeed after the recovery.
- `ChatIsOfTheSeed`, `Recovers = TRUE` (`ui/common/hooks/recovery.ts:106`): When the name
  could not be set and the user then enters words, the chat client already runs with the
  account of the discarded seed, and setting the name names that account.

`Federations`

- `ListedIsCurrent`, `Refreshers = {r1}` (`ui/common/redux/federation.ts:297`):
  setFederations replaces the list by an answer from before the metadata was fetched (up to
  two seconds): balances updated and federations left meanwhile come back.
- `ActiveIsListed`, `Refreshers = {r1}`, `MaxPrefix = 2`
  (`ui/common/redux/federation.ts:317`): joinFederation refreshes, then activates the
  federation; an older refresh that ends last removes it from the list, and
  selectActiveFederation falls back to the first federation without a word.
- `NoModsOfLeft`, `Refreshers = {r1}` (`ui/common/redux/federation.ts:286`): The callback
  for metadata fetched in the background is not bound to the federation still being there;
  nothing removes its mods and metadata afterwards, and both are saved.

`ModRequests`

- `EveryCallIsAnswered`, `Payments = {p1, p2}`, `Overlaps = TRUE`
  (`ui/native/screens/FediModBrowser.tsx:229`): One pair of references serves all calls: a
  call that comes while another waits replaces them, and the promise of the earlier is never
  settled.
- `AnsweredWithOwn`, `Invoices = {i1, i2}`, `DismissesBusy = TRUE`
  (`ui/native/screens/FediModBrowser.tsx:457`): onAccept resolves whichever call came last:
  after a request was left while it worked, its result answers the next call of the mod,
  whose own overlay is closed.
- `RejectedIsNotDone`, `Payments = {p1}`, `DismissesBusy = TRUE`
  (`ui/native/components/feature/fedimods/SendPaymentOverlay.tsx:111`): The backdrop stays
  active while a payment is under way: the mod is told
  ui/common/localization/en/common.json:238 "Canceled request", and the payment goes on.
- `FormIsOfTheRequest`, `Invoices = {i1, i2}`, `Overlaps = TRUE`
  (`ui/native/components/feature/fedimods/MakeInvoiceOverlay.tsx:67`): The effect depends on
  whether a request is shown, not on which: a request that replaces the shown one keeps the
  amount of the first, and the invoice is made for it.
- `RefusedWithoutGateway`, `MaxOutages = 1` (`ui/native/screens/FediModBrowser.tsx:184`):
  The promise is cached when it was rejected, too, so that no later call asks again.

`AmountForm`

- `ShownIsSent` without `handledAnew`, two wallets (`ui/common/hooks/pay.ts:148`):
  Choosing another wallet makes handleOmniInput anew, and the effect of the screen handles
  the same input again: inputAmount falls back to the least amount, and AmountInput, which
  keeps its own texts and has no key here, shows the typed one.
- `ShownBoundIsAccepted`, `Rates = {8000}`, `Unit = 100` (`ui/common/hooks/amount.ts:338`):
  The typed fiat is compared with the bound at two decimals, whatever the currency shows:
  with a currency of no decimals the shown bound is a rounded one, is not recognised, and
  can be more than the bound.
- `SentIsTaken`, a bound of a part of a sat (`ui/common/hooks/amount.ts:526`): minSendable
  is rounded down to sats like a balance; the least amount the form allows is below what the
  service takes.
- `SentIsCovered`, `Screen = "overlay"`, two wallets
  (`ui/native/components/feature/fedimods/SendPaymentOverlay.tsx:57`): The overlay does not
  pass selectedPaymentFederation: its bounds are of the active federation, payInvoice and
  lnurlPay use the chosen one.
- `SentIsCovered`, `Screen = "ecash"`, two wallets
  (`ui/native/components/feature/fedimods/GenerateEcashoverlay.tsx:47`): The bound is the
  balance of selectPaymentFederation, the ecash is made by selectActiveFederation.
- `EmptySendsNothing`, `Balances = {0, 25000}` (`ui/common/hooks/amount.ts:511`): The bounds
  0 and 0 admit an amount of 0, which handleSend and handleAccept pass on.
- `SentIsTaken`, `Screen = "dialog"` (`ui/web/src/components/SendPaymentDialog.tsx:149`):
  handleSend of the web does not compare the amount with the bounds, which AmountInput only
  shows.
- `TypedIsRead`, `SameLocale = FALSE`, `MaxTyped = 999` (`ui/common/hooks/amount.ts:278`):
  The text is written in the default locale and read with the separator of currencyLocale,
  which ui/native/utils/device-info.ts:150 derives from the device's number format as one of
  three locales.

`RequestDialog`

- `ShownPaymentIsNoticed`, `OnChain = TRUE`
  (`ui/web/src/components/RequestPaymentDialog.tsx:151`): The effect returns without an
  invoice, although it compares addresses too: the payment of a shown address is noticed
  only if an invoice was made before it.
- `TimersAreOfTheOpening`, `Reopens = TRUE`
  (`ui/web/src/components/RequestPaymentDialog.tsx:169`): The timer of a payment is not
  cleared when the dialog closes: it closes the next opening.
- `WantsUntilFailed`, `SlowFailures = TRUE`
  (`ui/web/src/components/RequestPaymentDialog.tsx:129`): The result of a cancelled request
  is ignored, its failure is not: setWantsInvoice(false) ends the request that replaced it.
- `WithdrawalIsNoticed`, `Lnurl = TRUE`
  (`ui/web/src/components/RequestPaymentDialog.tsx:249`): The amount and the note stay
  editable while a withdrawal is awaited (wantsInvoice is not set for it), and an edit drops
  the invoice the listener compares with.
- `WithdrawalIsNoticed`, `ServicePaysEarly = TRUE`
  (`ui/web/src/components/RequestPaymentDialog.tsx:187`): The invoice is listened for only
  after the service has answered; a service that pays first is not noticed.

`StableBalance`

- `CancellationIsAllowed`, `Rates = {7}`, `Locked = {140}`, `Ecash = {60}`
  (`ui/common/redux/wallet.ts:345`): What is staged is rounded to cents when the maximum is
  computed, the remainder is rounded again when the basis points are: together they may
  exceed 10000, which the server refuses after the staged part was withdrawn.
- `CancellationIsAllowed`, `MinBps = 100`, `Locked = {140}`
  (`ui/common/redux/wallet.ts:669`): The least amount is kept in hundredths of a cent, the
  remainder of decreaseStableBalance is rounded to whole cents: at the least amount fewer
  basis points than min_allowed_cancellation_bps may result.
- `AllOrNothing`, `MinBps = 100`, `Locked = {1000}` (`ui/common/redux/wallet.ts:660`): The
  least amount is zero whenever deposits are pending, also for amounts that go beyond them.
  The cancellation is refused after the pending part was withdrawn.
- `CancellationIsAllowed`, `Rates = {6, 7}`
  (`ui/native/screens/StabilityConfirmWithdraw.tsx:46`): The amount is compared with its
  bounds before the confirmation and converted after it, at the rate of that moment.
- `AsksForANumber`, `Locked = {0}`, `Ecash = {41}` (`ui/common/redux/wallet.ts:346`): With
  nothing locked a remainder, of a fraction of a cent, is divided by zero.
- A deposit is always taken, `FediFee = 20` (`ui/common/redux/wallet.ts:258`): The bridge
  adds its fee to the deposit and compares the sum with the balance; the bound leaves no room
  for it, so that the maximum of the form is refused. `DepositIsTaken` excludes just this.
- `DepositsWhatWasConfirmed`, `Fresh = FALSE` (`ui/common/redux/wallet.ts:258`): The bound
  that was meant for the padding also lowers the amount: what was confirmed is deposited in
  part and reported in full.
- `StaysBelowMaximum`, `MaxStable = 60` (`ui/common/hooks/amount.ts:568`): The maximum is
  compared with what is locked; pending deposits are not counted.

`StabilityOperations`

- `WithdrawalEnds`, `Actors = {"ui", "monitor"}` (`ui/common/hooks/stabilitypool.ts:116`):
  The hook and the state machine of a withdrawal both claim what a cancellation leaves idle;
  the hook looks only at whether the balance it knows is negative. When it is first, the
  state machine waits for an idle balance that never comes, and the history never says that
  it has ended.
- `FreshDepositsStay`, `Actors = {"ui", "sweeper"}`, `Deposits = TRUE`
  (`bridge/fedi-ffi/src/federation_v2/stability_pool_sweeper_service.rs:85`): The cycles are
  compared before the account is read and the withdrawal is submitted: a deposit of this
  cycle that is accepted in between is swept.
- `ScreenReturns`, `EventsEarly = TRUE` (`ui/common/redux/wallet.ts:381`): The listener is
  added after the call has returned the operation; what the operation tells before that is
  lost.
- `ScreenReturns`, `OutputsFail = TRUE` (`ui/common/redux/wallet.ts:404`): Of the states
  that end an operation in failure, primaryOutputError, awaitCycleTurnoverError,
  withdrawIdleSubmissionFailure and invalidOperationType are not listened for.
- `RejectedIsNotPaid`, `Actors = {"ui", "sweeper"}`, `Deposits = TRUE`
  (`bridge/fedi-ffi/src/federation_v2/mod.rs:2674`): A withdrawal whose second transaction
  is rejected has paid its first part, and no fee is recorded for it: the fee of the whole
  is refunded.
- `SweepsIdleOnly`, `Actors = {"ui", "monitor"}` (`ui/common/hooks/stabilitypool.ts:116`):
  The sweep asks for an amount, not for what is idle: when the idle balance has gone by then
  the pool takes staged seeks.
- `IdleIsSwept`, `AllMoney = 3`, `Actors = {"ui", "monitor"}`
  (`ui/common/hooks/stabilitypool.ts:112`): The mark is set before the call, whose failure
  or rejection nobody looks at: it stays until the hook has seen that nothing is idle. A
  sweep that was rejected because a part of the idle balance had gone stays marked, and the
  rest is left idle.

`TransactionList`

- `ListedIsCurrent`, `Overlap = TRUE` (`ui/common/redux/transactions.ts:51`): What arrives
  last is taken for the newer version. A page is listed before it arrives; an event in
  between is newer and is overwritten until the next fetch.
- `NotesAreKept`, `MaxSaves = 1`, `Progresses = TRUE`
  (`bridge/fedi-ffi/src/federation_v2/mod.rs:752`): The bridge tells of a transaction with
  empty notes, whatever its notes are, and the store replaces the whole of it.
- `SortedByCreation`, `Begun = 2`, `Progresses = TRUE`
  (`bridge/fedi-ffi/src/federation_v2/mod.rs:748`): The bridge tells of a transaction as
  created now, when it was begun earlier; the list is sorted by that until the next fetch.
- `EndIsTheEnd`, `Hidden = {2, 3}`, `Limit = 2`
  (`bridge/fedi-ffi/src/federation_v2/mod.rs:2094`): The limit counts operations, of which
  internal ones and remittances of fees are then left out: a page may be empty though older
  transactions follow, and the list asks again after the same one.
- `EndIsTheEnd`, `SameSecond = TRUE` (`bridge/fedi-ffi/src/rpc.rs:354`): A page continues
  after a whole second; operations of that second that the page before had no room for are
  left out of all.
- `EndIsTheEnd`, `Begun = 1`, `MaxOperations = 4` (`ui/common/redux/transactions.ts:93`): No
  screen asks for a refresh: a first page is merged into an older list though operations may
  be missing between them.
- `ExpiredIsHidden`, `OnChain = {1}` (`ui/common/redux/transactions.ts:203`): The clock is
  read in a selector that is computed again only when transactions change.

`LightningRequests`

- `ShownIsGiven`, `Lnurl = TRUE` (`ui/native/screens/ReceiveLightning.tsx:120`):
  handleLnurlWithdraw sets generatingInvoice to show that it is busy, which also runs the
  effect that makes an invoice for the form: a second invoice is made, and whichever is
  ready last is the one on the screen, although the service pays the first.
- `AddressIfNeeded`, `OnChain = TRUE` (`ui/native/screens/ReceiveLightning.tsx:95`): The
  effect runs again when the request type is switched while generateAddress is pending and
  makes a second address, which then replaces the one on the screen.

`CashuMelts`

- `SuccessIsWhole`, `OldToken = TRUE`, two mints (`ui/common/utils/cashu.ts:126`): decodeCashuTokenLegacy
  reads token[0] and drops the entries of other mints.
- `MeltIsCovered`, `Fees = {1, 2}` (`ui/common/utils/cashu.ts:316`): The second quote is
  taken whatever its fee is, and the melt is tried with inputs that do not cover it.
- `SuccessIsShown`, `Web = TRUE` (`ui/web/src/components/ReceiveOffline.tsx:87`):
  redeemError is never reset and is looked at before redeemAmount: after one failure every
  later success is shown as rejected.

`OmniPayments`

- `FeesAreOfThePayment` without `astray`, `Flow = "bolt11"` (`ui/common/hooks/pay.ts:134`): handleOmniInput
  takes every answer of decodeInvoice, also that of a wallet that is no longer chosen.
- `WithinBalance` without `astray`, `Flow = "onchain"` (`ui/native/screens/SendOnChainAmount.tsx:59`):
  handleContinue goes on after the await although another wallet is chosen by then;
  ConfirmSendOnChain has no bounds.
- `SaidIsSent`, `Flow = "lnurl"`, `OtherInvoices = TRUE` (`ui/common/utils/lnurl.ts:48`):
  The invoice of the service is paid unseen, whatever its amount is.
- `GetsReady`, `Asked = 0`, `FairSpec` (`bridge/fedi-ffi/src/types.rs:228`):
  RpcInvoice::try_from refuses an invoice without an amount ("Invoice missing amount"), so
  that no amount can be typed for one.

`Pin`

- `PinIsTypedTwice`, `Backspaces = TRUE`, `MaxAttempts = 3`
  (`ui/native/screens/SetPin.tsx:62`): handleNumpadPress goes on after the branch of
  isReEnteringPin, so that a backspace there also shortens pinDigits and the next digit is
  appended to both.
- `CurrentPinIsChecked` (`ui/native/state/contexts/PinContext.tsx:62`): set stores the PIN
  and leaves check as it was loaded for the device: FeatureLockScreen takes the former PIN.

`RoomRoles`

- `EveryChangeIsKept`, `Slots = {1, 2}` (`ui/common/utils/MatrixChatClient.ts:291`):
  setRoomMemberPowerLevel and setRoomPowerLevels read the power levels, wait, and write the
  whole content back; the overlay can be dismissed while its call is in flight, and the
  second write undoes a change already reported. `ChangesAreKept` excludes just this, by the
  history `overtaken`.
- `RemovedIsGone`, `Lag = TRUE` (`ui/common/utils/MatrixChatClient.ts:482`): The members are
  read from the sdk's store right after the request, which the next sync brings up to date;
  nothing fetches them again, so the member removed is still shown.
- `OfferedIsAccepted`, `MyLevel = 50`
  (`ui/native/components/feature/chat/ChatUserActions.tsx:233`): The roles are shown from
  the role of moderators on; changing them fails.
- `OtherRolesOnly` (`ui/native/components/feature/chat/ChatUserActions.tsx:96`): The check
  is skipped for the level 0 (powerLevel &&), so that Member is offered to members and
  moderators alike, whichever they are.
- `FailureRemovesNobody`, `Fails = TRUE` (`ui/common/utils/MatrixChatClient.ts:476`):
  roomKickUser throws if fetching the members fails after the removal.

`SpendLimits`

- `ToldIsAccepted`, `Rates = {1, 2}` (`bridge/fedi-ffi/src/federation_v2/mod.rs:3210`): The
  Fedi fee and the gateway's are each rounded up, so that the maximum computed may cost a
  msat more than the balance.
- `ToldIsANumber`, `Bases = {0, 4}` (`bridge/fedi-ffi/src/federation_v2/mod.rs:3241`):
  balance - base underflows if the balance is less than the gateway's base fee: the error is
  a panic or an absurd maximum.

`FediFees`

- `NoOverdraft`, `Ecash = 10` (`bridge/fedi-ffi/src/fedi_fee.rs:356`): From the payment to
  the reset the ecash and the counter are both down on the user: the virtual balance drops
  by the fees, below zero if the user has spent the rest.
- `NoOverdraft`, `Receives = {r1}`, `Ecash = 2`
  (`bridge/fedi-ffi/src/federation_v2/mod.rs:3009`): The fee of a receive is written by a
  task after the ecash has arrived and without the spend guard; a send checked in between
  may take all of it.
- `FeesSettle`, `Timeouts = TRUE`, `FairSpec`
  (`bridge/fedi-ffi/src/federation_v2/mod.rs:981`): timeout drops subscribe_to_ln_pay, the
  only task that writes the outcome of the fee; a payment that ends later while the app runs
  is not active at the next start.

`SocialRecovery`

- `EndedForGood`, `PollsOverlap = TRUE` (`bridge/fedi-ffi/src/bridge.rs:916`): A poll reads
  the recovery, asks every guardian, and writes back what it read with the shares it got: a
  recovery that was cancelled or completed meanwhile is there again, and a new one is
  replaced (so that `GuardiansAreAsked` and `ApprovedInTheEnd` fail, too).
- `FilesStayUsable`, `MaxBackups = 2`, `MaxActs = 1`
  (`modules/fedi-social/server/src/lib.rs:367`): A second upload replaces the backup of the
  guardians it reaches. If it fails at the others there is no second file, and the first one
  is of use to too few guardians.

`WebPages` (each shown by a user who is `"busy"` or `"hurried"`, without `Patient` in the
property, unless another condition is given)

- `SaysWhatWasSent` (`ui/web/src/components/SendPaymentDialog.tsx:103`): "Reset modal on
  close and open": it resets on closing only, and what is decoded or paid then ends after
  it. The next opening shows the invoice before, or says that it was sent.
- `EcashStaysShown`, `calls = 2` (`ui/web/src/components/SendPaymentDialog.tsx:185`): An
  invoice that is decoded takes the place of the ecash that is being generated or shown,
  without a warning: `useWarnBeforeUnload` hears of routes only. So does a popup
  federation that ends.
- `EcashStaysShown`, `user = "busy"`, `agrees = TRUE`: onEcashGenerated of a dialog that was
  closed while generating disables the closing of its next opening.
- `JoinIsNotUndone` (`ui/web/src/components/Onboarding/JoinFederation.tsx:82`): The effect
  runs again when the list of federations changes and takes the join for an earlier one;
  it does not only because what was given to the route has been forgotten.
- `DownloadIsOfActive` (`ui/web/src/components/SocialBackup/index.tsx:53`): A federation
  chosen while the video is uploaded has the video of the former one uploaded to it; all
  uploads have one path. `needsReset` is true from the first rendering on, so that the
  second effect never resets.
- `CameraIsOff` (`ui/web/src/components/SocialBackup/SocialBackupRecord.tsx:26`): A stream
  that comes after the page has gone is never stopped.
- `RedirectsSettle` (`ui/web/src/components/Redirect.tsx:11`): A late push to the page that
  a redirect has just left cancels the redirect, which depends on the path only: the user
  stays on a page that shows nothing.
- `ui/web/src/pages/settings/index.tsx:47`: canLeaveFederation is falsy for communities,
  which therefore cannot be left; the result of leaving is not unwrapped, so that a failure
  is never shown.

Met while modelling, without a property:

- A send on-chain is recorded with `bitcoin: None` when it fails and is then shown
  like one that was sent. `from_spend_v2` maps success to UserCanceledSuccess.
- Withdrawals from the stability pool that failed are shown as pending, since the
  history knows pending and complete only; amounts that are pending are written in
  the primary unit with the fiat's suffix.
- `list_transactions` waits for the outcome of a withdrawal that has not ended.
- After a failed `generateInvoice` on native, `generatingInvoice` stays true.
- `ConfirmReceiveCashu` shows its loader for ever after a quote failed; a melt of
  which one part failed cannot be completed by trying again; an answer that was
  lost is shown as a failure although the mint may have paid.
- The stable balance that forbids leaving a federation is that of the active one,
  whichever is left (`Settings.tsx:133`; `MayLeave` in `Navigation`).
- `navigation.replace` takes the place of whatever is focused: who follows a link
  while a payment is awaited finds the confirmation of the payment below its success
  (`PaidIsNotAsked` without its guard).
- A popup federation that ends pushes the tabs onto whatever is shown when its leaving is
  over, which may be a confirmation (`PaidIsNotAsked` supposes that none ends).
- Cancelling a social recovery resets to the splash screen
  (`SocialRecoveryHeader.tsx:26`), also where a PIN locks the app, which then
  shows that screen instead of the lock until it is opened anew (`LockedIsShut` allows
  for it where `facts.cancelled`).
- `onUnexpectedSuccess` goes back after `OmniConfirmation` has replaced the screen, so
  that what was scanned on `NewMessage` and `ScanMemberCode` is not shown (`Scan`).
- `deviceIndexRequired` and `shouldLockDevice` are never taken back: the navigator,
  mounted anew for another federation, begins with the recovery again; and after a
  social recovery no index is asked for until the app is restarted.
- `leaveChat` replaces the settings of the room and leaves the conversation below them
  (`RoomSettings.tsx:57`), which its comment means to avoid.
- Choosing another wallet on `ConfirmSendLightning` resets the amount typed for an
  LNURL.
- After a PIN is set its status stays "unset" until the app is restarted.
- A remittance that failed after a restart is not put back to outstanding, and a
  fee is lost when the app ends between funding and recording it; the comment in
  `fedi_fee.rs` prefers that.

## Proofs

Theorems about the pool hold for any number of accounts, deposits and cycles, any
prices, units and collateral ratio. They assume `MatchingAssumption` and
`PoolAssumption`: units and ratio are positive, prices are positive, the greatest
fee rate is at most 100 %, and the smallest cancellation is more than nothing. The
bounds `MaxSeeks`, `MaxProvides`, `MaxCycles` are any naturals. Those about the
loops assume `LoopsAssumption`: the numbers of the items come from finite sets, of
any size, and amounts and fee rates from any sets. Theorems about the
consensus assume `ConsensusAssumption`: fewer than a third of the guardians are
faulty, and a threshold is more than two thirds of all and not more than the honest
ones, as `NumPeers` of fedimint-core has it; prices and times of faulty guardians are
any numbers. Those about a wallet (`WalletProofs`) hold for any federations, calls,
operations, amounts, fees, thresholds and numbers of remittances, as the assumptions
of the modules have them: finitely many operations, and a threshold of remittance not
below the gateway's base fee; for any log, limit, hidden and on-chain operations and
notes of a history, and any fees. Three are about a part of the behaviours, because
the others violate the property, as runs and observations show: two calls that join one
federation at once, an app that ends between the payment of a remittance and the
entry of it, and remittances or receipts beside a send. So are those about the list of
transactions: nothing progresses and no note is saved while a page is fetched
(`overlap`), and for notes and order no operation progresses at all (`progresses`).
Those about payments in a chat
(`MatrixProofs`) hold for any users, payments, requesters, pushers and
requests, and any bounds on notes, messages, failures, restarts and reopenings; that a
direct payment is paid once is claimed but for the payments whose button was pressed again
in a chat opened anew (`paidAgain`). They assume what
`MCChat` has TLC check of its constants, that a payment has a requester
(`UserAssumption`) and that nobody is a user and no note is none (`NullAssumption`).
Those about observers, in the same module, hold for any versions, observables and
callers, on a channel that keeps the order, where one at most fetches a list again, and
where what is left, a room, is fetched again by nobody and has its calls served in
their order (`OneAtATime`). These are the cases in which the client awaits what it has
to; two who fetch again at once, an order of messages that is lost, and calls about a
room that the bridge serves out of their order are under [Observations](#observations).
Those about roles, there too, hold for any members, calls and bounds: what may undo a
change, for every behaviour (`ChangesHoldAlways`), the others (`Undisturbed`) for one call
at a time, without a lagging store, a failing call or another admin, and that an admin is
offered only what the server accepts for the user being one. Those about the list of chats hold for any rooms,
federations and bounds, whatever calls fail.
Those of `DeviceProofs` hold for any devices, indices, digits and lengths of a PIN,
guardians, silent ones, backups, videos and sessions, chats, groups and lists of messages; those of `PaymentsProofs` for any
wallets, balances, limits, rates, amounts, fees, tokens, calls and links of mods, and any
bounds; those of `LockMatchingLoopsProofs` about the stable balance for any rates,
amounts, parts, fees and balances.
Some are again about
a part of the behaviours, and [Observations](#observations) shows for each what happens in the
others: devices that registered before identifiers were encrypted (`Legacy`), digits taken
back while a PIN is entered again (`Backspaces`), calls of a mod that overlap or an
overlay dismissed while it is busy (those of the instance `Overlapping`), polls of a
recovery that overlap (`PollsOverlap`), services that send another invoice than was asked
for, withdrawals in the native form (`Lnurl`), tokens of which only a part is decoded
(`OldToken`: an older one of several mints; `TokenIsDecoded` is the condition),
and of the web's dialog failures that come late (`SlowFailures`), addresses (`OnChain`) and
opening it again (`Reopens`). The theorems about paying, asking for payments and the
stable balance state each of these conditions beside the property it is for; what depends
on the order in which things happen is a history of the model (`handledAnew` of a form,
`astray` of a payment). Of the stable balance the conditions are: nothing moves while a
form is open (`Fresh`), the user alone withdraws (`Actors`), or anybody but the user.

`PaymentsProofs`, `LockMatchingLoopsProofs`, `DeviceProofs`, `MatrixProofs` and
`WalletProofs` extend the compositions that the runs check.
A theorem about a component is about the composition's instance of it; the
theorems about the compositions (`SentIsAsShown`, `RequestsAreAlwaysTrue`,
`AnswersAreAlwaysOwn`, `LoopsAlwaysAgree`, `AskedIsAlwaysTaken`,
`StoredIsAlwaysTrue`, `EntryIsAlwaysSound`, `StackIsAlwaysSound`, `ObserversAlwaysAgree`,
`ViewIsAlwaysMirror`, `RoomsAreAlwaysAsShown`, `FeesAndJoinsAreAlwaysRight`,
`HistoryIsAlwaysTrue`) state the property
that the run checks, for all constants.

| Theorem | Statement |
|---|---|
| `PayoutsAreExact` (`LockMatchingTheorems`) | a pool shared with every share rounded down and the rest given to any key is given away to the millisat |
| `LocksAreCollateralised` | what the auction locks of the seeks, less fees, is covered by the provides it locks |
| `LoopsComputeClosedForm` (`LockMatchingLoopsProofs`) | `Spec => []AgreesWithClosedForm`: the loops of the server compute the closed form of the auction |
| `TotalsAreRunning` | `Spec => []RunningTotals` |
| `LoopsAreRight` | `Spec => []LoopsAgree`: both of the above |
| `LoopsAlwaysAgree` | `StableSpec => []LoopsAgree`: the same of the composition |
| `DepositsAreSound` | `Depositing!Spec => []TypeOK` and, with `Fresh`, `[]DepositsWhatWasConfirmed`, `FirstStaysBelowMaximum` and `[]DepositIsTaken` (a deposit is covered, and refused only if the bridge's fee is not), `Depositing` an instance of `StableBalance` |
| `OperationsArePaid` | `User!Spec => []TypeOK`, `[]SuccessIsPaid` for the user alone, `SweepsIdleOnly` without the user, `User` an instance of `StabilityOperations` |
| `AskedIsAlwaysTaken` | `StableSpec => []AskedIsTaken`: with `Fresh`, the pool takes what the forms ask for, unless the bridge's fee is not covered; with the user alone (`Actors`), a withdrawal that succeeds has paid; of the composition |
| `TypeCorrect` (`StabilityPoolProofs`) | `Spec => []TypeOK` |
| `AlwaysCollateralised` | `Spec => []Collateralised` |
| `AccountsOneSided` | `Spec => []OneSided` |
| `CancellationsBacked` | `Spec => []CancellationBacked` |
| `ProvidesSettle` | `Spec => []ProvidesNeverDivideByZero` |
| `BooksBalance` | `Spec => []Conservation` |
| `ItemsStayWhole` | `Spec => []OneItem`: what waits of an item and what is locked of it agree on account and rate |
| `PoolIsCustodian` | `Spec => ImplementsCustody` |
| `ValueIsKept` | `Spec => []SeeksKeepValue` |
| `QueuesInOrder` | `Spec => []PrioritiesHold`: oldest seeks first, cheapest provides first |
| `MarketAlwaysClears` | `Spec => MarketClears` |
| `MetadataIsTrue` | `Spec => []MetadataTruthful` |
| `FullCancellationIsFinal` | `Spec => FullCancellationExits` |
| `MediansHonest` (`StabilityPoolConsensusProofs`) | `Spec => []MediansAreHonest` |
| `CyclesLast` | `Spec => []CyclesAreSound`: tables well typed, no cycle shorter than its duration |
| `TypesHold` (`WalletProofs`) | the type invariant of `SpendLimits`: no payment takes the balance below zero |
| `ToldIsAlwaysTheMost` | a sat more than the maximum told is refused, whatever the fees |
| `ToldIsAlwaysAccepted` | where no gateway takes a fee the maximum told is accepted |
| `ToldIsAlwaysExact` | `ToldIsExact`: the three above |
| `RemittanceIsCovered` | an invoice that remits the outstanding fees costs, with the gateway's fees, no more than them |
| `JoinsAlwaysSafe` | `Joins!Spec => [](TypeOK /\ JoinsAreSafe)`, `Joins` an instance of `Federations` where joins do not overlap |
| `PendingAddsUp` | `Fees!Spec => [](TypeOK /\ PendingIsOfSends)`, `Fees` an instance of `FediFees` |
| `NothingIsChargedTwice` | `Fees!Spec => []ChargedOnce` while the app does not end (`MaxCrashes = 0`) |
| `SendsAreCovered` | `Fees!Spec => []NoOverdraft` where only sends are charged and nothing is remitted |
| `FeesAndJoinsAreAlwaysRight` | `WalletSpec => []FeesAndJoinsAreRight`: `PendingIsOfSends`, `ChargedOnce` (with `MaxCrashes = 0`) and `JoinsAreSafe` (without `JoinsOverlap`), with their types, of the composition |
| `HistoryIsAlwaysTrue` | `WalletSpec => []HistoryIsTrue`: of `TransactionList` the types and, where nothing overlaps, `ListedIsCurrent`, `NotesAreKept`, `TypedIsKept`, `SortedByCreation`; of `TransactionText` the types, `SaidIsSo`, `AmountCoversFees`, `DetailAgrees`, each for the kinds that the run has it of |
| `PaymentsSound` (`MatrixProofs`) | `Spec => []PaymentsAreSound`: one claim at a time, a cancelled payment is its payer's, and a direct payment that is not in `paidAgain` is paid once |
| `SettledStaysEnded` | `Spec => EndedForGood` |
| `ObserversAreSound` | `Room!Spec => [](NeverGarbled /\ QuietViewIsCurrent /\ NoLeakedObservable /\ HeldIsLive /\ ObservedOnce)`, `Room` an instance of `MatrixObservers` with `OneAtATime` |
| `ChangesHoldAlways` | `Roles!Spec => [](TypeOK /\ ChangesAreKept)`: however calls overlap, fail and lag, `Roles` an instance of `RoomRoles` |
| `ChangesHoldOneByOne` | `Roles!Spec => [](EveryChangeIsKept /\ ShownIsCurrent /\ RemovedIsGone)` and for an admin `OfferedIsAccepted`, with `Undisturbed` |
| `CopyIsMirror` | `Room!Spec => Copy!Spec`: `MatrixObservers` implements `Mirror`, with `OneAtATime` |
| `ObserversAlwaysAgree` | `ChatSpec => []ObserversAgree`: the types of what is observed and, with `OneAtATime`, the promises of `ObserversAreSound`, of the composition |
| `ViewIsAlwaysMirror` | `ChatSpec => ViewIsMirror`: the refinement of `Mirror`, of the composition |
| `RoomsAreAlwaysAsShown` | `ChatSpec => []RoomsAreAsShown`: `OnlyDefaultsPreviewed` of `MatrixRooms` and `ChangesAreKept` of `RoomRoles`, with the types |
| `TypesHold`, `NothingRollsBack`, `OneIdentifier` (`DeviceProofs`) | type invariant, `NoRollback` and `OneDeviceIdentifier` of `StoredState`, for any number of changes and restarts |
| `NothingGoesBack` | `NothingIsTakenBack`: both of the properties just named |
| `OnlyTransfersTake` | `Registration!Spec => Registration!OnlyTransfersTakeOver`, without devices of before identifiers were encrypted |
| `WhoIsInIsNamed` | `Entry!Spec => []Entry!InIsNamed`, `Entry` an instance of `Onboarding` |
| `NobodyIsLockedOut` | `Lock!Spec => []Lock!NoLockWithoutPin` |
| `StoredPinIsTypedTwice` | `Lock!Spec => Lock!PinIsTypedTwice` where no digit is taken back |
| `FilesAreOfBackups` | `Recovery!Spec => []Recovery!FilesAreBackedUp` |
| `GuardiansKnowTheSession` | `Recovery!Spec => []Recovery!GuardiansAreAsked` where polls do not overlap |
| `ApprovalsSuffice` | `Recovery!Spec => []Recovery!NoneRemains` where polls do not overlap |
| `RecoveriesEndForGood` | `Recovery!Spec => Recovery!EndedForGood` where polls do not overlap |
| `StoredIsAlwaysTrue` | `DevicesSpec => []StoredIsTrue`: the types of what is stored, `NothingReadUnread` of the migrations, `FilesAreBackedUp`, of the composition |
| `EntryIsAlwaysSound` | `DevicesSpec => []EntryIsSound`: `InIsNamed`, `NoLockWithoutPin`, `GuardiansAreAsked` and `NoneRemains`, with the types of what they are about |
| `StackIsAlwaysSound` | `DevicesSpec => []StackIsSound`: `PaidIsNotAsked`, `PinIsBackedUp` and `LockedIsShut` of `Navigation` and the types of the stack, for every set of visits and every depth |
| `NothingIsDoneTwice` (`PaymentsProofs`) | `Mods!Spec => [](TypeOK /\ DoneOnce)`, `Mods` an instance of `ModRequests` |
| `AnswersAreOfTheCalls` | `AnsweredWithOwn`, `RejectedIsNotDone` and `FormIsOfTheRequest` of `Mods` where calls do not overlap |
| `FormsShowWhatIsSent` | `Confirm!Spec => []ShownIsSent` and `Overlay!Spec => []ShownIsSent`, instances of `AmountForm` with any wallets: what is shown is sent, unless the choice of another wallet has set the amount anew (`handledAnew`) |
| `PaidAsConfirmed` | `Pay(flow)!Spec => []` of `TypeOK`, `WithinBalance` (on chain unless `astray`), `FeesAreOfThePayment` (of invoices unless `astray`), `SaidIsSent`, `Pay(flow)` an instance of `OmniPayments` for each way of paying |
| `DialogIsTrue` | `Dialog!Spec => []` of `TypeOK`, `ShownIsOfTheForm`, `TimersAreOfTheOpening` (without `Reopens`), and `WantsUntilFailed` (without `SlowFailures`), `ShownPaymentIsNoticed` (without `OnChain`), `Dialog` an instance of `RequestDialog` |
| `RequestsAreShown` | `Requests!Spec => []` of `TypeOK`, `SuccessIsPaid`, `ShownAmount` (without `Lnurl`), `Requests` an instance of `LightningRequests` |
| `MeltsAreTrue` | with `TokenIsDecoded`, `Melt(web)!Spec => [](TypeOK /\ SuccessIsWhole /\ SuccessIsReceived)`, `Melt(web)` an instance of `CashuMelts`, native or web |
| `SentIsAsShown` | `Spec => []SentAsShown`: the promises of `FormsShowWhatIsSent` and `PaidAsConfirmed`, under the same conditions, of the composition |
| `RequestsAreAlwaysTrue` | `Spec => []RequestsAreTrue`: those of `RequestsAreShown` (`ShownAmount` without `Lnurl`), `DialogIsTrue` (`ShownIsOfTheForm`) and `MeltsAreTrue` (with `TokenIsDecoded`), of the composition |
| `AnswersAreAlwaysOwn` | `Spec => []AnswersAreOwn`: a mod's call is answered with its own result, when the mod makes one call after the other, and done once, of the composition |

The argument for the pool:

- *Totals.* `Total` of an amount map is the cardinality of the set of its coins.
  What the library proves of finite sets (union, subset, bijection) gives the
  lemmas that totals are monotone, split, add up and scale. Induction is not
  available for operators; where it is needed (`TotalScale`, `GreatestNumber`)
  the proof takes a least counterexample, which exists by well-foundedness.
- *Walks.* `TakenType` and `LeftType` bound what a walk takes from each item.
  `WalkTakesAtMost`: a walk takes in all no more than it wants at the last item
  it reached.
- *Collateral.* With E the fee rate, the locked seeks before fees are within what
  the provides cover (`GrossWithinCover`), that is (B - E) * CollProvider times
  their sum is at most the provides times CollSeeker * B, since `SeeksCovered`
  rounds down; B times a seek after its fee is at most (B - E) times the seek,
  since the fee rounds up. Together and divided by B: `LocksAreCollateralised`.
- *Loops.* A walk under way (`Walking`) has locked a front part of the queue, and of
  each locked item what the closed form takes. While a loop wants more, what it
  locked is emptied (`Emptied`), so that what is ahead of the front item is what has
  been included (`WalkingAhead`), and an iteration takes what the closed form says
  (`WalkingTakes`). The code subtracts what is included before it rounds up, which
  is the same as after (`RemainingIs`). The first loop stops where the item at the
  front, at its rate, needs nothing more; those behind are dearer and need no more
  than it (`DearerNeedsLess`), so what is locked is all that the closed form reaches
  (`WalkingStops`). The invariant is `LoopsInv`.
- *Tables.* Every operation on a table but one only gives items new amounts and
  drops some (`Reamounted`), so it preserves the type of a table, owners and fee
  rates. Restaging merges two tables of the same kind. `TurnoverParts` collects
  what a turnover does in these terms; the theorems about `Spec` follow from it.
- *Custody.* `Turned` names what a turnover computes on the way, so that each part
  of it can be accounted for by itself: a settlement gives away what was locked
  (`PayoutsAreExact` for both sides), a cancellation moves to the idle balance what
  it does not renew, restaging and the auction keep the sum of staged and locked
  (`LeftSplits`: what a walk takes and what it leaves are what was there), and the
  fees taken of the seeks are shared among the provides. `TotalByGroup` adds the
  items up by account, which gives the balances `Custody` speaks of. Restaging looks
  at the locked half of an item and writes the staged one; that both are of the same
  account and rate is `OneItem`, an invariant of its own.
- *Value.* A share times the price is the seek's value times a factor that is the
  same above and below the division; the rounding of the division costs the seek less
  than a millisat (`ShareKeepsValue`).
- *Order.* `WalkStops`: a walk that left something of an item has not reached
  anything behind it, because it wanted no more there (`DearerNeedsLess`). The
  invariant is `OrderInv`: `PrioritiesHold`, and the mark that `CheapestProvidesFirst`
  compares numbers with is not above the counter of numbers.
- *Market.* If collateral is left at the going rate, the walk over the provides
  ended because it had enough, so it took what all seeks need at that rate
  (`WalkTakesEnough`); what that covers, rounded down, is all seeks
  (`CollateralCovers`), so none is left.
- *Metadata.* A record is closed with a seek that a cancellation has emptied. That
  seek is not restaged, its account has nothing staged (`CancellationBacked`), and its
  number is not given out again; so it never comes back. What other seeks of its
  transaction hold is not claimed (see the Observations). The proof is relative to `TypeOK`, `OneItem` and
  `CancellationBacked`.
- *Full cancellation.* The cap that a cancellation of everything takes is all the
  account was paid, however that was rounded (`EverythingTaken`, `AllOfIt`); with
  nothing staged beside, neither the restaged tables nor the auction, which only
  makes them smaller (`DwindledHolding`), hold anything of it.
- *Strengthening.* `TypeOK`, `Collateralised`, `OneSided` and
  `CancellationBacked` are each inductive relative to `TypeOK`. That settling the
  provides never divides by zero is not: it needs that locks are collateralised
  (no provides, then no seeks, then nothing to share) and `LocksHoldProvides`:
  the locked provides of a written cycle are not all empty, because a turnover
  that locked only empty ones would have stopped at sharing the fees. The panic
  of the first finding is what keeps the third division safe.

The argument for the consensus:

- *Medians.* At least a threshold of votes is counted, so the faulty ones are fewer
  than half of them. A median has at least half of the votes on either side of it
  (`MedianIsMedian`), so an honest one on either side (`OneIsHonest`).
- *Cycles.* `CyclesLastTheirDuration` is not inductive. The strengthening is
  `HonestWaited`: an honest guardian whose proposal for the next cycle is on its way
  or counted has waited for the duration on its own clock, and voted for no time
  before that. With `MediansAreHonest` the time of the next cycle is not before an
  honest vote.

The argument for payments in a chat:

- *What the room knows.* None of the three promises is inductive. A note matters once
  an event carries it (`Known`): before that only its payer has it. `NoteInv`: a
  note that is submitted by, or belongs to, anybody but its payer is known. So the
  notes that have left their payer are among the known ones, and `PaidOnce` follows
  from `DirectInv`: of a payment in a direct chat that was not paid again, one note is
  known, and while somebody generates or sends one, none is and nobody else does.
- *Who may pay.* Two thunks of one payment are begun in two openings of the chat only;
  the second press finds the first one running (`PaysElsewhere`) and puts the payment into
  `paidAgain`. For the others `DirectInv` needs that a button to pay means that nothing was paid
  (`RequestedIsUnpaid`). What a user is shown is the latest event of those that
  reached it or that it wrote. A request is the first event of its payment
  (`EventInv`), so a user who is shown one has said nothing since; and as an event
  with a note comes after the only payer said something (`PayerSpoke`), no note is
  known yet. A restart does not break this, since what was said is read again.
- *Refunds.* A cancellation is sent when the note is the payer's already (`TaskInv`),
  and owners do not change (`Grows`).
- *The listener.* It begins claims of payments it has not attempted, and attempts them
  (`CheckAdds`); a claim's payment is among the attempts until it ends, and the
  attempts are forgotten only together with the thunks. Every action that
  changes a timeline ends with it: `ListenKeeps` is its part of their proofs.
- *The end.* When all is seen, what a user is shown of a payment is its last event
  (`ShownIsLatest`); if that is terminal no button is offered, and the listener finds
  nothing (`ListenerIsQuiet`).

The argument for observers:

- *What is on its way continues what is there.* None of the promises is inductive,
  because the client lags behind. `Fits`: the first message on its way is made for
  the client's state, each further one for what the one before it leaves, and the
  bridge's cursors are where the last one ends. So an update that arrives always
  meets the value it was made for, and when nothing is on its way the value is the
  bridge's. `Rises`: values on their way only grow, up to the bridge's version.
- *One observation.* An observation goes through phases (`Unasked`, `Asked`,
  `Answered`, `Held`, `Ending`, `Closed`, `Left`, `LeftAndAsked`), each of which says
  what calls there are, what the bridge runs and what is in the channel (`Phases`).
  Every action leads from one phase to another. When nothing is under way only
  `Unasked` and `Held` remain, and of these the promises are evident.
- *Refinement.* Only a message received changes the copy; it leaves it or raises it
  to a version not above the bridge's (`ReceiveStep`), a step of `Mirror`.

The argument for roles:

- *Changes.* A call that writes all levels writes its own change with those it had read.
  What was accepted since it read counts as overtaken by it (`overtaken`); so what a call is
  about to write has each change that is due and that it has not overtaken (`WritesAll`),
  and once written the change holds (`ChangesHold`). Every write takes the membership as
  the server has it, so only a change of the same member's membership, which is then no
  longer due, touches it (`ChangeIs`).
- *One by one.* `CallFits` says of a call at each of its steps what the server and redux
  have: before it writes, redux is current and the call carries the levels of the server
  with the one change; after, the server has them and redux will, once the answer is
  taken; while members are fetched, only they may be behind. `AloneInv` adds that the
  changes that are due hold (`Holds`).

The argument for rooms:

- *Previews.* A look at default groups is for federations that had been joined when it
  began, and no federation is left meanwhile; so what it finds are default groups of the
  federations there are, whatever looks overlap (`PreviewsTyped`). A group whose preview
  was opened from a link is marked as a default group only if it is one.
- *Calls.* A call to join is for a room the bridge knows, and as a room is never
  forgotten it still is when the call is answered (`JoinsTyped`).

The argument for fees, joins, the history and storage:

- *Fees.* The fee, rounded up, is monotone in the amount; the maximum is computed
  with one division rounded down by the sum of all rates, and rounded down again
  to sats. A sat more than that exceeds the balance even without the rounding up
  of the fees (`ToldIsAlwaysTheMost`). Without a gateway there is one fee only,
  whose rounding up cannot cost more than what the division dropped
  (`ToldIsAlwaysAccepted`); with a gateway there are two, and TLC shows the
  msat that may then be missing (`ToldIsAccepted` under [Observations](#observations)).
- *Joins.* A federation being left is not saved any more; a join under way has
  a federation and a database that no other join and no client has (`OfItsOwn`); and
  two federations that run have two databases. `JoinsInv` is these three with
  `RunningIsSaved`, and `DatabasesAreApart` follows from it. Types need their own
  strengthening (`JoinTypes`): no balance is above the number of acts, and a refresh
  within a join comes after it.
- *Reservations.* A call has a step only before its operation has a status
  (`CallInOrder`), so a status begins once, when the fee is added to the counter,
  and ends once; a fee under way is part of the sum (`PendingCovers`), so the
  saturating subtraction is exact.
- *Cover.* At most one send is between its check and its status. The virtual balance
  bears what that send will still take (`ToBear`), and nothing else lowers it
  (`CoveredInv`).
- *Ledger.* With the fees taken off by remittances that were paid and not put back,
  the outstanding fees are exactly the fees charged (`Balanced`). A remittance that
  holds its direction's lock is the only one, and what is outstanding has not sunk
  below its fees (`LedgerInv`); so taking them off is exact, too. `PartChanges` says
  what one remittance's step does to the sum. What was remitted was taken off or is
  about to be, which gives `ChargedOnce`.
- *History.* A page says what the log says when it is made, and nothing that it says
  changes until it is stored; so what is listed or about to be is as the operation is
  (`ListedAsIs`), and as old (`ListedWhenBegun`: the clock does not go back, so what
  began later is later in the log). A note is the operation's but for the one that is
  written and not told yet; while there is one, no page is fetched and no detail is
  open (`NotesAsTaken`), so that nothing resets what is typed. Types need that a detail
  that is open leaves room for one more save (`DetailTyped`).
- *Texts.* What follows a state of an operation is a state of its kind
  (`SuccessorsAreStates`); with that a case for each kind of operation is enough
  (`TextIsTrue`).
- *Storage.* What is stored was once in memory, and memory is loaded before it is
  saved; so a save writes values at least as new. The strengthening says that what
  is in memory is at least what is stored once loading has ended, and nothing is
  saved before. The identifier is changed by the first start of the bridge only.

The argument for what a device does:

- *Registration.* Without legacy devices every owner is registered under its encrypted
  identifier (`OwnersAreEncrypted`), so a request under the plain one is never granted,
  and the chain of requests never comes to overwrite (`SoundChain`). What is left
  are the requests that force, which a renewal does not, and a registration
  only of a transfer. `OneRequest` says what one request does, whether its answer is
  lost or not.
- *Names.* A name that redux or the bridge knows of is that of the account that is
  logged in, and the chat runs for an account only (`NameIsOfTheAccount`).
- *PIN.* While the keychain has no PIN, either PinContext knows it or all that is
  protected is unlocked (`GoneIsUnlocked`). While a PIN is entered again the first one
  does not change (`FirstStays`).
- *Migrations.* Up to version 13 the marks of what was read are those that were stored:
  the migrations 2 and 3 change them only in entries that the second of them drops
  (`MarksOf`). A mark is of a message and the identifier of an update is not, so that
  migration 13 takes the time of that message (`TimeOfMark`); that the last of the
  messages exists takes a least counterexample (`SomeIsGreatest`).
- *Backups.* While a backup is uploaded, each guardian that is not waited for and has
  not refused has it, and a guardian replaces a backup by a later one only
  (`UploadIsLast`, `BackupsInv`). Requests under way are of no later backup than the
  last one begun.
- *Sessions.* The same for the sessions of recoveries (`StartIsLast`, `StateIsLast`).
  A session begins only where none is saved (`ShownIsOfTheState`: what is saved is
  shown, or about to be), and a poll under way is of the one that is saved
  (`PollsAreOfTheState`). So an answer adds to the shares it has read, all
  of them of one backup; and as a share is a guardian and that backup, there are
  at least as many shares as guardians who are shown to have approved
  (`ApproversAreShares`).
- *Screens.* That the app is locked and what may be on its stack then, and that a PIN has
  a backup, is a matter of each screen alone: `May` says of one screen what lets it be
  there, `MayAwait` of one call, and a step only has to justify what it puts on the stack
  or awaits (`Leading`, `EndsInstead`, `EndsOnto`, `EndsAlone`: one lemma for each thing
  a handler does to the stack; `Steady`: what it may change of the facts). That what was
  paid is not asked for again is not inductive so: a call replaces whatever is focused
  when it ends, and that is its confirmation only because nothing has come onto it.
  `Stacked` says what may be above a confirmation at all: what a call leads to whose
  screen has been left, and what leads on to nothing but that. `Awaited` says that while
  a call is awaited its own confirmation is not below another screen, nor is any, except
  for the three calls whose screens may themselves be above one (`OverCalls`). While a
  device is registered for a seed, `Awaited` keeps the tabs below whatever came onto
  them, so that its late answer shortens the stack to them. Unlocking drops the
  lock screens, or all of the stack (`Whole`: they are not mixed with others). TLC
  checked `ScreensInv` on visits like those of the run before it was proved.

The argument for payments:

- *Mods.* A task is of a call that is shown and has not been done; but for an
  invoice, a kind has one task at most and its overlay loads while it runs
  (`WorkIsOnce`). An invoice's overlay may come to show another call while the
  task of the first goes on; what is done is therefore never shown again. When calls do
  not overlap, the reference that an overlay answers is the one of the
  call it shows (the invariant of `AnswersAreOfTheCalls`).
- *Paying.* The button of an invoice compares with the balance of the wallet that is
  chosen when it is pressed, and the payment keeps that wallet (`PaysWithin`). On chain
  the fees are asked for after the wallet can be changed no more (`FeesFollow`). Of an
  invoice they are asked for anew with each choice; the fees shown are those of the wallet
  chosen unless an answer came out of that order (`InvoiceFees`, `astray`).
- *Asking.* An effect of the dialog begins one job at most, for what the form says then
  (`JobIsOfTheForm`), and cancels the one before; every change of the form runs it. What is
  shown, or given to a service, was made for the form as it still is (`AsksForTheForm`).
  The native form is held while an invoice is made (`FormIsHeld`); what is made
  is numbered, so a new one is not among those that are paid (`NumberedAre`).
- *Forms.* While a form is open the sats it shows are those of its amount, whichever
  handler changed either last, but for the choice of another wallet in the screen that
  confirms, which sets the amount under its texts (`FormInv`, `handledAnew`).
- *Tokens.* The quotes of all parts of a token are made before any is executed
  (`AllAreQuoted`), and what is counted as executed was paid as quoted (`MeltedIsPaid`).
  A part that was spent and is not owed any more came to the wallet, once
  (`WalletGot`), so the sum that a success shows was received.
- *Compositions.* The system that runs takes the steps of its module and the others rest
  (`EachRunsAlone`); so the invariant of the module is one of the composition while
  `which` names it, and from the state where it rests it holds as well.

The argument for stable balances:

- *Stable balance.* A cancellation that the pool accepts takes two thirds of a cent at
  least (`CancelsSomething`), so while it waits the pending balance is negative and no
  form to deposit opens (`PendingIsFresh`); an open form shows the account as it is
  (`FormIsTrue`), so what it lets through is there, and the bridge's fee is the only thing
  that can be missing.
- *Operations.* Money moves between ecash, the account and outputs under way, and is
  never more than there was (`MoneyInv`; `Moved` says it of one step). What a
  cancellation is to bring is kept from step to step (`PaysAll`): while it waits it is
  what is to be cancelled, after the turnover it is idle, and then it is asked for.
  Without the user what is left of an account never grows: the sweeper asks for all of it
  or more (so it takes everything or nothing), the hook for what is idle, once, until it
  knows that nothing is (`SweepFits`).

## Only model-checked

- Liveness: outside the reach of the prover.
- Of the pool: the violations.
- Of a social recovery: `FilesStayUsable` and that it is approved in the end.
- Of observers: several at once, an order that is lost, and that they catch up.
- Of rooms: that invitations are joined and that the list follows.
- Of roles: a role offered to who has it, and removals reported as failed (both violated).
- Of the stable balance: `CancellationIsAllowed`, `TakesWhatWasConfirmed` and
  `AllOrNothing`, which turn on roundings; of operations `FreshDepositsStay` and
  `RejectedIsNotPaid` (violated where the sweeper acts beside the user).
- Of paying and asking for payments: that a form gets ready, LNURL withdrawals of the
  native app, and what a form sends being within its bounds (`SentIsAccepted`).
- Of the history: that the end of the list is its end (`EndIsTheEnd`), which turns on how
  many operations a page passes over.
- Of the interface: `WebPages`. What its eight parts promise needs an invariant
  each.
- Of the compositions, the instances with fixed constants, which ask a second question of a
  module: other words, digits taken back, late failures, calls that overlap.
- Facts that need induction over data as an operator argument (what a recursive
  definition computes) cannot be proved; the models avoid recursion instead.

## Not modelled

- Of the stability pool: cents and wall-clock times in the metadata (display),
  u64 and u128 widths, the migration that empties the tables, the encoding, the
  oracle's HTTP queries (any price, or none, comes out of them), the read-only
  API.
- Of social recovery the cryptography (a share is the guardian that gave it and the
  backup it is of), the compression and playing of the video, and a second file
  chosen while the first is being checked.
- Backups of a federation's client; the choice of Lightning gateways; the metadata
  service and communities, which are caches of remote files; observables of the
  bridge other than as `MatrixObservers` sees them.
- The legacy chat over XMPP: of it the migrations of what it stored are modelled.
- The interface's presentation: layout, styles, translations, formatting of names and
  dates; of the 80 000 lines of TypeScript these are most. What is modelled are
  thunks, reducers, hooks, screens that keep state of their own, and how the native
  app goes from screen to screen. React Navigation is external (`Navigation` has
  navigate, push, replace, goBack and reset as the code relies on them), and so are
  Next.js' router and React's commits for `WebPages`. Screens
  that nothing leads to (`Receive`, `SocialRecoveryQrModal`), the archive of the
  legacy chat, and of the web app its developer settings, its installation, paper
  ecash and the pages of guardians are left out.
- FFI, generated bindings, events and logging, the bridge in the browser, small
  binaries, build and CI.

`PROJECT.json` gives the reason for each component.

## Plan

Proofs next: `WebPages`, what is made on a page is shown before the page goes.

Models: the choice of a gateway, the metadata cache.
