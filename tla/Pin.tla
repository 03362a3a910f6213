--------------------------------- MODULE Pin ---------------------------------
(***************************************************************************)
(* The PIN of the native app: PinContext, LockScreen and FeatureLockScreen, *)
(* SetPin, PinAccess, ResetPin and the security slice.                     *)
(*                                                                         *)
(* PinContext reads the keychain once at launch; setting and unsetting the *)
(* PIN change the keychain only. A debounced value is used here only while *)
(* it is the current one.                                                  *)
(***************************************************************************)
EXTENDS Naturals, Sequences, SequencesExt

CONSTANTS
    Digits, Length,     \* maxPinLength
    Backspaces,         \* BOOLEAN: whether the user takes digits back
    MaxAttempts         \* bound: wrong PINs on one lock screen

PinAssumption ==
    Length \in Nat \ {0} /\ Backspaces \in BOOLEAN /\ MaxAttempts \in Nat

Features == {"app", "changePin", "nostrSettings"}
NoPin == <<>>
Pins == TupleOf(Digits, Length)

VARIABLES
    keychain,   \* the PIN stored, or NoPin
    loaded,     \* the PIN that PinContext checks; NoPin if its status is "unset"
    protected,  \* protectedFeatures, which are stored
    unlocked,   \* unlockedFeatures, which are not
    screen,     \* "main", "SetPin", or the feature whose lock screen is shown
    typed, confirm, reEntering, \* pinDigits; and of SetPin confirmPinDigits, isReEnteringPin
    attempts, timeout,  \* of the lock screen; timeoutSeconds
    first       \* history: pinDigits when SetPin asked for them again

screenVars == <<typed, confirm, reEntering, attempts, timeout, first>>
stored == <<keychain, loaded, protected, unlocked>>
vars == <<stored, screen, screenVars>>

\* ~useIsFeatureUnlocked
Locked(f) == loaded # NoPin /\ f \in protected /\ f \notin unlocked

TypeOK ==
    /\ keychain \in Pins \cup {NoPin} /\ loaded \in Pins \cup {NoPin}
    /\ protected \subseteq Features /\ unlocked \subseteq Features
    /\ screen \in Features \cup {"main", "SetPin"}
    /\ typed \in BoundedSeq(Digits, Length) /\ confirm \in BoundedSeq(Digits, Length)
    /\ reEntering \in BOOLEAN /\ first \in Pins \cup {NoPin}
    /\ attempts \in 0 .. MaxAttempts /\ timeout \in 0 .. 21
    /\ timeout > 0 => attempts > 2 /\ screen \in Features
    /\ confirm # <<>> => screen = "SetPin" /\ reEntering

\* A screen is mounted.
Mount ==
    /\ typed' = <<>> /\ confirm' = <<>> /\ reEntering' = FALSE
    /\ attempts' = 0 /\ timeout' = 0 /\ first' = NoPin

Init ==
    /\ keychain \in Pins \cup {NoPin} /\ loaded = keychain
    /\ protected = Features /\ unlocked = {}
    /\ screen = IF keychain = NoPin THEN "main" ELSE "app"
    /\ typed = <<>> /\ confirm = <<>> /\ reEntering = FALSE
    /\ attempts = 0 /\ timeout = 0 /\ first = NoPin

-----------------------------------------------------------------------------
\* The app is killed and started: Initializing waits for the PIN to be loaded.
Restart ==
    /\ loaded' = keychain /\ unlocked' = {} /\ Mount
    /\ screen' = IF keychain # NoPin /\ "app" \in protected THEN "app" ELSE "main"
    /\ UNCHANGED <<keychain, protected>>

\* setTimedOut
TimedOut(n) == IF n > 4 THEN 21 ELSE IF n > 3 THEN 7 ELSE 3

\* handleNumpadPress of the lock screens, for a digit
Press(d) ==
    /\ screen \in Features /\ timeout = 0
    /\ IF Len(typed) < Length
       THEN /\ typed' = Append(typed, d)
            /\ IF Len(typed') = Length /\ typed' # loaded
               THEN /\ attempts < MaxAttempts /\ attempts' = attempts + 1
                    /\ timeout' = IF attempts' > 2 THEN TimedOut(attempts') ELSE 0
               ELSE UNCHANGED <<attempts, timeout>>
       ELSE typed # loaded /\ typed' = <<d>> /\ UNCHANGED <<attempts, timeout>>
    /\ UNCHANGED <<stored, screen, confirm, reEntering, first>>

Backspace ==
    /\ Backspaces /\ screen \in Features /\ timeout = 0 /\ typed # <<>>
    /\ typed' = Front(typed)
    /\ UNCHANGED <<stored, screen, confirm, reEntering, attempts, timeout, first>>

\* The interval of setTimedOut
Tick ==
    /\ timeout > 0 /\ timeout' = timeout - 1
    /\ UNCHANGED <<stored, screen, typed, confirm, reEntering, attempts, first>>

\* The effect on the debounced PIN
Unlock ==
    /\ screen \in Features /\ typed = loaded
    /\ unlocked' = unlocked \cup {screen} /\ Mount
    /\ screen' = IF screen = "changePin" THEN "SetPin" ELSE "main"
    /\ UNCHANGED <<keychain, loaded, protected>>

Leave ==
    /\ screen \notin {"app", "main"} /\ screen' = "main" /\ Mount
    /\ UNCHANGED stored

\* NostrSettings, or else its lock screen
OpenNostrSettings ==
    /\ screen = "main" /\ Locked("nostrSettings") /\ screen' = "nostrSettings"
    /\ Mount /\ UNCHANGED stored

\* createOrManagePin of Settings, and the same of PinAccess: SetPin or its lock screen
OpenSetPin ==
    /\ screen = "main" /\ screen' = IF Locked("changePin") THEN "changePin" ELSE "SetPin"
    /\ Mount /\ UNCHANGED stored

\* A switch of PinAccess, which is there if the status is "set"
Toggle(f) ==
    /\ screen = "main" /\ loaded # NoPin /\ f # "changePin"
    /\ protected' = SymDiff(protected, {f})
    /\ unlocked' = unlocked \cup {f}
    /\ UNCHANGED <<keychain, loaded, screen, screenVars>>

-----------------------------------------------------------------------------

\* matchesInitialPin
Matches(digits) == digits = typed

\* handleNumpadPress of SetPin, for a digit: both branches run
PressSet(d) ==
    /\ screen = "SetPin"
    /\ confirm' = IF ~reEntering \/ (Len(confirm) = Length /\ Matches(confirm)) THEN confirm
                  ELSE IF Len(confirm) < Length THEN Append(confirm, d) ELSE <<d>>
    /\ typed' = IF Len(typed) < Length THEN Append(typed, d) ELSE typed
    /\ UNCHANGED <<stored, screen, reEntering, attempts, timeout, first>>

BackspaceSet ==
    /\ Backspaces /\ screen = "SetPin" /\ typed # <<>>
    /\ typed' = Front(typed)
    /\ confirm' = IF reEntering /\ confirm # <<>> THEN Front(confirm) ELSE confirm
    /\ UNCHANGED <<stored, screen, reEntering, attempts, timeout, first>>

\* The effect on debouncedPin
ReEnter ==
    /\ screen = "SetPin" /\ ~reEntering /\ Len(typed) = Length
    /\ reEntering' = TRUE /\ first' = typed
    /\ UNCHANGED <<stored, screen, typed, confirm, attempts, timeout>>

\* The effect on debouncedConfirmPin: set of PinContext, and CreatedPin.
Confirmed ==
    /\ screen = "SetPin" /\ Len(confirm) = Length /\ Matches(confirm)
    /\ keychain' = confirm /\ unlocked' = unlocked \cup {"app"}
    /\ screen' = "main" /\ Mount
    /\ UNCHANGED <<loaded, protected>>

StartOver ==
    /\ screen = "SetPin" /\ Len(confirm) = Length /\ ~Matches(confirm)
    /\ typed' = <<>> /\ confirm' = <<>> /\ reEntering' = FALSE
    /\ UNCHANGED <<stored, screen, attempts, timeout, first>>

\* ResetPin: the words of the seed are right; unset of PinContext, then SetPin.
Reset ==
    /\ screen = "app" /\ loaded # NoPin
    /\ keychain' = NoPin /\ unlocked' = unlocked \cup protected
    /\ screen' = "SetPin" /\ Mount
    /\ UNCHANGED <<loaded, protected>>

Next ==
    \/ \E d \in Digits : Press(d) \/ PressSet(d)
    \/ \E f \in Features : Toggle(f)
    \/ Restart \/ Backspace \/ Tick \/ Unlock \/ Leave \/ OpenNostrSettings \/ OpenSetPin
    \/ BackspaceSet \/ ReEnter \/ Confirmed \/ StartOver \/ Reset

Spec == Init /\ [][Next]_vars
\* The timer runs.
Fairness == WF_vars(Tick)
FairSpec == Spec /\ Fairness

-----------------------------------------------------------------------------
\* Nobody is asked for a PIN that does not exist any more: after ResetPin
\* PinContext still checks the old one.
NoLockWithoutPin == keychain = NoPin => \A f \in Features : ~Locked(f)

\* "Re-enter PIN": the PIN that is stored was typed twice.
PinIsTypedTwice ==
    [][keychain' # keychain /\ keychain' # NoPin => keychain' = first]_vars

\* However often the PIN was wrong, the lock screen takes digits again.
NumpadReturns == timeout > 0 ~> timeout = 0

\* "Enter current PIN": the PIN that is checked is the one stored.
CurrentPinIsChecked == screen \in Features => loaded = keychain
=============================================================================
