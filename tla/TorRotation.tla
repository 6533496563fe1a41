------------------------------ MODULE TorRotation ------------------------------
(***************************************************************************)
(* The rotation of the Tor isolation token (__init__.py 1762-1880 and the   *)
(* panel's routes 3189-3265).  Timers, the panel's poll and a saved setting *)
(* all ask for a rotation that is due; the owner may also ask for a new     *)
(* identity.  The deadline is kept in the panel's state, which the first    *)
(* caller reads from disk and everyone then shares.                         *)
(***************************************************************************)
EXTENDS Integers, FiniteSets

CONSTANTS
    Callers,
    Intervals,      \* _TOR_ROTATION_INTERVALS, in steps of the clock
    LastTick,        \* bound on the clock
    MaxCrashes, MaxSaves,   \* bounds on stops of Home Assistant and on saved settings
    Unset

ASSUME RotationAssumption == Intervals \subseteq Nat \ {0} /\ Intervals # {}
Errands == {"rotate", "identity", "health", "settings"}
ASSUME UnsetAssumption == Unset \notin Callers /\ Unset \notin Nat /\ Unset \notin Errands

VARIABLES
    disk,       \* the panel's state on disk
    shared,     \* _panel_state: the caller whose copy of it all share, or Unset
    copy,       \* the copies that were read
    caller,     \* each caller's place, its errand and the settings it saves
    lock,       \* _tor_rotation_lock
    clock, crashes, saves,
    turned,     \* when the token last changed and whether by itself, Unset when Home Assistant started since
    promised,   \* the settings last answered as saved
    doubled     \* whether two callers have read the state at the same time

torVars == <<disk, shared, copy, caller, lock, clock, crashes, saves, turned, promised, doubled>>

RotationSettings == [enabled : BOOLEAN, interval : Intervals]
Free == [at |-> "idle", errand |-> Unset, want |-> Unset]

TorInit ==
    /\ \E settings \in RotationSettings \cup {Unset} : disk = [settings |-> settings, last |-> Unset]
    /\ shared = Unset
    /\ copy = [c \in Callers |-> Unset]
    /\ caller = [c \in Callers |-> Free]
    /\ lock = Unset
    /\ clock = 0 /\ crashes = 0 /\ saves = 0
    /\ turned = Unset /\ promised = Unset /\ doubled = FALSE

Go(c, place) == caller' = [caller EXCEPT ![c].at = place]

FirstStop(errand) == CASE errand = "rotate" -> "waiting" [] errand = "identity" -> "turning" [] OTHER -> "asking"

\* A timer, the entry's setup or the panel's poll; reads of the same state for
\* another purpose ("health") take no lock.
Call(c, errand, want) ==
    /\ caller[c] = Free
    /\ caller' = [caller EXCEPT ![c] = [at |-> FirstStop(errand),
                                        errand |-> errand, want |-> want]]
    /\ UNCHANGED <<disk, shared, copy, lock, clock, crashes, turned, promised, doubled>>

AskRotation(c) == Call(c, "rotate", Unset) /\ UNCHANGED saves
AskIdentity(c) == Call(c, "identity", Unset) /\ UNCHANGED saves
AskHealth(c) == Call(c, "health", Unset) /\ UNCHANGED saves
\* The owner saves settings one at a time.
SettingsOnTheWay == \E c \in Callers : caller[c].errand = "settings"
PostSettings(c) ==
    /\ ~SettingsOnTheWay
    /\ saves < MaxSaves /\ saves' = saves + 1
    /\ \E want \in RotationSettings : Call(c, "settings", want)

TakeLock(c) ==
    /\ caller[c].at = "waiting" /\ lock = Unset
    /\ lock' = c
    /\ Go(c, "asking")
    /\ UNCHANGED <<disk, shared, copy, clock, crashes, saves, turned, promised, doubled>>

\* The state is not in memory: read it.
Reading == \E c \in Callers : caller[c].at \in {"reading", "read"}
StartRead(c) ==
    /\ caller[c].at = "asking" /\ shared = Unset
    /\ Go(c, "reading")
    /\ doubled' = (doubled \/ Reading)
    /\ UNCHANGED <<disk, shared, copy, lock, clock, crashes, saves, turned, promised>>

ReadFile(c) ==
    /\ caller[c].at = "reading"
    /\ copy' = [copy EXCEPT ![c] = disk]
    /\ Go(c, "read")
    /\ UNCHANGED <<disk, shared, lock, clock, crashes, saves, turned, promised, doubled>>

\* Whose copy of the state the caller works on.
Holder(c) == IF caller[c].at = "read" THEN c ELSE shared
HasState(c) == caller[c].at = "read" \/ (caller[c].at = "asking" /\ shared # Unset)
Remember(c) == shared' = Holder(c) /\ UNCHANGED doubled

\* From the state to the save there is no await: the copy's new value.
Saving(c, state) ==
    /\ copy' = [copy EXCEPT ![Holder(c)] = state]
    /\ caller' = [caller EXCEPT ![c] = [at |-> "saving", errand |-> @.errand, want |-> [of |-> Holder(c), settings |-> @.want]]]
    /\ UNCHANGED <<disk, lock, clock, crashes, saves, promised>>

\* Mutant: a rotation is due while its interval has one step to go.
DueEarly(state) ==
    /\ state.settings # Unset /\ state.settings.enabled
    /\ state.last # Unset => clock - state.last >= state.settings.interval - 1

Due(state) ==
    /\ state.settings # Unset /\ state.settings.enabled
    /\ state.last # Unset => clock - state.last >= state.settings.interval

\* rotate_tor_isolation: a new token, by itself or for the owner.
Turn(alone) == turned' = [at |-> clock, alone |-> alone]

Rotate(c) ==
    /\ caller[c].errand = "rotate" /\ HasState(c)
    /\ Due(copy[Holder(c)])
    /\ Turn(TRUE)
    /\ Remember(c) /\ Saving(c, [copy[Holder(c)] EXCEPT !.last = clock])

NotDue(c) ==
    /\ caller[c].errand = "rotate" /\ HasState(c)
    /\ ~Due(copy[Holder(c)])
    /\ Remember(c)
    /\ lock' = Unset
    /\ caller' = [caller EXCEPT ![c] = Free]
    /\ UNCHANGED <<disk, copy, clock, crashes, saves, turned, promised>>

\* api/tor/new-identity turns the token first and takes no lock.
NewIdentity(c) ==
    /\ caller[c].at = "turning"
    /\ Turn(FALSE)
    /\ IF shared = Unset
       THEN /\ caller' = [caller EXCEPT ![c].at = "reading", ![c].want = clock]
            /\ doubled' = (doubled \/ Reading)
            /\ UNCHANGED <<disk, shared, copy, lock, crashes, saves, promised, clock>>
       ELSE /\ Remember(c)
            /\ Saving(c, [copy[shared] EXCEPT !.last = clock])

SaveIdentity(c) ==
    /\ caller[c].errand = "identity" /\ caller[c].at = "read"
    /\ Remember(c) /\ Saving(c, [copy[c] EXCEPT !.last = caller[c].want])
    /\ UNCHANGED turned

SaveSettings(c) ==
    /\ caller[c].errand = "settings" /\ HasState(c)
    /\ Remember(c) /\ Saving(c, [copy[Holder(c)] EXCEPT !.settings = caller[c].want])
    /\ UNCHANGED turned

SaveHealth(c) ==
    /\ caller[c].errand = "health" /\ HasState(c)
    /\ Remember(c) /\ Saving(c, copy[Holder(c)])
    /\ UNCHANGED turned

LookAtHealth(c) ==
    /\ caller[c].errand = "health" /\ HasState(c)
    /\ Remember(c)
    /\ caller' = [caller EXCEPT ![c] = Free]
    /\ UNCHANGED <<disk, copy, lock, clock, crashes, saves, turned, promised>>

\* The state as it now is reaches the disk; enabled settings then ask for a rotation.
SaveEnds(c) ==
    /\ caller[c].at = "saving"
    /\ disk' = copy[caller[c].want.of]
    /\ lock' = IF lock = c THEN Unset ELSE lock
    /\ promised' = IF caller[c].errand = "settings" THEN caller[c].want.settings ELSE promised
    /\ caller' = [caller EXCEPT ![c] =
           IF caller[c].errand = "settings" /\ caller[c].want.settings.enabled
           THEN [at |-> "waiting", errand |-> "rotate", want |-> Unset] ELSE Free]
    /\ UNCHANGED <<shared, copy, clock, crashes, saves, turned, doubled>>

Crash ==
    /\ crashes < MaxCrashes /\ crashes' = crashes + 1
    /\ shared' = Unset /\ lock' = Unset /\ turned' = Unset /\ doubled' = FALSE
    /\ copy' = [c \in Callers |-> Unset]
    /\ caller' = [c \in Callers |-> Free]
    /\ promised' = IF SettingsOnTheWay \/ doubled THEN Unset ELSE promised
    /\ UNCHANGED <<disk, clock, saves>>

ClockTicks ==
    /\ clock < LastTick /\ clock' = clock + 1
    /\ UNCHANGED <<disk, shared, copy, caller, lock, crashes, saves, turned, promised, doubled>>

TorNext ==
    \/ \E c \in Callers :
           \/ AskRotation(c) \/ AskIdentity(c) \/ AskHealth(c) \/ PostSettings(c)
           \/ TakeLock(c) \/ StartRead(c) \/ ReadFile(c)
           \/ Rotate(c) \/ NotDue(c) \/ NewIdentity(c) \/ SaveIdentity(c)
           \/ SaveSettings(c) \/ SaveHealth(c) \/ LookAtHealth(c) \/ SaveEnds(c)
    \/ Crash
    \/ ClockTicks

TorSpec == TorInit /\ [][TorNext]_torVars

(***************************************************************************)
(* Properties.                                                             *)
(***************************************************************************)
Spaced(c) == (Rotate(c) /\ turned # Unset) => clock - turned.at >= copy[Holder(c)].settings.interval

\* However the redundant callers, the owner and the saves of other routes
\* interleave, an automatic rotation comes no sooner after any change of the token
\* than its interval, unless two callers read the state at once.
RotationsSpaced == [][\A c \in Callers : ~doubled => Spaced(c)]_torVars

\* "A single lock plus the persisted last_rotated_at value make these callers
\* idempotent" (__init__.py:1797-1798), without that exception, of automatic
\* rotations only.
CallersIdempotent ==
    [][\A c \in Callers : (turned # Unset /\ turned.alone) => Spaced(c)]_torVars

\* RotationSettings answered as saved are the ones rotations go by, and survive a stop,
\* unless the state was read twice or other settings are on their way.
SettingsStay ==
    (promised # Unset /\ ~doubled /\ ~SettingsOnTheWay)
        => /\ disk.settings = promised
           /\ shared # Unset => copy[shared].settings = promised

\* The rotation keeps its two promises.
RotationsRight == []SettingsStay /\ RotationsSpaced
=============================================================================
