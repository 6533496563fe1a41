---------------------------- MODULE ServicesProofs ----------------------------
(***************************************************************************)
(* Theorems about three services behind the panel, the rotation of Tor's   *)
(* isolation, the live price and the duplicates of an import.  No part     *)
(* needs another.                                                          *)
(***************************************************************************)
EXTENDS TorRotation, LivePrice, ImportMatch, SumProofs, SequenceTheorems

-----------------------------------------------------------------------------
(* TorRotation, for any callers, intervals and bounds on the clock, the    *)
(* stops and the saves.                                                    *)
(*                                                                         *)
(* As long as no two callers read the state at once, there is one state:   *)
(* the shared one, or on its way to become it the copy of the only reader. *)
(* It knows when the token last turned, or its reader brings that along;   *)
(* and it holds the settings that were last promised, or a caller is about *)
(* to promise others.                                                      *)

Shaped(state) == state = [settings |-> state.settings, last |-> state.last]
Reads(c) == caller[c].at \in {"reading", "read"}

\* Whatever was read or shared is a panel state, however many callers read it.
CallersShaped ==
    /\ caller = [c \in Callers |-> caller[c]]
    /\ \A c \in Callers : caller[c] = [at |-> caller[c].at, errand |-> caller[c].errand, want |-> caller[c].want]
CopiesShaped ==
    /\ copy = [c \in Callers |-> copy[c]]
    /\ Shaped(disk)
    /\ shared # Unset => Shaped(copy[shared])
    /\ \A c \in Callers : caller[c].at = "read" => Shaped(copy[c])
    /\ \A c \in Callers : caller[c].at = "saving" =>
          caller[c].want.of \in Callers /\ Shaped(copy[caller[c].want.of])
ShapeInv ==
    /\ clock \in Nat
    /\ turned # Unset => turned.at \in Nat
    /\ shared \in Callers \cup {Unset}
    /\ CallersShaped /\ CopiesShaped
    /\ \A c \in Callers : caller[c].at = "turning" => caller[c].errand = "identity"

\* One state: its reader, its copy on disk, its savers.
OneState ==
    /\ \A c \in Callers : Reads(c) => shared = Unset /\ \A d \in Callers : Reads(d) => d = c
    /\ \A c \in Callers : caller[c].at = "read" => copy[c] = disk
    /\ \A c \in Callers : caller[c].at = "saving" => shared # Unset /\ caller[c].want.of = shared
\* The state knows when the token turned, or its reader does.
TokenKnown ==
    turned # Unset =>
        /\ shared # Unset => copy[shared].last = turned.at
        /\ shared = Unset =>
             /\ \E c \in Callers : Reads(c)
             /\ \A c \in Callers : Reads(c) => caller[c].errand = "identity" /\ caller[c].want = turned.at
\* One change of the settings at a time, and the state holds what is being saved.
SettingsKnown ==
    /\ \A c, d \in Callers : caller[c].errand = "settings" /\ caller[d].errand = "settings" => c = d
    /\ \A c \in Callers : caller[c].errand = "settings" /\ caller[c].at = "saving" =>
          copy[shared].settings = caller[c].want.settings
    /\ promised # Unset /\ ~ SettingsOnTheWay =>
          /\ disk.settings = promised
          /\ shared # Unset => copy[shared].settings = promised
SingleInv == OneState /\ TokenKnown /\ SettingsKnown
TorInv == ShapeInv /\ (~ doubled => SingleInv)

LEMMA TorStarts == TorInit => TorInv
  BY UnsetAssumption DEF TorInit, TorInv, ShapeInv, CallersShaped, CopiesShaped, Shaped, SingleInv,
     OneState, TokenKnown, SettingsKnown, SettingsOnTheWay, Reads, Free, Errands

-----------------------------------------------------------------------------
\* A caller goes to another place.
LEMMA Goes ==
    ASSUME CallersShaped, NEW c \in Callers, NEW place, caller' = [caller EXCEPT ![c].at = place]
    PROVE  /\ CallersShaped'
           /\ caller'[c].at = place /\ caller'[c].errand = caller[c].errand /\ caller'[c].want = caller[c].want
           /\ \A d \in Callers \ {c} : caller'[d] = caller[d]
<1>1. caller'[c] = [at |-> place, errand |-> caller[c].errand, want |-> caller[c].want]
  BY DEF CallersShaped
<1>2. \A d \in Callers \ {c} : caller'[d] = caller[d]
  BY DEF CallersShaped
<1>3. caller' = [d \in Callers |-> caller'[d]]
  BY DEF CallersShaped
<1> QED
  BY <1>1, <1>2, <1>3 DEF CallersShaped

\* A caller's record is replaced.
LEMMA Becomes ==
    ASSUME CallersShaped, NEW c \in Callers, NEW r, caller' = [caller EXCEPT ![c] = r],
           r = [at |-> r.at, errand |-> r.errand, want |-> r.want]
    PROVE  /\ CallersShaped'
           /\ caller'[c] = r
           /\ \A d \in Callers \ {c} : caller'[d] = caller[d]
<1>1. caller'[c] = r
  BY DEF CallersShaped
<1>2. \A d \in Callers \ {c} : caller'[d] = caller[d]
  BY DEF CallersShaped
<1>3. caller' = [d \in Callers |-> caller'[d]]
  BY DEF CallersShaped
<1> QED
  BY <1>1, <1>2, <1>3 DEF CallersShaped

\* A caller that neither reads nor saves, before or after: only its errand counts.
LEMMA Elsewhere ==
    ASSUME TorInv, NEW c \in Callers,
           UNCHANGED <<disk, shared, copy, clock, turned, promised, doubled>>,
           CallersShaped', \A d \in Callers \ {c} : caller'[d] = caller[d],
           caller[c].at \notin {"reading", "read", "saving"},
           caller'[c].at \notin {"reading", "read", "saving"},
           caller'[c].at = "turning" => caller'[c].errand = "identity",
           \/ caller'[c].errand = caller[c].errand
           \/ caller[c].errand # "settings" /\ (caller'[c].errand = "settings" => ~ SettingsOnTheWay)
    PROVE  TorInv'
<1>1. ShapeInv'
  BY DEF TorInv, ShapeInv, CopiesShaped
<1>2. \A d \in Callers : Reads(d)' <=> Reads(d)
  BY DEF Reads
<1>3. ASSUME ~ doubled PROVE SingleInv'
  <2>1. OneState'
    BY <1>2, <1>3 DEF TorInv, SingleInv, OneState
  <2>2. TokenKnown'
    <3>1. \A d \in Callers : Reads(d) => d # c
      BY DEF Reads
    <3> QED
      BY <1>2, <1>3, <3>1 DEF TorInv, SingleInv, TokenKnown
  <2>3. SettingsKnown'
    <3>1. SettingsKnown
      BY <1>3 DEF TorInv, SingleInv
    <3>2. \A d, e \in Callers : caller'[d].errand = "settings" /\ caller'[e].errand = "settings" => d = e
      BY <3>1 DEF SettingsKnown, SettingsOnTheWay
    <3>3. SettingsOnTheWay => SettingsOnTheWay'
      BY DEF SettingsOnTheWay
    <3> QED
      BY <3>1, <3>2, <3>3 DEF SettingsKnown
  <2> QED
    BY <2>1, <2>2, <2>3 DEF SingleInv
<1> QED
  BY <1>1, <1>3 DEF TorInv

-----------------------------------------------------------------------------
LEMMA CallKeeps ==
    ASSUME TorInv, NEW c \in Callers, NEW errand \in Errands, NEW want, Call(c, errand, want),
           errand = "settings" => ~ SettingsOnTheWay
    PROVE  TorInv'
<1>1. caller[c].at = "idle" /\ caller[c].errand = Unset
  BY DEF Call, Free
<1>2. /\ CallersShaped'
      /\ caller'[c].at = FirstStop(errand) /\ caller'[c].errand = errand
      /\ \A d \in Callers \ {c} : caller'[d] = caller[d]
  <2> DEFINE r == [at |-> FirstStop(errand), errand |-> errand, want |-> want]
  <2>1. caller' = [caller EXCEPT ![c] = r] /\ r = [at |-> r.at, errand |-> r.errand, want |-> r.want]
    BY DEF Call
  <2>2. r.at = FirstStop(errand) /\ r.errand = errand
    OBVIOUS
  <2>3. CallersShaped
    BY DEF TorInv, ShapeInv
  <2> HIDE DEF r
  <2> QED
    BY <2>1, <2>2, <2>3, Becomes
<1>3. FirstStop(errand) \in {"waiting", "turning", "asking"} /\ (FirstStop(errand) = "turning" => errand = "identity")
  BY DEF FirstStop, Errands
<1> QED
  BY <1>1, <1>2, <1>3, Elsewhere, UnsetAssumption DEF Call, Errands

LEMMA TakeLockKeeps == ASSUME TorInv, NEW c \in Callers, TakeLock(c) PROVE TorInv'
<1>1. /\ CallersShaped'
      /\ caller'[c].at = "asking" /\ caller'[c].errand = caller[c].errand /\ caller[c].at = "waiting"
      /\ \A d \in Callers \ {c} : caller'[d] = caller[d]
  BY Goes DEF TakeLock, Go, TorInv, ShapeInv
<1>2. UNCHANGED <<disk, shared, copy, clock, turned, promised, doubled>>
  BY DEF TakeLock
<1> QED
  BY <1>1, <1>2, Elsewhere

LEMMA StartReadKeeps == ASSUME TorInv, NEW c \in Callers, StartRead(c) PROVE TorInv'
<1>1. /\ CallersShaped'
      /\ caller'[c].at = "reading" /\ caller'[c].errand = caller[c].errand /\ caller[c].at = "asking"
      /\ \A d \in Callers \ {c} : caller'[d] = caller[d]
  BY Goes DEF StartRead, Go, TorInv, ShapeInv
<1>2. ShapeInv'
  BY <1>1 DEF StartRead, TorInv, ShapeInv, CopiesShaped
<1>3. ASSUME ~ doubled' PROVE SingleInv'
  <2>1. SingleInv /\ \A d \in Callers : ~ Reads(d)
    BY <1>3 DEF StartRead, TorInv, Reading, Reads
  <2>2. \A d \in Callers : Reads(d)' <=> d = c
    BY <1>1, <2>1 DEF Reads
  <2>3. OneState'
    BY <1>1, <2>1, <2>2 DEF StartRead, SingleInv, OneState
  <2>4. TokenKnown'
    BY <2>1 DEF StartRead, SingleInv, TokenKnown
  <2>5. SettingsKnown'
    <3>1. SettingsOnTheWay' <=> SettingsOnTheWay
      BY <1>1 DEF SettingsOnTheWay
    <3> QED
      BY <1>1, <2>1, <3>1 DEF StartRead, SingleInv, SettingsKnown
  <2> QED
    BY <2>3, <2>4, <2>5 DEF SingleInv
<1> QED
  BY <1>2, <1>3 DEF TorInv

LEMMA ReadFileKeeps == ASSUME TorInv, NEW c \in Callers, ReadFile(c) PROVE TorInv'
<1>1. /\ CallersShaped'
      /\ caller'[c].at = "read" /\ caller[c].at = "reading"
      /\ caller'[c].errand = caller[c].errand /\ caller'[c].want = caller[c].want
      /\ \A d \in Callers \ {c} : caller'[d] = caller[d]
  BY Goes DEF ReadFile, Go, TorInv, ShapeInv
<1>2. /\ copy' = [d \in Callers |-> copy'[d]]
      /\ \A d \in Callers : copy'[d] = IF d = c THEN disk ELSE copy[d]
      /\ disk' = disk /\ Shaped(disk) /\ shared' = shared /\ shared \in Callers \cup {Unset}
  BY DEF ReadFile, TorInv, ShapeInv, CopiesShaped
<1>3. ShapeInv'
  <2>1. CopiesShaped'
    <3>1. CopiesShaped
      BY DEF TorInv, ShapeInv
    <3>2. \A d \in Callers : Shaped(copy[d]) => Shaped(copy'[d])
      BY <1>2
    <3>3. Shaped(copy'[c])
      BY <1>2
    <3>4. shared' # Unset => Shaped(copy'[shared'])
      BY <1>2, <3>1, <3>2 DEF CopiesShaped
    <3>5. \A d \in Callers : caller'[d].at = "read" => Shaped(copy'[d])
      BY <1>1, <3>1, <3>2, <3>3 DEF CopiesShaped
    <3>6. \A d \in Callers : caller'[d].at = "saving" =>
             caller'[d].want.of \in Callers /\ Shaped(copy'[caller'[d].want.of])
      BY <1>1, <3>1, <3>2 DEF CopiesShaped
    <3>7. Shaped(disk')
      BY <1>2
    <3> HIDE DEF Shaped
    <3> QED
      BY <1>2, <3>4, <3>5, <3>6, <3>7 DEF CopiesShaped, Shaped
  <2> QED
    BY <1>1, <2>1 DEF ReadFile, TorInv, ShapeInv
<1>4. ASSUME ~ doubled' PROVE SingleInv'
  <2>1. SingleInv
    BY <1>4 DEF ReadFile, TorInv
  <2>2. shared = Unset /\ \A d \in Callers : Reads(d) <=> d = c
    BY <1>1, <2>1 DEF SingleInv, OneState, Reads
  <2>3. \A d \in Callers : Reads(d)' <=> d = c
    BY <1>1, <2>2 DEF Reads
  <2>4. OneState'
    BY <1>1, <1>2, <2>1, <2>2, <2>3 DEF SingleInv, OneState, Reads
  <2>5. TokenKnown'
    BY <1>1, <1>2, <2>1, <2>2, <2>3 DEF ReadFile, SingleInv, TokenKnown
  <2>6. SettingsKnown'
    <3>1. SettingsOnTheWay' <=> SettingsOnTheWay
      BY <1>1 DEF SettingsOnTheWay
    <3>2. \A d \in Callers : caller'[d].at # "saving"
      BY <1>1, <2>1, <2>2 DEF SingleInv, OneState
    <3> QED
      BY <1>1, <1>2, <2>1, <2>2, <3>1, <3>2 DEF ReadFile, SingleInv, SettingsKnown
  <2> QED
    BY <2>4, <2>5, <2>6 DEF SingleInv
<1> QED
  BY <1>3, <1>4 DEF TorInv

-----------------------------------------------------------------------------
(* From the state to its save: the holder's copy changes and is shared. *)

\* Who goes on without a save shares the copy it read, or goes on with the shared one.
LEMMA HolderIsHeld ==
    ASSUME TorInv, NEW c \in Callers, HasState(c) \/ (caller[c].at = "turning" /\ shared # Unset)
    PROVE  Holder(c) \in Callers /\ Shaped(copy[Holder(c)])
<1>1. CopiesShaped /\ shared \in Callers \cup {Unset}
  BY DEF TorInv, ShapeInv
<1> QED
  BY <1>1 DEF HasState, Holder, CopiesShaped

\* What the caller works on is the one state.
LEMMA HolderIsState ==
    ASSUME TorInv, ~ doubled, NEW c \in Callers,
           HasState(c) \/ (caller[c].at = "turning" /\ shared # Unset)
    PROVE  /\ shared # Unset => Holder(c) = shared
           /\ shared = Unset => caller[c].at = "read" /\ Holder(c) = c /\ copy[c] = disk
           /\ \A d \in Callers \ {c} : ~ Reads(d)
           /\ shared = Unset => \A d \in Callers : caller[d].at # "saving"
<1>1. OneState
  BY DEF TorInv, SingleInv
<1>2. CASE caller[c].at = "read"
  BY <1>1, <1>2 DEF OneState, Reads, Holder
<1>3. CASE caller[c].at # "read"
  BY <1>1, <1>3 DEF OneState, Reads, Holder, HasState
<1> QED
  BY <1>2, <1>3

\* The caller is done with it and changes nothing.
LEMMA LooksKeep ==
    ASSUME TorInv, NEW c \in Callers, HasState(c), caller[c].errand # "settings",
           caller[c].errand # "identity",
           Remember(c), caller' = [caller EXCEPT ![c] = Free],
           UNCHANGED <<disk, copy, clock, turned, promised>>
    PROVE  TorInv'
<1>1. /\ CallersShaped' /\ caller'[c] = Free /\ Free.at = "idle" /\ Free.errand = Unset
      /\ \A d \in Callers \ {c} : caller'[d] = caller[d]
  <2>1. CallersShaped /\ Free = [at |-> Free.at, errand |-> Free.errand, want |-> Free.want]
    BY DEF TorInv, ShapeInv, Free
  <2> QED
    BY <2>1, Becomes DEF Free
<1>2. shared' = Holder(c) /\ Holder(c) \in Callers /\ Shaped(copy[Holder(c)]) /\ Holder(c) # Unset
  BY HolderIsHeld, UnsetAssumption DEF Remember
<1>3. ShapeInv'
  <2>1. CopiesShaped'
    <3>1. CopiesShaped
      BY DEF TorInv, ShapeInv
    <3>2. \A d \in Callers : caller'[d].at = "read" => Shaped(copy[d])
      BY <1>1, <3>1 DEF CopiesShaped
    <3>3. \A d \in Callers : caller'[d].at = "saving" =>
             caller'[d].want.of \in Callers /\ Shaped(copy[caller'[d].want.of])
      BY <1>1, <3>1 DEF CopiesShaped
    <3>4. copy' = copy /\ disk' = disk /\ shared' = Holder(c) /\ Shaped(copy[Holder(c)])
      BY <1>2
    <3>5. Shaped(disk') /\ Shaped(copy'[shared'])
      BY <3>1, <3>4 DEF CopiesShaped
    <3> QED
      BY <3>1, <3>2, <3>3, <3>4, <3>5 DEF CopiesShaped
  <2> QED
    BY <1>1, <1>2, <2>1 DEF TorInv, ShapeInv
<1>4. ASSUME ~ doubled' PROVE SingleInv'
  <2>1. ~ doubled /\ SingleInv
    BY <1>4 DEF Remember, TorInv
  <2>2. /\ shared # Unset => Holder(c) = shared
        /\ shared = Unset => caller[c].at = "read" /\ Holder(c) = c /\ copy[c] = disk
        /\ \A d \in Callers \ {c} : ~ Reads(d)
        /\ shared = Unset => \A d \in Callers : caller[d].at # "saving"
    BY <2>1, HolderIsState
  <2>3. \A d \in Callers : ~ Reads(d)'
    BY <1>1, <2>2 DEF Reads
  <2>4. OneState'
    BY <1>1, <1>2, <2>1, <2>2, <2>3 DEF SingleInv, OneState, Reads
  <2>5. TokenKnown'
    <3>1. shared = Unset => turned = Unset
      BY <2>1, <2>2 DEF SingleInv, TokenKnown, Reads
    <3> QED
      BY <1>2, <2>1, <2>2, <3>1 DEF SingleInv, TokenKnown
  <2>6. SettingsKnown'
    <3>1. SettingsOnTheWay' <=> SettingsOnTheWay
      BY <1>1, UnsetAssumption DEF SettingsOnTheWay, Errands
    <3>2. \A d \in Callers : caller'[d].errand = "settings" => d # c /\ caller'[d] = caller[d]
      BY <1>1, UnsetAssumption DEF Errands
    <3> QED
      BY <1>2, <2>1, <2>2, <3>1, <3>2 DEF SingleInv, SettingsKnown
  <2> QED
    BY <2>4, <2>5, <2>6 DEF SingleInv
<1> QED
  BY <1>3, <1>4 DEF TorInv

\* A save begins: the copy knows when the token turned and what settings it is for.
LEMMA SavingKeeps ==
    ASSUME TorInv, NEW c \in Callers, NEW state, Shaped(state),
           HasState(c) \/ (caller[c].at = "turning" /\ shared # Unset),
           Remember(c), Saving(c, state),
           turned' # Unset => turned'.at \in Nat,
           ~ doubled => (turned' # Unset => state.last = turned'.at),
           state.settings = IF caller[c].errand = "settings" THEN caller[c].want
                            ELSE copy[Holder(c)].settings
    PROVE  TorInv'
<1> DEFINE r == [at |-> "saving", errand |-> caller[c].errand,
                 want |-> [of |-> Holder(c), settings |-> caller[c].want]]
<1>1. /\ CallersShaped' /\ caller'[c] = r
      /\ \A d \in Callers \ {c} : caller'[d] = caller[d]
  <2>1. CallersShaped /\ r = [at |-> r.at, errand |-> r.errand, want |-> r.want]
    BY DEF TorInv, ShapeInv
  <2>2. caller' = [caller EXCEPT ![c] = r]
    BY <2>1 DEF Saving, CallersShaped
  <2> HIDE DEF r
  <2> QED
    BY <2>1, <2>2, Becomes
<1>2. r.at = "saving" /\ r.errand = caller[c].errand /\ r.want.of = Holder(c) /\ r.want.settings = caller[c].want
  OBVIOUS
<1> HIDE DEF r
<1>3. shared' = Holder(c) /\ Holder(c) \in Callers /\ Holder(c) # Unset
  BY HolderIsHeld, UnsetAssumption DEF Remember
<1>4. /\ copy' = [d \in Callers |-> copy'[d]]
      /\ \A d \in Callers : copy'[d] = IF d = Holder(c) THEN state ELSE copy[d]
      /\ disk' = disk /\ clock' = clock /\ promised' = promised /\ doubled' = doubled
  <2>1. copy = [d \in Callers |-> copy[d]] /\ copy' = [copy EXCEPT ![Holder(c)] = state]
    BY DEF Saving, TorInv, ShapeInv, CopiesShaped
  <2> QED
    BY <2>1, <1>3 DEF Saving, Remember
<1>5. ShapeInv'
  <2>1. CopiesShaped
    BY DEF TorInv, ShapeInv
  <2>2. \A d \in Callers : Shaped(copy[d]) => Shaped(copy'[d])
    BY <1>4
  <2>3. Shaped(copy'[Holder(c)])
    BY <1>3, <1>4
  <2>4. \A d \in Callers : caller'[d].at = "read" => Shaped(copy'[d])
    BY <1>1, <1>2, <2>1, <2>2 DEF CopiesShaped
  <2>5. \A d \in Callers : caller'[d].at = "saving" =>
            caller'[d].want.of \in Callers /\ Shaped(copy'[caller'[d].want.of])
    BY <1>1, <1>2, <1>3, <2>1, <2>2, <2>3 DEF CopiesShaped
  <2>6. CopiesShaped'
    BY <1>3, <1>4, <2>1, <2>3, <2>4, <2>5 DEF CopiesShaped, Shaped
  <2> QED
    BY <1>1, <1>2, <1>3, <1>4, <2>6 DEF TorInv, ShapeInv
<1>6. ASSUME ~ doubled' PROVE SingleInv'
  <2>1. ~ doubled /\ SingleInv
    BY <1>4, <1>6 DEF TorInv
  <2>2. /\ shared # Unset => Holder(c) = shared
        /\ shared = Unset => caller[c].at = "read" /\ Holder(c) = c /\ copy[c] = disk
        /\ \A d \in Callers \ {c} : ~ Reads(d)
        /\ shared = Unset => \A d \in Callers : caller[d].at # "saving"
    BY <2>1, HolderIsState
  <2>3. \A d \in Callers : ~ Reads(d)'
    BY <1>1, <1>2, <2>2 DEF Reads
  <2>4. OneState'
    BY <1>1, <1>2, <1>3, <2>1, <2>2, <2>3 DEF SingleInv, OneState, Reads
  <2>5. TokenKnown'
    BY <1>3, <1>4, <2>1 DEF TokenKnown
  <2>6. SettingsKnown'
    <3>1. \A d \in Callers : caller'[d].errand = caller[d].errand
      BY <1>1, <1>2
    <3>2. SettingsOnTheWay' <=> SettingsOnTheWay
      BY <3>1 DEF SettingsOnTheWay
    <3>3. copy'[shared'] = state
      BY <1>3, <1>4
    <3>4. ASSUME NEW d \in Callers, caller'[d].errand = "settings", caller'[d].at = "saving"
          PROVE  copy'[shared'].settings = caller'[d].want.settings
      <4>1. CASE d = c
        BY <1>1, <1>2, <3>1, <3>3, <3>4, <4>1
      <4>2. CASE d # c
        <5>1. caller[c].errand # "settings"
          BY <2>1, <3>1, <3>4, <4>2 DEF SingleInv, SettingsKnown
        <5>2. caller'[d] = caller[d] /\ shared # Unset /\ Holder(c) = shared
          BY <1>1, <2>2, <3>4, <4>2
        <5> QED
          BY <2>1, <3>3, <3>4, <5>1, <5>2 DEF SingleInv, SettingsKnown
      <4> QED
        BY <4>1, <4>2
    <3>5. ASSUME promised' # Unset, ~ SettingsOnTheWay'
          PROVE  disk'.settings = promised' /\ copy'[shared'].settings = promised'
      <4>1. caller[c].errand # "settings"
        BY <3>2, <3>5 DEF SettingsOnTheWay
      <4>2. state.settings = copy[Holder(c)].settings
        BY <4>1
      <4> QED
        BY <1>4, <2>1, <2>2, <3>2, <3>3, <3>5, <4>2 DEF SingleInv, SettingsKnown
    <3> QED
      BY <2>1, <3>1, <3>4, <3>5 DEF SingleInv, SettingsKnown
  <2> QED
    BY <2>4, <2>5, <2>6 DEF SingleInv
<1> QED
  BY <1>5, <1>6 DEF TorInv

-----------------------------------------------------------------------------
(* The errands. *)

\* A reader with another errand than a new identity reads what no token turned since.
LEMMA TurnIsKnown ==
    ASSUME TorInv, ~ doubled, NEW c \in Callers, HasState(c), turned # Unset
    PROVE  IF caller[c].at = "read"
           THEN caller[c].errand = "identity" /\ caller[c].want = turned.at
           ELSE Holder(c) = shared /\ copy[shared].last = turned.at
<1>1. OneState /\ TokenKnown
  BY DEF TorInv, SingleInv
<1> QED
  BY <1>1 DEF OneState, TokenKnown, HasState, Holder, Reads

LEMMA RotateKeeps == ASSUME TorInv, NEW c \in Callers, Rotate(c) PROVE TorInv'
<1> DEFINE state == [copy[Holder(c)] EXCEPT !.last = clock]
<1>1. Shaped(copy[Holder(c)])
  BY HolderIsHeld DEF Rotate
<1>2. Shaped(state) /\ state.last = clock /\ state.settings = copy[Holder(c)].settings
  BY <1>1 DEF Shaped
<1>3. turned'.at = clock /\ clock \in Nat
  BY DEF Rotate, Turn, TorInv, ShapeInv
<1>4. HasState(c) /\ Remember(c) /\ Saving(c, state) /\ caller[c].errand # "settings"
  BY DEF Rotate
<1> HIDE DEF state
<1> QED
  BY <1>2, <1>3, <1>4, SavingKeeps

LEMMA SaveIdentityKeeps == ASSUME TorInv, NEW c \in Callers, SaveIdentity(c) PROVE TorInv'
<1> DEFINE state == [copy[c] EXCEPT !.last = caller[c].want]
<1>1. HasState(c) /\ Holder(c) = c
  BY DEF SaveIdentity, HasState, Holder
<1>2. Shaped(copy[c])
  BY <1>1, HolderIsHeld
<1>3. Shaped(state) /\ state.last = caller[c].want /\ state.settings = copy[Holder(c)].settings
  BY <1>1, <1>2 DEF Shaped
<1>4. turned' = turned /\ (turned # Unset => turned.at \in Nat)
  BY DEF SaveIdentity, TorInv, ShapeInv
<1>5. ~ doubled => (turned' # Unset => state.last = turned'.at)
  BY <1>1, <1>3, <1>4, TurnIsKnown DEF SaveIdentity
<1>6. Remember(c) /\ Saving(c, state) /\ caller[c].errand # "settings"
  BY DEF SaveIdentity
<1> HIDE DEF state
<1> QED
  BY <1>1, <1>3, <1>4, <1>5, <1>6, SavingKeeps

LEMMA SaveSettingsKeeps == ASSUME TorInv, NEW c \in Callers, SaveSettings(c) PROVE TorInv'
<1> DEFINE state == [copy[Holder(c)] EXCEPT !.settings = caller[c].want]
<1>1. Shaped(copy[Holder(c)])
  BY HolderIsHeld DEF SaveSettings
<1>2. Shaped(state) /\ state.last = copy[Holder(c)].last /\ state.settings = caller[c].want
  BY <1>1 DEF Shaped
<1>3. turned' = turned /\ (turned # Unset => turned.at \in Nat)
  BY DEF SaveSettings, TorInv, ShapeInv
<1>4. HasState(c) /\ Remember(c) /\ Saving(c, state) /\ caller[c].errand = "settings"
  BY DEF SaveSettings
<1>5. ~ doubled => (turned' # Unset => state.last = turned'.at)
  BY <1>2, <1>3, <1>4, TurnIsKnown
<1> HIDE DEF state
<1> QED
  BY <1>2, <1>3, <1>4, <1>5, SavingKeeps

LEMMA SaveHealthKeeps == ASSUME TorInv, NEW c \in Callers, SaveHealth(c) PROVE TorInv'
<1>1. Shaped(copy[Holder(c)])
  BY HolderIsHeld DEF SaveHealth
<1>2. turned' = turned /\ (turned # Unset => turned.at \in Nat)
  BY DEF SaveHealth, TorInv, ShapeInv
<1>3. HasState(c) /\ Remember(c) /\ Saving(c, copy[Holder(c)]) /\ caller[c].errand = "health"
  BY DEF SaveHealth
<1>4. ~ doubled => (turned' # Unset => copy[Holder(c)].last = turned'.at)
  BY <1>2, <1>3, TurnIsKnown
<1> QED
  BY <1>1, <1>2, <1>3, <1>4, SavingKeeps

\* A new identity, with the state at hand or still to be read.
LEMMA NewIdentityKeeps == ASSUME TorInv, NEW c \in Callers, NewIdentity(c) PROVE TorInv'
<1>1. turned'.at = clock /\ clock \in Nat /\ caller[c].at = "turning"
  BY DEF NewIdentity, Turn, TorInv, ShapeInv
<1>2. CASE shared # Unset
  <2> DEFINE state == [copy[shared] EXCEPT !.last = clock]
  <2>1. Holder(c) = shared
    BY <1>1 DEF Holder
  <2>2. Shaped(copy[shared])
    BY <1>1, <1>2, <2>1, HolderIsHeld
  <2>3. Shaped(state) /\ state.last = clock /\ state.settings = copy[Holder(c)].settings
    BY <2>1, <2>2 DEF Shaped
  <2>4. Remember(c) /\ Saving(c, state)
    BY <1>2 DEF NewIdentity
  <2>5. caller[c].errand # "settings"
    BY <1>1 DEF TorInv, ShapeInv
  <2> HIDE DEF state
  <2> QED
    BY <1>1, <1>2, <2>3, <2>4, <2>5, SavingKeeps
<1>3. CASE shared = Unset
  <2> DEFINE r == [at |-> "reading", errand |-> caller[c].errand, want |-> clock]
  <2>1. /\ CallersShaped' /\ caller'[c] = r
        /\ \A d \in Callers \ {c} : caller'[d] = caller[d]
    <3>1. CallersShaped /\ r = [at |-> r.at, errand |-> r.errand, want |-> r.want]
      BY DEF TorInv, ShapeInv
    <3>2. caller' = [[caller EXCEPT ![c].at = "reading"] EXCEPT ![c].want = clock]
      BY <1>3 DEF NewIdentity
    <3>3. caller' = [caller EXCEPT ![c] = r]
      <4> DEFINE y == caller[c]
      <4>1. y = [at |-> y.at, errand |-> y.errand, want |-> y.want]
            /\ caller = [b \in Callers |-> caller[b]]
        BY <3>1 DEF CallersShaped
      <4>2. caller' = [caller EXCEPT ![c] = [[y EXCEPT !.at = "reading"] EXCEPT !.want = clock]]
        BY <3>2, <4>1
      <4>3. [[y EXCEPT !.at = "reading"] EXCEPT !.want = clock] = r
        <5> DEFINE n == y.at
                   m == y.errand
                   o == y.want
        <5>1. y = [at |-> n, errand |-> m, want |-> o] /\ r = [at |-> "reading", errand |-> m, want |-> clock]
          BY <4>1
        <5> HIDE DEF y, r, n, m, o
        <5>2. [y EXCEPT !.at = "reading"] = [at |-> "reading", errand |-> m, want |-> o]
          BY <5>1
        <5>3. [[at |-> "reading", errand |-> m, want |-> o] EXCEPT !.want = clock]
              = [at |-> "reading", errand |-> m, want |-> clock]
          OBVIOUS
        <5> QED
          BY <5>1, <5>2, <5>3
      <4> HIDE DEF r, y
      <4> QED
        BY <4>2, <4>3
    <3> HIDE DEF r
    <3> QED
      BY <3>1, <3>3, Becomes
  <2>2. r.at = "reading" /\ r.errand = "identity" /\ r.want = turned'.at
    BY <1>1 DEF TorInv, ShapeInv
  <2> HIDE DEF r
  <2>3. UNCHANGED <<disk, shared, copy, clock, promised>> /\ doubled' = (doubled \/ Reading)
    BY <1>3 DEF NewIdentity
  <2>4. ShapeInv'
    <3>1. CopiesShaped'
      BY <2>1, <2>2, <2>3 DEF TorInv, ShapeInv, CopiesShaped, Shaped
    <3> QED
      BY <1>1, <2>1, <2>2, <2>3, <3>1 DEF TorInv, ShapeInv
  <2>5. ASSUME ~ doubled' PROVE SingleInv'
    <3>1. SingleInv /\ \A d \in Callers : ~ Reads(d)
      BY <2>3, <2>5 DEF TorInv, Reading, Reads
    <3>2. \A d \in Callers : Reads(d)' <=> d = c
      BY <2>1, <2>2, <3>1 DEF Reads
    <3>3. OneState'
      BY <1>3, <2>1, <2>2, <2>3, <3>1, <3>2 DEF SingleInv, OneState
    <3>4. TokenKnown'
      BY <1>3, <2>1, <2>2, <2>3, <3>2 DEF TokenKnown
    <3>5. SettingsKnown'
      <4>1. \A d \in Callers : caller'[d].errand = caller[d].errand
        BY <1>1, <2>1, <2>2 DEF TorInv, ShapeInv
      <4>2. SettingsOnTheWay' <=> SettingsOnTheWay
        BY <4>1 DEF SettingsOnTheWay
      <4> QED
        BY <2>1, <2>2, <2>3, <3>1, <4>1, <4>2 DEF SingleInv, SettingsKnown
    <3> QED
      BY <3>3, <3>4, <3>5 DEF SingleInv
  <2> QED
    BY <2>4, <2>5 DEF TorInv
<1> QED
  BY <1>2, <1>3

\* The save ends: the state is on disk, and the settings are promised.
LEMMA SaveEndsKeeps == ASSUME TorInv, NEW c \in Callers, SaveEnds(c) PROVE TorInv'
<1> DEFINE of == caller[c].want.of
<1>1. PICK r \in {Free, [at |-> "waiting", errand |-> "rotate", want |-> Unset]} :
          caller' = [caller EXCEPT ![c] = r]
  BY DEF SaveEnds
<1>2. /\ CallersShaped' /\ caller'[c] = r
      /\ \A d \in Callers \ {c} : caller'[d] = caller[d]
  <2>1. CallersShaped /\ r = [at |-> r.at, errand |-> r.errand, want |-> r.want]
    BY DEF TorInv, ShapeInv, Free
  <2> QED
    BY <1>1, <2>1, Becomes
<1>3. r.at \in {"idle", "waiting"} /\ r.errand # "settings"
  BY UnsetAssumption DEF Free, Errands
<1>4. /\ caller[c].at = "saving" /\ disk' = copy[of]
      /\ promised' = IF caller[c].errand = "settings" THEN caller[c].want.settings ELSE promised
      /\ UNCHANGED <<shared, copy, clock, turned, doubled>>
  BY DEF SaveEnds
<1>5. ShapeInv'
  <2>1. CopiesShaped /\ of \in Callers /\ Shaped(copy[of])
    BY <1>4 DEF TorInv, ShapeInv, CopiesShaped
  <2>2. CopiesShaped'
    <3>1. \A d \in Callers : caller'[d].at = "read" => Shaped(copy[d])
      BY <1>2, <1>3, <2>1 DEF CopiesShaped
    <3>2. \A d \in Callers : caller'[d].at = "saving" =>
             caller'[d].want.of \in Callers /\ Shaped(copy[caller'[d].want.of])
      BY <1>2, <1>3, <2>1 DEF CopiesShaped
    <3> QED
      BY <1>4, <2>1, <3>1, <3>2 DEF CopiesShaped, Shaped
  <2> QED
    BY <1>2, <1>3, <1>4, <2>2 DEF TorInv, ShapeInv
<1>6. ASSUME ~ doubled' PROVE SingleInv'
  <2>1. SingleInv
    BY <1>4, <1>6 DEF TorInv
  <2>2. shared # Unset /\ of = shared /\ \A d \in Callers : ~ Reads(d)
    BY <1>4, <2>1 DEF SingleInv, OneState
  <2>3. \A d \in Callers : ~ Reads(d)'
    BY <1>2, <1>3, <2>2 DEF Reads
  <2>4. OneState'
    BY <1>2, <1>3, <1>4, <2>1, <2>2, <2>3 DEF SingleInv, OneState, Reads
  <2>5. TokenKnown'
    BY <1>4, <2>1, <2>2 DEF SingleInv, TokenKnown
  <2>6. SettingsKnown'
    <3>1. \A d \in Callers : caller'[d].errand = "settings" => d # c /\ caller'[d] = caller[d]
      BY <1>2, <1>3
    <3>2. ASSUME promised' # Unset, ~ SettingsOnTheWay'
          PROVE  copy[shared].settings = promised'
      <4>1. CASE caller[c].errand = "settings"
        BY <1>4, <2>1, <4>1 DEF SingleInv, SettingsKnown
      <4>2. CASE caller[c].errand # "settings"
        <5>1. ~ SettingsOnTheWay
          BY <1>2, <3>2, <4>2 DEF SettingsOnTheWay
        <5> QED
          BY <1>4, <2>1, <2>2, <3>2, <4>2, <5>1 DEF SingleInv, SettingsKnown
      <4> QED
        BY <4>1, <4>2
    <3> QED
      BY <1>4, <2>1, <2>2, <3>1, <3>2 DEF SingleInv, SettingsKnown
  <2> QED
    BY <2>4, <2>5, <2>6 DEF SingleInv
<1> QED
  BY <1>5, <1>6 DEF TorInv

\* A stop forgets everything but the file and, if it can be kept, the promise.
LEMMA CrashKeeps == ASSUME TorInv, Crash PROVE TorInv'
<1>1. /\ shared' = Unset /\ turned' = Unset /\ disk' = disk /\ clock' = clock
      /\ copy' = [c \in Callers |-> Unset] /\ caller' = [c \in Callers |-> Free]
      /\ promised' = IF SettingsOnTheWay \/ doubled THEN Unset ELSE promised
  BY DEF Crash
<1>2. \A c \in Callers : caller'[c].at = "idle" /\ caller'[c].errand # "settings"
  BY <1>1, UnsetAssumption DEF Free, Errands
<1>3. ShapeInv'
  BY <1>1, <1>2 DEF TorInv, ShapeInv, CallersShaped, CopiesShaped, Shaped, Free
<1>4. SingleInv'
  <2>1. OneState' /\ TokenKnown'
    BY <1>1, <1>2 DEF OneState, TokenKnown, Reads
  <2>2. promised' # Unset => disk'.settings = promised'
    BY <1>1 DEF TorInv, SingleInv, SettingsKnown
  <2>3. SettingsKnown'
    BY <1>1, <1>2, <2>2 DEF SettingsKnown
  <2> QED
    BY <2>1, <2>3 DEF SingleInv
<1> QED
  BY <1>3, <1>4 DEF TorInv

LEMMA ClockKeeps == ASSUME TorInv, ClockTicks \/ UNCHANGED torVars PROVE TorInv'
<1>1. UNCHANGED <<disk, shared, copy, caller, turned, promised, doubled>> /\ clock' \in Nat
  BY DEF ClockTicks, torVars, TorInv, ShapeInv
<1>2. ShapeInv'
  BY <1>1 DEF TorInv, ShapeInv, CallersShaped, CopiesShaped, Shaped
<1>3. ~ doubled => SingleInv'
  BY <1>1 DEF TorInv, SingleInv, OneState, TokenKnown, SettingsKnown, SettingsOnTheWay, Reads
<1> QED
  BY <1>1, <1>2, <1>3 DEF TorInv

-----------------------------------------------------------------------------
LEMMA TorStays == TorInv /\ [TorNext]_torVars => TorInv'
<1> SUFFICES ASSUME TorInv, [TorNext]_torVars PROVE TorInv'
  OBVIOUS
<1>1. ASSUME NEW c \in Callers, AskRotation(c) \/ AskIdentity(c) \/ AskHealth(c) PROVE TorInv'
  BY <1>1, CallKeeps DEF AskRotation, AskIdentity, AskHealth, Errands
<1>2. ASSUME NEW c \in Callers, PostSettings(c) PROVE TorInv'
  BY <1>2, CallKeeps DEF PostSettings, Errands
<1>3. ASSUME NEW c \in Callers, TakeLock(c) \/ StartRead(c) \/ ReadFile(c) PROVE TorInv'
  BY <1>3, TakeLockKeeps, StartReadKeeps, ReadFileKeeps
<1>4. ASSUME NEW c \in Callers, Rotate(c) \/ SaveIdentity(c) \/ SaveSettings(c) \/ SaveHealth(c) PROVE TorInv'
  BY <1>4, RotateKeeps, SaveIdentityKeeps, SaveSettingsKeeps, SaveHealthKeeps
<1>5. ASSUME NEW c \in Callers, NewIdentity(c) \/ SaveEnds(c) PROVE TorInv'
  BY <1>5, NewIdentityKeeps, SaveEndsKeeps
<1>6. ASSUME NEW c \in Callers, NotDue(c) PROVE TorInv'
  BY <1>6, LooksKeep DEF NotDue
<1>7. ASSUME NEW c \in Callers, LookAtHealth(c) PROVE TorInv'
  BY <1>7, LooksKeep DEF LookAtHealth
<1>8. CASE Crash
  BY <1>8, CrashKeeps
<1>9. CASE ClockTicks \/ UNCHANGED torVars
  BY <1>9, ClockKeeps
<1> QED
  BY <1>1, <1>2, <1>3, <1>4, <1>5, <1>6, <1>7, <1>8, <1>9 DEF TorNext

\* An automatic rotation that is due by the one state keeps its distance.
LEMMA DueIsSpaced == ASSUME TorInv, ~ doubled, NEW c \in Callers PROVE Spaced(c)
<1> SUFFICES ASSUME Rotate(c), turned # Unset
             PROVE  clock - turned.at >= copy[Holder(c)].settings.interval
  BY DEF Spaced
<1>1. Holder(c) = shared /\ copy[shared].last = turned.at
  BY TurnIsKnown DEF Rotate
<1>2. turned.at # Unset
  BY UnsetAssumption DEF TorInv, ShapeInv
<1> QED
  BY <1>1, <1>2 DEF Rotate, Due

(* However many callers, whatever the intervals and wherever a stop falls: *)
(* as long as the state is not read twice at once, an automatic rotation   *)
(* comes no sooner after any change of the token than its interval, and    *)
(* settings answered as saved are on disk and in force.                    *)
THEOREM RotationsAreRight == TorSpec => RotationsRight
<1>1. TorInv => SettingsStay
  BY DEF TorInv, SingleInv, SettingsKnown, SettingsStay
<1>2. TorInv /\ [TorNext]_torVars => [\A c \in Callers : ~ doubled => Spaced(c)]_torVars
  BY DueIsSpaced
<1> QED
  BY <1>1, <1>2, TorStarts, TorStays, PTL DEF TorSpec, RotationsRight, RotationsSpaced

-----------------------------------------------------------------------------
(* LivePrice, for any sources, intervals and currencies. What carries the  *)
(* proof is how long a source waits from one attempt to the next           *)
(* (NextInTime): in every cycle if its interval is the shortest, else its  *)
(* interval, what was left of a cycle, and a pause. Its answer is as old   *)
(* as the attempts since allow (AnswerInTime). Every other source's        *)
(* requests delay it, so a failure is hidden only when the grace covers    *)
(* them (GraceIsEnough).                                                   *)

\* The longest from one attempt of a source to the next.
Gap(s) == (IF Interval(s) = Cycle THEN 0 ELSE Interval(s) - 1) + Cycle + Cardinality(AllRequests)
\* An answer stays fresh through one failed attempt, until the next attempt.
GraceIsEnough == \A s \in Index :
    Gap(s) + (IF Interval(s) = Cycle THEN 0 ELSE Interval(s) - 1) <= MaxAge(s)
\* The consensus is sound whatever the providers may quote.
MarketIsSound == PublicPrices \subseteq {TRUE}

LEMMA LesserOf ==
  ASSUME NEW a \in Int, NEW b \in Int
  PROVE  Min({a, b}) \in {a, b} /\ Min({a, b}) <= a /\ Min({a, b}) <= b
  BY DEF Min

LEMMA GreaterOf ==
  ASSUME NEW a \in Int, NEW b \in Int
  PROVE  Max({a, b}) \in {a, b} /\ Max({a, b}) >= a /\ Max({a, b}) >= b
  BY DEF Max

LEMMA IndexIsNat == Index \in SUBSET Nat /\ IsFiniteSet(Index)
<1>1. Index = 1 .. Len(Sources) /\ Len(Sources) \in Nat
  <2> DEFINE S == [kind : {"entity", "mempool", "market"}, own : BOOLEAN]
  <2>1. Sources \in Seq(S)
    BY LiveAssumption
  <2> HIDE DEF S
  <2> QED
    BY <2>1, LenProperties DEF Index
<1>2. IsFiniteSet(1 .. Len(Sources))
  BY <1>1, FS_Interval
<1> QED
  BY <1>1, <1>2

\* No source's answer is fresh for longer.
Bound == Grace + 3 * (LocalInterval + PublicInterval)
LEMMA IntervalsAreNat ==
  ASSUME NEW s \in Index
  PROVE  /\ Interval(s) \in Nat \ {0} /\ MaxAge(s) \in Nat
         /\ MaxAge(s) >= 3 * Interval(s) /\ MaxAge(s) <= Bound
<1>1. /\ Interval(s) \in Nat \ {0} /\ Grace \in Nat
      /\ Interval(s) <= LocalInterval + PublicInterval
      /\ LocalInterval \in Nat /\ PublicInterval \in Nat
  BY LiveAssumption DEF Interval
<1>2. /\ Max({Grace, 3 * Interval(s)}) \in {Grace, 3 * Interval(s)}
      /\ Max({Grace, 3 * Interval(s)}) >= 3 * Interval(s)
  <2> DEFINE i == 3 * Interval(s)
  <2>1. Grace \in Int /\ i \in Int
    BY <1>1
  <2> HIDE DEF i
  <2>2. Max({Grace, i}) \in {Grace, i} /\ Max({Grace, i}) >= i
    BY <2>1, GreaterOf
  <2> QED
    BY <2>2 DEF i
<1>3. MaxAge(s) = Max({Grace, 3 * Interval(s)})
  BY DEF MaxAge
<1> QED
  BY <1>1, <1>2, <1>3 DEF Bound

LEMMA CycleIsLeast == Cycle \in Nat \ {0} /\ \A s \in Index : Cycle <= Interval(s)
<1> DEFINE S == {Interval(s) : s \in Index} \cup {LocalInterval}
<1>1. S \in SUBSET (Nat \ {0}) /\ S # {}
  BY LiveAssumption, IntervalsAreNat
<1>2. Min(S) \in S /\ \A y \in S : Min(S) <= y
  <2> HIDE DEF S
  <2> QED
    BY <1>1, LeastOf
<1>3. Cycle = Min(S)
  BY DEF Cycle
<1> QED
  BY <1>1, <1>2, <1>3

LEMMA RequestsAreFinite == IsFiniteSet(AllRequests) /\ Cardinality(AllRequests) \in Nat
<1>1. Cardinality(Currencies) \in Nat
  BY LiveAssumption, FS_CardinalityType
<1> DEFINE N == Cardinality(Currencies) + 1
<1>2. N \in Nat
  BY <1>1
<1>3. \A s \in Index : Requests(s) \in Nat /\ Requests(s) <= N
  BY <1>1 DEF Requests
<1>4. AllRequests \in SUBSET (Index \X (1 .. N))
  <2> HIDE DEF N
  <2> QED
    BY <1>2, <1>3 DEF AllRequests
<1>5. IsFiniteSet(1 .. N)
  BY <1>2, FS_Interval
<1>6. IsFiniteSet(Index \X (1 .. N))
  BY <1>5, IndexIsNat, FS_Product
<1>7. IsFiniteSet(AllRequests)
  BY <1>4, <1>6, FS_Subset
<1> QED
  BY <1>7, FS_CardinalityType

LEMMA OldestIsNat ==
  ASSUME Index # {}
  PROVE  Oldest + Longest \in Nat /\ Oldest \in Nat
<1> DEFINE S == {MaxAge(s) : s \in Index}
<1>1. Bound \in Nat
  BY LiveAssumption DEF Bound
<1>2. S \in SUBSET (0 .. Bound) /\ S # {}
  BY <1>1, IntervalsAreNat
<1>3. Max(S) \in S
  <2> HIDE DEF S
  <2>1. 0 \in Int /\ Bound \in Int
    BY <1>1
  <2>2. IsFiniteSet(0 .. Bound)
    BY <2>1, FS_Interval
  <2>3. IsFiniteSet(S)
    BY <1>2, <2>2, FS_Subset
  <2>4. 0 .. Bound \subseteq Int
    BY <2>1
  <2>5. S \in SUBSET Int
    BY <1>2, <2>4
  <2> QED
    BY <1>2, <2>3, <2>5, GreatestOf
<1>4. Oldest \in Nat
  BY <1>1, <1>2, <1>3 DEF Oldest
<1>5. Longest \in Nat
  BY CycleIsLeast, RequestsAreFinite DEF Longest
<1> QED
  BY <1>4, <1>5

LEMMA AgedIsNat ==
  ASSUME NEW age \in Nat, NEW last \in Nat
  PROVE  Aged(age, last) \in Nat /\ Aged(age, last) <= age + 1
<1>1. Min({age + 1, last + 1}) \in {age + 1, last + 1} /\ Min({age + 1, last + 1}) <= age + 1
  <2>1. age + 1 \in Int /\ last + 1 \in Int
    OBVIOUS
  <2> QED
    BY <2>1, LesserOf
<1> QED
  BY <1>1 DEF Aged

LEMMA GapIsNat ==
  ASSUME NEW s \in Index
  PROVE  Gap(s) \in Nat
  BY IntervalsAreNat, CycleIsLeast, RequestsAreFinite DEF Gap

-----------------------------------------------------------------------------
\* While a cycle runs, and the sources it has still to ask.
InCycle == due # NoPrice
Awaits(s) == InCycle /\ s \in due
Answers == [age : Nat, has : [Currencies -> {TRUE, NoPrice}]]
Shows == [from : Index, age : Nat, sound : {TRUE}]
LiveTypes ==
    /\ cache \in [Index -> Answers]
    /\ asked \in [Index -> Nat] /\ failed \in [Index -> 0 .. 2]
    /\ due = NoPrice \/ due \in SUBSET Index
    /\ elapsed \in Nat
    /\ shown \in [Currencies -> Shows \cup {NoPrice}]

\* A cycle lasts as long as its requests at most, and a pause until the next.
Timely ==
    /\ elapsed <= (IF InCycle THEN Cardinality(AllRequests) ELSE Cycle)
    /\ InCycle => \A s \in due : asked[s] = elapsed

\* What is shown was fresh when it was chosen.
ShownInTime(c) == shown[c] # NoPrice =>
    shown[c].age <= MaxAge(shown[c].from) + Cardinality(AllRequests) + elapsed
                    + (IF InCycle THEN Cycle ELSE 0)

\* Since a source's last attempt, its answer or the one failure after it:
\* the next comes in time, and the answer is as old as the attempts allow.
NextInTime(s) ==
    /\ asked[s] >= elapsed
    /\ InCycle => \/ asked[s] = elapsed
                  \/ Interval(s) # Cycle /\ asked[s] <= elapsed + Interval(s) - 1
    /\ ~InCycle => asked[s] <= elapsed + Gap(s) - Cycle
AnswerInTime(s) ==
    /\ failed[s] = 0 => cache[s].age <= (IF Awaits(s) THEN elapsed + Gap(s) ELSE asked[s])
    /\ failed[s] = 1 /\ ~Awaits(s) => cache[s].age <= asked[s] + Gap(s)
Has(s, c) == cache[s].has[c] # NoPrice
Hidden(s, c) == ~InCycle /\ failed[s] <= 1 /\ Has(s, c) => shown[c] # NoPrice

LiveInv ==
    /\ LiveTypes /\ Timely
    /\ \A c \in Currencies : ShownInTime(c)
    /\ \A s \in Index : failed[s] <= 1 => NextInTime(s) /\ AnswerInTime(s)
    /\ \A s \in Index, c \in Currencies : Hidden(s, c)

\* Every step keeps it.
LEMMA NoAnswerFits == Index # {} => NoAnswer \in Answers
  BY OldestIsNat DEF NoAnswer, Answers

LEMMA LiveBegins == LiveInit => LiveInv
<1> SUFFICES ASSUME LiveInit PROVE LiveInv
  OBVIOUS
<1>1. LiveTypes
  BY NoAnswerFits, CycleIsLeast DEF LiveInit, LiveTypes
<1>2. Timely /\ ~InCycle
  BY CycleIsLeast DEF LiveInit, Timely, InCycle
<1> QED
  BY <1>1, <1>2 DEF LiveInit, LiveInv, ShownInTime, Hidden, Has, NoAnswer

LEMMA ReloadKeeps == Reload => LiveInv'
<1> SUFFICES ASSUME Reload PROVE LiveInv'
  OBVIOUS
<1>1. LiveTypes'
  BY NoAnswerFits, CycleIsLeast DEF Reload, LiveTypes
<1>2. Timely' /\ ~InCycle'
  BY CycleIsLeast DEF Reload, Timely, InCycle
<1> QED
  BY <1>1, <1>2 DEF Reload, LiveInv, ShownInTime, Hidden, Has, NoAnswer

LEMMA BeginCycleKeeps ==
  ASSUME LiveInv, BeginCycle
  PROVE  LiveInv'
<1> DEFINE R == Cardinality(AllRequests)
<1>0. R \in Nat /\ Cycle \in Nat
  BY RequestsAreFinite, CycleIsLeast
<1>1. /\ due = NoPrice /\ ~InCycle /\ elapsed = Cycle
      /\ due' = {s \in Index : IsDue(s)} /\ elapsed' = 0
      /\ asked' = [s \in Index |-> IF IsDue(s) THEN 0 ELSE asked[s]]
      /\ UNCHANGED <<cache, shown, persisted, failed>>
  BY <1>0 DEF BeginCycle, LiveInv, LiveTypes, Timely, InCycle
<1>2. due' \in SUBSET Index /\ InCycle'
  BY <1>1, LiveAssumption DEF InCycle
<1>3. LiveTypes'
  BY <1>1, <1>2 DEF LiveInv, LiveTypes
<1>4. Timely'
  BY <1>0, <1>1, <1>2 DEF Timely
<1>5. ASSUME NEW c \in Currencies PROVE ShownInTime(c)'
  <2>1. ASSUME shown[c] # NoPrice PROVE shown[c].age \in Nat /\ MaxAge(shown[c].from) \in Nat
    BY <2>1, IntervalsAreNat DEF LiveInv, LiveTypes, Shows
  <2>2. ShownInTime(c)
    BY DEF LiveInv
  <2> QED
    BY <1>0, <1>1, <1>2, <2>1, <2>2 DEF ShownInTime
<1>6. ASSUME NEW s \in Index, (failed[s] <= 1)'
      PROVE  NextInTime(s)' /\ AnswerInTime(s)'
  <2>1. /\ failed[s] <= 1 /\ failed[s] \in 0 .. 2 /\ asked[s] \in Nat /\ cache[s].age \in Nat
        /\ NextInTime(s) /\ AnswerInTime(s)
    BY <1>1, <1>6 DEF LiveInv, LiveTypes, Answers
  <2>2. Interval(s) \in Nat \ {0} /\ Gap(s) \in Nat /\ Cycle <= Interval(s)
    BY IntervalsAreNat, GapIsNat, CycleIsLeast
  <2>3. CASE IsDue(s)
    <3>1. Awaits(s)' /\ ~Awaits(s) /\ asked'[s] = 0
      BY <1>1, <1>2, <2>3 DEF Awaits
    <3> QED
      BY <1>0, <1>1, <1>2, <2>1, <2>2, <3>1 DEF NextInTime, AnswerInTime
  <2>4. CASE ~IsDue(s)
    <3>1. ~Awaits(s)' /\ ~Awaits(s) /\ asked'[s] = asked[s] /\ asked[s] < Interval(s)
      BY <1>1, <1>2, <2>1, <2>2, <2>4 DEF Awaits, IsDue
    <3>2. asked[s] >= Cycle
      BY <1>1, <2>1 DEF NextInTime
    <3> QED
      BY <1>0, <1>1, <1>2, <2>1, <2>2, <3>1, <3>2 DEF NextInTime, AnswerInTime
  <2> QED
    BY <2>3, <2>4
<1> QED
  BY <1>2, <1>3, <1>4, <1>5, <1>6 DEF LiveInv, Hidden

\* Asking one source, whether it answers or fails.
LEMMA AskKeeps ==
  ASSUME MarketIsSound, LiveInv, Ask
  PROVE  LiveInv'
<1> DEFINE a == Asked
<1>1. /\ due # NoPrice /\ due # {} /\ InCycle /\ due \in SUBSET Index
      /\ due' = due \ {a} /\ (Answer(a) \/ Fail(a))
      /\ UNCHANGED <<asked, elapsed, shown>>
  BY DEF Ask, InCycle, LiveInv, LiveTypes
<1>2. a \in due /\ a \in Index
  BY <1>1, IndexIsNat, LeastOf DEF Asked
<1> HIDE DEF a
<1>3. due' \in SUBSET Index /\ InCycle'
  BY <1>1, LiveAssumption DEF InCycle
<1>4. /\ cache' \in [Index -> Answers] /\ failed' \in [Index -> 0 .. 2]
      /\ \A s \in Index \ {a} : cache'[s] = cache[s] /\ failed'[s] = failed[s]
      /\ \/ failed'[a] = 0 /\ cache'[a].age = 0
         \/ failed'[a] > failed[a] /\ cache'[a] = cache[a]
         \/ failed'[a] = 2
  <2>1. cache \in [Index -> Answers] /\ failed \in [Index -> 0 .. 2]
    BY DEF LiveInv, LiveTypes
  <2>2. CASE Answer(a)
    <3>1. PICK has \in [Currencies -> Prices(a) \cup {NoPrice}] : Answered(a, has)
      BY <2>2 DEF Answer
    <3>2. has \in [Currencies -> {TRUE, NoPrice}]
      BY MarketIsSound, <3>1 DEF Prices, MarketIsSound
    <3>3. [age |-> 0, has |-> has] \in Answers
      BY <3>2 DEF Answers
    <3> QED
      BY <1>2, <2>1, <3>1, <3>3 DEF Answered
  <2>3. CASE Fail(a)
    <3>1. Min({failed[a] + 1, 2}) \in {failed[a] + 1, 2} /\ Min({failed[a] + 1, 2}) <= 2
      BY <1>2, <2>1, LesserOf
    <3> DEFINE n == Min({failed[a] + 1, 2})
    <3>2. n \in 0 .. 2 /\ (n > failed[a] \/ n = 2)
      BY <1>2, <2>1, <3>1
    <3>3. failed' = [failed EXCEPT ![a] = n] /\ cache' = cache
      BY <2>3 DEF Fail
    <3> HIDE DEF n
    <3> QED
      BY <1>2, <2>1, <3>2, <3>3
  <2> QED
    BY <1>1, <2>2, <2>3
<1>5. LiveTypes'
  BY <1>1, <1>3, <1>4 DEF LiveInv, LiveTypes
<1>6. Timely'
  BY <1>1, <1>3 DEF LiveInv, Timely
<1>7. ASSUME NEW c \in Currencies PROVE ShownInTime(c)'
  BY <1>1, <1>3 DEF LiveInv, ShownInTime
<1>8. ASSUME NEW s \in Index, (failed[s] <= 1)'
      PROVE  NextInTime(s)' /\ AnswerInTime(s)'
  <2>1. /\ failed[s] \in 0 .. 2 /\ failed'[s] \in 0 .. 2 /\ asked[s] \in Nat
        /\ cache[s].age \in Nat /\ elapsed \in Nat /\ Gap(s) \in Nat /\ Interval(s) \in Nat
    BY <1>4, GapIsNat, IntervalsAreNat DEF LiveInv, LiveTypes, Answers
  <2>2. failed[s] <= 1 => NextInTime(s) /\ AnswerInTime(s)
    BY DEF LiveInv
  <2>3. CASE s # a
    <3>1. Awaits(s)' = Awaits(s)
      BY <1>1, <1>3, <2>3 DEF Awaits
    <3> QED
      BY <1>1, <1>3, <1>4, <1>8, <2>1, <2>2, <2>3, <3>1 DEF NextInTime, AnswerInTime
  <2>4. CASE s = a
    <3>1. ~Awaits(s)' /\ Awaits(s) /\ asked[s] = elapsed
      BY <1>1, <1>2, <2>4 DEF Awaits, LiveInv, Timely
    <3>2. NextInTime(s)'
      BY <1>1, <1>3, <2>1, <3>1 DEF NextInTime
    <3>3. AnswerInTime(s)'
      BY <1>1, <1>3, <1>4, <1>8, <2>1, <2>2, <2>4, <3>1 DEF AnswerInTime
    <3> QED
      BY <3>2, <3>3
  <2> QED
    BY <2>3, <2>4
<1> QED
  BY <1>3, <1>5, <1>6, <1>7, <1>8 DEF LiveInv, Hidden

\* Among the fresh answers with a price of c one is chosen.
Fresh(c) == {s \in Index : StillFresh(s) /\ Has(s, c)}
LEMMA FreshIsSelected ==
  ASSUME NEW c \in Currencies, Fresh(c) # {}
  PROVE  Selected(c) # {}
<1> DEFINE Public == {s \in Fresh(c) : IsPublic(s)}
           First == IF Public # {} THEN Min(Public) ELSE Min(Fresh(c))
<1>1. Fresh(c) \in SUBSET Nat /\ Public \in SUBSET Nat
  BY IndexIsNat DEF Fresh
<1>2. CASE Public # {}
  <2>1. Min(Public) \in Public /\ \A r \in Public : Min(Public) <= r
    BY <1>1, <1>2, LeastOf
  <2>2. Min(Public) \in Fresh(c) /\ IsPublic(Min(Public)) /\ Min(Public) \in Nat
    BY <1>1, <2>1
  <2>3. ASSUME NEW r \in Fresh(c) PROVE ~ComesBefore(r, Min(Public))
    <3>1. r \in Nat
      BY <1>1
    <3>2. CASE r \in Public
      BY <2>1, <2>2, <3>1, <3>2 DEF ComesBefore
    <3>3. CASE r \notin Public
      BY <2>2, <3>3 DEF ComesBefore
    <3> QED
      BY <3>2, <3>3
  <2> HIDE DEF Public
  <2>4. Min(Public) \in Selected(c)
    BY <2>2, <2>3 DEF Selected, Fresh, Has
  <2> QED
    BY <2>4
<1>3. CASE Public = {}
  <2>1. Min(Fresh(c)) \in Fresh(c) /\ \A r \in Fresh(c) : Min(Fresh(c)) <= r
    BY <1>1, LeastOf
  <2>2. ASSUME NEW r \in Fresh(c) PROVE ~ComesBefore(r, Min(Fresh(c)))
    <3>1. r \in Nat /\ Min(Fresh(c)) \in Nat /\ ~IsPublic(r)
      BY <1>1, <1>3, <2>1
    <3> QED
      BY <2>1, <3>1 DEF ComesBefore
  <2>3. Min(Fresh(c)) \in Selected(c)
    BY <2>1, <2>2 DEF Selected, Fresh, Has
  <2> QED
    BY <2>3
<1> QED
  BY <1>2, <1>3

LEMMA EndCycleKeeps ==
  ASSUME GraceIsEnough, LiveInv, EndCycle
  PROVE  LiveInv'
<1> DEFINE R == Cardinality(AllRequests)
<1>0. R \in Nat /\ Cycle \in Nat
  BY RequestsAreFinite, CycleIsLeast
<1>1. /\ due = {} /\ due' = NoPrice /\ elapsed' = 0
      /\ UNCHANGED <<cache, asked, failed>>
  BY DEF EndCycle
<1>2. InCycle /\ ~InCycle' /\ elapsed \in Nat /\ elapsed <= R
  <2>1. due # NoPrice
    BY <1>1, LiveAssumption
  <2> QED
    BY <1>1, <2>1 DEF InCycle, LiveInv, LiveTypes, Timely
<1>3. ASSUME NEW c \in Currencies
      PROVE  /\ Selected(c) = {} => shown'[c] = NoPrice
             /\ Selected(c) # {} => /\ shown'[c] \in Shows
                                    /\ shown'[c].age <= MaxAge(shown'[c].from) + elapsed
  <2>1. shown'[c] = IF Selected(c) = {} THEN NoPrice
                    ELSE LET s == CHOOSE s \in Selected(c) : TRUE
                         IN  [from |-> s, age |-> cache[s].age, sound |-> cache[s].has[c]]
    BY DEF EndCycle
  <2>2. ASSUME Selected(c) # {}
        PROVE  /\ shown'[c] \in Shows
               /\ shown'[c].age <= MaxAge(shown'[c].from) + elapsed
    <3> DEFINE s == CHOOSE s \in Selected(c) : TRUE
    <3>1. s \in Selected(c)
      BY <2>2
    <3>2. shown'[c] = [from |-> s, age |-> cache[s].age, sound |-> cache[s].has[c]]
      BY <2>1, <2>2
    <3> HIDE DEF s
    <3>3. s \in Index /\ StillFresh(s) /\ cache[s].has[c] # NoPrice
      BY <3>1 DEF Selected
    <3>4. cache[s].age \in Nat /\ cache[s].has[c] \in {TRUE, NoPrice}
      BY <3>3 DEF LiveInv, LiveTypes, Answers
    <3>5. cache[s].age <= MaxAge(s) + elapsed /\ MaxAge(s) \in Nat
      BY <1>2, <3>3, <3>4, IntervalsAreNat DEF StillFresh
    <3> DEFINE show == [from |-> s, age |-> cache[s].age, sound |-> cache[s].has[c]]
    <3>6. show \in Shows /\ show.from = s /\ show.age = cache[s].age
      BY <3>3, <3>4 DEF Shows
    <3>7. shown'[c] = show
      BY <3>2
    <3> HIDE DEF show
    <3> QED
      BY <3>5, <3>6, <3>7
  <2> QED
    BY <2>1, <2>2
<1>4. LiveTypes'
  <2>1. shown' \in [Currencies -> Shows \cup {NoPrice}]
    <3>1. shown' = [c \in Currencies |-> shown'[c]]
      BY DEF EndCycle
    <3> QED
      BY <1>3, <3>1
  <2> QED
    BY <1>1, <2>1 DEF LiveInv, LiveTypes
<1>5. Timely'
  BY <1>0, <1>1, <1>2 DEF Timely
<1>6. ASSUME NEW c \in Currencies PROVE ShownInTime(c)'
  <2>1. ASSUME shown'[c] # NoPrice
        PROVE  /\ shown'[c].age \in Nat /\ MaxAge(shown'[c].from) \in Nat
               /\ shown'[c].age <= MaxAge(shown'[c].from) + elapsed
    BY <1>3, <2>1, IntervalsAreNat DEF Shows
  <2> QED
    BY <1>0, <1>1, <1>2, <2>1 DEF ShownInTime
<1>7. ASSUME NEW s \in Index, failed[s] <= 1
      PROVE  NextInTime(s)' /\ AnswerInTime(s)'
  <2>1. /\ failed[s] \in 0 .. 2 /\ asked[s] \in Nat /\ cache[s].age \in Nat
        /\ NextInTime(s) /\ AnswerInTime(s)
        /\ Interval(s) \in Nat \ {0} /\ Gap(s) \in Nat
    BY <1>7, GapIsNat, IntervalsAreNat DEF LiveInv, LiveTypes, Answers
  <2>2. ~Awaits(s) /\ ~Awaits(s)'
    BY <1>1, <1>2 DEF Awaits
  <2>3. NextInTime(s)'
    BY <1>0, <1>1, <1>2, <2>1 DEF NextInTime, Gap
  <2>4. AnswerInTime(s)'
    BY <1>1, <2>1, <2>2 DEF AnswerInTime
  <2> QED
    BY <2>3, <2>4
<1>8. ASSUME NEW s \in Index, NEW c \in Currencies, failed[s] <= 1, Has(s, c)
      PROVE  s \in Fresh(c)
  <2>1. /\ failed[s] \in 0 .. 2 /\ asked[s] \in Nat /\ cache[s].age \in Nat
        /\ NextInTime(s) /\ AnswerInTime(s)
    BY <1>8 DEF LiveInv, LiveTypes, Answers
  <2>2. /\ Interval(s) \in Nat \ {0} /\ Gap(s) \in Nat
        /\ MaxAge(s) \in Nat /\ MaxAge(s) >= 3 * Interval(s)
    BY GapIsNat, IntervalsAreNat
  <2>3. ~Awaits(s)
    BY <1>1 DEF Awaits
  <2>4. \/ asked[s] = elapsed
        \/ Interval(s) # Cycle /\ asked[s] <= elapsed + Interval(s) - 1
    BY <1>2, <2>1 DEF NextInTime
  <2>5. cache[s].age <= asked[s] + (IF failed[s] = 0 THEN 0 ELSE Gap(s))
    BY <1>8, <2>1, <2>2, <2>3 DEF AnswerInTime
  <2>6. Gap(s) + (IF Interval(s) = Cycle THEN 0 ELSE Interval(s) - 1) <= MaxAge(s)
    BY DEF GraceIsEnough
  <2>7. cache[s].age - elapsed <= MaxAge(s)
    BY <1>0, <1>2, <2>1, <2>2, <2>4, <2>5, <2>6
  <2>8. cache[s] # NoAnswer
    BY <1>8 DEF Has, NoAnswer
  <2> QED
    BY <1>8, <2>7, <2>8 DEF Fresh, StillFresh
<1>9. ASSUME NEW s \in Index, NEW c \in Currencies PROVE Hidden(s, c)'
  <2> SUFFICES ASSUME failed[s] <= 1, Has(s, c) PROVE shown'[c] # NoPrice
    BY <1>1 DEF Hidden, Has
  <2>1. Selected(c) # {}
    BY <1>8, FreshIsSelected
  <2>2. shown'[c] \in Shows
    BY <1>3, <2>1
  <2> QED
    BY <2>2, LiveAssumption DEF Shows
<1> QED
  BY <1>1, <1>4, <1>5, <1>6, <1>7, <1>9 DEF LiveInv

LEMMA TimePassesKeeps ==
  ASSUME LiveInv, TimePasses
  PROVE  LiveInv'
<1> DEFINE R == Cardinality(AllRequests)
<1>0. R \in Nat /\ Cycle \in Nat
  BY RequestsAreFinite, CycleIsLeast
<1>1. /\ elapsed' = elapsed + 1 /\ elapsed \in Nat
      /\ asked' = [s \in Index |-> asked[s] + 1]
      /\ UNCHANGED <<due, failed>> /\ InCycle' = InCycle
  BY DEF TimePasses, InCycle, LiveInv, LiveTypes
<1>2. elapsed < (IF InCycle THEN R ELSE Cycle)
  <2>1. CASE ~InCycle
    BY <2>1 DEF TimePasses, InCycle
  <2>2. CASE InCycle
    <3> DEFINE spent == {r \in AllRequests : asked[r[1]] = elapsed /\ r[1] \notin due \ {Asked}}
    <3>1. elapsed < Cardinality(spent)
      BY <2>2 DEF TimePasses, InCycle
    <3>2. spent \in SUBSET AllRequests
      OBVIOUS
    <3> HIDE DEF spent
    <3>3. Cardinality(spent) \in Nat /\ Cardinality(spent) <= R
      BY <3>2, RequestsAreFinite, FS_Subset, FS_CardinalityType
    <3> QED
      BY <1>0, <1>1, <2>2, <3>1, <3>3
  <2> QED
    BY <2>1, <2>2
<1>3. ASSUME NEW s \in Index
      PROVE  /\ cache[s] \in Answers /\ cache'[s] \in Answers
             /\ cache'[s].age <= cache[s].age + 1 /\ cache'[s].has = cache[s].has
  <2>1. cache[s] \in Answers
    BY DEF LiveInv, LiveTypes
  <2>2. cache'[s] = [cache[s] EXCEPT !.age = Aged(cache[s].age, Oldest + Longest)]
    BY DEF TimePasses
  <2>3. /\ cache[s].age \in Nat
        /\ Aged(cache[s].age, Oldest + Longest) \in Nat
        /\ Aged(cache[s].age, Oldest + Longest) <= cache[s].age + 1
    BY <2>1, OldestIsNat, AgedIsNat DEF Answers
  <2> DEFINE older == Aged(cache[s].age, Oldest + Longest)
  <2> HIDE DEF older
  <2> QED
    BY <2>1, <2>2, <2>3 DEF Answers, older
<1>4. ASSUME NEW c \in Currencies
      PROVE  /\ shown[c] = NoPrice => shown'[c] = NoPrice
             /\ shown[c] # NoPrice =>
                   /\ shown[c] \in Shows /\ shown'[c] \in Shows /\ shown'[c].from = shown[c].from
                   /\ shown'[c].age <= shown[c].age + 1
  <2>1. shown'[c] = IF shown[c] = NoPrice THEN NoPrice
                    ELSE [shown[c] EXCEPT !.age = Aged(shown[c].age, Oldest + Longest)]
    BY DEF TimePasses
  <2>2. ASSUME shown[c] # NoPrice
        PROVE  /\ shown[c] \in Shows /\ shown'[c] \in Shows /\ shown'[c].from = shown[c].from
               /\ shown'[c].age <= shown[c].age + 1
    <3>1. shown[c] \in Shows
      BY <2>2 DEF LiveInv, LiveTypes
    <3>2. /\ shown[c].age \in Nat
          /\ Aged(shown[c].age, Oldest + Longest) \in Nat
          /\ Aged(shown[c].age, Oldest + Longest) <= shown[c].age + 1
      BY <3>1, OldestIsNat, AgedIsNat DEF Shows
    <3> DEFINE older == Aged(shown[c].age, Oldest + Longest)
    <3>3. shown'[c] = [shown[c] EXCEPT !.age = older]
      BY <2>1, <2>2
    <3>4. older \in Nat /\ older <= shown[c].age + 1
      BY <3>2
    <3> HIDE DEF older
    <3> QED
      BY <3>1, <3>3, <3>4 DEF Shows
  <2> QED
    BY <2>1, <2>2
<1>5. LiveTypes'
  <2>1. cache' \in [Index -> Answers]
    <3>1. cache' = [s \in Index |-> cache'[s]]
      BY DEF TimePasses
    <3> QED
      BY <1>3, <3>1
  <2>2. shown' \in [Currencies -> Shows \cup {NoPrice}]
    <3>1. shown' = [c \in Currencies |-> shown'[c]]
      BY DEF TimePasses
    <3> QED
      BY <1>4, <3>1
  <2> QED
    BY <1>1, <2>1, <2>2 DEF LiveInv, LiveTypes
<1>6. Timely'
  <2>1. ASSUME InCycle PROVE due \in SUBSET Index /\ \A s \in due : asked[s] = elapsed
    BY <2>1 DEF LiveInv, LiveTypes, Timely, InCycle
  <2> QED
    BY <1>0, <1>1, <1>2, <2>1 DEF Timely
<1>7. ASSUME NEW c \in Currencies PROVE ShownInTime(c)'
  <2>1. ASSUME shown'[c] # NoPrice
        PROVE  /\ shown[c] # NoPrice /\ shown[c].age \in Nat /\ MaxAge(shown[c].from) \in Nat
               /\ shown'[c].age \in Nat
               /\ shown'[c].age <= shown[c].age + 1 /\ shown'[c].from = shown[c].from
    BY <1>4, <2>1, IntervalsAreNat DEF Shows
  <2>2. ShownInTime(c)
    BY DEF LiveInv
  <2> QED
    BY <1>0, <1>1, <2>1, <2>2 DEF ShownInTime
<1>8. ASSUME NEW s \in Index, failed[s] <= 1
      PROVE  NextInTime(s)' /\ AnswerInTime(s)'
  <2>1. /\ failed[s] \in 0 .. 2 /\ asked[s] \in Nat
        /\ NextInTime(s) /\ AnswerInTime(s)
        /\ Interval(s) \in Nat \ {0} /\ Gap(s) \in Nat
    BY <1>8, GapIsNat, IntervalsAreNat DEF LiveInv, LiveTypes
  <2>2. /\ cache[s].age \in Nat /\ cache'[s].age \in Nat /\ cache'[s].age <= cache[s].age + 1
        /\ asked'[s] = asked[s] + 1 /\ failed'[s] = failed[s]
    BY <1>1, <1>3 DEF Answers
  <2>3. Awaits(s)' = Awaits(s) /\ InCycle' = InCycle
    BY <1>1 DEF Awaits
  <2>4. NextInTime(s)'
    BY <1>0, <1>1, <2>1, <2>2, <2>3 DEF NextInTime
  <2>5. AnswerInTime(s)'
    BY <1>0, <1>1, <2>1, <2>2, <2>3 DEF AnswerInTime
  <2> QED
    BY <2>4, <2>5
<1>9. ASSUME NEW s \in Index, NEW c \in Currencies PROVE Hidden(s, c)'
  <2>1. Hidden(s, c)
    BY DEF LiveInv
  <2>2. Has(s, c)' = Has(s, c)
    BY <1>3 DEF Has
  <2>3. shown[c] # NoPrice => shown'[c] # NoPrice
    BY <1>4, LiveAssumption DEF Shows
  <2> QED
    BY <1>1, <2>1, <2>2, <2>3 DEF Hidden
<1> QED
  BY <1>1, <1>5, <1>6, <1>7, <1>8, <1>9 DEF LiveInv

LEMMA LiveStutters ==
  ASSUME LiveInv, UNCHANGED liveVars
  PROVE  LiveInv'
  BY DEF LiveInv, LiveTypes, Timely, ShownInTime, NextInTime, AnswerInTime, Hidden, Has,
         InCycle, Awaits, liveVars

LEMMA LiveInvIsRight ==
  ASSUME LiveInv
  PROVE  LivePriceRight
<1> DEFINE R == Cardinality(AllRequests)
<1>0. R \in Nat /\ Cycle \in Nat /\ Longest = Cycle + 2 * R
  BY RequestsAreFinite, CycleIsLeast DEF Longest
<1>1. ShownIsRecent
  <2> SUFFICES ASSUME NEW c \in Currencies, shown[c] # NoPrice
               PROVE  shown[c].age <= MaxAge(shown[c].from) + Longest
    BY DEF ShownIsRecent
  <2>1. shown[c].age \in Nat /\ MaxAge(shown[c].from) \in Nat
    BY IntervalsAreNat DEF LiveInv, LiveTypes, Shows
  <2>2. elapsed \in Nat /\ elapsed <= (IF InCycle THEN R ELSE Cycle)
    BY DEF LiveInv, LiveTypes, Timely
  <2>3. shown[c].age <= MaxAge(shown[c].from) + R + elapsed + (IF InCycle THEN Cycle ELSE 0)
    BY DEF LiveInv, ShownInTime
  <2> QED
    BY <1>0, <2>1, <2>2, <2>3
<1>2. ShownIsSound
  BY DEF ShownIsSound, LiveInv, LiveTypes, Shows
<1>3. OneFailureIsHidden
  BY DEF OneFailureIsHidden, LiveInv, Hidden, Has, InCycle
<1> QED
  BY <1>1, <1>2, <1>3 DEF LivePriceRight

(* However many sources, whatever their intervals and whichever of them    *)
(* fail: if the consensus of the market is sound and the grace covers the  *)
(* requests of a cycle, every price shown is sound, was answered at most   *)
(* three intervals, a pause and two cycles' requests ago, and does not     *)
(* vanish for one failed attempt of the source that has it.                *)
THEOREM LivePriceIsRight ==
  MarketIsSound /\ GraceIsEnough => (LiveSpec => []LivePriceRight)
<1> SUFFICES ASSUME MarketIsSound, GraceIsEnough
             PROVE  LiveSpec => []LivePriceRight
  OBVIOUS
<1>1. LiveInit => LiveInv
  BY LiveBegins
<1>2. LiveInv /\ [LiveNext]_liveVars => LiveInv'
  BY BeginCycleKeeps, AskKeeps, EndCycleKeeps, TimePassesKeeps, ReloadKeeps, LiveStutters
     DEF LiveNext
<1>3. LiveInv => LivePriceRight
  BY LiveInvIsRight
<1> QED
  BY <1>1, <1>2, <1>3, PTL DEF LiveSpec

-----------------------------------------------------------------------------
(* ImportMatch, for any trades, files and bounds. A file is read row by    *)
(* row; a fold over it is a recursive function, which is unfolded here     *)
(* from the last row, and what its rows leave behind is followed to the    *)
(* least row that would disturb it. The review and the import agree after  *)
(* each row (Agree). What the import knows (SeenRight) makes at most one   *)
(* entry of a trade and none beyond the trades of its fingerprint.         *)

\* The review and the import read a file alike, row by row; what they make of the
\* first rows is unfolded from the end.
FlagStart == [left |-> legacy, refs |-> {}, prints |-> {}, flags |-> <<>>]
TakeStart == [left |-> legacy, refs |-> {}, prints |-> {}, skipped |-> <<>>]
Readers == {"review", "import"}
Start(reader) == IF reader = "review" THEN FlagStart ELSE TakeStart
ReadLine(reader, seen, line) == IF reader = "review" THEN Flag(seen, line) ELSE Take(seen, line)
ReadSoFar(reader, it, file, s) ==
    IF s = {} THEN Start(reader) ELSE ReadLine(reader, it[s \ {Max(s)}], file[Max(s)])

\* The last row of the first m + 1.
LEMMA LastOf ==
  ASSUME NEW m \in Nat, NEW s \in SUBSET (1 .. m + 1), m + 1 \in s
  PROVE  Max(s) = m + 1
<1>1. \A y \in s : m + 1 >= y
  OBVIOUS
<1>2. ASSUME NEW x \in s, \A y \in s : x >= y PROVE x = m + 1
  BY <1>1, <1>2
<1> QED
  BY <1>1, <1>2 DEF Max

\* There is a function that reads the rows of any set as the fold does.
LEMMA ReadingsExist ==
  ASSUME NEW reader, NEW file, NEW n \in Nat
  PROVE  \E it : /\ it = [s \in SUBSET (1 .. n) |-> it[s]]
                 /\ \A s \in SUBSET (1 .. n) : it[s] = ReadSoFar(reader, it, file, s)
<1> DEFINE Good(it, m) == /\ it = [s \in SUBSET (1 .. m) |-> it[s]]
                          /\ \A s \in SUBSET (1 .. m) : it[s] = ReadSoFar(reader, it, file, s)
           P(m) == \E it : Good(it, m)
           Bad == {m \in Nat : ~P(m)}
<1>1. SUFFICES ASSUME Bad # {} PROVE FALSE
  OBVIOUS
<1>2. PICK m \in Bad : \A y \in Bad : m <= y
  <2>1. Bad \in SUBSET Nat
    OBVIOUS
  <2> HIDE DEF Bad
  <2> QED
    BY <1>1, <2>1, LeastOf
<1>3. m # 0
  <2>1. P(0)
    <3> DEFINE it == [s \in SUBSET (1 .. 0) |-> Start(reader)]
    <3>1. \A s \in SUBSET (1 .. 0) : s = {}
      OBVIOUS
    <3>2. Good(it, 0)
      BY <3>1 DEF ReadSoFar
    <3> QED
      BY <3>2
  <2> QED
    BY <1>2, <2>1
<1>4. PICK it : Good(it, m - 1)
  <2>1. m - 1 \in Nat /\ ~(m <= m - 1)
    BY <1>3
  <2>2. m - 1 \notin Bad
    BY <1>2, <2>1
  <2> QED
    BY <2>1, <2>2
<1> DEFINE jt == [s \in SUBSET (1 .. m) |-> IF m \in s THEN ReadLine(reader, it[s \ {m}], file[m]) ELSE it[s]]
<1>5. ASSUME NEW s \in SUBSET (1 .. m) PROVE jt[s] = ReadSoFar(reader, jt, file, s)
  <2>1. m - 1 \in Nat /\ m = (m - 1) + 1
    BY <1>3
  <2>2. CASE m \in s
    <3>1. Max(s) = m
      <4>1. Max(s) = (m - 1) + 1
        BY <2>1, <2>2, LastOf
      <4> QED
        BY <2>1, <4>1
    <3>2. s \ {m} \in SUBSET (1 .. m) /\ m \notin s \ {m} /\ s # {}
      BY <2>2
    <3>3. jt[s \ {m}] = it[s \ {m}]
      BY <3>2
    <3>4. jt[s] = ReadLine(reader, it[s \ {m}], file[m])
      BY <2>2
    <3> QED
      BY <3>1, <3>2, <3>3, <3>4 DEF ReadSoFar
  <2>3. CASE m \notin s
    <3>1. s \in SUBSET (1 .. m - 1)
      BY <2>1, <2>3
    <3>2. jt[s] = it[s] /\ it[s] = ReadSoFar(reader, it, file, s)
      BY <1>4, <2>3, <3>1
    <3>3. ASSUME s # {} PROVE s \ {Max(s)} \in SUBSET (1 .. m) /\ m \notin s \ {Max(s)}
      BY <2>3
    <3>4. s # {} => jt[s \ {Max(s)}] = it[s \ {Max(s)}]
      BY <3>3
    <3> QED
      BY <3>2, <3>4 DEF ReadSoFar
  <2> QED
    BY <2>2, <2>3
<1>6. Good(jt, m)
  BY <1>5
<1>7. P(m)
  BY <1>6
<1> QED
  BY <1>2, <1>7

\* So what a reader knows after each row of a file, and at its end, is known.
LEMMA ReadingsUnfold ==
  ASSUME NEW reader \in Readers, NEW file \in Seq(Lines)
  PROVE  \E w : /\ w[0] = Start(reader)
                /\ \A k \in 1 .. Len(file) : w[k] = ReadLine(reader, w[k - 1], file[k])
                /\ reader = "review" => Flags(file) = w[Len(file)].flags
                /\ reader = "import" => Skips(file) = w[Len(file)].skipped
<1>1. DOMAIN file = 1 .. Len(file) /\ Len(file) \in Nat
  BY LenProperties
<1> DEFINE D == SUBSET (1 .. Len(file))
<1>0. PICK f : f = [r \in D |-> f[r]] /\ \A r \in D : f[r] = ReadSoFar(reader, f, file, r)
  BY <1>1, ReadingsExist
<1> DEFINE FlagBody(g, r) == IF r = {} THEN FlagStart ELSE Flag(g[r \ {Max(r)}], file[Max(r)])
           TakeBody(g, r) == IF r = {} THEN TakeStart ELSE Take(g[r \ {Max(r)}], file[Max(r)])
           flagged == CHOOSE g : g = [r \in D |-> FlagBody(g, r)]
           taken == CHOOSE g : g = [r \in D |-> TakeBody(g, r)]
           it == IF reader = "review" THEN flagged ELSE taken
<1>2. it = [r \in D |-> ReadSoFar(reader, it, file, r)]
  <2>2. CASE reader = "review"
    <3>1. f = [r \in D |-> FlagBody(f, r)]
      BY <1>0, <2>2 DEF ReadSoFar, Start, ReadLine
    <3>2. flagged = [r \in D |-> FlagBody(flagged, r)]
      BY <3>1
    <3> HIDE DEF flagged
    <3>3. it = flagged
      BY <2>2
    <3> QED
      BY <2>2, <3>2, <3>3 DEF ReadSoFar, Start, ReadLine
  <2>3. CASE reader # "review"
    <3>1. f = [r \in D |-> TakeBody(f, r)]
      BY <1>0, <2>3 DEF ReadSoFar, Start, ReadLine
    <3>2. taken = [r \in D |-> TakeBody(taken, r)]
      BY <3>1
    <3> HIDE DEF taken
    <3>3. it = taken
      BY <2>3
    <3> QED
      BY <2>3, <3>2, <3>3 DEF ReadSoFar, Start, ReadLine
  <2> QED
    BY <2>2, <2>3
<1>3. /\ reader = "review" => Flags(file) = it[DOMAIN file].flags
      /\ reader = "import" => Skips(file) = it[DOMAIN file].skipped
  <2>1. Flags(file) = flagged[DOMAIN file].flags
    BY <1>1 DEF Flags, FoldLeft, MapThenFoldSet, FlagStart
  <2>2. Skips(file) = taken[DOMAIN file].skipped
    BY <1>1 DEF Skips, FoldLeft, MapThenFoldSet, TakeStart
  <2> HIDE DEF flagged, taken
  <2> QED
    BY <2>1, <2>2
<1> DEFINE w == [k \in 0 .. Len(file) |-> it[1 .. k]]
<1> HIDE DEF it
<1>4. w[0] = Start(reader)
  <2>1. 1 .. 0 = {} /\ {} \in D /\ 0 \in 0 .. Len(file)
    BY <1>1
  <2>2. w[0] = it[{}]
    BY <2>1
  <2> QED
    BY <1>2, <2>1, <2>2 DEF ReadSoFar
<1>5. ASSUME NEW k \in 1 .. Len(file) PROVE w[k] = ReadLine(reader, w[k - 1], file[k])
  <2>1. k - 1 \in Nat /\ k = (k - 1) + 1 /\ k \in 0 .. Len(file) /\ k - 1 \in 0 .. Len(file)
    BY <1>1
  <2>2. 1 .. k \in D /\ k \in 1 .. k /\ (1 .. k) \ {k} = 1 .. k - 1 /\ 1 .. k # {}
    <3>1. 1 .. k \in SUBSET (1 .. Len(file))
      BY <1>1, <2>1
    <3>2. k \in 1 .. k /\ (1 .. k) \ {k} = 1 .. k - 1
      BY <2>1
    <3> QED
      BY <3>1, <3>2
  <2>3. Max(1 .. k) = k
    <3>1. Max(1 .. (k - 1) + 1) = (k - 1) + 1
      BY <2>1, <2>2, LastOf
    <3> QED
      BY <2>1, <3>1
  <2>4. it[1 .. k] = ReadSoFar(reader, it, file, 1 .. k)
    BY <1>2, <2>2
  <2>5. w[k] = it[1 .. k] /\ w[k - 1] = it[1 .. k - 1]
    BY <2>1
  <2> QED
    BY <2>2, <2>3, <2>4, <2>5 DEF ReadSoFar
<1>6. w[Len(file)] = it[DOMAIN file]
  BY <1>1
<1> QED
  BY <1>3, <1>4, <1>5, <1>6

\* After each row the review and the import agree, but for what an entry of the
\* ledger answers for anyway.
SameIds(r, q) == \A t : booked[t] > 0 \/ t \in r <=> booked[t] > 0 \/ t \in q
SamePrints(p, o) == \A v : Known(v) \/ v \in p <=> Known(v) \/ v \in o
Agree(a, b) ==
    /\ a = [left |-> a.left, refs |-> a.refs, prints |-> a.prints, flags |-> a.flags]
    /\ b = [left |-> b.left, refs |-> b.refs, prints |-> b.prints, skipped |-> b.skipped]
    /\ a.left = b.left /\ a.flags = b.skipped
    /\ SameIds(a.refs, b.refs) /\ SamePrints(a.prints, b.prints)

\* The review and the import still agree after one more complete row.
LEMMA AgreeStill ==
  ASSUME NEW a, NEW b, Agree(a, b), NEW line, Complete(line)
  PROVE  Agree(Flag(a, line), Take(b, line))
<1> DEFINE v == FingerprintOfLine(line)
           t == line.trade
           again == booked[t] > 0 \/ t \in a.refs
           old == ~again /\ a.left[v] > 0
           dup == Append(a.flags, TRUE)
           new == Append(a.flags, FALSE)
<1>1. /\ a = [left |-> a.left, refs |-> a.refs, prints |-> a.prints, flags |-> a.flags]
      /\ b = [left |-> b.left, refs |-> b.refs, prints |-> b.prints, skipped |-> b.skipped]
      /\ a.left = b.left /\ a.flags = b.skipped
      /\ SameIds(a.refs, b.refs) /\ SamePrints(a.prints, b.prints)
  BY DEF Agree
<1>0. /\ SameIds(a.refs \cup {t}, b.refs \cup {t})
      /\ again => SameIds(a.refs \cup {t}, b.refs)
      /\ SamePrints(a.prints \cup {v}, b.prints \cup {v})
      /\ Known(v) \/ v \in a.prints => SamePrints(a.prints \cup {v}, b.prints)
      /\ again <=> booked[t] > 0 \/ t \in b.refs
      /\ Known(v) \/ v \in a.prints <=> Known(v) \/ v \in b.prints
  <2> HIDE DEF v, t
  <2> QED
    BY <1>1 DEF SameIds, SamePrints, again
<1>2. CASE HasReference(line) /\ again
  <2>1. Flag(a, line) = [left |-> a.left, refs |-> a.refs \cup {t}, prints |-> a.prints,
                         flags |-> dup]
    BY <1>2 DEF Flag
  <2>2. Take(b, line) = [left |-> b.left, refs |-> b.refs, prints |-> b.prints,
                         skipped |-> dup]
    BY <1>0, <1>1, <1>2 DEF Take, Duplicate
  <2> HIDE DEF v, t, again, old, dup, new
  <2> QED
    BY <1>0, <1>1, <1>2, <2>1, <2>2 DEF Agree
<1>3. CASE HasReference(line) /\ old
  <2>1. Flag(a, line) = [left |-> [a.left EXCEPT ![v] = @ - 1], refs |-> a.refs \cup {t},
                         prints |-> a.prints, flags |-> dup]
    BY <1>3 DEF Flag
  <2>2. Take(b, line) = [left |-> [b.left EXCEPT ![v] = @ - 1], refs |-> b.refs \cup {t},
                         prints |-> b.prints, skipped |-> dup]
    BY <1>0, <1>1, <1>3 DEF Take, Duplicate, Absorbed
  <2> HIDE DEF v, t, again, old, dup, new
  <2> QED
    BY <1>0, <1>1, <1>3, <2>1, <2>2 DEF Agree
<1>4. CASE HasReference(line) /\ ~again /\ ~old
  <2>1. Flag(a, line) = [left |-> a.left, refs |-> a.refs \cup {t},
                         prints |-> a.prints \cup {v}, flags |-> new]
    BY <1>4 DEF Flag
  <2>2. Take(b, line) = [left |-> b.left, refs |-> b.refs \cup {t},
                         prints |-> b.prints \cup {v}, skipped |-> new]
    BY <1>0, <1>1, <1>4 DEF Take, Duplicate, Absorbed
  <2> HIDE DEF v, t, again, old, dup, new
  <2> QED
    BY <1>0, <1>1, <1>4, <2>1, <2>2 DEF Agree
<1>5. CASE ~HasReference(line) /\ (Known(v) \/ v \in a.prints)
  <2>1. Flag(a, line) = [left |-> a.left, refs |-> a.refs,
                         prints |-> a.prints \cup {v}, flags |-> dup]
    BY <1>1, <1>5 DEF Flag
  <2>2. Take(b, line) = [left |-> b.left, refs |-> b.refs,
                         prints |-> b.prints, skipped |-> dup]
    BY <1>0, <1>1, <1>5 DEF Take, Duplicate
  <2> HIDE DEF v, t, again, old, dup, new
  <2> QED
    BY <1>0, <1>1, <1>5, <2>1, <2>2 DEF Agree
<1>6. CASE ~HasReference(line) /\ ~(Known(v) \/ v \in a.prints)
  <2>1. Flag(a, line) = [left |-> a.left, refs |-> a.refs,
                         prints |-> a.prints \cup {v}, flags |-> new]
    BY <1>1, <1>6 DEF Flag
  <2>2. Take(b, line) = [left |-> b.left, refs |-> b.refs,
                         prints |-> b.prints \cup {v}, skipped |-> new]
    BY <1>0, <1>1, <1>6 DEF Take, Duplicate, Absorbed
  <2> HIDE DEF v, t, again, old, dup, new
  <2> QED
    BY <1>0, <1>1, <1>6, <2>1, <2>2 DEF Agree
<1> QED
  BY <1>2, <1>3, <1>4, <1>5, <1>6

(* The review's flags are what an import of the same complete rows would   *)
(* skip, whatever the file and whatever the ledger holds.                  *)
THEOREM ReviewMirrorsImport ==
  ASSUME NEW file \in Seq(Lines)
  PROVE  FlagsTell(file)
<1> SUFFICES ASSUME \A k \in DOMAIN file : Complete(file[k])
             PROVE  Flags(file) = Skips(file)
  BY DEF FlagsTell
<1>1. PICK f : /\ f[0] = FlagStart
               /\ \A k \in 1 .. Len(file) : f[k] = Flag(f[k - 1], file[k])
               /\ Flags(file) = f[Len(file)].flags
  <2>1. "review" \in Readers
    BY DEF Readers
  <2> QED
    BY <2>1, ReadingsUnfold DEF Start, ReadLine
<1>2. PICK g : /\ g[0] = TakeStart
               /\ \A k \in 1 .. Len(file) : g[k] = Take(g[k - 1], file[k])
               /\ Skips(file) = g[Len(file)].skipped
  <2>1. "import" \in Readers
    BY DEF Readers
  <2> QED
    BY <2>1, ReadingsUnfold DEF Start, ReadLine
<1>3. Len(file) \in Nat /\ DOMAIN file = 1 .. Len(file)
  BY LenProperties
<1> DEFINE Bad == {k \in 0 .. Len(file) : ~Agree(f[k], g[k])}
<1>4. Bad = {}
  <2>1. SUFFICES ASSUME Bad # {} PROVE FALSE
    OBVIOUS
  <2>2. PICK k \in Bad : \A y \in Bad : k <= y
    <3>1. Bad \in SUBSET Nat
      BY <1>3
    <3> HIDE DEF Bad
    <3> QED
      BY <2>1, <3>1, LeastOf
  <2>3. k # 0
    <3>1. Agree(FlagStart, TakeStart)
      BY DEF Agree, SameIds, SamePrints, FlagStart, TakeStart
    <3> QED
      BY <1>1, <1>2, <2>2, <3>1
  <2>4. k - 1 \in 0 .. Len(file) /\ ~(k <= k - 1) /\ k \in 1 .. Len(file)
    BY <1>3, <2>2, <2>3
  <2>5. Agree(f[k - 1], g[k - 1])
    BY <2>2, <2>4
  <2>6. Agree(f[k], g[k])
    BY <1>1, <1>2, <1>3, <2>4, <2>5, AgreeStill
  <2> QED
    BY <2>2, <2>6
<1>5. Agree(f[Len(file)], g[Len(file)])
  BY <1>3, <1>4
<1> QED
  BY <1>1, <1>2, <1>5 DEF Agree

-----------------------------------------------------------------------------
(* Counting. *)
IsBooked(t) == booked[t] > 0
LedgerTypes ==
    /\ booked \in [Trades -> {0, 1}]
    /\ legacy \in [Fingerprints -> Nat]
\* No trade is listed both with its ids and without them.
SameKinds(file) == \A i, j \in DOMAIN file : file[i].trade = file[j].trade => file[i].ids = file[j].ids

\* What the import knows after the rows up to k: the trades it has met under a
\* reference are new ones, which it adds, or were absorbed; each absorbed one has used
\* up an entry without a reference.
New(file, k, seen, v) ==
    {t \in TradesWith(v) : \E i \in 1 .. k : /\ ~seen.skipped[i] /\ HasReference(file[i])
                                             /\ file[i].trade = t}
Absorbs(file, k, seen, v) == (seen.refs \cap TradesWith(v)) \ New(file, k, seen, v)
SeenTypes(seen, k) ==
    /\ seen = [left |-> seen.left, refs |-> seen.refs, prints |-> seen.prints, skipped |-> seen.skipped]
    /\ seen.left \in [Fingerprints -> Nat] /\ seen.refs \in SUBSET Trades
    /\ seen.skipped \in Seq(BOOLEAN) /\ Len(seen.skipped) = k
SeenRefs(file, k, seen) ==
    /\ \A t \in seen.refs : ~IsBooked(t) /\ \E i \in 1 .. k : HasReference(file[i]) /\ file[i].trade = t
    /\ \A v \in Fingerprints : New(file, k, seen, v) \subseteq seen.refs
SeenLeft(file, k, seen) == \A v \in Fingerprints :
    /\ seen.left[v] + Cardinality(Absorbs(file, k, seen, v)) = legacy[v]
    /\ New(file, k, seen, v) # {} => seen.left[v] = 0
SeenOnce(file, k, seen) ==
    /\ \A i \in 1 .. k : ~seen.skipped[i] => FingerprintOfLine(file[i]) \in seen.prints
    /\ \A i \in 1 .. k : ~seen.skipped[i] /\ ~HasReference(file[i]) => ~Known(FingerprintOfLine(file[i]))
    /\ \A i, j \in 1 .. k : ~seen.skipped[i] /\ ~seen.skipped[j] /\ i < j =>
          /\ HasReference(file[i]) /\ HasReference(file[j]) => file[i].trade # file[j].trade
          /\ ~HasReference(file[j]) => FingerprintOfLine(file[i]) # FingerprintOfLine(file[j])
SeenRight(file, k, seen) ==
    SeenTypes(seen, k) /\ SeenRefs(file, k, seen) /\ SeenLeft(file, k, seen) /\ SeenOnce(file, k, seen)

\* A row that is skipped leaves the rows taken so far as distinct as they were.
LEMMA OnceIfSkipped ==
  ASSUME NEW k \in Nat, NEW file, NEW seen, NEW x, SeenOnce(file, k, seen),
         x.prints = seen.prints, x.skipped[k + 1],
         \A i \in 1 .. k : x.skipped[i] = seen.skipped[i]
  PROVE  SeenOnce(file, k + 1, x)
<1>1. \A i \in 1 .. k + 1 : i \in 1 .. k \/ i = k + 1
  OBVIOUS
<1>2. ASSUME NEW i \in 1 .. k + 1, ~x.skipped[i] PROVE i \in 1 .. k /\ ~seen.skipped[i]
  BY <1>1, <1>2, Zenon
<1>3. \A i \in 1 .. k + 1 : ~x.skipped[i] => FingerprintOfLine(file[i]) \in x.prints
  BY <1>2, Zenon DEF SeenOnce
<1>4. \A i \in 1 .. k + 1 : ~x.skipped[i] /\ ~HasReference(file[i])
                             => ~Known(FingerprintOfLine(file[i]))
  BY <1>2, Zenon DEF SeenOnce
<1>5. ASSUME NEW i \in 1 .. k + 1, NEW j \in 1 .. k + 1, ~x.skipped[i], ~x.skipped[j], i < j
      PROVE  /\ HasReference(file[i]) /\ HasReference(file[j]) => file[i].trade # file[j].trade
             /\ ~HasReference(file[j]) => FingerprintOfLine(file[i]) # FingerprintOfLine(file[j])
  BY <1>2, <1>5, Zenon DEF SeenOnce
<1> QED
  BY <1>3, <1>4, <1>5, Zenon DEF SeenOnce

\* The three ways a row is read.
Skipped(seen) == Append(seen.skipped, TRUE)
Added(seen) == Append(seen.skipped, FALSE)
LEMMA TakeCases ==
  ASSUME NEW k \in Nat, NEW seen, SeenTypes(seen, k), NEW line \in Lines
  PROVE  LET v == FingerprintOfLine(line)
             t == line.trade
         IN  \/ /\ Duplicate(seen, line)
                /\ Take(seen, line) = [left |-> seen.left, refs |-> seen.refs,
                                       prints |-> seen.prints, skipped |-> Skipped(seen)]
             \/ /\ ~Duplicate(seen, line) /\ Absorbed(seen, line)
                /\ Take(seen, line) = [left |-> [seen.left EXCEPT ![v] = @ - 1],
                                       refs |-> seen.refs \cup {t},
                                       prints |-> seen.prints, skipped |-> Skipped(seen)]
             \/ /\ ~Duplicate(seen, line) /\ ~Absorbed(seen, line)
                /\ Take(seen, line) =
                       [left |-> seen.left,
                        refs |-> IF HasReference(line) THEN seen.refs \cup {t} ELSE seen.refs,
                        prints |-> seen.prints \cup {v}, skipped |-> Added(seen)]
<1>1. seen = [left |-> seen.left, refs |-> seen.refs, prints |-> seen.prints, skipped |-> seen.skipped]
  BY DEF SeenTypes
<1>2. CASE Duplicate(seen, line)
  BY <1>1, <1>2 DEF Take, Skipped
<1>3. CASE ~Duplicate(seen, line) /\ Absorbed(seen, line)
  BY <1>1, <1>3 DEF Take, Skipped
<1>4. CASE ~Duplicate(seen, line) /\ ~Absorbed(seen, line)
  BY <1>1, <1>4 DEF Take, Added
<1> QED
  BY <1>2, <1>3, <1>4

\* A row more.
LEMMA AppendedIs ==
  ASSUME NEW B, NEW s \in Seq(B), NEW b \in B, NEW k, Len(s) = k
  PROVE  /\ Append(s, b) \in Seq(B) /\ Len(Append(s, b)) = k + 1
         /\ \A i \in 1 .. k : Append(s, b)[i] = s[i]
         /\ Append(s, b)[k + 1] = b
  BY AppendProperties

\* What was noted of the rows before stays noted.
LEMMA SkippedIs ==
  ASSUME NEW k \in Nat, NEW seen, SeenTypes(seen, k)
  PROVE  /\ Skipped(seen) \in Seq(BOOLEAN) /\ Len(Skipped(seen)) = k + 1
         /\ \A i \in 1 .. k : Skipped(seen)[i] = seen.skipped[i]
         /\ Skipped(seen)[k + 1]
         /\ Added(seen) \in Seq(BOOLEAN) /\ Len(Added(seen)) = k + 1
         /\ \A i \in 1 .. k : Added(seen)[i] = seen.skipped[i]
         /\ ~Added(seen)[k + 1]
<1> DEFINE B == BOOLEAN
           yes == TRUE
           no == FALSE
<1>1. seen.skipped \in Seq(B) /\ Len(seen.skipped) = k /\ yes \in B /\ no \in B
  BY DEF SeenTypes
<1> HIDE DEF B, yes, no
<1>2. /\ Append(seen.skipped, yes) \in Seq(B) /\ Len(Append(seen.skipped, yes)) = k + 1
      /\ \A i \in 1 .. k : Append(seen.skipped, yes)[i] = seen.skipped[i]
      /\ Append(seen.skipped, yes)[k + 1] = yes
  BY <1>1, AppendedIs
<1>3. /\ Append(seen.skipped, no) \in Seq(B) /\ Len(Append(seen.skipped, no)) = k + 1
      /\ \A i \in 1 .. k : Append(seen.skipped, no)[i] = seen.skipped[i]
      /\ Append(seen.skipped, no)[k + 1] = no
  BY <1>1, AppendedIs
<1>4. Skipped(seen) = Append(seen.skipped, yes) /\ Added(seen) = Append(seen.skipped, no)
  BY DEF Skipped, Added, yes, no
<1>5. Skipped(seen)[k + 1] = yes /\ Added(seen)[k + 1] = no
  BY <1>2, <1>3, <1>4
<1>6. Skipped(seen)[k + 1] /\ ~Added(seen)[k + 1]
  BY <1>5 DEF yes, no
<1> QED
  BY <1>2, <1>3, <1>4, <1>6 DEF B

\* There are finitely many trades.
LEMMA TradesFinite ==
  ASSUME NEW S \in SUBSET Trades
  PROVE  IsFiniteSet(S) /\ Cardinality(S) \in Nat
  BY ExportAssumption, FS_Subset, FS_CardinalityType

\* A trade more.
LEMMA OneMore ==
  ASSUME NEW S \in SUBSET Trades, NEW t \in Trades, t \notin S
  PROVE  Cardinality(S \cup {t}) = Cardinality(S) + 1
  BY TradesFinite, FS_AddElement

\* What the import knows stays right with each row.
LEMMA SeenStaysRight ==
  ASSUME NEW file \in Seq(Lines), LedgerTypes,
         NEW k \in Nat, k + 1 \in 1 .. Len(file), NEW seen, SeenRight(file, k, seen)
  PROVE  SeenRight(file, k + 1, Take(seen, file[k + 1]))
<1> DEFINE line == file[k + 1]
           t == line.trade
           w == FingerprintOfLine(line)
           x == Take(seen, line)
<1>0. /\ Len(file) \in Nat /\ \A i \in 1 .. k + 1 : i \in 1 .. Len(file) /\ file[i] \in Lines
      /\ k + 1 \in 1 .. k + 1
  BY LenProperties, ElementOfSeq
<1>1. line \in Lines /\ t \in Trades /\ w \in Fingerprints /\ t \in TradesWith(w)
  BY <1>0 DEF Lines, FingerprintOfLine, Fingerprints, TradesWith
<1>2. SeenTypes(seen, k) /\ SeenRefs(file, k, seen) /\ SeenLeft(file, k, seen) /\ SeenOnce(file, k, seen)
  BY DEF SeenRight
<1>3. /\ Skipped(seen) \in Seq(BOOLEAN) /\ Len(Skipped(seen)) = k + 1
      /\ \A i \in 1 .. k : Skipped(seen)[i] = seen.skipped[i]
      /\ Skipped(seen)[k + 1]
      /\ Added(seen) \in Seq(BOOLEAN) /\ Len(Added(seen)) = k + 1
      /\ \A i \in 1 .. k : Added(seen)[i] = seen.skipped[i]
      /\ ~Added(seen)[k + 1]
  BY <1>2, SkippedIs
<1>4. 1 .. k + 1 = (1 .. k) \cup {k + 1} /\ k + 1 \notin 1 .. k
  OBVIOUS
<1>5. ASSUME NEW v \in Fingerprints, x.skipped = Skipped(seen)
      PROVE  New(file, k + 1, x, v) = New(file, k, seen, v)
  BY <1>3, <1>4, <1>5 DEF New
<1>6. ASSUME Duplicate(seen, line)
      PROVE  SeenRight(file, k + 1, x)
  <2>1. x = [left |-> seen.left, refs |-> seen.refs, prints |-> seen.prints, skipped |-> Skipped(seen)]
    BY <1>1, <1>2, <1>6, TakeCases
  <2> DEFINE sk == Skipped(seen)
  <2> HIDE DEF x, sk
  <2>2. x.left = seen.left /\ x.refs = seen.refs /\ x.prints = seen.prints /\ x.skipped = sk
        /\ x = [left |-> x.left, refs |-> x.refs, prints |-> x.prints, skipped |-> x.skipped]
    BY <2>1 DEF sk
  <2>3. SeenTypes(x, k + 1)
    BY <1>2, <1>3, <2>2 DEF SeenTypes, sk
  <2>4. \A v \in Fingerprints : New(file, k + 1, x, v) = New(file, k, seen, v)
    BY <1>5, <2>2 DEF sk
  <2>5. SeenRefs(file, k + 1, x)
    BY <1>2, <1>4, <2>2, <2>4 DEF SeenRefs
  <2>6. SeenLeft(file, k + 1, x)
    BY <1>2, <2>2, <2>4 DEF SeenLeft, Absorbs
  <2>7. SeenOnce(file, k + 1, x)
    <3>1. x.skipped[k + 1] /\ \A i \in 1 .. k : x.skipped[i] = seen.skipped[i]
      BY <1>3, <2>2 DEF sk
    <3> QED
      BY <1>2, <2>2, <3>1, OnceIfSkipped
  <2> QED
    BY <2>3, <2>5, <2>6, <2>7 DEF SeenRight
<1>7. ASSUME ~Duplicate(seen, line), Absorbed(seen, line)
      PROVE  SeenRight(file, k + 1, x)
  <2>1. x = [left |-> [seen.left EXCEPT ![w] = @ - 1], refs |-> seen.refs \cup {t},
             prints |-> seen.prints, skipped |-> Skipped(seen)]
    BY <1>1, <1>2, <1>7, TakeCases
  <2>0. /\ HasReference(line) /\ seen.left[w] > 0 /\ ~IsBooked(t) /\ t \notin seen.refs
    BY <1>7 DEF Duplicate, Absorbed, IsBooked
  <2> DEFINE sk == Skipped(seen)
  <2> HIDE DEF x, sk
  <2>2. x.left = [seen.left EXCEPT ![w] = @ - 1] /\ x.refs = seen.refs \cup {t}
        /\ x.prints = seen.prints /\ x.skipped = sk
        /\ x = [left |-> x.left, refs |-> x.refs, prints |-> x.prints, skipped |-> x.skipped]
    BY <2>1 DEF sk
  <2>3. SeenTypes(x, k + 1)
    <3>1. seen.left \in [Fingerprints -> Nat] /\ seen.left[w] > 0
      BY <1>2, <2>0 DEF SeenTypes
    <3>2. x.left \in [Fingerprints -> Nat]
      BY <1>1, <2>2, <3>1
    <3> QED
      BY <1>1, <1>2, <1>3, <2>2, <3>2 DEF SeenTypes, sk
  <2>4. \A v \in Fingerprints : New(file, k + 1, x, v) = New(file, k, seen, v)
    BY <1>5, <2>2 DEF sk
  <2>5. SeenRefs(file, k + 1, x)
    BY <1>2, <1>4, <2>0, <2>2, <2>4 DEF SeenRefs
  <2>6. SeenLeft(file, k + 1, x)
    <3> SUFFICES ASSUME NEW v \in Fingerprints
                 PROVE  /\ x.left[v] + Cardinality(Absorbs(file, k + 1, x, v)) = legacy[v]
                        /\ New(file, k + 1, x, v) # {} => x.left[v] = 0
      BY DEF SeenLeft
    <3>1. seen.left \in [Fingerprints -> Nat] /\ seen.refs \in SUBSET Trades
      BY <1>2 DEF SeenTypes
    <3>2. /\ seen.left[v] + Cardinality(Absorbs(file, k, seen, v)) = legacy[v]
          /\ New(file, k, seen, v) # {} => seen.left[v] = 0
      BY <1>2 DEF SeenLeft
    <3>3. CASE v = w
      <4>1. Absorbs(file, k + 1, x, v) = Absorbs(file, k, seen, v) \cup {t}
        BY <1>1, <1>2, <2>0, <2>2, <2>4, <3>2, <3>3 DEF Absorbs, SeenRefs
      <4>2. Absorbs(file, k, seen, v) \in SUBSET Trades /\ t \notin Absorbs(file, k, seen, v)
        BY <2>0, <3>1 DEF Absorbs
      <4>3. Cardinality(Absorbs(file, k + 1, x, v)) = Cardinality(Absorbs(file, k, seen, v)) + 1
        BY <1>1, <4>1, <4>2, OneMore
      <4>4. x.left[v] = seen.left[v] - 1 /\ seen.left[v] \in Nat
        BY <1>1, <2>2, <3>1, <3>3
      <4>5. Cardinality(Absorbs(file, k, seen, v)) \in Nat
        BY <4>2, TradesFinite
      <4>6. seen.left[v] # 0
        BY <2>0, <3>3
      <4>7. New(file, k + 1, x, v) = {}
        BY <2>4, <3>2, <4>6, Zenon
      <4>8. x.left[v] + Cardinality(Absorbs(file, k + 1, x, v)) = legacy[v]
        <5> DEFINE a == Cardinality(Absorbs(file, k, seen, v))
                   b == Cardinality(Absorbs(file, k + 1, x, v))
        <5>1. a \in Nat /\ b = a + 1 /\ seen.left[v] + a = legacy[v]
          BY <3>2, <4>3, <4>5, Zenon
        <5> HIDE DEF a, b
        <5>2. x.left[v] + b = seen.left[v] + a
          BY <4>4, <5>1
        <5>3. x.left[v] + b = legacy[v]
          BY <5>1, <5>2, Zenon
        <5> QED
          BY <5>3, Zenon DEF b
      <4> QED
        BY <4>7, <4>8
    <3>4. CASE v # w
      <4>1. t \notin TradesWith(v)
        BY <1>1, <3>4 DEF TradesWith
      <4>2. Absorbs(file, k + 1, x, v) = Absorbs(file, k, seen, v)
        BY <2>2, <2>4, <4>1 DEF Absorbs
      <4>3. x.left[v] = seen.left[v]
        BY <2>2, <3>1, <3>4
      <4> QED
        BY <2>4, <3>2, <4>2, <4>3
    <3> QED
      BY <3>3, <3>4
  <2>7. SeenOnce(file, k + 1, x)
    <3>1. x.skipped[k + 1] /\ \A i \in 1 .. k : x.skipped[i] = seen.skipped[i]
      BY <1>3, <2>2 DEF sk
    <3> QED
      BY <1>2, <2>2, <3>1, OnceIfSkipped
  <2> QED
    BY <2>3, <2>5, <2>6, <2>7 DEF SeenRight
<1>8. ASSUME ~Duplicate(seen, line), ~Absorbed(seen, line)
      PROVE  SeenRight(file, k + 1, x)
  <2>1. x = [left |-> seen.left, refs |-> IF HasReference(line) THEN seen.refs \cup {t} ELSE seen.refs,
             prints |-> seen.prints \cup {w}, skipped |-> Added(seen)]
    BY <1>1, <1>2, <1>8, TakeCases
  <2> DEFINE sk == Added(seen)
  <2> HIDE DEF x, sk
  <2>2. x.left = seen.left /\ x.refs = (IF HasReference(line) THEN seen.refs \cup {t} ELSE seen.refs)
        /\ x.prints = seen.prints \cup {w} /\ x.skipped = sk
        /\ x = [left |-> x.left, refs |-> x.refs, prints |-> x.prints, skipped |-> x.skipped]
    BY <2>1 DEF sk
  <2>3. SeenTypes(x, k + 1)
    BY <1>1, <1>2, <1>3, <2>2 DEF SeenTypes, sk
  <2>4. ASSUME NEW v \in Fingerprints
        PROVE  New(file, k + 1, x, v) =
                   New(file, k, seen, v) \cup (IF HasReference(line) /\ v = w THEN {t} ELSE {})
    <3>1. /\ \A i \in 1 .. k : x.skipped[i] = seen.skipped[i]
          /\ ~x.skipped[k + 1]
      BY <1>3, <2>2 DEF sk
    <3>2. t \in TradesWith(v) <=> v = w
      BY <1>1 DEF TradesWith
    <3>3. New(file, k + 1, x, v) =
              {u \in TradesWith(v) : \/ \E i \in 1 .. k : /\ ~seen.skipped[i] /\ HasReference(file[i])
                                                          /\ file[i].trade = u
                                     \/ HasReference(line) /\ t = u}
      BY <1>4, <3>1 DEF New
    <3> QED
      BY <1>1, <3>2, <3>3 DEF New
  <2>7. ASSUME ~HasReference(line) => ~Known(w),
               \A i \in 1 .. k : ~seen.skipped[i] =>
                   /\ HasReference(file[i]) /\ HasReference(line) => file[i].trade # t
                   /\ ~HasReference(line) => FingerprintOfLine(file[i]) # w
        PROVE  SeenOnce(file, k + 1, x)
    <3>1. /\ \A i \in 1 .. k : x.skipped[i] = seen.skipped[i]
          /\ ~x.skipped[k + 1]
      BY <1>3, <2>2 DEF sk
    <3>2. \A i \in 1 .. k + 1 : ~x.skipped[i] => FingerprintOfLine(file[i]) \in x.prints
      BY <1>2, <1>4, <2>2, <3>1 DEF SeenOnce
    <3>3. \A i \in 1 .. k + 1 : ~x.skipped[i] /\ ~HasReference(file[i]) => ~Known(FingerprintOfLine(file[i]))
      BY <1>2, <1>4, <2>7, <3>1 DEF SeenOnce
    <3>4. ASSUME NEW i \in 1 .. k + 1, NEW j \in 1 .. k + 1, ~x.skipped[i], ~x.skipped[j], i < j
          PROVE  /\ HasReference(file[i]) /\ HasReference(file[j]) => file[i].trade # file[j].trade
                 /\ ~HasReference(file[j]) => FingerprintOfLine(file[i]) # FingerprintOfLine(file[j])
      <4>1. i \in 1 .. k
        BY <3>4
      <4>2. CASE j \in 1 .. k
        BY <1>2, <3>1, <3>4, <4>1, <4>2 DEF SeenOnce
      <4>3. CASE j = k + 1
        BY <2>7, <3>1, <3>4, <4>1, <4>3
      <4> QED
        BY <1>4, <4>2, <4>3
    <3> QED
      BY <3>2, <3>3, <3>4 DEF SeenOnce
  <2>5. CASE HasReference(line)
    <3>1. ~IsBooked(t) /\ t \notin seen.refs /\ ~(seen.left[w] > 0)
      BY <1>8, <2>5 DEF Duplicate, Absorbed, IsBooked
    <3>2. SeenRefs(file, k + 1, x)
      BY <1>2, <1>4, <2>2, <2>4, <2>5, <3>1 DEF SeenRefs
    <3>3. SeenLeft(file, k + 1, x)
      <4> SUFFICES ASSUME NEW v \in Fingerprints
                   PROVE  /\ x.left[v] + Cardinality(Absorbs(file, k + 1, x, v)) = legacy[v]
                          /\ New(file, k + 1, x, v) # {} => x.left[v] = 0
        BY DEF SeenLeft
      <4>1. /\ seen.left[v] + Cardinality(Absorbs(file, k, seen, v)) = legacy[v]
            /\ New(file, k, seen, v) # {} => seen.left[v] = 0
            /\ New(file, k, seen, v) \subseteq seen.refs
        BY <1>2 DEF SeenLeft, SeenRefs
      <4>2. v # w => t \notin TradesWith(v)
        BY <1>1 DEF TradesWith
      <4>3. Absorbs(file, k + 1, x, v) = Absorbs(file, k, seen, v)
        BY <2>2, <2>4, <2>5, <3>1, <4>1, <4>2 DEF Absorbs
      <4>4. seen.left[v] \in Nat
        BY <1>2 DEF SeenTypes
      <4> QED
        BY <2>2, <2>4, <3>1, <4>1, <4>3, <4>4
    <3>4. SeenOnce(file, k + 1, x)
      <4>1. \A i \in 1 .. k : ~seen.skipped[i] /\ HasReference(file[i]) => file[i].trade # t
        <5> SUFFICES ASSUME NEW i \in 1 .. k, ~seen.skipped[i], HasReference(file[i]), file[i].trade = t
                     PROVE  FALSE
          OBVIOUS
        <5>1. t \in New(file, k, seen, w)
          BY <1>1 DEF New
        <5> QED
          BY <1>1, <1>2, <3>1, <5>1 DEF SeenRefs
      <4> QED
        BY <2>5, <2>7, <4>1
    <3> QED
      BY <2>3, <3>2, <3>3, <3>4 DEF SeenRight
  <2>6. CASE ~HasReference(line)
    <3>1. ~Known(w) /\ w \notin seen.prints
      BY <1>8, <2>6 DEF Duplicate
    <3>2. SeenRefs(file, k + 1, x)
      BY <1>2, <1>4, <2>2, <2>4, <2>6 DEF SeenRefs
    <3>3. SeenLeft(file, k + 1, x)
      BY <1>2, <2>2, <2>4, <2>6 DEF SeenLeft, Absorbs
    <3>4. SeenOnce(file, k + 1, x)
      <4>1. \A i \in 1 .. k : ~seen.skipped[i] => FingerprintOfLine(file[i]) # w
        BY <1>2, <3>1 DEF SeenOnce
      <4> QED
        BY <2>6, <2>7, <3>1, <4>1
    <3> QED
      BY <2>3, <3>2, <3>3, <3>4 DEF SeenRight
  <2> QED
    BY <2>5, <2>6
<1> QED
  BY <1>6, <1>7, <1>8

\* What the import knows when it has read a whole file.
LEMMA ImportReads ==
  ASSUME NEW file \in Seq(Lines), LedgerTypes
  PROVE  \E seen : SeenRight(file, Len(file), seen) /\ Skips(file) = seen.skipped
<1>1. PICK g : /\ g[0] = TakeStart
               /\ \A k \in 1 .. Len(file) : g[k] = Take(g[k - 1], file[k])
               /\ Skips(file) = g[Len(file)].skipped
  <2>1. "import" \in Readers
    BY DEF Readers
  <2> QED
    BY <2>1, ReadingsUnfold DEF Start, ReadLine
<1>2. Len(file) \in Nat
  BY LenProperties
<1>3. SeenRight(file, 0, TakeStart)
  <2>1. SeenTypes(TakeStart, 0)
    BY DEF SeenTypes, TakeStart, LedgerTypes
  <2>2. TakeStart.refs = {} /\ TakeStart.left = legacy
    BY DEF TakeStart
  <2>3. \A v : New(file, 0, TakeStart, v) = {}
    BY DEF New
  <2>4. \A v : Absorbs(file, 0, TakeStart, v) = {}
    BY <2>2 DEF Absorbs
  <2>5. SeenLeft(file, 0, TakeStart)
    <3>1. ASSUME NEW v \in Fingerprints
          PROVE  TakeStart.left[v] + Cardinality(Absorbs(file, 0, TakeStart, v)) = legacy[v]
      <4>1. Cardinality(Absorbs(file, 0, TakeStart, v)) = 0
        BY <2>4, FS_EmptySet
      <4>2. TakeStart.left[v] = legacy[v] /\ legacy[v] \in Nat
        BY <2>2 DEF LedgerTypes
      <4> QED
        BY <4>1, <4>2
    <3> QED
      BY <2>3, <3>1 DEF SeenLeft
  <2>6. SeenRefs(file, 0, TakeStart) /\ SeenOnce(file, 0, TakeStart)
    BY <2>2, <2>3 DEF SeenRefs, SeenOnce
  <2> QED
    BY <2>1, <2>5, <2>6 DEF SeenRight
<1> DEFINE Bad == {k \in 0 .. Len(file) : ~SeenRight(file, k, g[k])}
<1>4. Bad = {}
  <2>1. SUFFICES ASSUME Bad # {} PROVE FALSE
    OBVIOUS
  <2>2. PICK k \in Bad : \A y \in Bad : k <= y
    <3>1. Bad \in SUBSET Nat
      BY <1>2
    <3> HIDE DEF Bad
    <3> QED
      BY <2>1, <3>1, LeastOf
  <2>3. k # 0
    BY <1>1, <1>3, <2>2
  <2>4. k - 1 \in 0 .. Len(file) /\ ~(k <= k - 1) /\ k \in 1 .. Len(file) /\ k = (k - 1) + 1 /\ k - 1 \in Nat
    BY <1>2, <2>2, <2>3
  <2>5. SeenRight(file, k - 1, g[k - 1])
    BY <2>2, <2>4
  <2>6. SeenRight(file, k, g[k])
    <3> DEFINE h == k - 1
    <3>1. h \in Nat /\ h + 1 = k /\ SeenRight(file, h, g[h])
      BY <2>4, <2>5
    <3> HIDE DEF h
    <3>2. SeenRight(file, h + 1, Take(g[h], file[h + 1]))
      BY <2>4, <3>1, SeenStaysRight
    <3> QED
      BY <1>1, <2>4, <3>1, <3>2 DEF h
  <2> QED
    BY <2>2, <2>6
<1>5. SeenRight(file, Len(file), g[Len(file)])
  BY <1>2, <1>4
<1> QED
  BY <1>1, <1>5

\* The entries of trades of a fingerprint, one by one.
LEMMA BookedCounts ==
  ASSUME NEW b \in [Trades -> {0, 1}], NEW v
  PROVE  Total([t \in TradesWith(v) |-> b[t]]) = Cardinality(Ones(b, TradesWith(v)))
<1> DEFINE S == TradesWith(v)
           f == [t \in S |-> b[t]]
<1>1. S \in SUBSET Trades
  BY DEF TradesWith
<1>2. IsFiniteSet(S)
  BY <1>1, TradesFinite
<1>3. f \in [S -> {0, 1}] /\ \A t \in S : f[t] = b[t]
  BY <1>1
<1>4. Ones(f, S) = Ones(b, S)
  BY <1>3 DEF Ones
<1> HIDE DEF f, S
<1>5. Total(f) = Cardinality(Ones(f, S))
  BY <1>2, <1>3, SumCounts
<1> QED
  BY <1>4, <1>5 DEF f, S

\* An import adds at most one entry of a trade under its reference, and of the rows
\* without one at most one of each fingerprint.
LEMMA AddsOfTrade ==
  ASSUME NEW file \in Seq(Lines), NEW seen, SeenRight(file, Len(file), seen),
         Skips(file) = seen.skipped, NEW t \in Trades
  PROVE  Cardinality({k \in Additions(file) : HasReference(file[k]) /\ file[k].trade = t})
             = IF t \in New(file, Len(file), seen, FingerprintOf[t]) THEN 1 ELSE 0
<1> DEFINE A == {k \in Additions(file) : HasReference(file[k]) /\ file[k].trade = t}
<1>1. SeenOnce(file, Len(file), seen) /\ DOMAIN file = 1 .. Len(file) /\ Len(file) \in Nat
  BY LenProperties DEF SeenRight
<1>2. A = {k \in 1 .. Len(file) : ~seen.skipped[k] /\ HasReference(file[k]) /\ file[k].trade = t}
  BY <1>1 DEF Additions
<1>3. t \in TradesWith(FingerprintOf[t])
  BY DEF TradesWith
<1>4. A # {} <=> t \in New(file, Len(file), seen, FingerprintOf[t])
  BY <1>2, <1>3 DEF New
<1>5. ASSUME NEW k \in A, NEW m \in A PROVE ~(k < m)
  BY <1>1, <1>2 DEF SeenOnce
<1> HIDE DEF A
<1>6. ASSUME NEW k \in A, NEW m \in A PROVE k = m
  <2>1. k \in Nat /\ m \in Nat
    BY <1>1, <1>2
  <2> QED
    BY <1>5, <2>1
<1>7. A = {} \/ \E k \in A : A = {k}
  BY <1>6
<1>8. A = {} => Cardinality(A) = 0
  BY FS_EmptySet
<1>9. A # {} => Cardinality(A) = 1
  BY <1>7, FS_Singleton
<1> QED
  BY <1>4, <1>8, <1>9 DEF A

\* The rows without a reference that are added.
Plain(file, seen, v) ==
    {k \in 1 .. Len(file) : ~seen.skipped[k] /\ ~HasReference(file[k]) /\ FingerprintOfLine(file[k]) = v}

\* They are one at most.
LEMMA AddsOfValues ==
  ASSUME NEW file \in Seq(Lines), NEW seen, SeenRight(file, Len(file), seen),
         Skips(file) = seen.skipped, NEW v
  PROVE  Cardinality({k \in Additions(file) : ~HasReference(file[k]) /\ FingerprintOfLine(file[k]) = v})
             = IF Plain(file, seen, v) # {} THEN 1 ELSE 0
<1> DEFINE A == {k \in Additions(file) : ~HasReference(file[k]) /\ FingerprintOfLine(file[k]) = v}
<1>1. SeenOnce(file, Len(file), seen) /\ DOMAIN file = 1 .. Len(file) /\ Len(file) \in Nat
  BY LenProperties DEF SeenRight
<1>2. A = Plain(file, seen, v)
  BY <1>1 DEF Additions, Plain
<1>5. ASSUME NEW k \in A, NEW m \in A PROVE ~(k < m)
  BY <1>1, <1>2 DEF SeenOnce, Plain
<1> HIDE DEF A
<1>6. ASSUME NEW k \in A, NEW m \in A PROVE k = m
  <2>1. k \in Nat /\ m \in Nat
    BY <1>1, <1>2 DEF Plain
  <2> QED
    BY <1>5, <2>1
<1>7. A = {} \/ \E k \in A : A = {k}
  BY <1>6
<1>8. A = {} => Cardinality(A) = 0
  BY FS_EmptySet
<1>9. A # {} => Cardinality(A) = 1
  BY <1>7, FS_Singleton
<1> QED
  BY <1>2, <1>8, <1>9 DEF A

\* An import keeps the entries of each fingerprint within its trades.
LEMMA ImportKeepsCount ==
  ASSUME LedgerTypes, NeverOverbooked, NEW file \in Seq(Lines), SameKinds(file), ImportRows(file)
  PROVE  (LedgerTypes /\ NeverOverbooked)'
<1>1. PICK seen : SeenRight(file, Len(file), seen) /\ Skips(file) = seen.skipped
  BY ImportReads
<1> DEFINE n == Len(file)
           NewOf(v) == New(file, n, seen, v)
<1>2. /\ booked \in [Trades -> {0, 1}] /\ legacy \in [Fingerprints -> Nat]
      /\ DOMAIN file = 1 .. n /\ n \in Nat
      /\ \A i \in 1 .. n : file[i] \in Lines
  BY LenProperties, ElementOfSeq DEF LedgerTypes
<1>3. SeenTypes(seen, n) /\ SeenRefs(file, n, seen) /\ SeenLeft(file, n, seen) /\ SeenOnce(file, n, seen)
  BY <1>1 DEF SeenRight
<1> HIDE DEF n
<1>4. booked' = [t \in Trades |-> booked[t] + IF t \in NewOf(FingerprintOf[t]) THEN 1 ELSE 0]
  <2>1. \A t \in Trades : Cardinality({k \in Additions(file) : HasReference(file[k]) /\ file[k].trade = t})
             = IF t \in NewOf(FingerprintOf[t]) THEN 1 ELSE 0
    BY <1>1, AddsOfTrade DEF n
  <2> HIDE DEF NewOf
  <2> QED
    BY <2>1 DEF ImportRows
<1>5. legacy' = [v \in Fingerprints |-> legacy[v] + IF Plain(file, seen, v) # {} THEN 1 ELSE 0]
  <2>1. \A v : Cardinality({k \in Additions(file) : ~HasReference(file[k]) /\ FingerprintOfLine(file[k]) = v})
             = IF Plain(file, seen, v) # {} THEN 1 ELSE 0
    BY <1>1, AddsOfValues
  <2> QED
    BY <2>1 DEF ImportRows
<1>6. \A v \in Fingerprints : \A t \in NewOf(v) : booked[t] = 0 /\ t \in TradesWith(v) /\ t \in Trades
  <2> SUFFICES ASSUME NEW v \in Fingerprints, NEW t \in NewOf(v) PROVE booked[t] = 0 /\ t \in TradesWith(v) /\ t \in Trades
    OBVIOUS
  <2>1. t \in TradesWith(v) /\ t \in Trades
    BY DEF New, TradesWith
  <2>2. ~IsBooked(t)
    BY <1>3 DEF SeenRefs
  <2> QED
    BY <1>2, <2>1, <2>2 DEF IsBooked
<1>7. booked' \in [Trades -> {0, 1}] /\ legacy' \in [Fingerprints -> Nat]
  <2>1. ASSUME NEW t \in Trades PROVE (booked[t] + IF t \in NewOf(FingerprintOf[t]) THEN 1 ELSE 0) \in {0, 1}
    <3>1. FingerprintOf[t] \in Fingerprints /\ booked[t] \in {0, 1}
      BY <1>2 DEF Fingerprints
    <3>2. t \in NewOf(FingerprintOf[t]) => booked[t] = 0
      BY <1>6, <3>1
    <3> HIDE DEF NewOf
    <3> QED
      BY <3>1, <3>2
  <2> HIDE DEF NewOf
  <2> QED
    BY <1>2, <1>4, <1>5, <2>1
<1>8. ASSUME NEW v \in Fingerprints
      PROVE  legacy'[v] + Cardinality(Ones(booked', TradesWith(v))) <= Cardinality(TradesWith(v))
  <2> DEFINE T == TradesWith(v)
             B == Ones(booked, T)
             N == NewOf(v)
             U == Absorbs(file, n, seen, v)
  <2>1. T \in SUBSET Trades /\ B \in SUBSET T /\ N \in SUBSET T /\ U \in SUBSET T
    BY DEF TradesWith, Ones, New, Absorbs
  <2>2. B \cap N = {} /\ B \cap U = {} /\ N \cap U = {}
    <3>1. B \cap N = {}
      BY <1>6 DEF Ones
    <3>2. N \cap U = {}
      BY DEF Absorbs
    <3>3. ASSUME NEW t \in U PROVE t \notin B
      <4>1. ~IsBooked(t)
        BY <1>3 DEF SeenRefs, Absorbs
      <4> QED
        BY <4>1 DEF Ones, IsBooked
    <3> QED
      BY <3>1, <3>2, <3>3
  <2>3. Ones(booked', T) = B \cup N
    <3>1. \A t \in T : t \in Trades /\ FingerprintOf[t] = v
      BY DEF TradesWith
    <3>2. \A t \in T : booked'[t] = booked[t] + IF t \in N THEN 1 ELSE 0
      <4> HIDE DEF NewOf, T
      <4> QED
        BY <1>4, <3>1
    <3>3. \A t \in T : booked[t] \in {0, 1} /\ (t \in N => booked[t] = 0)
      BY <1>2, <1>6, <3>1
    <3> HIDE DEF N, T
    <3>4. \A t \in T : booked'[t] = 1 <=> booked[t] = 1 \/ t \in N
      BY <3>2, <3>3
    <3> QED
      BY <2>1, <3>4 DEF Ones
  <2>4. /\ IsFiniteSet(T) /\ IsFiniteSet(B) /\ IsFiniteSet(N) /\ IsFiniteSet(U)
        /\ Cardinality(T) \in Nat /\ Cardinality(B) \in Nat /\ Cardinality(N) \in Nat /\ Cardinality(U) \in Nat
    <3> HIDE DEF T, B, N, U
    <3> QED
      BY <2>1, TradesFinite
  <2>5. Cardinality(B \cup N) = Cardinality(B) + Cardinality(N)
    <3> HIDE DEF T, B, N, U
    <3>1. Cardinality(B \cup N) = Cardinality(B) + Cardinality(N) - Cardinality(B \cap N)
      BY <2>4, FS_Union
    <3>2. Cardinality(B \cap N) = 0
      BY <2>2, FS_EmptySet
    <3> QED
      BY <2>4, <3>1, <3>2
  <2>6. CASE Plain(file, seen, v) # {}
    <3>1. PICK k \in 1 .. n : ~seen.skipped[k] /\ ~HasReference(file[k]) /\ FingerprintOfLine(file[k]) = v
      BY <2>6 DEF Plain, n
    <3> DEFINE p == file[k].trade
    <3>2. ~Known(v)
      BY <1>3, <3>1 DEF SeenOnce
    <3>3. legacy[v] = 0 /\ B = {}
      BY <1>2, <3>2 DEF Known, Ones
    <3>4. p \in T
      BY <1>2, <3>1 DEF TradesWith, FingerprintOfLine, Lines
    <3>5. p \notin N
      BY <1>2, <3>1 DEF New, SameKinds, HasReference
    <3>6. legacy'[v] = 1
      BY <1>5, <2>6, <3>3
    <3> HIDE DEF T, B, N, U, p
    <3>7. Cardinality(N \cup {p}) = Cardinality(N) + 1
      BY <2>1, <3>4, <3>5, OneMore
    <3>8. Cardinality(N \cup {p}) <= Cardinality(T)
      <4>1. N \cup {p} \in SUBSET T
        BY <2>1, <3>4
      <4> QED
        BY <2>4, <4>1, FS_Subset
    <3>9. Cardinality(B) = 0
      BY <3>3, FS_EmptySet
    <3>10. legacy'[v] + Cardinality(B \cup N) <= Cardinality(T)
      BY <2>4, <2>5, <3>6, <3>7, <3>8, <3>9
    <3> QED
      BY <2>3, <3>10 DEF T
  <2>7. CASE Plain(file, seen, v) = {}
    <3>1. legacy'[v] = legacy[v] /\ legacy[v] \in Nat
      BY <1>2, <1>5, <2>7
    <3>2. /\ seen.left[v] + Cardinality(U) = legacy[v]
          /\ N # {} => seen.left[v] = 0
      BY <1>3 DEF SeenLeft
    <3>3. CASE N = {}
      <4>1. legacy[v] + Cardinality(B) <= Cardinality(T)
        BY <1>2, BookedCounts DEF NeverOverbooked
      <4>2. B \cup N = B
        BY <3>3
      <4> HIDE DEF T, B, N, U
      <4>3. legacy'[v] + Cardinality(B \cup N) <= Cardinality(T)
        BY <3>1, <4>1, <4>2
      <4> QED
        BY <2>3, <4>3 DEF T
    <3>4. CASE N # {}
      <4> HIDE DEF T, B, N, U
      <4>1. seen.left[v] = 0 /\ Cardinality(U) = legacy[v]
        BY <2>4, <3>2, <3>4
      <4>2. Cardinality((B \cup N) \cup U) = Cardinality(B \cup N) + Cardinality(U) - Cardinality((B \cup N) \cap U)
        <5>1. IsFiniteSet(B \cup N)
          BY <2>4, FS_Union
        <5> QED
          BY <2>4, <5>1, FS_Union
      <4>3. Cardinality((B \cup N) \cap U) = 0
        <5>1. (B \cup N) \cap U = {}
          BY <2>2
        <5> QED
          BY <5>1, FS_EmptySet
      <4>4. Cardinality((B \cup N) \cup U) <= Cardinality(T)
        <5>1. (B \cup N) \cup U \in SUBSET T
          BY <2>1
        <5> QED
          BY <2>4, <5>1, FS_Subset
      <4>5. legacy'[v] + Cardinality(B \cup N) <= Cardinality(T)
        BY <2>4, <2>5, <3>1, <4>1, <4>2, <4>3, <4>4
      <4> QED
        BY <2>3, <4>5 DEF T
    <3> QED
      BY <3>3, <3>4
  <2> QED
    BY <2>6, <2>7
<1>9. NeverOverbooked'
  <2>1. \A v : Total([t \in TradesWith(v) |-> booked'[t]]) = Cardinality(Ones(booked', TradesWith(v)))
    BY <1>7, BookedCounts
  <2> QED
    BY <1>8, <2>1 DEF NeverOverbooked
<1> QED
  BY <1>7, <1>9 DEF LedgerTypes

\* The chosen rows are rows of the review.
LEMMA RanksReached ==
  ASSUME NEW n \in Nat, NEW C \in SUBSET (1 .. n), NEW k \in 1 .. Cardinality(C)
  PROVE  \E i \in C : Cardinality({j \in C : j <= i}) = k
<1> DEFINE below(i) == {j \in C : j <= i}
           rank == [i \in C |-> Cardinality(below(i))]
           m == Cardinality(C)
<1>1. IsFiniteSet(C) /\ m \in Nat
  <2>1. IsFiniteSet(1 .. n)
    BY FS_Interval
  <2> QED
    BY <2>1, FS_Subset, FS_CardinalityType
<1>2. ASSUME NEW i \in C
      PROVE  /\ below(i) \in SUBSET C /\ i \in below(i) /\ IsFiniteSet(below(i))
             /\ Cardinality(below(i)) \in 1 .. m
  <2>1. below(i) \in SUBSET C /\ i \in below(i)
    OBVIOUS
  <2> HIDE DEF below
  <2>2. IsFiniteSet(below(i)) /\ Cardinality(below(i)) <= m
    BY <1>1, <2>1, FS_Subset
  <2>3. Cardinality(below(i)) \in Nat /\ Cardinality(below(i)) # 0
    BY <2>1, <2>2, FS_CardinalityType, FS_EmptySet
  <2> QED
    BY <1>1, <2>1, <2>2, <2>3
<1>3. ASSUME NEW i \in C, NEW j \in C, i < j PROVE Cardinality(below(i)) # Cardinality(below(j))
  <2>0. \A a \in C : a \in Int
    OBVIOUS
  <2>1. below(i) \in SUBSET below(j) /\ j \notin below(i) /\ j \in below(j)
    <3>1. \A a \in C : a <= i => a <= j
      BY <1>3, <2>0
    <3>2. ~(j <= i) /\ j <= j
      BY <1>3, <2>0
    <3> QED
      BY <3>1, <3>2
  <2> HIDE DEF below
  <2> QED
    BY <1>2, <2>1, FS_Subset
<1>4. rank \in Injection(C, 1 .. m)
  <2>1. rank \in [C -> 1 .. m]
    BY <1>2
  <2>2. ASSUME NEW i \in C, NEW j \in C, rank[i] = rank[j] PROVE i = j
    <3>1. Cardinality(below(i)) = Cardinality(below(j))
      BY <2>2
    <3> HIDE DEF below
    <3> QED
      BY <1>3, <3>1
  <2>3. IsInjective(rank)
    BY <2>2 DEF IsInjective
  <2> QED
    BY <2>1, <2>3 DEF Injection
<1>5. IsFiniteSet(1 .. m) /\ Cardinality(1 .. m) = m
  BY <1>1, FS_Interval
<1> HIDE DEF rank, m
<1>6. rank \in Surjection(C, 1 .. m)
  BY <1>4, <1>5, FS_Injection DEF m
<1>7. \E i \in C : rank[i] = k
  BY <1>6 DEF Surjection, m
<1> QED
  BY <1>7 DEF rank

\* So the import of the chosen rows is the import of a file like the reviewed one.
LEMMA ChosenAreRows ==
  ASSUME NEW file \in Seq(Lines), SameKinds(file), review.rows = file,
         review.chosen \in SUBSET DOMAIN file
  PROVE  Chosen \in Seq(Lines) /\ SameKinds(Chosen)
<1> DEFINE C == review.chosen
           m == Cardinality(C)
           at(k) == CHOOSE i \in C : Cardinality({j \in C : j <= i}) = k
<1>1. DOMAIN file = 1 .. Len(file) /\ Len(file) \in Nat
  BY LenProperties
<1>2. m \in Nat
  <2>1. IsFiniteSet(1 .. Len(file)) /\ C \in SUBSET (1 .. Len(file))
    BY <1>1, FS_Interval
  <2> QED
    BY <2>1, FS_Subset, FS_CardinalityType
<1>3. ASSUME NEW k \in 1 .. m PROVE at(k) \in C
  BY <1>1, RanksReached
<1>4. Chosen = [k \in 1 .. m |-> file[at(k)]]
  BY DEF Chosen
<1> HIDE DEF m, at
<1>5. \A k \in 1 .. m : file[at(k)] \in Lines
  BY <1>1, <1>3, ElementOfSeq
<1>6. Chosen \in [1 .. m -> Lines]
  BY <1>4, <1>5
<1>7. Chosen \in Seq(Lines)
  BY <1>2, <1>6, SeqDef
<1>8. SameKinds(Chosen)
  BY <1>3, <1>4 DEF SameKinds
<1> QED
  BY <1>7, <1>8

\* The open review is of a file, and the rows chosen are rows of it.
ReviewTypes ==
    review # NoReview => /\ review = [rows |-> review.rows, fresh |-> review.fresh, chosen |-> review.chosen]
                         /\ review.rows \in Exports
                         /\ review.chosen \in SUBSET DOMAIN review.rows

\* A review that the ledger leaves behind stays one.
LEMMA ReviewStaysTyped ==
  ASSUME ReviewTypes, review' = Stale
  PROVE  ReviewTypes'
<1>1. CASE review = NoReview
  BY <1>1 DEF Stale, ReviewTypes
<1>2. CASE review # NoReview
  <2>1. review' = [rows |-> review.rows, fresh |-> FALSE, chosen |-> review.chosen]
    BY <1>2 DEF Stale, ReviewTypes
  <2> DEFINE no == FALSE
  <2> HIDE DEF no
  <2>2. review' = [rows |-> review.rows, fresh |-> no, chosen |-> review.chosen]
    BY <2>1 DEF no
  <2>3. /\ review'.rows = review.rows /\ review'.chosen = review.chosen
        /\ review' = [rows |-> review'.rows, fresh |-> review'.fresh, chosen |-> review'.chosen]
    BY <2>2
  <2> QED
    BY <1>2, <2>3 DEF ReviewTypes
<1> QED
  BY <1>1, <1>2

CountInv == LedgerTypes /\ NeverOverbooked

\* The steps by hand.
LEMMA HandKeepsCount ==
  ASSUME CountInv, NEW v \in Fingerprints, BookByHand(v) \/ DeleteLegacy(v)
  PROVE  CountInv'
<1>1. booked' = booked /\ booked \in [Trades -> {0, 1}] /\ legacy \in [Fingerprints -> Nat]
  BY DEF CountInv, LedgerTypes, BookByHand, DeleteLegacy
<1> DEFINE total(u) == Total([t \in TradesWith(u) |-> booked[t]])
           limit(u) == Cardinality(TradesWith(u))
<1>2. \A u : total(u) \in Nat /\ limit(u) \in Nat
  <2> TAKE u
  <2>1. Ones(booked, TradesWith(u)) \in SUBSET Trades /\ TradesWith(u) \in SUBSET Trades
    BY DEF Ones, TradesWith
  <2> QED
    BY <1>1, <2>1, BookedCounts, TradesFinite
<1>3. \A u \in Fingerprints : legacy[u] + total(u) <= limit(u)
  BY DEF CountInv, NeverOverbooked
<1>4. NeverOverbooked' <=> \A u \in Fingerprints : legacy'[u] + total(u) <= limit(u)
  BY <1>1 DEF NeverOverbooked
<1>5. \/ legacy[v] + total(v) < limit(v) /\ legacy' = [legacy EXCEPT ![v] = @ + 1]
      \/ legacy[v] > 0 /\ legacy' = [legacy EXCEPT ![v] = @ - 1]
  BY DEF BookByHand, DeleteLegacy
<1> HIDE DEF total, limit
<1>6. legacy' \in [Fingerprints -> Nat]
  BY <1>1, <1>5
<1>7. \A u \in Fingerprints : legacy'[u] + total(u) <= limit(u)
  <2> TAKE u \in Fingerprints
  <2>1. CASE u # v
    <3>1. legacy'[u] = legacy[u]
      BY <1>1, <1>5, <2>1
    <3> QED
      BY <1>3, <3>1
  <2>2. CASE u = v
    <3>1. legacy[v] \in Nat
      BY <1>1
    <3>2. \/ legacy[v] + total(v) < limit(v) /\ legacy'[v] = legacy[v] + 1
          \/ legacy'[v] = legacy[v] - 1
      BY <1>1, <1>5
    <3>3. legacy[v] + total(v) <= limit(v)
      BY <1>3
    <3>4. legacy'[v] + total(v) <= limit(v)
      BY <1>2, <3>1, <3>2, <3>3
    <3> QED
      BY <2>2, <3>4
  <2> QED
    BY <2>1, <2>2
<1> QED
  BY <1>1, <1>4, <1>6, <1>7 DEF CountInv, LedgerTypes

\* An entry deleted.
LEMMA DeleteKeepsCount ==
  ASSUME CountInv, NEW t \in Trades, DeleteBooked(t)
  PROVE  CountInv'
<1>1. /\ booked \in [Trades -> {0, 1}] /\ legacy' = legacy /\ legacy \in [Fingerprints -> Nat]
      /\ booked[t] > 0 /\ booked' = [booked EXCEPT ![t] = @ - 1]
  BY DEF CountInv, LedgerTypes, DeleteBooked
<1>2. booked' \in [Trades -> {0, 1}]
  BY <1>1
<1>3. ASSUME NEW v \in Fingerprints
      PROVE  legacy'[v] + Total([u \in TradesWith(v) |-> booked'[u]]) <= Cardinality(TradesWith(v))
  <2> DEFINE old == Ones(booked, TradesWith(v))
             new == Ones(booked', TradesWith(v))
  <2>1. new \in SUBSET old
    BY <1>1, <1>2 DEF Ones, TradesWith
  <2>2. old \in SUBSET Trades /\ TradesWith(v) \in SUBSET Trades
    BY DEF Ones, TradesWith
  <2> HIDE DEF old, new
  <2>3. /\ IsFiniteSet(old) /\ Cardinality(old) \in Nat /\ Cardinality(new) \in Nat
        /\ Cardinality(TradesWith(v)) \in Nat
    BY <2>1, <2>2, TradesFinite
  <2>4. Cardinality(new) <= Cardinality(old)
    BY <2>1, <2>3, FS_Subset
  <2>5. legacy[v] + Cardinality(old) <= Cardinality(TradesWith(v))
    BY <1>1, BookedCounts DEF CountInv, NeverOverbooked, old
  <2>6. legacy[v] \in Nat
    BY <1>1
  <2>7. legacy'[v] + Cardinality(new) <= Cardinality(TradesWith(v))
    BY <1>1, <2>3, <2>4, <2>5, <2>6
  <2>8. Total([u \in TradesWith(v) |-> booked'[u]]) = Cardinality(new)
    BY <1>2, BookedCounts DEF new
  <2> QED
    BY <2>7, <2>8
<1> QED
  BY <1>1, <1>2, <1>3 DEF CountInv, LedgerTypes, NeverOverbooked

MatchInv == CountInv /\ ReviewTypes

\* Every step of the import, the review and the panel.
LEMMA MatchStaysRight ==
  ASSUME \A file \in Exports : SameKinds(file), MatchInv, [ImportNext]_importVars
  PROVE  MatchInv'
<1>0. CountInv /\ ReviewTypes
  BY DEF MatchInv
<1>e. \A file \in Exports : file \in Seq(Lines) /\ SameKinds(file)
  BY ExportAssumption
<1>1. ASSUME NEW v \in Fingerprints, BookByHand(v) \/ DeleteLegacy(v) PROVE MatchInv'
  <2>1. review' = Stale
    BY <1>1 DEF BookByHand, DeleteLegacy
  <2> QED
    BY <1>0, <1>1, <2>1, HandKeepsCount, ReviewStaysTyped DEF MatchInv
<1>2. ASSUME NEW t \in Trades, DeleteBooked(t) PROVE MatchInv'
  <2>1. review' = Stale
    BY <1>2 DEF DeleteBooked
  <2> QED
    BY <1>0, <1>2, <2>1, DeleteKeepsCount, ReviewStaysTyped DEF MatchInv
<1>3. ASSUME UNCHANGED <<booked, legacy>> PROVE CountInv'
  BY <1>0, <1>3 DEF CountInv, LedgerTypes, NeverOverbooked
<1>4. ASSUME NEW file \in Exports, Preview(file) PROVE MatchInv'
  <2> DEFINE yes == TRUE
             c == {k \in DOMAIN file : Complete(file[k]) /\ ~Flags(file)[k]}
  <2>1. review' = [rows |-> file, fresh |-> yes, chosen |-> c] /\ UNCHANGED <<booked, legacy>>
    BY <1>4 DEF Preview
  <2>2. c \in SUBSET DOMAIN file
    OBVIOUS
  <2> HIDE DEF yes, c
  <2>3. ReviewTypes'
    BY <2>1, <2>2 DEF ReviewTypes
  <2> QED
    BY <1>3, <2>1, <2>3 DEF MatchInv
<1>5. ASSUME NEW file \in Seq(Lines), SameKinds(file), ImportRows(file) PROVE CountInv'
  BY <1>0, <1>5, ImportKeepsCount DEF CountInv
<1>6. ASSUME NEW file \in Exports, BulkImport(file) PROVE MatchInv'
  <2>1. review' = Stale /\ ImportRows(file)
    BY <1>6 DEF BulkImport
  <2> QED
    BY <1>0, <1>e, <1>5, <2>1, ReviewStaysTyped DEF MatchInv
<1>7. ASSUME NEW k, Unselect(k) PROVE MatchInv'
  <2>1. /\ review # NoReview /\ review' = [review EXCEPT !.chosen = @ \ {k}]
        /\ UNCHANGED <<booked, legacy>>
    BY <1>7 DEF Unselect
  <2>2. /\ review = [rows |-> review.rows, fresh |-> review.fresh, chosen |-> review.chosen]
        /\ review.rows \in Exports /\ review.chosen \in SUBSET DOMAIN review.rows
    BY <1>0, <2>1 DEF ReviewTypes
  <2>3. review' = [rows |-> review.rows, fresh |-> review.fresh, chosen |-> review.chosen \ {k}]
    BY <2>1, <2>2
  <2>4. ReviewTypes'
    BY <2>2, <2>3 DEF ReviewTypes
  <2> QED
    BY <1>3, <2>1, <2>4 DEF MatchInv
<1>8. ASSUME Confirm PROVE MatchInv'
  <2>1. review # NoReview /\ ImportRows(Chosen) /\ review' = NoReview
    BY <1>8 DEF Confirm
  <2>2. review.rows \in Exports /\ review.chosen \in SUBSET DOMAIN review.rows
    BY <1>0, <2>1 DEF ReviewTypes
  <2>3. Chosen \in Seq(Lines) /\ SameKinds(Chosen)
    BY <1>e, <2>2, ChosenAreRows
  <2> QED
    BY <1>5, <2>1, <2>3 DEF MatchInv, ReviewTypes
<1>9. ASSUME Discard PROVE MatchInv'
  BY <1>3, <1>9 DEF Discard, MatchInv, ReviewTypes
<1>10. ASSUME UNCHANGED importVars PROVE MatchInv'
  BY <1>0, <1>3, <1>10 DEF importVars, MatchInv, ReviewTypes
<1> QED
  BY <1>1, <1>2, <1>4, <1>6, <1>7, <1>8, <1>9, <1>10 DEF ImportNext

\* An empty ledger and no review.
LEMMA MatchAtFirst ==
  ASSUME ImportInit
  PROVE  MatchInv
<1>1. LedgerTypes /\ ReviewTypes
  BY DEF ImportInit, LedgerTypes, ReviewTypes
<1>2. ASSUME NEW v \in Fingerprints
      PROVE  legacy[v] + Total([t \in TradesWith(v) |-> booked[t]]) <= Cardinality(TradesWith(v))
  <2>1. Ones(booked, TradesWith(v)) = {}
    BY DEF ImportInit, Ones, TradesWith
  <2>2. Total([t \in TradesWith(v) |-> booked[t]]) = 0
    BY <1>1, <2>1, BookedCounts, FS_EmptySet DEF LedgerTypes
  <2>3. Cardinality(TradesWith(v)) \in Nat /\ legacy[v] = 0
    BY TradesFinite DEF TradesWith, ImportInit
  <2> QED
    BY <2>2, <2>3
<1> QED
  BY <1>1, <1>2 DEF MatchInv, CountInv, NeverOverbooked

(* Whatever is imported, again, in parts, with ids or without, confirmed   *)
(* from a review or sent by an automation, and whatever is booked and      *)
(* deleted in between: there are never more entries of a fingerprint than  *)
(* trades, and an open review flags what an import of its file would skip; *)
(* if no file lists one trade both with its ids and without them.          *)
THEOREM ImportIsExact ==
  (\A file \in Exports : SameKinds(file)) => (ImportSpec => []ImportExact)
<1> SUFFICES ASSUME \A file \in Exports : SameKinds(file)
             PROVE  ImportSpec => []ImportExact
  OBVIOUS
<1>1. ImportInit => MatchInv
  BY MatchAtFirst
<1>2. MatchInv /\ [ImportNext]_importVars => MatchInv'
  BY MatchStaysRight
<1>3. MatchInv => ImportExact
  BY ExportAssumption, ReviewMirrorsImport DEF MatchInv, CountInv, ReviewTypes, ImportExact
<1> QED
  BY <1>1, <1>2, <1>3, PTL DEF ImportSpec
=============================================================================
