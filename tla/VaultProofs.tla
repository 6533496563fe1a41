---------------------------- MODULE VaultProofs ----------------------------
(***************************************************************************)
(* Theorems about module Vault, for any users, slots, passwords and keys.  *)
(*                                                                         *)
(* The invariant is inductive only with the discipline of the lock (a      *)
(* request past its first step holds it, unless it is a key request, which *)
(* takes no lock) and with what each step may rely on.                     *)
(***************************************************************************)
EXTENDS Vault, TLAPS

KeySteps == {"key", "keywrite", "keyset"}
Creators == {"first", "init", "enable", "setup"}

\* A request between its first step and its answer is at the head of the queue.
InLock(s) == task[s].op # "key" /\ task[s].at \notin {"idle", "lock", "reload"}
MutualExclusion == \A s \in Slots : InLock(s) => Holds(s)

\* What the code between two awaits found out still holds after the await.
FactsOf(s) ==
    /\ task[s].op = "key" => task[s].at \in KeySteps
    /\ task[s].at \in KeySteps =>
          task[s].op \in Creators \cup {"unlock", "change", "key"}
    /\ task[s].at = "keyset" => task[s].got \in Keys
    /\ task[s].at = "wrap" => task[s].op \in Creators /\ ram.secret # None
    /\ task[s].at = "open" => ram.secret # None
    /\ task[s].at = "fifo" => ~ ram.locked
    /\ task[s].at = "seal" => ram.env \in Envelopes
    /\ task[s].op \in Creators \cup {"unlock", "change"} => task[s].pw \in Passwords
    /\ task[s].op = "change" => task[s].new \in Passwords
StepFacts == \A s \in Slots : FactsOf(s)

IInv == TypeOK /\ MutualExclusion /\ StepFacts /\ LockedHoldsNoPlaintext

-----------------------------------------------------------------------------
(* The initial state *)

LEMMA InitEstablishes == Init => IInv
<1> SUFFICES ASSUME Init PROVE IInv
  OBVIOUS
<1> USE DEF Init
<1>1. ram = FreshRam /\ queue = <<>> /\ \A s \in Slots : task[s] = Idle
  OBVIOUS
<1>2. TypeOK
  <2>1. disk \in Files /\ keyFile \in {None}
    BY DEF Files
  <2>2. ram \in RamStates
    BY VersionAssumption DEF FreshRam, RamStates, Modes, Versions, Stray
  <2>3. task \in [Slots -> TaskStates]
    BY DEF Idle, TaskStates, Ops, Steps
  <2>4. requested \in Modes /\ handoff \in Passwords \cup {None}
    BY DEF Modes
  <2>5. acked \in Versions
    BY VersionAssumption DEF Versions, Stray
  <2>6. session \in [Users -> SessionStates]
    BY DEF NoSessions, SessionStates
  <2>7. queue \in Seq(Slots)
    BY <1>1
  <2>8. up \in BOOLEAN /\ allowed \in SUBSET Users
    OBVIOUS
  <2> HIDE DEF Init
  <2> QED
    BY <2>1, <2>2, <2>3, <2>4, <2>5, <2>6, <2>7, <2>8 DEF TypeOK
<1>3. MutualExclusion
  BY <1>1 DEF MutualExclusion, InLock, Idle
<1>4. StepFacts
  BY <1>1 DEF StepFacts, FactsOf, Idle, KeySteps, Creators
<1>5. LockedHoldsNoPlaintext
  BY <1>1 DEF LockedHoldsNoPlaintext, FreshRam
<1> QED
  BY <1>2, <1>3, <1>4, <1>5 DEF IInv

-----------------------------------------------------------------------------
(* Types *)

\* The values of fresh objects are of their types.
LEMMA FreshTypes ==
  /\ FreshRam \in RamStates /\ Idle \in TaskStates
  /\ NoSessions \in [Users -> SessionStates]
  /\ 0 \in Versions /\ Stray \in Versions
  BY VersionAssumption DEF FreshRam, RamStates, Modes, Versions, Stray, Idle, TaskStates,
     Ops, Steps, NoSessions, SessionStates

\* Sessions keep their type whatever is done to them.
LEMMA SessionTypes ==
  ASSUME NEW sess \in [Users -> SessionStates], NEW u \in Users
  PROVE  /\ AllExpired(sess) \in [Users -> SessionStates]
         /\ Expired(sess, u) \in [Users -> SessionStates]
         /\ MarkUnlocked(sess, u) \in [Users -> SessionStates]
         /\ NoSessions \in [Users -> SessionStates]
         /\ \A d \in SessionStates : [sess EXCEPT ![u] = d] \in [Users -> SessionStates]
  BY DEF SessionStates, AllExpired, Expired, MarkUnlocked, NoSessions

\* Ending, moving or starting a request keeps the type of task and queue.
LEMMA TaskTypes ==
  ASSUME TypeOK, NEW s \in Slots
  PROVE  /\ End(s) => task' \in [Slots -> TaskStates]
         /\ \A step \in Steps : GoTo(s, step) => task' \in [Slots -> TaskStates]
         /\ Release(s) /\ (task[s].op = "key" \/ Holds(s)) => queue' \in Seq(Slots)
  <1>1. Idle \in TaskStates
    BY DEF Idle, TaskStates, Ops, Steps
  <1>2. End(s) => task' \in [Slots -> TaskStates]
    BY <1>1 DEF End, TypeOK
  <1>3. \A step \in Steps : GoTo(s, step) => task' \in [Slots -> TaskStates]
    BY DEF GoTo, TypeOK, TaskStates
  <1>4. Release(s) /\ (task[s].op = "key" \/ Holds(s)) => queue' \in Seq(Slots)
    BY DEF Release, Holds, TypeOK
  <1> QED
    BY <1>2, <1>3, <1>4

LEMMA TaskFieldTypes ==
  ASSUME NEW r \in TaskStates, NEW step \in Steps
  PROVE  /\ \A op \in Ops : [r EXCEPT !.op = op, !.at = step] \in TaskStates
         /\ \A k \in Keys \cup {None} : [r EXCEPT !.at = step, !.got = k] \in TaskStates
  BY DEF TaskStates

LEMMA RequestTypes ==
  ASSUME TypeOK, NEW s \in Slots, NEW op \in Ops, NEW u \in Users \cup {None},
         NEW p \in Passwords \cup {None}, NEW q \in Passwords \cup {None},
         Request(s, op, u, p, q)
  PROVE  task' \in [Slots -> TaskStates] /\ queue' \in Seq(Slots)
  BY DEF Request, TypeOK, TaskStates, Steps

LEMMA RaiseTypes ==
  ASSUME TypeOK, NEW s \in Slots, Raise(s), task[s].op = "key" \/ Holds(s)
  PROVE  TypeOK'
  <1>1. task' \in [Slots -> TaskStates] /\ queue' \in Seq(Slots)
    BY TaskTypes DEF Raise, End
  <1> QED
    BY <1>1 DEF Raise, TypeOK, files, config

LEMMA TypesPreserved == IInv /\ [Next]_vars => TypeOK'
<1> SUFFICES ASSUME IInv, [Next]_vars PROVE TypeOK'
  OBVIOUS
<1> USE DEF IInv
<1>1. ASSUME NEW s \in Slots, Requests(s) PROVE TypeOK'
  <2>1. ASSUME NEW u \in Users, NEW p \in Passwords, RequestUnlock(s, u, p) PROVE TypeOK'
    BY <2>1, RequestTypes DEF RequestUnlock, Request, TypeOK, Ops, files, config
  <2>2. ASSUME NEW p \in Passwords, RequestEnable(s, p) PROVE TypeOK'
    <3>1. \E op \in Ops : Request(s, op, Owner, p, None) /\ UNCHANGED session
      BY <2>2 DEF RequestEnable, Ops
    <3> QED
      BY <3>1, RequestTypes, OwnerAssumption DEF Request, TypeOK, files, config
  <2>3. ASSUME RequestDisable(s) PROVE TypeOK'
    BY <2>3, RequestTypes, OwnerAssumption
       DEF RequestDisable, Request, TypeOK, Ops, files, config
  <2>4. ASSUME NEW p \in Passwords, NEW q \in Passwords, RequestChange(s, p, q)
        PROVE TypeOK'
    BY <2>4, RequestTypes, OwnerAssumption
       DEF RequestChange, Request, TypeOK, Ops, files, config
  <2>5. ASSUME NEW u \in Users, RequestLock(s, u) PROVE TypeOK'
    <3>1. session' \in [Users -> SessionStates]
      BY <2>5, SessionTypes DEF RequestLock, TypeOK, SessionStates
    <3>2. CASE Request(s, "lock", u, None, None)
      BY <3>1, <3>2, RequestTypes DEF Request, TypeOK, Ops, files, config
    <3>3. CASE UNCHANGED <<files, config, ram, queue, task, acked>>
      BY <3>1, <3>3 DEF TypeOK, files, config
    <3> QED
      BY <2>5, <3>2, <3>3 DEF RequestLock
  <2>6. ASSUME NEW u \in Users, NEW op \in {"write", "structure"}, RequestWrite(s, u, op)
        PROVE TypeOK'
    BY <2>6, RequestTypes DEF RequestWrite, Request, TypeOK, Ops, files, config
  <2>7. ASSUME RequestKey(s) PROVE TypeOK'
    <3>1. [Idle EXCEPT !.op = "key", !.at = "key"] \in TaskStates
      BY DEF Idle, TaskStates, Ops, Steps
    <3> QED
      BY <2>7, <3>1 DEF RequestKey, TypeOK, files, config
  <2> QED
    BY <1>1, <2>1, <2>2, <2>3, <2>4, <2>5, <2>6, <2>7 DEF Requests
<1>2. ASSUME NEW s \in Slots, TimerFires(s) PROVE TypeOK'
  <2>1. session' \in [Users -> SessionStates]
    BY <1>2, SessionTypes, OwnerAssumption DEF TimerFires, TypeOK
  <2>2. CASE Request(s, "lock", None, None, None)
    BY <2>1, <2>2, RequestTypes DEF Request, TypeOK, Ops, files, config
  <2>3. CASE UNCHANGED <<files, config, ram, queue, task, acked>>
    BY <2>1, <2>3 DEF TypeOK, files, config
  <2> QED
    BY <1>2, <2>2, <2>3 DEF TimerFires
<1>3. ASSUME Sessions PROVE TypeOK'
  <2>1. session' \in [Users -> SessionStates] /\ allowed' \in SUBSET Users
    <3>1. ASSUME NEW u \in Users, DeadlinePasses(u) \/ ObserveSession(u) \/ ConfigureAutoLock(u)
          PROVE  session' \in [Users -> SessionStates] /\ allowed' = allowed
      <4>1. CASE DeadlinePasses(u)
        BY <4>1 DEF DeadlinePasses, TypeOK, SessionStates, config
      <4>2. CASE ObserveSession(u)
        BY <4>2, SessionTypes DEF ObserveSession, TypeOK, config
      <4>3. CASE ConfigureAutoLock(u)
        BY <4>3 DEF ConfigureAutoLock, TypeOK, SessionStates, config
      <4> QED
        BY <3>1, <4>1, <4>2, <4>3
    <3>2. ASSUME NEW S \in SUBSET Users, SetAllowedUsers(S)
          PROVE  session' \in [Users -> SessionStates] /\ allowed' \in SUBSET Users
      BY <3>2, OwnerAssumption DEF SetAllowedUsers, TypeOK, SessionStates
    <3> QED
      BY <1>3, <3>1, <3>2 DEF Sessions, TypeOK
  <2>2. UNCHANGED <<disk, keyFile, requested, handoff, up, ram, queue, task, acked>>
    BY <1>3 DEF Sessions, DeadlinePasses, ObserveSession, ConfigureAutoLock,
       SetAllowedUsers, files, config
  <2> QED
    BY <2>1, <2>2 DEF TypeOK
<1>4. ASSUME Loads PROVE TypeOK'
  <2>1. ASSUME LoadEnvelope PROVE TypeOK'
    <3>1. disk \in Envelopes
      BY <2>1 DEF LoadEnvelope, TypeOK, Files, NoFile
    <3>2. ram' = [FreshRam EXCEPT !.mode = "password", !.data = 0, !.locked = TRUE,
                       !.setupRequired = FALSE, !.env = disk, !.fifo = None]
      BY <2>1 DEF LoadEnvelope, Load
    <3>3. ram' \in RamStates
      BY <3>1, <3>2, FreshTypes DEF RamStates, Modes
    <3> QED
      BY <2>1, <3>3 DEF LoadEnvelope, Load, TypeOK
  <2>2. ASSUME LoadPlain PROVE TypeOK'
    <3>1. disk.data \in Versions
      BY <2>2 DEF LoadPlain, TypeOK, Files, NoFile, Envelopes
    <3>2. ram' = [FreshRam EXCEPT !.mode = "none", !.data = disk.data, !.locked = FALSE,
                       !.setupRequired = FALSE, !.env = None, !.fifo = disk.data]
      BY <2>2 DEF LoadPlain, Load
    <3>3. ram' \in RamStates
      BY <3>1, <3>2, FreshTypes DEF RamStates, Modes
    <3> QED
      BY <2>2, <3>3 DEF LoadPlain, Load, TypeOK
  <2>3. ASSUME LoadNew PROVE TypeOK'
    <3>1. ram' = [FreshRam EXCEPT !.mode = "none", !.data = 0, !.locked = FALSE,
                       !.setupRequired = FALSE, !.env = None, !.fifo = 0]
      BY <2>3 DEF LoadNew, Load
    <3>2. ram' \in RamStates
      BY <3>1, FreshTypes DEF RamStates, Modes
    <3>3. disk' \in Files
      BY <2>3, FreshTypes DEF LoadNew, Plain, Files
    <3> QED
      BY <2>3, <3>2, <3>3 DEF LoadNew, Load, TypeOK
  <2>4. ASSUME LoadUnset PROVE TypeOK'
    <3>1. ram' = [FreshRam EXCEPT !.mode = "password", !.data = 0, !.locked = TRUE,
                       !.setupRequired = TRUE, !.env = None, !.fifo = None]
      BY <2>4 DEF LoadUnset, Load
    <3>2. ram' \in RamStates
      BY <3>1, FreshTypes DEF RamStates, Modes
    <3> QED
      BY <2>4, <3>2 DEF LoadUnset, Load, TypeOK
  <2>5. ASSUME NEW s \in Slots, BeginSetup(s) PROVE TypeOK'
    <3>1. ram' \in RamStates
      BY <2>5, FreshTypes DEF BeginSetup, RamStates, Modes
    <3>2. task' \in [Slots -> TaskStates]
      BY <2>5, OwnerAssumption DEF BeginSetup, TypeOK, TaskStates, Ops, Steps
    <3> QED
      BY <2>5, <3>1, <3>2 DEF BeginSetup, TypeOK, files
  <2> QED
    BY <1>4, <2>1, <2>2, <2>3, <2>4, <2>5 DEF Loads
<1>5. ASSUME Crash \/ \E s \in Slots : Reload(s) PROVE TypeOK'
  <2>1. LoseRam /\ disk' = disk /\ keyFile' \in {keyFile, Torn} /\ handoff' \in {handoff, None}
    BY <1>5 DEF Crash, Reload
  <2>2. FreshRam \in RamStates
    BY FreshTypes
  <2>3. Idle \in TaskStates
    BY FreshTypes
  <2>4. NoSessions \in [Users -> SessionStates]
    BY FreshTypes
  <2>5. queue' \in Seq(Slots)
    BY <2>1 DEF LoseRam
  <2>6. task' \in [Slots -> TaskStates]
    BY <2>1, <2>3 DEF LoseRam
  <2> QED
    BY <2>1, <2>2, <2>4, <2>5, <2>6 DEF LoseRam, TypeOK
<1>6. CASE LoseKeyFile
  BY <1>6 DEF LoseKeyFile, TypeOK, config
<1>7. CASE UNCHANGED vars
  BY <1>7 DEF vars, TypeOK
<1>8. ASSUME NEW s \in Slots, Work(s), ~ Reload(s) PROVE TypeOK'
  <2>1. CASE EnterUnlock(s)
    <3>1. ram' \in RamStates
      BY <2>1, FreshTypes DEF EnterUnlock, TypeOK, RamStates
    <3>2. session' \in [Users -> SessionStates]
      BY <2>1 DEF EnterUnlock, TypeOK, MarkUnlocked, SessionStates
    <3>3. task' \in [Slots -> TaskStates] /\ queue' \in Seq(Slots)
      <4>1. CASE End(s)
        BY <2>1, <4>1, TaskTypes DEF EnterUnlock, Entering, At, End
      <4>2. CASE task' = [task EXCEPT ![s] = [@ EXCEPT !.op = "first", !.at = "key"]] /\ UNCHANGED queue
        <5>1. [task[s] EXCEPT !.op = "first", !.at = "key"] \in TaskStates
          BY TaskFieldTypes DEF TypeOK, Ops, Steps
        <5> QED
          BY <4>2, <5>1 DEF TypeOK
      <4>3. CASE GoTo(s, "key") /\ UNCHANGED queue
        BY <4>3, TaskTypes DEF Steps, TypeOK
      <4> QED
        BY <2>1, <4>1, <4>2, <4>3 DEF EnterUnlock
    <3> QED
      BY <2>1, <3>1, <3>2, <3>3 DEF EnterUnlock, TypeOK, files, config
  <2>2. CASE EnterInit(s) \/ EnterEnable(s) \/ EnterChange(s)
    <3>1. CASE Raise(s)
      BY <2>2, <3>1, RaiseTypes DEF EnterInit, EnterEnable, EnterChange, Entering, At
    <3>2. CASE ~ Raise(s)
      <4>1. GoTo(s, "key") /\ queue' = queue
        BY <2>2, <3>2 DEF EnterInit, EnterEnable, EnterChange
      <4>2. task' \in [Slots -> TaskStates]
        BY <4>1, TaskTypes DEF Steps
      <4>3. ram' \in RamStates
        BY <2>2, <3>2, FreshTypes DEF EnterInit, EnterEnable, EnterChange, TypeOK, RamStates
      <4>4. UNCHANGED <<files, config, session, acked>>
        BY <2>2, <3>2 DEF EnterInit, EnterEnable, EnterChange
      <4> QED
        BY <4>1, <4>2, <4>3, <4>4 DEF TypeOK, files, config
    <3> QED
      BY <3>1, <3>2
  <2>3. CASE EnterDisable(s)
    <3>1. CASE Raise(s)
      BY <2>3, <3>1, RaiseTypes DEF EnterDisable, Entering, At
    <3>2. CASE ~ Raise(s)
      <4>1. ram' \in RamStates
        <5>1. ram \in RamStates /\ "none" \in Modes
          BY DEF TypeOK, Modes
        <5>2. [ram EXCEPT !.mode = "none", !.env = None, !.dek = FALSE] \in RamStates
          BY <5>1 DEF RamStates
        <5> QED
          BY <2>3, <3>2, <5>2 DEF EnterDisable
      <4>2. task' \in [Slots -> TaskStates]
        BY <2>3, <3>2, TaskTypes DEF EnterDisable, Steps
      <4> QED
        BY <2>3, <3>2, <4>1, <4>2, FreshTypes DEF EnterDisable, TypeOK, files, config
    <3> QED
      BY <3>1, <3>2
  <2>4. CASE EnterLock(s)
    <3>1. ram' \in RamStates
      BY <2>4, FreshTypes DEF EnterLock, TypeOK, RamStates
    <3>2. task' \in [Slots -> TaskStates] /\ queue' \in Seq(Slots)
      BY <2>4, TaskTypes DEF EnterLock, Entering, At, End
    <3> QED
      BY <2>4, <3>1, <3>2 DEF EnterLock, TypeOK, files, config
  <2>5. CASE EnterWrite(s) \/ EnterStructure(s)
    <3>1. CASE Raise(s)
      BY <2>5, <3>1, RaiseTypes DEF EnterWrite, EnterStructure, Entering, At
    <3>2. CASE ~ Raise(s)
      <4>1. ram.data \in Versions /\ (ram.data < MaxVersion => ram.data + 1 \in Versions)
        BY VersionAssumption DEF TypeOK, RamStates, Versions, Stray
      <4>2. ram' \in RamStates
        BY <2>5, <3>2, <4>1, FreshTypes DEF EnterWrite, EnterStructure, TypeOK, RamStates
      <4>3. task' \in [Slots -> TaskStates]
        BY <2>5, <3>2, TaskTypes DEF EnterWrite, EnterStructure, Steps
      <4> QED
        BY <2>5, <3>2, <4>2, <4>3 DEF EnterWrite, EnterStructure, TypeOK, files, config
    <3> QED
      BY <3>1, <3>2
  <2>6. CASE KeyCached(s)
    <3>1. task' \in [Slots -> TaskStates] /\ queue' \in Seq(Slots)
      BY <2>6, TaskTypes DEF KeyCached, HaveKey, AfterKey, Steps, TypeOK, End
    <3> QED
      BY <2>6, <3>1 DEF KeyCached, TypeOK, files, config
  <2>7. CASE KeyRead(s)
    <3>1. task' \in [Slots -> TaskStates]
      <4>1. [task[s] EXCEPT !.at = "keyset", !.got = keyFile] \in TaskStates
        <5>1. task[s] \in TaskStates /\ keyFile \in Keys /\ "keyset" \in Steps
          BY <2>7 DEF KeyRead, TypeOK, Steps
        <5> QED
          BY <5>1, TaskFieldTypes
      <4> QED
        BY <2>7, <4>1 DEF KeyRead, TypeOK
    <3> QED
      BY <2>7, <3>1 DEF KeyRead, TypeOK, files, config
  <2>8. CASE KeyCreate(s)
    <3>1. task' \in [Slots -> TaskStates]
      BY <2>8, TaskTypes DEF KeyCreate, Steps
    <3> QED
      BY <2>8, <3>1 DEF KeyCreate, TypeOK, config
  <2>9. CASE KeyFails(s)
    BY <2>9, RaiseTypes DEF KeyFails, At
  <2>10. CASE KeyWrite(s)
    <3>1. PICK k \in Keys : /\ keyFile' = IF keyFile = s THEN k ELSE keyFile
                            /\ task' = [task EXCEPT ![s] = [@ EXCEPT !.at = "keyset", !.got = k]]
      BY <2>10 DEF KeyWrite
    <3>2. task' \in [Slots -> TaskStates]
      <4>1. task \in [Slots -> TaskStates] /\ "keyset" \in Steps
        BY DEF TypeOK, Steps
      <4>2. [task[s] EXCEPT !.at = "keyset", !.got = k] \in TaskStates
        BY <4>1, TaskFieldTypes
      <4> QED
        BY <3>1, <4>1, <4>2
    <3> QED
      BY <2>10, <3>1, <3>2 DEF KeyWrite, TypeOK, config
  <2>11. CASE KeySet(s)
    <3>1. ram' \in RamStates
      BY <2>11 DEF KeySet, TypeOK, RamStates, TaskStates
    <3>2. CASE task[s].op = "key"
      <4>1. task' \in [Slots -> TaskStates] /\ queue' \in Seq(Slots)
        BY <2>11, <3>2, TaskTypes DEF KeySet, End
      <4> QED
        BY <2>11, <3>1, <4>1 DEF KeySet, TypeOK, files, config
    <3>3. CASE task[s].op # "key"
      <4>1. task' \in [Slots -> TaskStates] /\ queue' = queue
        <5>1. [task[s] EXCEPT !.at = AfterKey(s), !.got = None] \in TaskStates
          <6>1. task[s] \in TaskStates /\ AfterKey(s) \in Steps
            BY DEF TypeOK, AfterKey, Steps
          <6> QED
            BY <6>1, TaskFieldTypes
        <5> QED
          BY <2>11, <3>3, <5>1 DEF KeySet, TypeOK
      <4> QED
        BY <2>11, <3>1, <4>1 DEF KeySet, TypeOK, files, config
    <3> QED
      BY <3>2, <3>3
  <2>12. CASE Wrap(s)
    <3>1. task[s].pw \in Passwords /\ ram.secret \in Keys /\ ram.data \in Versions
      BY <2>12 DEF Wrap, At, StepFacts, FactsOf, TypeOK, RamStates
    <3>2. Envelope(task[s].pw, ram.secret, ram.data) \in Envelopes
      BY <3>1 DEF Envelope, Envelopes
    <3>3. ram' \in RamStates
      BY <2>12, <3>2 DEF Wrap, TypeOK, RamStates, Modes
    <3>4. task' \in [Slots -> TaskStates]
      BY <2>12, TaskTypes DEF Wrap, Steps
    <3> QED
      BY <2>12, <3>3, <3>4, FreshTypes DEF Wrap, TypeOK, files, config
  <2>13. CASE Open(s)
    <3>1. CASE Raise(s)
      BY <2>13, <3>1, RaiseTypes DEF Open, At
    <3>2. CASE ~ Raise(s)
      <4>1. Opened \in Envelopes
        BY <2>13, <3>2 DEF Open, Opens, Opened, TypeOK, Files, NoFile, RamStates
      <4>2. ram.secret \in Keys
        BY <2>13 DEF Open, At, StepFacts, FactsOf, TypeOK, RamStates
      <4>3. task[s].op = "change" =>
              Envelope(task[s].new, ram.secret, Opened.data) \in Envelopes
        BY <4>1, <4>2 DEF StepFacts, FactsOf, Envelope, Envelopes
      <4>4. ram' \in RamStates
        <5>1. Opened.data \in Versions
          BY <4>1 DEF Envelopes
        <5>0. ram \in RamStates
          BY DEF TypeOK
        <5>2. CASE task[s].op = "unlock"
          <6>1. [ram EXCEPT !.env = Opened, !.data = Opened.data, !.dek = TRUE,
                            !.locked = FALSE, !.setupRequired = FALSE] \in RamStates
            BY <4>1, <5>0, <5>1 DEF RamStates
          <6> QED
            BY <2>13, <3>2, <5>2, <6>1 DEF Open
        <5>3. CASE task[s].op = "change"
          <6> DEFINE sealed == Envelope(task[s].new, ram.secret, Opened.data)
          <6>1. sealed \in Envelopes
            BY <4>3, <5>3
          <6> HIDE DEF sealed
          <6>2. [ram EXCEPT !.env = sealed, !.data = Opened.data, !.dek = TRUE,
                            !.locked = FALSE] \in RamStates
            BY <5>0, <5>1, <6>1 DEF RamStates
          <6> QED
            BY <2>13, <3>2, <5>3, <6>2 DEF Open, sealed
        <5> QED
          BY <2>13, <3>2, <5>2, <5>3 DEF Open
      <4>5. task' \in [Slots -> TaskStates]
        BY <2>13, <3>2, TaskTypes DEF Open, Steps
      <4> QED
        BY <2>13, <3>2, <4>4, <4>5 DEF Open, TypeOK, files, config
    <3> QED
      BY <3>1, <3>2
  <2>14. CASE RefreshFifo(s)
    <3>1. ram' \in RamStates
      BY <2>14 DEF RefreshFifo, TypeOK, RamStates
    <3>2. session' \in [Users -> SessionStates]
      BY <2>14 DEF RefreshFifo, MarkUnlocked, TypeOK, SessionStates
    <3>3. task' \in [Slots -> TaskStates] /\ queue' \in Seq(Slots)
      BY <2>14, TaskTypes DEF RefreshFifo, At, End
    <3> QED
      BY <2>14, <3>1, <3>2, <3>3 DEF RefreshFifo, TypeOK, files, config
  <2>15. CASE SealChange(s)
    <3>1. disk' \in Files
      BY <2>15 DEF SealChange, At, StepFacts, FactsOf, TypeOK, RamStates, Files
    <3>2. session' \in [Users -> SessionStates]
      BY <2>15, FreshTypes DEF SealChange, MarkUnlocked, SessionStates
    <3>3. task' \in [Slots -> TaskStates] /\ queue' \in Seq(Slots)
      BY <2>15, TaskTypes DEF SealChange, At, End
    <3> QED
      BY <2>15, <3>1, <3>2, <3>3 DEF SealChange, TypeOK, config
  <2>16. CASE Save(s)
    <3>1. Sealed \in Files /\ (ram.mode = "password" => Sealed \in Envelopes)
      BY <2>16 DEF Save, Saveable, Sealed, TypeOK, RamStates, Files, Envelope, Envelopes, Plain
    <3>2. ram' \in RamStates
      BY <2>16, <3>1 DEF Save, TypeOK, RamStates
    <3>3. session' \in [Users -> SessionStates]
      BY <2>16 DEF Save, Answered, MarkUnlocked, TypeOK, SessionStates
    <3>4. acked' \in Versions /\ up' \in BOOLEAN
      BY <2>16 DEF Save, Answered, TypeOK, RamStates
    <3>5. task' \in [Slots -> TaskStates] /\ queue' \in Seq(Slots)
      BY <2>16, TaskTypes DEF Save, Answered, At, End, Steps, TypeOK
    <3> QED
      BY <2>16, <3>1, <3>2, <3>3, <3>4, <3>5 DEF Save, TypeOK
  <2>17. CASE SaveRaises(s)
    BY <2>17, RaiseTypes DEF SaveRaises, At
  <2>18. CASE DropKey(s)
    <3>1. task' \in [Slots -> TaskStates] /\ queue' \in Seq(Slots)
      BY <2>18, TaskTypes DEF DropKey, At, Steps
    <3> QED
      BY <2>18, <3>1 DEF DropKey, TypeOK, config
  <2> QED
    BY <1>8, <2>1, <2>2, <2>3, <2>4, <2>5, <2>6, <2>7, <2>8, <2>9, <2>10, <2>11,
       <2>12, <2>13, <2>14, <2>15, <2>16, <2>17, <2>18 DEF Work
<1> QED
  BY <1>1, <1>2, <1>3, <1>4, <1>5, <1>6, <1>7, <1>8 DEF Next

-----------------------------------------------------------------------------
(* The lock *)

LEMMA Idles == ~ (Idle.op # "key" /\ Idle.at \notin {"idle", "lock", "reload"})
  BY DEF Idle

\* A step of the request in slot s keeps the discipline when it keeps the lock,
\* or gives it up and is done with it.
LEMMA LockStep ==
  ASSUME TypeOK, MutualExclusion, NEW s \in Slots, task[s].op = "key" \/ Holds(s),
         \A t \in Slots \ {s} : task'[t] = task[t],
         \/ queue' = queue /\ (InLock(s)' => Holds(s))
         \/ Release(s) /\ ~ InLock(s)'
  PROVE  MutualExclusion'
<1> SUFFICES ASSUME NEW t \in Slots, InLock(t)' PROVE Holds(t)'
  BY DEF MutualExclusion
<1>1. CASE queue' = queue /\ (InLock(s)' => Holds(s))
  BY <1>1 DEF MutualExclusion, InLock, Holds
<1>2. CASE Release(s) /\ ~ InLock(s)'
  <2>1. t # s /\ InLock(t) /\ Holds(t)
    BY <1>2 DEF InLock, MutualExclusion
  <2>2. task[s].op = "key" /\ queue' = queue
    BY <1>2, <2>1 DEF Holds, Release
  <2> QED
    BY <2>1, <2>2 DEF Holds
<1> QED
  BY <1>1, <1>2

\* A new request waits at the end of the queue.
LEMMA RequestLocks ==
  ASSUME TypeOK, MutualExclusion, NEW s \in Slots, NEW op, NEW u, NEW p, NEW q,
         Request(s, op, u, p, q)
  PROVE  MutualExclusion'
<1> SUFFICES ASSUME NEW t \in Slots, InLock(t)' PROVE Holds(t)'
  BY DEF MutualExclusion
<1>1. t # s /\ InLock(t)
  BY DEF Request, InLock, TypeOK
<1>2. Holds(t)
  BY <1>1 DEF MutualExclusion
<1> QED
  BY <1>2 DEF Request, Holds, TypeOK

LEMMA LockPreserved == IInv /\ [Next]_vars => MutualExclusion'
<1> SUFFICES ASSUME IInv, [Next]_vars PROVE MutualExclusion'
  OBVIOUS
<1> USE DEF IInv
<1>0. ASSUME UNCHANGED <<queue, task>> PROVE MutualExclusion'
  BY <1>0 DEF MutualExclusion, InLock, Holds
<1>1. ASSUME NEW s \in Slots, Requests(s) \/ TimerFires(s) PROVE MutualExclusion'
  <2>1. CASE \E op, u, p, q : Request(s, op, u, p, q)
    BY <2>1, RequestLocks
  <2>2. CASE RequestKey(s)
    BY <2>2 DEF RequestKey, MutualExclusion, InLock, Holds, Idle, TypeOK
  <2>3. CASE UNCHANGED <<queue, task>>
    BY <2>3, <1>0
  <2> QED
    BY <1>1, <2>1, <2>2, <2>3 DEF Requests, TimerFires, RequestUnlock, RequestEnable,
       RequestDisable, RequestChange, RequestLock, RequestWrite
<1>2. CASE Sessions \/ LoseKeyFile \/ UNCHANGED vars
  BY <1>0, <1>2 DEF Sessions, DeadlinePasses, ObserveSession, ConfigureAutoLock,
     SetAllowedUsers, LoseKeyFile, vars
<1>3. CASE Loads
  <2>1. ASSUME NEW s \in Slots, BeginSetup(s) PROVE MutualExclusion'
    <3>1. \A t \in Slots : ~ InLock(t)
      BY <2>1 DEF BeginSetup, MutualExclusion, Holds
    <3> QED
      BY <2>1, <3>1 DEF BeginSetup, MutualExclusion, InLock, Holds, TypeOK
  <2> QED
    BY <1>0, <1>3, <2>1 DEF Loads, LoadEnvelope, LoadPlain, LoadNew, LoadUnset, Load
<1>4. ASSUME Crash \/ \E s \in Slots : Reload(s) PROVE MutualExclusion'
  <2>1. \A t \in Slots : task'[t] = Idle
    BY <1>4 DEF Crash, Reload, LoseRam
  <2> QED
    BY <2>1, Idles DEF MutualExclusion, InLock
<1>5. ASSUME NEW s \in Slots, Work(s), ~ Reload(s) PROVE MutualExclusion'
  <2>1. task[s].op = "key" \/ Holds(s)
    BY <1>5 DEF Work, EnterUnlock, EnterInit, EnterEnable, EnterDisable, EnterChange,
       EnterLock, EnterWrite, EnterStructure, Entering, KeyCached, KeyRead, KeyCreate,
       KeyFails, KeyWrite, KeySet, Wrap, Open, RefreshFifo, SealChange, Save, SaveRaises,
       DropKey, At
  <2>2. CASE End(s)
    BY <2>1, <2>2, LockStep, Idles DEF End, InLock, TypeOK
  <2>3. ASSUME NEW step, GoTo(s, step), queue' = queue PROVE MutualExclusion'
    BY <2>1, <2>3, LockStep DEF GoTo, InLock, TypeOK, TaskStates
  <2>4. CASE GoTo(s, "reload") /\ Release(s)
    BY <2>1, <2>4, LockStep DEF GoTo, InLock, TypeOK, TaskStates
  <2>5. CASE EnterUnlock(s)
    <3>1. CASE task' = [task EXCEPT ![s] = [@ EXCEPT !.op = "first", !.at = "key"]] /\ queue' = queue
      BY <2>1, <2>5, <3>1, LockStep DEF EnterUnlock, Entering, InLock, TypeOK
    <3> QED
      BY <2>2, <2>3, <2>5, <3>1 DEF EnterUnlock
  <2>6. CASE KeyRead(s) \/ KeyWrite(s) \/ KeySet(s)
    <3>1. CASE End(s)
      BY <2>2, <3>1
    <3>2. CASE ~ End(s)
      <4>1. /\ \A t \in Slots \ {s} : task'[t] = task[t]
            /\ task'[s].op = task[s].op /\ queue' = queue
        <5>1. task \in [Slots -> TaskStates]
          BY DEF TypeOK
        <5>2. \A r \in TaskStates : \A step, k : [r EXCEPT !.at = step, !.got = k].op = r.op
          BY DEF TaskStates
        <5>3. CASE KeyRead(s)
          BY <5>1, <5>2, <5>3 DEF KeyRead
        <5>4. CASE KeyWrite(s)
          <6>1. queue' = queue
            BY <5>4 DEF KeyWrite
          <6>2. PICK k : task' = [task EXCEPT ![s] = [@ EXCEPT !.at = "keyset", !.got = k]]
            BY <5>4 DEF KeyWrite
          <6> QED
            BY <5>1, <5>2, <6>1, <6>2
        <5>5. CASE KeySet(s)
          <6> DEFINE step == AfterKey(s)
          <6>1. /\ task' = [task EXCEPT ![s] = [@ EXCEPT !.at = step, !.got = None]]
                /\ queue' = queue
            BY <3>2, <5>5 DEF KeySet
          <6> HIDE DEF step
          <6> QED
            BY <5>1, <5>2, <6>1
        <5> QED
          BY <2>6, <5>3, <5>4, <5>5
      <4> QED
        BY <2>1, <4>1, LockStep DEF InLock
    <3> QED
      BY <3>1, <3>2
  <2> QED
    BY <1>5, <2>2, <2>3, <2>4, <2>5, <2>6 DEF Work, EnterInit, EnterEnable, EnterDisable,
       EnterChange, EnterLock, EnterWrite, EnterStructure, KeyCached, KeyCreate, KeyFails,
       HaveKey, Wrap, Open, RefreshFifo, SealChange, Save, Answered, SaveRaises, DropKey, Raise
<1> QED
  BY <1>1, <1>2, <1>3, <1>4, <1>5 DEF Next

-----------------------------------------------------------------------------
(* What a step found out *)

\* A request outside the lock, or one whose ledger did not change, keeps its facts.
LEMMA OthersKeepFacts ==
  ASSUME IInv, NEW t \in Slots, task'[t] = task[t], ~ InLock(t) \/ ram' = ram
  PROVE  FactsOf(t)'
  BY DEF IInv, StepFacts, FactsOf, InLock, KeySteps

\* While the request in s runs under the lock, nobody else does.
LEMMA OnlyOneInLock ==
  ASSUME IInv, NEW s \in Slots, Holds(s), NEW t \in Slots \ {s}
  PROVE  ~ InLock(t)
  BY DEF IInv, MutualExclusion, Holds

LEMMA TaskFields ==
  ASSUME NEW r \in TaskStates, NEW step, NEW x
  PROVE  /\ [r EXCEPT !.op = x, !.at = step].op = x
         /\ [r EXCEPT !.op = x, !.at = step].at = step
         /\ [r EXCEPT !.op = x, !.at = step].pw = r.pw
         /\ [r EXCEPT !.op = x, !.at = step].new = r.new
         /\ [r EXCEPT !.at = step, !.got = x].op = r.op
         /\ [r EXCEPT !.at = step, !.got = x].at = step
         /\ [r EXCEPT !.at = step, !.got = x].pw = r.pw
         /\ [r EXCEPT !.at = step, !.got = x].new = r.new
         /\ [r EXCEPT !.at = step, !.got = x].got = x
  BY DEF TaskStates

LEMMA RequestFacts ==
  ASSUME IInv, NEW s \in Slots, NEW op, NEW u, NEW p, NEW q, Request(s, op, u, p, q),
         op # "key",
         op \in Creators \cup {"unlock", "change"} => p \in Passwords,
         op = "change" => q \in Passwords
  PROVE  StepFacts'
<1>1. FactsOf(s)'
  BY DEF Request, FactsOf, KeySteps, IInv, TypeOK
<1>2. ASSUME NEW t \in Slots \ {s} PROVE FactsOf(t)'
  BY OthersKeepFacts DEF Request, IInv, TypeOK
<1> QED
  BY <1>1, <1>2 DEF StepFacts

LEMMA FactsPreserved == IInv /\ [Next]_vars => StepFacts'
<1> SUFFICES ASSUME IInv, [Next]_vars PROVE StepFacts'
  OBVIOUS
<1>0. ASSUME UNCHANGED <<ram, task>> PROVE StepFacts'
  BY <1>0, OthersKeepFacts DEF StepFacts
<1>1. ASSUME NEW s \in Slots, Requests(s) \/ TimerFires(s) PROVE StepFacts'
  <2>1. CASE \E u \in Users, p \in Passwords : RequestUnlock(s, u, p)
    BY <2>1, RequestFacts DEF RequestUnlock, Creators
  <2>2. CASE \E p \in Passwords : RequestEnable(s, p)
    BY <2>2, RequestFacts DEF RequestEnable, Creators
  <2>3. CASE RequestDisable(s)
    BY <2>3, RequestFacts DEF RequestDisable, Creators
  <2>4. CASE \E p, q \in Passwords : RequestChange(s, p, q)
    BY <2>4, RequestFacts DEF RequestChange, Creators
  <2>5. CASE TimerFires(s) \/ \E u \in Users : RequestLock(s, u)
    BY <2>5, <1>0, RequestFacts DEF TimerFires, RequestLock, Creators
  <2>6. CASE \E u \in Users, op \in {"write", "structure"} : RequestWrite(s, u, op)
    BY <2>6, RequestFacts DEF RequestWrite, Creators
  <2>7. CASE RequestKey(s)
    <3>1. FactsOf(s)'
      BY <2>7 DEF RequestKey, FactsOf, KeySteps, Creators, Idle, IInv, TypeOK
    <3>2. ASSUME NEW t \in Slots \ {s} PROVE FactsOf(t)'
      BY <2>7, OthersKeepFacts DEF RequestKey, IInv, TypeOK
    <3> QED
      BY <3>1, <3>2 DEF StepFacts
  <2> QED
    BY <1>1, <2>1, <2>2, <2>3, <2>4, <2>5, <2>6, <2>7 DEF Requests
<1>2. CASE Sessions \/ LoseKeyFile \/ UNCHANGED vars
  BY <1>0, <1>2 DEF Sessions, DeadlinePasses, ObserveSession, ConfigureAutoLock,
     SetAllowedUsers, LoseKeyFile, vars
<1>3. CASE Loads
  <2>1. ASSUME NEW t \in Slots PROVE ~ InLock(t)
    BY <1>3 DEF Loads, LoadEnvelope, LoadPlain, LoadNew, LoadUnset, Load, BeginSetup,
       IInv, MutualExclusion, Holds
  <2>2. ASSUME NEW s \in Slots, BeginSetup(s) PROVE StepFacts'
    <3>1. FactsOf(s)'
      BY <2>2 DEF BeginSetup, FactsOf, KeySteps, Creators, IInv, TypeOK
    <3>2. ASSUME NEW t \in Slots \ {s} PROVE FactsOf(t)'
      BY <2>1, <2>2, OthersKeepFacts DEF BeginSetup, IInv, TypeOK
    <3> QED
      BY <3>1, <3>2 DEF StepFacts
  <2> QED
    BY <1>3, <2>1, <2>2, OthersKeepFacts DEF Loads, LoadEnvelope, LoadPlain, LoadNew,
       LoadUnset, Load, StepFacts
<1>4. ASSUME Crash \/ \E s \in Slots : Reload(s) PROVE StepFacts'
  <2>1. \A t \in Slots : task'[t] = Idle
    BY <1>4 DEF Crash, Reload, LoseRam
  <2> QED
    BY <2>1 DEF StepFacts, FactsOf, Idle, KeySteps, Creators
<1>5. ASSUME NEW s \in Slots, Work(s), ~ Reload(s) PROVE StepFacts'
  <2>0. FactsOf(s) /\ task \in [Slots -> TaskStates] /\ ram \in RamStates
    BY DEF IInv, StepFacts, TypeOK
  <2>1. \A t \in Slots \ {s} : task'[t] = task[t]
    BY <1>5, <2>0 DEF Work, EnterUnlock, EnterInit, EnterEnable, EnterDisable, EnterChange,
       EnterLock, EnterWrite, EnterStructure, KeyCached, KeyRead, KeyCreate, HaveKey,
       KeyFails, KeyWrite, KeySet, Wrap, Open, RefreshFifo, SealChange, Save, Answered,
       SaveRaises, DropKey, Raise, End, GoTo
  <2>2. ASSUME NEW t \in Slots \ {s} PROVE FactsOf(t)'
    <3>1. CASE ram' = ram \/ Holds(s)
      BY <2>1, <3>1, OthersKeepFacts, OnlyOneInLock
    <3>2. CASE ram' # ram /\ ~ Holds(s)
      <4>1. KeySet(s) /\ ram' = [ram EXCEPT !.secret = task[s].got] /\ task[s].got \in Keys
        BY <1>5, <2>0, <3>2 DEF Work, EnterUnlock, EnterInit, EnterEnable, EnterDisable,
           EnterChange, EnterLock, EnterWrite, EnterStructure, Entering, KeyCached, KeyRead,
           KeyCreate, KeyFails, KeyWrite, KeySet, Wrap, Open, RefreshFifo, SealChange, Save,
           SaveRaises, DropKey, Raise, At, FactsOf, KeySteps
      <4>2. ram'.secret # None /\ ram'.locked = ram.locked /\ ram'.env = ram.env
        BY <4>1, <2>0, ValueAssumption DEF RamStates
      <4> QED
        BY <2>1, <4>2 DEF IInv, StepFacts, FactsOf
    <3> QED
      BY <3>1, <3>2
  <2>3. FactsOf(s)'
    <3>1. CASE End(s)
      BY <3>1, <2>0 DEF End, FactsOf, Idle, KeySteps, Creators
    <3>2. CASE /\ \E step \in {"save", "drop", "reload"} : GoTo(s, step)
               /\ task[s].op # "key"
      BY <3>2, <2>0 DEF GoTo, FactsOf, KeySteps, Creators, TaskStates
    <3>3. CASE EnterUnlock(s)
      <4>1. CASE task' = [task EXCEPT ![s] = [@ EXCEPT !.op = "first", !.at = "key"]]
        <5>1. task'[s] = [task[s] EXCEPT !.op = "first", !.at = "key"]
          BY <4>1, <2>0
        <5>2. /\ task'[s].op = "first" /\ task'[s].at = "key"
              /\ task'[s].pw = task[s].pw
          BY <5>1, <2>0, TaskFields
        <5> QED
          BY <3>3, <5>2, <2>0 DEF EnterUnlock, Entering, FactsOf, KeySteps, Creators
      <4>2. CASE GoTo(s, "key")
        BY <3>3, <4>2, <2>0 DEF EnterUnlock, Entering, GoTo, FactsOf, KeySteps, Creators,
           TaskStates
      <4> QED
        BY <3>1, <3>3, <4>1, <4>2 DEF EnterUnlock
    <3>4. CASE EnterInit(s) \/ EnterEnable(s) \/ EnterChange(s)
      BY <3>1, <3>4, <2>0 DEF EnterInit, EnterEnable, EnterChange, Entering, Raise, GoTo,
         FactsOf, KeySteps, Creators, TaskStates
    <3>5. CASE KeyCached(s)
      BY <3>1, <3>5, <2>0 DEF KeyCached, HaveKey, AfterKey, At, GoTo, FactsOf, KeySteps,
         Creators, TaskStates
    <3>6. CASE KeyRead(s) \/ KeyCreate(s) \/ KeyWrite(s)
      <4>1. CASE KeyCreate(s)
        BY <4>1, <2>0 DEF KeyCreate, At, GoTo, FactsOf, KeySteps, Creators, TaskStates
      <4>2. CASE KeyRead(s) \/ KeyWrite(s)
        <5>1. PICK k \in Keys : task'[s] = [task[s] EXCEPT !.at = "keyset", !.got = k]
          BY <4>2, <2>0 DEF KeyRead, KeyWrite
        <5>2. task[s].at \in KeySteps
          BY <4>2 DEF KeyRead, KeyWrite, At, KeySteps
        <5>3. /\ task'[s].op = task[s].op /\ task'[s].at = "keyset" /\ task'[s].got = k
              /\ task'[s].pw = task[s].pw /\ task'[s].new = task[s].new
          BY <5>1, <2>0, TaskFields
        <5> QED
          BY <5>2, <5>3, <2>0 DEF FactsOf, KeySteps, Creators
      <4> QED
        BY <3>6, <4>1, <4>2
    <3>7. CASE KeySet(s)
      <4>1. CASE task[s].op # "key"
        <5>1. task'[s] = [task[s] EXCEPT !.at = AfterKey(s), !.got = None]
          BY <3>7, <4>1, <2>0 DEF KeySet
        <5>2. /\ task'[s].op = task[s].op /\ task'[s].at = AfterKey(s)
              /\ task'[s].pw = task[s].pw /\ task'[s].new = task[s].new
          BY <5>1, <2>0, TaskFields
        <5>3. ram'.secret # None
          BY <3>7, <2>0, ValueAssumption DEF KeySet, At, FactsOf, KeySteps, RamStates
        <5>4. task[s].op \in Creators \cup {"unlock", "change"}
          BY <3>7, <4>1, <2>0 DEF KeySet, At, FactsOf, KeySteps
        <5> QED
          BY <5>2, <5>3, <5>4, <2>0 DEF AfterKey, FactsOf, KeySteps, Creators
      <4> QED
        BY <3>1, <3>7, <4>1 DEF KeySet
    <3>8. CASE Open(s)
      <4>1. CASE ~ End(s)
        <5>1. CASE task[s].op = "unlock"
          <6>1. ~ ram'.locked /\ GoTo(s, "fifo")
            BY <3>8, <4>1, <5>1, <2>0 DEF Open, Raise, RamStates
          <6> QED
            BY <5>1, <6>1, <2>0 DEF GoTo, FactsOf, KeySteps, Creators, TaskStates
        <5>2. CASE task[s].op = "change"
          <6>1. Opened.data \in Versions /\ ram.secret \in Keys
            BY <3>8, <4>1, <2>0 DEF Open, At, Raise, FactsOf, Opens, Opened, IInv, TypeOK,
               Files, NoFile, RamStates, Envelopes
          <6>2. Envelope(task[s].new, ram.secret, Opened.data) \in Envelopes
            BY <5>2, <6>1, <2>0 DEF FactsOf, Envelope, Envelopes
          <6>3. ram'.env \in Envelopes /\ GoTo(s, "seal") /\ task[s].op = "change"
            BY <3>8, <4>1, <5>2, <6>2, <2>0 DEF Open, Raise, RamStates
          <6> QED
            BY <6>3, <2>0 DEF GoTo, FactsOf, KeySteps, Creators, TaskStates
        <5> QED
          BY <3>8, <4>1, <5>1, <5>2 DEF Open, Raise
      <4> QED
        BY <3>1, <4>1
    <3>9. CASE /\ Wrap(s) \/ Save(s) \/ DropKey(s) \/ EnterDisable(s) \/ EnterWrite(s) \/ EnterStructure(s)
               /\ ~ End(s)
      BY <3>2, <3>9, <2>0 DEF Wrap, Save, Answered, DropKey, EnterDisable, EnterWrite,
         EnterStructure, Raise, Entering, At, FactsOf, KeySteps
    <3> QED
      BY <1>5, <3>1, <3>3, <3>4, <3>5, <3>6, <3>7, <3>8, <3>9 DEF Work, EnterLock, KeyFails,
         RefreshFifo, SealChange, SaveRaises, Raise
  <2> QED
    BY <2>2, <2>3 DEF StepFacts
<1> QED
  BY <1>1, <1>2, <1>3, <1>4, <1>5 DEF Next

-----------------------------------------------------------------------------
(* Locked means empty *)

LEMMA LockedPreserved == IInv /\ [Next]_vars => LockedHoldsNoPlaintext'
<1> SUFFICES ASSUME IInv, [Next]_vars PROVE LockedHoldsNoPlaintext'
  OBVIOUS
<1> ram \in RamStates /\ LockedHoldsNoPlaintext
  BY DEF IInv, TypeOK
<1>0. ASSUME UNCHANGED ram PROVE LockedHoldsNoPlaintext'
  BY <1>0 DEF LockedHoldsNoPlaintext
<1>1. ASSUME ram'.locked = FALSE PROVE LockedHoldsNoPlaintext'
  BY <1>1 DEF LockedHoldsNoPlaintext
<1>2. ASSUME Loads PROVE LockedHoldsNoPlaintext'
  <2>1. FreshRam \in RamStates
    BY FreshTypes
  <2>2. CASE LoadEnvelope
    BY <2>1, <2>2 DEF LoadEnvelope, Load, LockedHoldsNoPlaintext, FreshRam
  <2>3. CASE LoadPlain
    BY <1>1, <2>1, <2>3 DEF LoadPlain, Load, FreshRam
  <2>4. CASE LoadNew
    BY <1>1, <2>1, <2>4 DEF LoadNew, Load, FreshRam
  <2>5. CASE LoadUnset
    BY <2>1, <2>5 DEF LoadUnset, Load, LockedHoldsNoPlaintext, FreshRam
  <2>6. CASE \E s \in Slots : BeginSetup(s)
    BY <1>1, <2>1, <2>6 DEF BeginSetup, FreshRam
  <2> QED
    BY <1>2, <2>2, <2>3, <2>4, <2>5, <2>6 DEF Loads
<1>3. CASE Crash \/ \E s \in Slots : Reload(s)
  <2>1. ram' = FreshRam
    BY <1>3 DEF Crash, Reload, LoseRam
  <2> QED
    BY <1>1, <2>1 DEF FreshRam
<1>4. CASE Sessions \/ LoseKeyFile \/ UNCHANGED vars
  BY <1>0, <1>4 DEF Sessions, DeadlinePasses, ObserveSession, ConfigureAutoLock,
     SetAllowedUsers, LoseKeyFile, vars
<1>5. ASSUME NEW s \in Slots, Requests(s) \/ TimerFires(s) PROVE LockedHoldsNoPlaintext'
  BY <1>0, <1>5 DEF Requests, TimerFires, RequestUnlock, RequestEnable, RequestDisable,
     RequestChange, RequestLock, RequestWrite, RequestKey, Request
<1>6. ASSUME NEW s \in Slots, Work(s), ~ Reload(s) PROVE LockedHoldsNoPlaintext'
  <2>1. CASE UNCHANGED ram
    BY <1>0, <2>1
  <2>2. CASE EnterUnlock(s) \/ EnterInit(s)
    <3>1. \/ ram' = ram
          \/ ram' = [ram EXCEPT !.locked = FALSE]
          \/ ram' = [ram EXCEPT !.data = 0]
      BY <2>2 DEF EnterUnlock, EnterInit, Raise
    <3> QED
      BY <3>1 DEF LockedHoldsNoPlaintext, RamStates
  <2>3. CASE EnterLock(s)
    BY <2>3 DEF EnterLock, LockedHoldsNoPlaintext, RamStates
  <2>4. CASE EnterDisable(s)
    BY <1>0, <1>1, <2>4 DEF EnterDisable, Raise, RamStates
  <2>5. CASE EnterWrite(s)
    BY <1>0, <1>1, <2>5 DEF EnterWrite, Raise, RamStates
  <2>6. CASE EnterStructure(s)
    BY <2>6 DEF EnterStructure, Raise, LockedHoldsNoPlaintext, RamStates
  <2>7. CASE KeySet(s)
    BY <2>7 DEF KeySet, LockedHoldsNoPlaintext, RamStates
  <2>8. CASE Wrap(s)
    BY <1>1, <2>8 DEF Wrap, RamStates
  <2>9. CASE Open(s)
    BY <1>0, <1>1, <2>9 DEF Open, Raise, RamStates
  <2>10. CASE RefreshFifo(s)
    <3>1. ~ ram.locked
      BY <2>10 DEF RefreshFifo, At, IInv, StepFacts, FactsOf
    <3> QED
      BY <1>1, <2>10, <3>1 DEF RefreshFifo, RamStates
  <2>11. CASE Save(s)
    <3>1. ~ ram.locked
      BY <2>11 DEF Save, Saveable
    <3> QED
      BY <1>1, <2>11, <3>1 DEF Save, RamStates
  <2> QED
    BY <1>6, <2>1, <2>2, <2>3, <2>4, <2>5, <2>6, <2>7, <2>8, <2>9, <2>10, <2>11
       DEF Work, EnterEnable, EnterChange, KeyCached, KeyRead, KeyCreate, KeyFails,
           KeyWrite, SealChange, SaveRaises, DropKey, Raise
<1> QED
  BY <1>2, <1>3, <1>4, <1>5, <1>6 DEF Next

-----------------------------------------------------------------------------
(* The allowlist *)

LEMMA AllowedPreserved ==
  TypeOK /\ OnlyAllowedHoldSessions /\ [Next]_vars => OnlyAllowedHoldSessions'
<1> SUFFICES ASSUME TypeOK, OnlyAllowedHoldSessions, [Next]_vars
             PROVE  OnlyAllowedHoldSessions'
  OBVIOUS
<1> session \in [Users -> SessionStates]
  BY DEF TypeOK
<1>1. ASSUME session' = session, allowed' = allowed PROVE OnlyAllowedHoldSessions'
  BY <1>1 DEF OnlyAllowedHoldSessions
<1>2. ASSUME session' = NoSessions PROVE OnlyAllowedHoldSessions'
  BY <1>2 DEF OnlyAllowedHoldSessions, NoSessions
<1>3. ASSUME NEW sess \in [Users -> SessionStates], NEW u, allowed' = allowed,
             \A w \in Users : sess[w] # "none" => w \in allowed,
             session' = MarkUnlocked(sess, u)
      PROVE  OnlyAllowedHoldSessions'
  BY <1>3 DEF MarkUnlocked, OnlyAllowedHoldSessions
<1>4. CASE Sessions
  <2>1. ASSUME NEW u \in Users, DeadlinePasses(u) PROVE OnlyAllowedHoldSessions'
    BY <2>1 DEF DeadlinePasses, config, OnlyAllowedHoldSessions
  <2>2. ASSUME NEW u \in Users, ObserveSession(u) PROVE OnlyAllowedHoldSessions'
    BY <2>2 DEF ObserveSession, AllExpired, Expired, config, OnlyAllowedHoldSessions
  <2>3. ASSUME NEW u \in Users, ConfigureAutoLock(u) PROVE OnlyAllowedHoldSessions'
    BY <2>3 DEF ConfigureAutoLock, MayUse, config, OnlyAllowedHoldSessions
  <2>4. ASSUME NEW S \in SUBSET Users, SetAllowedUsers(S) PROVE OnlyAllowedHoldSessions'
    BY <2>4 DEF SetAllowedUsers, OnlyAllowedHoldSessions
  <2> QED
    BY <1>4, <2>1, <2>2, <2>3, <2>4 DEF Sessions
<1>5. CASE Loads \/ LoseKeyFile \/ UNCHANGED vars
  BY <1>1, <1>5 DEF Loads, LoadEnvelope, LoadPlain, LoadNew, LoadUnset, Load, BeginSetup,
     LoseKeyFile, config, vars
<1>6. CASE Crash \/ \E s \in Slots : Reload(s)
  BY <1>2, <1>6 DEF Crash, Reload, LoseRam
<1>7. ASSUME NEW s \in Slots, Requests(s) \/ TimerFires(s) PROVE OnlyAllowedHoldSessions'
  <2>1. allowed' = allowed
    BY <1>7 DEF Requests, TimerFires, RequestUnlock, RequestEnable, RequestDisable,
       RequestChange, RequestLock, RequestWrite, RequestKey, Request, config
  <2>2. CASE TimerFires(s)
    BY <2>1, <2>2 DEF TimerFires, AllExpired, OnlyAllowedHoldSessions
  <2>3. ASSUME NEW u \in Users, RequestLock(s, u) PROVE OnlyAllowedHoldSessions'
    BY <2>1, <2>3 DEF RequestLock, AllExpired, OnlyAllowedHoldSessions
  <2> QED
    BY <1>1, <1>7, <2>1, <2>2, <2>3 DEF Requests, RequestUnlock, RequestEnable,
       RequestDisable, RequestChange, RequestWrite, RequestKey
<1>8. ASSUME NEW s \in Slots, Work(s), ~ Reload(s) PROVE OnlyAllowedHoldSessions'
  <2>1. allowed' = allowed
    BY <1>8 DEF Work, EnterUnlock, EnterInit, EnterEnable, EnterDisable, EnterChange,
       EnterLock, EnterWrite, EnterStructure, KeyCached, KeyRead, KeyCreate, KeyFails,
       KeyWrite, KeySet, Wrap, Open, RefreshFifo, SealChange, Save, SaveRaises, DropKey,
       Raise, config
  <2>2. \/ session' = session
        \/ session' = NoSessions
        \/ session' = MarkUnlocked(session, task[s].by)
        \/ session' = MarkUnlocked(NoSessions, task[s].by)
    BY <1>8 DEF Work, EnterUnlock, EnterInit, EnterEnable, EnterDisable, EnterChange,
       EnterLock, EnterWrite, EnterStructure, KeyCached, KeyRead, KeyCreate, KeyFails,
       KeyWrite, KeySet, Wrap, Open, RefreshFifo, SealChange, Save, Answered, SaveRaises,
       DropKey, Raise
  <2>3. NoSessions \in [Users -> SessionStates] /\ \A w \in Users : NoSessions[w] = "none"
    BY FreshTypes DEF NoSessions
  <2> QED
    BY <1>1, <1>2, <1>3, <2>1, <2>2, <2>3 DEF OnlyAllowedHoldSessions
<1> QED
  BY <1>4, <1>5, <1>6, <1>7, <1>8 DEF Next

-----------------------------------------------------------------------------
\* Every reachable state satisfies the inductive invariant.
THEOREM Invariance == Spec => []IInv
<1>1. IInv /\ [Next]_vars => IInv'
  BY TypesPreserved, LockPreserved, FactsPreserved, LockedPreserved DEF IInv
<1> QED
  BY InitEstablishes, <1>1, PTL DEF Spec

\* The variables of the vault keep their types: in particular whatever is
\* written to the ledger file is a plain ledger or a complete envelope.
THEOREM TypeCorrect == Spec => []TypeOK
<1>1. IInv => TypeOK
  BY DEF IInv
<1> QED
  BY Invariance, <1>1, PTL

\* A ledger that says it is locked holds no plaintext, no data key and no FIFO
\* summaries, at every await of every request (async_lock, async_load).
THEOREM LockedIsEmpty == Spec => []LockedHoldsNoPlaintext
<1>1. IInv => LockedHoldsNoPlaintext
  BY DEF IInv
<1> QED
  BY Invariance, <1>1, PTL

\* Nobody holds an unlock session without being on the allowlist, although the
\* owner may edit the list while an unlock is in flight.
THEOREM SessionsAreAllowed == Spec => []OnlyAllowedHoldSessions
<1>1. Init => OnlyAllowedHoldSessions
  BY DEF Init, OnlyAllowedHoldSessions, NoSessions
<1> QED
  BY TypeCorrect, AllowedPreserved, <1>1, PTL DEF Spec

-----------------------------------------------------------------------------
(* The file and the ledger in RAM.                                         *)
(*                                                                         *)
(* Between two requests the file is what the mode says and the summaries   *)
(* are of the ledger.  That is not inductive: a save in flight has changed *)
(* the ledger and not yet the file, a password change has replaced the     *)
(* envelope, an unlock has decrypted and not yet summarised.  The          *)
(* strengthening says at which step of the lock holder each part may be    *)
(* behind, and what each step under way has still to find unchanged.       *)

Saving  == \E s \in Slots : task[s].at = "save"
Sealing == \E s \in Slots : task[s].at = "seal"
Opening == \E s \in Slots : task[s].at = "fifo"

\* What locked, setupRequired and the mode mean for one another.
ModeFacts ==
    /\ ram.locked => ram.mode = "password"
    /\ ram.mode = "none" => ram.env = None
    /\ ram.setupRequired => ram.locked /\ ram.env = None /\ disk = NoFile
    /\ up /\ ram.mode = "password" /\ ~ ram.setupRequired =>
          ram.env # None /\ (ram.locked \/ ram.dek)

FileMatches ==
    IF ram.mode = "password"
    THEN IF ram.setupRequired THEN disk = NoFile ELSE disk = ram.env
    ELSE disk = Plain(ram.data)

FileFacts ==
    /\ up /\ ~ Saving /\ ~ Sealing => FileMatches
    /\ up /\ ~ Saving /\ ~ ram.locked /\ ram.mode = "password" =>
          ram.env.data = ram.data
    /\ up /\ ~ Saving /\ ~ Opening /\ ~ ram.locked => ram.fifo \in {ram.data, None}
    /\ acked <= disk.data

\* What the request in s has found out about the file and still relies on.
SaveFactsOf(s) ==
    /\ up => task[s].op # "setup"
    /\ ~ up => \/ task[s] = Idle
               \/ task[s].op = "setup" /\ task[s].at \in KeySteps \cup {"wrap", "save"}
    /\ task[s].op \in {"first", "init"} /\ task[s].at \in KeySteps \cup {"wrap"} =>
          ram.setupRequired /\ ram.data = 0
    /\ task[s].op = "enable" /\ task[s].at \in KeySteps \cup {"wrap"} => ~ ram.locked
    /\ task[s].op = "setup" =>
          disk = NoFile /\ ram.mode = "password" /\ ram.data = 0
          /\ ~ ram.locked /\ ~ ram.setupRequired
    /\ task[s].at = "seal" =>
          ram.mode = "password" /\ ~ ram.setupRequired /\ ~ ram.locked
          /\ ram.env.data = disk.data
    /\ task[s].at = "save" =>
          \/ Saveable /\ ~ ram.setupRequired /\ disk.data <= ram.data
          \/ task[s].op = "structure" /\ ram.locked /\ FileMatches
SaveFacts == \A s \in Slots : SaveFactsOf(s)

FInv == IInv /\ ModeFacts /\ FileFacts /\ SaveFacts

LEMMA FileInit == Init => FInv
<1> SUFFICES ASSUME Init PROVE FInv
  OBVIOUS
<1>1. IInv
  BY InitEstablishes
<1>2. ModeFacts
  BY DEF Init, ModeFacts, FreshRam
<1>3. FileFacts
  BY DEF Init, FileFacts, NoFile
<1>4. SaveFacts
  BY DEF Init, SaveFacts, SaveFactsOf, Idle, KeySteps
<1> QED
  BY <1>1, <1>2, <1>3, <1>4 DEF FInv

\* Who is saving, sealing or about to summarise holds the lock: it is the head
\* of the queue or nobody.
LEMMA InLockSteps ==
  ASSUME IInv, NEW t \in Slots, task[t].at \in {"save", "seal", "fifo"}
  PROVE  InLock(t)
  BY DEF InLock, IInv, StepFacts, FactsOf, KeySteps

\* While s holds the lock the phase of the vault is the step of s.
LEMMA PhaseOfHolder ==
  ASSUME IInv, NEW s \in Slots, Holds(s), \A t \in Slots \ {s} : task'[t] = task[t]
  PROVE  /\ Saving <=> task[s].at = "save"
         /\ Sealing <=> task[s].at = "seal"
         /\ Opening <=> task[s].at = "fifo"
         /\ Saving' <=> task'[s].at = "save"
         /\ Sealing' <=> task'[s].at = "seal"
         /\ Opening' <=> task'[s].at = "fifo"
<1>1. \A t \in Slots \ {s} : task[t].at \notin {"save", "seal", "fifo"}
  BY InLockSteps, OnlyOneInLock
<1> QED
  BY <1>1 DEF Saving, Sealing, Opening

\* A request that is not in the lock keeps its facts through a step of the
\* holder, unless the entry comes up under it.
LEMMA OthersKeepSaveFacts ==
  ASSUME IInv, NEW t \in Slots, ~ InLock(t), task'[t] = task[t], SaveFactsOf(t),
         up' = up \/ task[t] = Idle
  PROVE  SaveFactsOf(t)'
<1>1. task[t].at \notin {"wrap", "save", "seal"}
  BY DEF InLock, IInv, StepFacts, FactsOf, KeySteps
<1>2. task[t].op \in {"first", "init", "enable", "setup"} => task[t].at \notin KeySteps
  BY DEF InLock, KeySteps
<1>3. task[t].op # "setup"
  <2>1. up \/ task[t] = Idle
    BY <1>1, <1>2 DEF SaveFactsOf
  <2> QED
    BY <2>1 DEF SaveFactsOf, Idle
<1>4. ~ up => task[t] = Idle
  BY <1>3 DEF SaveFactsOf
<1> QED
  BY <1>1, <1>2, <1>3, <1>4 DEF SaveFactsOf, Idle

-----------------------------------------------------------------------------
\* A step that leaves the file and the ledger alone, and is not the last one of
\* a save, a password change or an unlock.
Ledger == <<ram.mode, ram.data, ram.locked, ram.setupRequired, ram.env, ram.dek,
            ram.fifo>>

LEMMA QuietKeeps ==
  ASSUME FInv, UNCHANGED <<disk, up, acked, Ledger>>,
         Saving' <=> Saving, Sealing' <=> Sealing, Opening' <=> Opening
  PROVE  ModeFacts' /\ FileFacts'
<1>1. ModeFacts'
  BY DEF FInv, ModeFacts, Ledger
<1>2. FileMatches' <=> FileMatches
  BY DEF FileMatches, Ledger
<1>3. FileFacts'
  BY <1>2 DEF FInv, FileFacts, Ledger
<1> QED
  BY <1>1, <1>3

LEMMA EndedSaveFacts ==
  ASSUME NEW s \in Slots, task'[s] = Idle
  PROVE  SaveFactsOf(s)'
  BY DEF SaveFactsOf, Idle, KeySteps

\* The data of every file is a version, and versions are integers.
LEMMA FileVersions ==
  ASSUME TypeOK
  PROVE  /\ disk.data \in Versions /\ ram.data \in Versions /\ acked \in Versions
         /\ Versions \subseteq Int
         /\ ram.env # None => ram.env \in Envelopes /\ ram.env.data \in Versions
<1>1. disk.data \in Versions
  BY VersionAssumption DEF TypeOK, Files, NoFile, Envelopes, Versions, Stray
<1>2. Versions \subseteq Int
  BY VersionAssumption DEF Versions, Stray
<1> QED
  BY <1>1, <1>2 DEF TypeOK, RamStates, Envelopes

\* A step of the request that holds the lock.
LEMMA HolderKeepsFile ==
  ASSUME FInv, NEW s \in Slots, Holds(s), Work(s), ~ Reload(s)
  PROVE  ModeFacts' /\ FileFacts' /\ SaveFactsOf(s)'
<1> task \in [Slots -> TaskStates] /\ ram \in RamStates /\ TypeOK /\ IInv
  BY DEF FInv, IInv, TypeOK
<1>m. ModeFacts /\ FileFacts
  BY DEF FInv
<1>f. SaveFactsOf(s) /\ FactsOf(s)
  BY DEF FInv, SaveFacts, IInv, StepFacts
<1>o. \A t \in Slots \ {s} : task'[t] = task[t]
  BY DEF Work, EnterUnlock, EnterInit, EnterEnable, EnterDisable, EnterChange,
     EnterLock, EnterWrite, EnterStructure, KeyCached, KeyRead, KeyCreate, HaveKey,
     KeyFails, KeyWrite, KeySet, Wrap, Open, RefreshFifo, SealChange, Save, Answered,
     SaveRaises, DropKey, Raise, End, GoTo
<1>p. /\ Saving <=> task[s].at = "save"
      /\ Sealing <=> task[s].at = "seal"
      /\ Opening <=> task[s].at = "fifo"
      /\ Saving' <=> task'[s].at = "save"
      /\ Sealing' <=> task'[s].at = "seal"
      /\ Opening' <=> task'[s].at = "fifo"
  BY <1>o, PhaseOfHolder
<1>v. /\ disk.data \in Int /\ ram.data \in Int /\ acked \in Int
      /\ ram.env # None => ram.env \in Envelopes /\ ram.env.data \in Int
  BY FileVersions
<1>g. ASSUME NEW step, GoTo(s, step)
      PROVE  task'[s].at = step /\ task'[s].op = task[s].op
  BY <1>g DEF GoTo, TaskStates
<1>i. End(s) => task'[s] = Idle /\ task'[s].at = "idle"
  BY DEF End, Idle
<1>1. ASSUME Raise(s), task[s].at \notin {"save", "seal", "fifo"}
      PROVE  ModeFacts' /\ FileFacts' /\ SaveFactsOf(s)'
  <2>1. UNCHANGED <<disk, up, acked, Ledger>>
    BY <1>1 DEF Raise, files, config, Ledger
  <2> QED
    BY <1>1, <1>i, <1>p, <2>1, QuietKeeps, EndedSaveFacts DEF Raise
<1>2. CASE EnterUnlock(s)
  <2>1. UNCHANGED <<disk, up, acked>> /\ task[s].at = "lock" /\ task[s].op = "unlock" /\ up
    BY <1>2, <1>f DEF EnterUnlock, Entering, At, files, config, SaveFactsOf, Idle
  <2>2. CASE ram.mode # "password"
    <3>1. End(s) /\ ram' = [ram EXCEPT !.locked = FALSE]
      BY <1>2, <2>2 DEF EnterUnlock
    <3>2. UNCHANGED Ledger
      BY <1>m, <2>2, <3>1 DEF Ledger, ModeFacts, RamStates
    <3> QED
      BY <1>i, <1>p, <2>1, <3>1, <3>2, QuietKeeps, EndedSaveFacts
  <2>3. CASE ram.mode = "password" /\ ram.setupRequired
    <3>1. /\ ram' = [ram EXCEPT !.data = 0]
          /\ task' = [task EXCEPT ![s] = [@ EXCEPT !.op = "first", !.at = "key"]]
      BY <1>2, <2>3 DEF EnterUnlock
    <3>2. /\ ram'.data = 0 /\ ram'.mode = ram.mode /\ ram'.locked = ram.locked
          /\ ram'.setupRequired = ram.setupRequired /\ ram'.env = ram.env
          /\ ram'.dek = ram.dek /\ ram'.fifo = ram.fifo
      BY <3>1 DEF RamStates
    <3>3. task'[s].at = "key" /\ task'[s].op = "first"
      BY <3>1, TaskFields
    <3>4. ModeFacts'
      BY <1>m, <2>1, <3>2 DEF ModeFacts
    <3>5. FileFacts'
      BY <1>m, <1>p, <2>1, <2>3, <3>2, <3>3 DEF FileFacts, FileMatches, ModeFacts
    <3>6. SaveFactsOf(s)'
      BY <2>1, <2>3, <3>2, <3>3 DEF SaveFactsOf
    <3> QED
      BY <3>4, <3>5, <3>6
  <2>4. CASE ram.mode = "password" /\ ~ ram.setupRequired
    <3>1. GoTo(s, "key") /\ ram' = ram
      BY <1>2, <2>4 DEF EnterUnlock
    <3>2. task'[s].at = "key" /\ task'[s].op = "unlock"
      BY <1>g, <2>1, <3>1
    <3>3. ModeFacts' /\ FileFacts'
      BY <1>p, <2>1, <3>1, <3>2, QuietKeeps DEF Ledger
    <3> QED
      BY <2>1, <3>2, <3>3 DEF SaveFactsOf
  <2> QED
    BY <2>2, <2>3, <2>4
<1>3. CASE EnterInit(s)
  <2>1. task[s].at = "lock" /\ task[s].op = "init" /\ up
    BY <1>3, <1>f DEF EnterInit, Entering, At, SaveFactsOf, Idle
  <2>2. CASE ram.setupRequired
    <3>1. /\ ram' = [ram EXCEPT !.data = 0] /\ GoTo(s, "key")
          /\ UNCHANGED <<disk, up, acked>>
      BY <1>3, <2>2 DEF EnterInit, files, config
    <3>2. /\ ram'.data = 0 /\ ram'.mode = ram.mode /\ ram'.locked = ram.locked
          /\ ram'.setupRequired = ram.setupRequired /\ ram'.env = ram.env
          /\ ram'.dek = ram.dek /\ ram'.fifo = ram.fifo
      BY <3>1 DEF RamStates
    <3>3. task'[s].at = "key" /\ task'[s].op = "init"
      BY <1>g, <2>1, <3>1
    <3>4. ModeFacts'
      BY <1>m, <3>1, <3>2 DEF ModeFacts
    <3>5. FileFacts'
      BY <1>m, <1>p, <2>1, <2>2, <3>1, <3>2, <3>3 DEF FileFacts, FileMatches, ModeFacts
    <3>6. SaveFactsOf(s)'
      BY <2>1, <2>2, <3>1, <3>2, <3>3 DEF SaveFactsOf
    <3> QED
      BY <3>4, <3>5, <3>6
  <2> QED
    BY <1>1, <1>3, <2>1, <2>2 DEF EnterInit
<1>4. CASE EnterEnable(s) \/ EnterChange(s)
  <2>1. task[s].at = "lock" /\ task[s].op \in {"enable", "change"} /\ up
    BY <1>4, <1>f DEF EnterEnable, EnterChange, Entering, At, SaveFactsOf, Idle
  <2>2. CASE Raise(s)
    BY <1>1, <2>1, <2>2
  <2>3. CASE ~ Raise(s)
    <3>1. /\ GoTo(s, "key") /\ UNCHANGED <<disk, up, acked, ram>>
          /\ task[s].op = "enable" => ~ ram.locked
      BY <1>4, <2>3 DEF EnterEnable, EnterChange, Entering, files, config
    <3>2. task'[s].at = "key" /\ task'[s].op = task[s].op
      BY <1>g, <3>1
    <3>3. ModeFacts' /\ FileFacts'
      BY <1>p, <2>1, <3>1, <3>2, QuietKeeps DEF Ledger
    <3> QED
      BY <2>1, <3>1, <3>2, <3>3 DEF SaveFactsOf
  <2> QED
    BY <2>2, <2>3
<1>5. CASE EnterDisable(s)
  <2>1. task[s].at = "lock" /\ task[s].op = "disable" /\ up
    BY <1>5, <1>f DEF EnterDisable, Entering, At, SaveFactsOf, Idle
  <2>2. CASE ram.locked
    BY <1>1, <1>5, <2>1, <2>2 DEF EnterDisable
  <2>3. CASE ~ ram.locked
    <3>1. /\ ram' = [ram EXCEPT !.mode = "none", !.env = None, !.dek = FALSE]
          /\ GoTo(s, "save") /\ UNCHANGED <<disk, up, acked>>
      BY <1>5, <2>3 DEF EnterDisable, files, config
    <3>2. /\ ram'.data = ram.data /\ ram'.mode = "none" /\ ~ ram'.locked /\ ram'.env = None
          /\ ram'.setupRequired = ram.setupRequired
      BY <2>3, <3>1 DEF RamStates
    <3>3. task'[s].at = "save" /\ task'[s].op = "disable"
      BY <1>g, <2>1, <3>1
    <3>4. ~ ram.setupRequired
      BY <1>m, <2>3 DEF ModeFacts
    <3>5. ModeFacts'
      BY <3>2, <3>4 DEF ModeFacts
    <3>6. FileFacts'
      BY <1>m, <1>p, <3>1, <3>2, <3>3 DEF FileFacts
    <3>7. disk.data <= ram.data
      BY <1>m, <1>p, <1>v, <2>1, <2>3, <3>4 DEF FileFacts, FileMatches, Plain
    <3>8. SaveFactsOf(s)'
      BY <2>1, <3>1, <3>2, <3>3, <3>4, <3>7 DEF SaveFactsOf, Saveable, KeySteps
    <3> QED
      BY <3>5, <3>6, <3>8
  <2> QED
    BY <2>2, <2>3
<1>6. CASE EnterLock(s)
  <2>1. /\ task[s].at = "lock" /\ UNCHANGED <<disk, up, acked>> /\ End(s)
        /\ ram' = IF ram.mode # "password" THEN ram
                  ELSE [ram EXCEPT !.data = 0, !.dek = FALSE, !.secret = None,
                                   !.fifo = None, !.locked = TRUE]
    BY <1>6 DEF EnterLock, Entering, At, files, config
  <2>2. CASE ram.mode # "password"
    BY <1>i, <1>p, <2>1, <2>2, QuietKeeps, EndedSaveFacts DEF Ledger
  <2>3. CASE ram.mode = "password"
    <3>1. /\ ram'.mode = ram.mode /\ ram'.locked
          /\ ram'.setupRequired = ram.setupRequired /\ ram'.env = ram.env
      BY <2>1, <2>3 DEF RamStates
    <3>2. ModeFacts'
      BY <1>m, <2>1, <2>3, <3>1 DEF ModeFacts
    <3>3. FileFacts'
      BY <1>m, <1>p, <2>1, <2>3, <3>1 DEF FileFacts, FileMatches
    <3> QED
      BY <1>i, <2>1, <3>2, <3>3, EndedSaveFacts
  <2> QED
    BY <2>2, <2>3
<1>7. CASE EnterWrite(s) \/ EnterStructure(s)
  <2>1. task[s].at = "lock" /\ task[s].op \in {"write", "structure"} /\ up
    BY <1>7, <1>f DEF EnterWrite, EnterStructure, Entering, At, SaveFactsOf, Idle
  <2>2. CASE Raise(s)
    BY <1>1, <2>1, <2>2
  <2>3. CASE ~ Raise(s)
    <3>1. /\ GoTo(s, "save") /\ UNCHANGED <<disk, up, acked>>
          /\ \/ ~ ram.locked /\ ram' = [ram EXCEPT !.data = ram.data + 1]
             \/ /\ ram.locked /\ ram' = [ram EXCEPT !.data = Stray]
                /\ task[s].op = "structure"
      BY <1>7, <2>3 DEF EnterWrite, EnterStructure, Entering, files, config
    <3>2. /\ ram'.mode = ram.mode /\ ram'.locked = ram.locked /\ ram'.dek = ram.dek
          /\ ram'.setupRequired = ram.setupRequired /\ ram'.env = ram.env
          /\ ~ ram.locked => ram'.data = ram.data + 1
      BY <3>1 DEF RamStates
    <3>3. task'[s].at = "save" /\ task'[s].op = task[s].op
      BY <1>g, <3>1
    <3>4. ModeFacts'
      BY <1>m, <3>1, <3>2 DEF ModeFacts
    <3>5. FileFacts'
      BY <1>m, <1>p, <3>1, <3>3 DEF FileFacts
    <3>6. FileMatches /\ (ram.locked => FileMatches')
      BY <1>m, <1>p, <2>1, <3>1, <3>2 DEF FileFacts, FileMatches, ModeFacts
    <3>7. ~ ram.locked => Saveable' /\ ~ ram.setupRequired
      BY <1>m, <2>1, <3>2 DEF ModeFacts, Saveable
    <3>8. ~ ram.locked => disk.data <= ram.data + 1
      BY <1>m, <1>p, <1>v, <2>1, <3>6, <3>7 DEF FileFacts, FileMatches, Plain
    <3>9. SaveFactsOf(s)'
      BY <2>1, <3>1, <3>2, <3>3, <3>6, <3>7, <3>8 DEF SaveFactsOf, KeySteps
    <3> QED
      BY <3>4, <3>5, <3>9
  <2> QED
    BY <2>2, <2>3
<1>8. CASE KeyCached(s) \/ KeyRead(s) \/ KeyCreate(s) \/ KeyFails(s) \/ KeyWrite(s) \/ KeySet(s)
  <2>1. /\ task[s].at \in KeySteps /\ UNCHANGED <<disk, up, acked>>
        /\ ram' = ram \/ ram' = [ram EXCEPT !.secret = task[s].got]
    BY <1>8 DEF KeyCached, KeyRead, KeyCreate, KeyFails, KeyWrite, KeySet, Raise, At,
       KeySteps, files, config
  <2>2. UNCHANGED Ledger
    BY <2>1 DEF Ledger, RamStates
  <2>3. CASE End(s)
    BY <1>i, <1>p, <2>1, <2>2, <2>3, QuietKeeps, EndedSaveFacts DEF KeySteps
  <2>4. CASE ~ End(s)
    <3>1. /\ task'[s].op = task[s].op
          /\ \/ task'[s].at \in KeySteps
             \/ task'[s].at = AfterKey(s)
      <4>1. CASE KeyCached(s) \/ KeyCreate(s) \/ KeyFails(s)
        BY <1>g, <2>4, <4>1 DEF KeyCached, HaveKey, KeyCreate, KeyFails, Raise, KeySteps
      <4>2. CASE KeyRead(s) \/ KeyWrite(s) \/ KeySet(s)
        <5>1. \E step \in {"keyset", AfterKey(s)}, k \in Keys \cup {None} :
                 task'[s] = [task[s] EXCEPT !.at = step, !.got = k]
          <6>1. CASE KeyRead(s)
            BY <6>1 DEF KeyRead
          <6>2. CASE KeyWrite(s)
            BY <6>2 DEF KeyWrite
          <6>3. CASE KeySet(s)
            <7>1. task'[s] = [task[s] EXCEPT !.at = AfterKey(s), !.got = None]
              BY <2>4, <6>3 DEF KeySet
            <7> QED
              BY <7>1
          <6> QED
            BY <4>2, <6>1, <6>2, <6>3
        <5> QED
          BY <5>1, TaskFields DEF KeySteps
      <4> QED
        BY <1>8, <4>1, <4>2
    <3>2. /\ task'[s].at \in KeySteps \cup {"wrap", "open"}
          /\ task'[s].at \in KeySteps \cup {"wrap"} \/ task[s].op \in {"unlock", "change"}
      BY <3>1 DEF AfterKey
    <3>3. ModeFacts' /\ FileFacts'
      BY <1>p, <2>1, <2>2, <3>2, QuietKeeps DEF KeySteps
    <3>4. task[s].op \in Creators \cup {"unlock", "change", "key"} /\ task[s] # Idle
      BY <1>f, <2>1 DEF FactsOf, KeySteps, Idle
    <3>5. SaveFactsOf(s)'
      BY <1>f, <2>1, <2>2, <3>1, <3>2, <3>4 DEF SaveFactsOf, KeySteps, Creators, Ledger
    <3> QED
      BY <3>3, <3>5
  <2> QED
    BY <2>3, <2>4
<1>9. CASE Wrap(s)
  <2>1. /\ task[s].at = "wrap" /\ UNCHANGED <<disk, up, acked>> /\ GoTo(s, "save")
        /\ ram' = [ram EXCEPT !.env = Envelope(task[s].pw, ram.secret, ram.data),
                              !.dek = TRUE, !.locked = FALSE,
                              !.setupRequired = FALSE, !.mode = "password"]
    BY <1>9 DEF Wrap, At, files, config
  <2>2. task[s].op \in Creators /\ ram.secret \in Keys /\ task[s].pw \in Passwords
    BY <1>f, <2>1 DEF FactsOf, RamStates
  <2>3. ram'.env \in Envelopes
    <3>1. Envelope(task[s].pw, ram.secret, ram.data) \in Envelopes
      BY <2>2, FileVersions DEF Envelope, Envelopes
    <3> QED
      BY <2>1, <3>1 DEF RamStates
  <2>4. /\ ram'.mode = "password" /\ ram'.dek /\ ~ ram'.locked /\ ~ ram'.setupRequired
        /\ ram'.data = ram.data
    BY <2>1 DEF RamStates
  <2>5. task'[s].at = "save" /\ task'[s].op = task[s].op
    BY <1>g, <2>1
  <2>6. ram'.env # None
    BY <2>3, EnvelopeAssumption
  <2>7. ModeFacts'
    BY <2>4, <2>6 DEF ModeFacts
  <2>8. FileFacts'
    BY <1>m, <1>p, <2>1, <2>5 DEF FileFacts
  <2>9. disk.data <= ram.data
    <3>1. CASE task[s].op \in {"first", "init"}
      BY <1>f, <1>m, <2>1, <3>1 DEF SaveFactsOf, ModeFacts, NoFile
    <3>2. CASE task[s].op = "setup"
      BY <1>f, <3>2 DEF SaveFactsOf, NoFile
    <3>3. CASE task[s].op = "enable"
      <4>1. up /\ ~ ram.locked
        BY <1>f, <2>1, <3>3 DEF SaveFactsOf, Idle
      <4> QED
        BY <1>m, <1>p, <1>v, <2>1, <4>1 DEF FileFacts, FileMatches, Plain, ModeFacts
    <3> QED
      BY <2>2, <3>1, <3>2, <3>3 DEF Creators
  <2>10. SaveFactsOf(s)'
    BY <1>f, <2>1, <2>2, <2>4, <2>5, <2>6, <2>9 DEF SaveFactsOf, Saveable, KeySteps, Creators, Idle
  <2> QED
    BY <2>7, <2>8, <2>10
<1>10. CASE Open(s)
  <2>1. task[s].at = "open" /\ UNCHANGED <<disk, up, acked>>
    BY <1>10 DEF Open, At, Raise, files, config
  <2>2. up /\ task[s].op # "setup"
    BY <1>f, <2>1 DEF SaveFactsOf, Idle, KeySteps
  <2>3. CASE Raise(s)
    BY <1>1, <2>1, <2>3
  <2>4. CASE ~ Raise(s)
    <3>1. Opened \in Envelopes /\ Opened.data \in Versions
      BY <1>10, <2>4 DEF Open, Opens, Opened, TypeOK, Files, NoFile, RamStates, Envelopes
    <3>2. ~ ram.setupRequired
      BY <1>m, <1>10, <2>4 DEF ModeFacts, Open, Opens, Opened, NoFile
    <3>3. \/ /\ task[s].op = "unlock" /\ GoTo(s, "fifo")
             /\ ram' = [ram EXCEPT !.env = Opened, !.data = Opened.data, !.dek = TRUE,
                                   !.locked = FALSE, !.setupRequired = FALSE]
          \/ /\ task[s].op = "change" /\ GoTo(s, "seal")
             /\ ram' = [ram EXCEPT
                           !.env = Envelope(task[s].new, ram.secret, Opened.data),
                           !.data = Opened.data, !.dek = TRUE, !.locked = FALSE]
      BY <1>10, <2>4 DEF Open
    <3>4. /\ ~ ram'.locked /\ ram'.dek /\ ~ ram'.setupRequired /\ ram'.mode = ram.mode
          /\ ram'.fifo = ram.fifo
          /\ ram'.data = Opened.data /\ ram'.env.data = Opened.data
      <4>1. CASE task[s].op = "unlock"
        BY <3>2, <3>3, <4>1 DEF RamStates
      <4>2. CASE task[s].op = "change"
        <5>1. ram'.env = Envelope(task[s].new, ram.secret, Opened.data)
          BY <3>3, <4>2 DEF RamStates
        <5>2. ram'.env.data = Opened.data
          BY <5>1 DEF Envelope
        <5> QED
          BY <3>2, <3>3, <4>2, <5>2 DEF RamStates
      <4> QED
        BY <3>3, <4>1, <4>2
    <3>5. ram'.env \in Envelopes
      <4>1. CASE task[s].op = "unlock"
        BY <3>1, <3>3, <4>1 DEF RamStates
      <4>2. CASE task[s].op = "change"
        <5>1. task[s].new \in Passwords /\ ram.secret \in Keys
          BY <1>f, <2>1, <4>2 DEF FactsOf, RamStates
        <5>2. Envelope(task[s].new, ram.secret, Opened.data) \in Envelopes
          BY <3>1, <5>1 DEF Envelope, Envelopes
        <5> QED
          BY <3>3, <4>2, <5>2 DEF RamStates
      <4> QED
        BY <3>3, <4>1, <4>2
    <3>6. /\ task'[s].op = task[s].op
          /\ task[s].op = "unlock" => task'[s].at = "fifo" /\ ram'.env = Opened
          /\ task[s].op = "change" => task'[s].at = "seal"
          /\ task[s].op \in {"unlock", "change"}
      BY <1>g, <3>3 DEF RamStates
    <3>7. FileMatches
      BY <1>m, <1>p, <2>1, <2>2 DEF FileFacts
    <3>8. /\ ram.mode = "password"
          /\ Opened = ram.env /\ disk = ram.env
      <4>1. ram.mode = "password"
        <5>1. ram.mode # "password" => ram.env = None /\ disk.form = "plain"
          BY <1>m, <3>7 DEF ModeFacts, FileMatches, Plain, RamStates, Modes
        <5> QED
          BY <3>1, <5>1 DEF Opened, Envelopes
      <4>2. ram.env # None
        BY <1>m, <2>2, <3>2, <4>1 DEF ModeFacts
      <4> QED
        BY <3>2, <3>7, <4>1, <4>2 DEF FileMatches, Opened
    <3>9. ModeFacts'
      BY <3>4, <3>5, <3>8, EnvelopeAssumption DEF ModeFacts
    <3>10. FileFacts'
      <4>1. FileMatches' \/ Sealing'
        BY <1>p, <2>1, <3>4, <3>6, <3>8 DEF FileMatches
      <4>2. Opening' \/ ram'.fifo \in {ram'.data, None}
        BY <1>m, <1>p, <2>1, <2>2, <3>4, <3>6, <3>8 DEF FileFacts, FInv, IInv, LockedHoldsNoPlaintext
      <4> QED
        BY <1>m, <2>1, <3>4, <4>1, <4>2 DEF FileFacts
    <3>11. SaveFactsOf(s)'
      BY <2>1, <2>2, <3>4, <3>6, <3>8 DEF SaveFactsOf, KeySteps
    <3> QED
      BY <3>9, <3>10, <3>11
  <2> QED
    BY <2>3, <2>4
<1>11. CASE RefreshFifo(s)
  <2>1. /\ task[s].at = "fifo" /\ UNCHANGED <<disk, up, acked>> /\ End(s)
        /\ ram' = [ram EXCEPT !.fifo = ram.data]
    BY <1>11 DEF RefreshFifo, At, files, config
  <2>2. /\ ram'.mode = ram.mode /\ ram'.locked = ram.locked /\ ram'.dek = ram.dek
        /\ ram'.setupRequired = ram.setupRequired /\ ram'.env = ram.env
        /\ ram'.data = ram.data /\ ram'.fifo = ram.data
    BY <2>1 DEF RamStates
  <2>3. ModeFacts'
    BY <1>m, <2>1, <2>2 DEF ModeFacts
  <2>4. FileFacts'
    BY <1>m, <1>p, <2>1, <2>2 DEF FileFacts, FileMatches
  <2> QED
    BY <1>i, <2>1, <2>3, <2>4, EndedSaveFacts
<1>12. CASE SealChange(s)
  <2>1. /\ task[s].at = "seal" /\ UNCHANGED <<up, acked, ram>> /\ End(s)
        /\ disk' = ram.env
    BY <1>12 DEF SealChange, At, config
  <2>2. /\ ram.mode = "password" /\ ~ ram.setupRequired /\ ~ ram.locked
        /\ ram.env.data = disk.data
    BY <1>f, <2>1 DEF SaveFactsOf
  <2>3. ModeFacts'
    BY <1>m, <2>1, <2>2 DEF ModeFacts
  <2>4. FileFacts'
    BY <1>i, <1>m, <1>p, <2>1, <2>2 DEF FileFacts, FileMatches
  <2> QED
    BY <1>i, <2>1, <2>3, <2>4, EndedSaveFacts
<1>13. CASE Save(s)
  <2>1. /\ task[s].at = "save" /\ Saveable /\ disk' = Sealed /\ Answered(s)
        /\ ram' = [ram EXCEPT !.fifo = ram.data,
                              !.env = IF ram.mode = "password" THEN Sealed ELSE @,
                              !.secret = IF task[s].op = "disable" THEN None ELSE @]
    BY <1>13 DEF Save, At
  <2>2. ~ ram.locked /\ ~ ram.setupRequired /\ disk.data <= ram.data
    BY <1>f, <2>1 DEF SaveFactsOf, Saveable
  <2>3. /\ ram'.mode = ram.mode /\ ~ ram'.locked /\ ram'.dek = ram.dek
        /\ ~ ram'.setupRequired /\ ram'.data = ram.data /\ ram'.fifo = ram.data
        /\ ram'.env = IF ram.mode = "password" THEN Sealed ELSE ram.env
    BY <2>1, <2>2 DEF RamStates
  <2>4. /\ disk'.data = ram.data
        /\ ram.mode = "password" => Sealed \in Envelopes /\ Sealed.data = ram.data
        /\ ram.mode # "password" => disk' = Plain(ram.data)
    <3>1. ram.mode = "password" => ram.env \in Envelopes
      BY <1>v, <2>1 DEF Saveable
    <3>2. ram.mode = "password" => Sealed \in Envelopes
      BY <3>1, FileVersions DEF Sealed, Envelope, Envelopes
    <3> QED
      BY <2>1, <3>2 DEF Sealed, Envelope, Plain
  <2>5. /\ up' = (up \/ task[s].op = "setup")
        /\ acked' \in {acked, ram.data}
        /\ \/ End(s)
           \/ /\ GoTo(s, "drop") \/ GoTo(s, "reload")
              /\ task[s].op \in {"disable", "init", "enable", "structure"}
    BY <2>1 DEF Answered
  <2>6. ~ Saving' /\ ~ Sealing' /\ ~ Opening'
    BY <1>g, <1>i, <1>p, <2>5
  <2>7. ModeFacts'
    BY <1>m, <2>1, <2>2, <2>3, <2>4, EnvelopeAssumption DEF ModeFacts, Saveable, Modes
  <2>8. FileFacts'
    <3>1. acked' <= disk'.data
      BY <1>m, <1>v, <2>2, <2>4, <2>5 DEF FileFacts
    <3>2. FileMatches'
      BY <2>1, <2>3, <2>4 DEF FileMatches
    <3> QED
      BY <2>3, <2>4, <3>1, <3>2 DEF FileFacts
  <2>9. SaveFactsOf(s)'
    <3>1. CASE End(s)
      BY <1>i, <3>1, EndedSaveFacts
    <3>2. CASE ~ End(s)
      <4>1. up /\ up'
        <5>1. task[s] # Idle
          BY <2>1 DEF Idle
        <5>2. up
          BY <1>f, <2>5, <3>2, <5>1 DEF SaveFactsOf
        <5> QED
          BY <2>5, <5>2
      <4>2. task'[s].at \in {"drop", "reload"} /\ task'[s].op = task[s].op
        BY <1>g, <2>5, <3>2
      <4> QED
        BY <2>5, <3>2, <4>1, <4>2 DEF SaveFactsOf, KeySteps
    <3> QED
      BY <3>1, <3>2
  <2> QED
    BY <2>7, <2>8, <2>9
<1>14. CASE SaveRaises(s)
  <2>1. /\ task[s].at = "save" /\ ~ Saveable /\ End(s) /\ UNCHANGED <<disk, up, acked, ram>>
    BY <1>14 DEF SaveRaises, At, Raise, files, config
  <2>2. ram.locked /\ FileMatches
    BY <1>f, <2>1 DEF SaveFactsOf
  <2>3. ModeFacts'
    BY <1>m, <2>1 DEF ModeFacts
  <2>4. FileFacts'
    BY <1>m, <2>1, <2>2 DEF FileFacts, FileMatches
  <2> QED
    BY <1>i, <2>1, <2>3, <2>4, EndedSaveFacts
<1>15. CASE DropKey(s)
  <2>1. /\ task[s].at = "drop" /\ UNCHANGED <<disk, up, acked, ram>> /\ GoTo(s, "reload")
    BY <1>15 DEF DropKey, At, config
  <2>2. task'[s].at = "reload" /\ task'[s].op = task[s].op
    BY <1>g, <2>1
  <2>3. up /\ task[s].op # "setup"
    BY <1>f, <2>1 DEF SaveFactsOf, Idle, KeySteps
  <2> QED
    BY <1>p, <2>1, <2>2, <2>3, QuietKeeps DEF SaveFactsOf, KeySteps, Ledger
<1> QED
  BY <1>2, <1>3, <1>4, <1>5, <1>6, <1>7, <1>8, <1>9, <1>10, <1>11, <1>12, <1>13, <1>14,
     <1>15 DEF Work

\* A step that leaves the file and the ledger alone keeps the facts of every
\* request it does not touch.
LEMMA QuietSaveFacts ==
  ASSUME NEW t \in Slots, SaveFactsOf(t), task'[t] = task[t], UNCHANGED <<disk, up, Ledger>>
  PROVE  SaveFactsOf(t)'
<1>1. FileMatches' <=> FileMatches
  BY DEF FileMatches, Ledger
<1>2. /\ ram.mode = "password" <=> ram'.mode = "password"
      /\ ram'.env = ram.env /\ ram'.data = ram.data /\ ram'.locked = ram.locked
      /\ ram'.dek = ram.dek /\ ram'.setupRequired = ram.setupRequired
  BY DEF Ledger
<1>3. Saveable' <=> Saveable
  BY <1>2 DEF Saveable
<1> QED
  BY <1>1, <1>2, <1>3 DEF SaveFactsOf

\* A step of Sats Sentinel's key request, which takes no lock.
LEMMA KeyRequestKeepsFile ==
  ASSUME FInv, NEW s \in Slots, task[s].op = "key", Work(s), ~ Reload(s)
  PROVE  ModeFacts' /\ FileFacts' /\ SaveFacts'
<1> task \in [Slots -> TaskStates] /\ ram \in RamStates /\ IInv
  BY DEF FInv, IInv, TypeOK
<1>1. task[s].at \in KeySteps /\ SaveFactsOf(s)
  BY DEF FInv, IInv, StepFacts, FactsOf, SaveFacts
<1>2. KeyCached(s) \/ KeyRead(s) \/ KeyCreate(s) \/ KeyFails(s) \/ KeyWrite(s) \/ KeySet(s)
  BY <1>1 DEF Work, EnterUnlock, EnterInit, EnterEnable, EnterDisable, EnterChange,
     EnterLock, EnterWrite, EnterStructure, Entering, Wrap, Open, RefreshFifo, SealChange,
     Save, SaveRaises, DropKey, At, KeySteps
<1>3. /\ UNCHANGED <<disk, up, acked>>
      /\ ram' = ram \/ ram' = [ram EXCEPT !.secret = task[s].got]
      /\ \A t \in Slots \ {s} : task'[t] = task[t]
  BY <1>2 DEF KeyCached, HaveKey, KeyRead, KeyCreate, KeyFails, KeyWrite, KeySet, Raise,
     End, GoTo, files, config
<1>4. UNCHANGED Ledger
  BY <1>3 DEF Ledger, RamStates
<1>5. End(s) \/ (task'[s].op = "key" /\ task'[s].at \in KeySteps)
  <2>1. CASE KeyCached(s) \/ KeyFails(s)
    BY <2>1 DEF KeyCached, HaveKey, KeyFails, Raise
  <2>2. CASE KeyCreate(s)
    BY <2>2 DEF KeyCreate, GoTo, KeySteps, TaskStates
  <2>3. CASE KeyRead(s)
    <3>1. task'[s] = [task[s] EXCEPT !.at = "keyset", !.got = keyFile]
      BY <2>3 DEF KeyRead
    <3> QED
      BY <3>1, TaskFields DEF KeySteps
  <2>4. CASE KeyWrite(s)
    <3>1. \E k \in Keys : task'[s] = [task[s] EXCEPT !.at = "keyset", !.got = k]
      BY <2>4 DEF KeyWrite
    <3> QED
      BY <3>1, TaskFields DEF KeySteps
  <2>5. CASE KeySet(s)
    BY <2>5 DEF KeySet
  <2> QED
    BY <1>2, <2>1, <2>2, <2>3, <2>4, <2>5
<1>6. task'[s].at \in KeySteps \cup {"idle"}
  BY <1>5 DEF End, Idle
<1>7. /\ Saving' <=> Saving
      /\ Sealing' <=> Sealing
      /\ Opening' <=> Opening
  BY <1>1, <1>3, <1>6 DEF Saving, Sealing, Opening, KeySteps
<1>8. SaveFactsOf(s)'
  <2>1. CASE End(s)
    BY <2>1, EndedSaveFacts DEF End
  <2>2. CASE task'[s].op = "key" /\ task'[s].at \in KeySteps
    <3>1. up'
      BY <1>1, <1>3 DEF SaveFactsOf, Idle
    <3> QED
      BY <2>2, <3>1 DEF SaveFactsOf, KeySteps
  <2> QED
    BY <1>5, <2>1, <2>2
<1>9. SaveFacts'
  BY <1>3, <1>4, <1>8, QuietSaveFacts DEF SaveFacts, FInv
<1> QED
  BY <1>3, <1>4, <1>7, <1>9, QuietKeeps

\* A new request changes nothing yet.
LEMMA RequestKeepsFile ==
  ASSUME FInv, NEW s \in Slots, NEW op, NEW u, NEW p, NEW q, Request(s, op, u, p, q),
         op # "setup"
  PROVE  ModeFacts' /\ FileFacts' /\ SaveFacts'
<1> task \in [Slots -> TaskStates]
  BY DEF FInv, IInv, TypeOK
<1>1. /\ UNCHANGED <<disk, up, acked, Ledger>> /\ up
      /\ \A t \in Slots \ {s} : task'[t] = task[t]
      /\ task'[s].op = op /\ task'[s].at = "lock" /\ task[s].at = "idle"
  BY DEF Request, Free, Idle, files, config, Ledger
<1>2. /\ Saving' <=> Saving
      /\ Sealing' <=> Sealing
      /\ Opening' <=> Opening
  BY <1>1 DEF Saving, Sealing, Opening
<1>3. SaveFactsOf(s)'
  BY <1>1 DEF SaveFactsOf, KeySteps
<1>4. SaveFacts'
  BY <1>1, <1>3, QuietSaveFacts DEF SaveFacts, FInv
<1> QED
  BY <1>1, <1>2, <1>4, QuietKeeps

\* The file, the mode and the ledger in RAM stay in step through every step.
LEMMA FilePreserved == FInv /\ [Next]_vars => ModeFacts' /\ FileFacts' /\ SaveFacts'
<1> SUFFICES ASSUME FInv, [Next]_vars PROVE ModeFacts' /\ FileFacts' /\ SaveFacts'
  OBVIOUS
<1> /\ IInv /\ TypeOK /\ ModeFacts /\ FileFacts /\ SaveFacts
    /\ task \in [Slots -> TaskStates]
  BY DEF FInv, IInv, TypeOK
<1>0. ASSUME UNCHANGED <<disk, up, acked, ram, task>>
      PROVE  ModeFacts' /\ FileFacts' /\ SaveFacts'
  <2>1. UNCHANGED Ledger
    BY <1>0 DEF Ledger
  <2>2. (Saving' <=> Saving) /\ (Sealing' <=> Sealing) /\ (Opening' <=> Opening)
    BY <1>0 DEF Saving, Sealing, Opening
  <2> QED
    BY <1>0, <2>1, <2>2, QuietKeeps, QuietSaveFacts DEF SaveFacts
<1>1. ASSUME NEW s \in Slots, Requests(s) \/ TimerFires(s)
      PROVE  ModeFacts' /\ FileFacts' /\ SaveFacts'
  <2>1. CASE \E op, u, p, q : op # "setup" /\ Request(s, op, u, p, q)
    BY <2>1, RequestKeepsFile
  <2>2. CASE UNCHANGED <<disk, up, acked, ram, task>>
    BY <1>0, <2>2
  <2>3. CASE RequestKey(s)
    <3>1. /\ UNCHANGED <<disk, up, acked, Ledger>> /\ up
          /\ \A t \in Slots \ {s} : task'[t] = task[t]
          /\ task'[s].op = "key" /\ task'[s].at = "key" /\ task[s].at = "idle"
      BY <2>3 DEF RequestKey, Free, Idle, files, config, Ledger, TypeOK
    <3>2. (Saving' <=> Saving) /\ (Sealing' <=> Sealing) /\ (Opening' <=> Opening)
      BY <3>1 DEF Saving, Sealing, Opening
    <3>3. SaveFactsOf(s)'
      BY <3>1 DEF SaveFactsOf
    <3>4. SaveFacts'
      BY <3>1, <3>3, QuietSaveFacts DEF SaveFacts
    <3> QED
      BY <3>1, <3>2, <3>4, QuietKeeps
  <2>4. ASSUME NEW u \in Users, NEW op \in {"write", "structure"}, RequestWrite(s, u, op)
        PROVE  \E x, y, z : op # "setup" /\ Request(s, op, x, y, z)
    BY <2>4 DEF RequestWrite
  <2>5. CASE TimerFires(s) \/ \E u \in Users : RequestLock(s, u)
    BY <2>1, <2>2, <2>5 DEF TimerFires, RequestLock, files, config
  <2>6. CASE \E p \in Passwords : RequestEnable(s, p)
    BY <2>1, <2>6 DEF RequestEnable
  <2>7. CASE \/ \E u \in Users, p \in Passwords : RequestUnlock(s, u, p)
             \/ RequestDisable(s)
             \/ \E p, q \in Passwords : RequestChange(s, p, q)
    BY <2>1, <2>7 DEF RequestUnlock, RequestDisable, RequestChange
  <2> QED
    BY <1>1, <2>1, <2>3, <2>4, <2>5, <2>6, <2>7 DEF Requests
<1>2. CASE Sessions \/ LoseKeyFile \/ UNCHANGED vars
  BY <1>0, <1>2 DEF Sessions, DeadlinePasses, ObserveSession, ConfigureAutoLock,
     SetAllowedUsers, LoseKeyFile, files, config, vars
<1>3. ASSUME Loads PROVE ModeFacts' /\ FileFacts' /\ SaveFacts'
  <2>1. ~ up /\ queue = <<>> /\ task \in [Slots -> TaskStates]
    BY <1>3 DEF Loads, LoadEnvelope, LoadPlain, LoadNew, LoadUnset, Load, BeginSetup, TypeOK
  <2>2. \A t \in Slots : task[t] = Idle
    <3> SUFFICES ASSUME NEW t \in Slots, task[t] # Idle PROVE FALSE
      OBVIOUS
    <3>1. task[t].op = "setup" /\ task[t].at \in KeySteps \cup {"wrap", "save"}
      BY <2>1 DEF SaveFacts, SaveFactsOf
    <3>2. InLock(t)
      BY <3>1 DEF InLock, KeySteps
    <3> QED
      BY <2>1, <3>2 DEF IInv, MutualExclusion, Holds
  <2>3. FreshRam \in RamStates
    BY FreshTypes
  <2>4. ASSUME UNCHANGED <<task, acked>>, up' PROVE SaveFacts' /\ ~ Saving' /\ ~ Opening'
    BY <2>2, <2>4, EndedSaveFacts DEF SaveFacts, Saving, Opening, Idle
  <2>5. CASE LoadEnvelope
    <3>1. disk \in Envelopes
      BY <2>5 DEF LoadEnvelope, TypeOK, Files, NoFile
    <3>2. /\ ram'.mode = "password" /\ ram'.locked /\ ~ ram'.setupRequired
          /\ ram'.env = disk /\ UNCHANGED <<disk, task, acked>> /\ up'
      BY <2>3, <2>5 DEF LoadEnvelope, Load, FreshRam
    <3>3. ModeFacts' /\ FileFacts'
      BY <3>1, <3>2, EnvelopeAssumption DEF ModeFacts, FileFacts, FileMatches
    <3> QED
      BY <2>4, <3>2, <3>3
  <2>6. CASE LoadPlain
    <3>1. disk = Plain(disk.data)
      BY <2>6 DEF LoadPlain, TypeOK, Files, NoFile, Envelopes, Plain
    <3>2. /\ ram'.mode = "none" /\ ~ ram'.locked /\ ~ ram'.setupRequired
          /\ ram'.env = None /\ ram'.data = disk.data /\ ram'.fifo = disk.data
          /\ UNCHANGED <<disk, task, acked>> /\ up'
      BY <2>3, <2>6 DEF LoadPlain, Load, FreshRam
    <3>3. ModeFacts' /\ FileFacts'
      BY <3>1, <3>2 DEF ModeFacts, FileFacts, FileMatches
    <3> QED
      BY <2>4, <3>2, <3>3
  <2>7. CASE LoadNew
    <3>1. /\ ram'.mode = "none" /\ ~ ram'.locked /\ ~ ram'.setupRequired
          /\ ram'.env = None /\ ram'.data = 0 /\ ram'.fifo = 0
          /\ UNCHANGED <<task, acked>> /\ up' /\ disk' = Plain(0) /\ disk.form = "absent"
      BY <2>3, <2>7 DEF LoadNew, Load, FreshRam
    <3>2. disk.data = 0
      BY <3>1 DEF TypeOK, Files, NoFile, Envelopes
    <3>3. ModeFacts'
      BY <3>1 DEF ModeFacts
    <3>4. FileFacts'
      BY <3>1, <3>2 DEF FileFacts, FileMatches, Plain
    <3> QED
      BY <2>4, <3>1, <3>3, <3>4
  <2>8. CASE LoadUnset
    <3>1. disk = NoFile
      BY <2>8 DEF LoadUnset, TypeOK, Files, Envelopes
    <3>2. /\ ram'.mode = "password" /\ ram'.locked /\ ram'.setupRequired
          /\ ram'.env = None /\ UNCHANGED <<disk, task, acked>> /\ up'
      BY <2>3, <2>8 DEF LoadUnset, Load, FreshRam
    <3>3. ModeFacts' /\ FileFacts'
      BY <3>1, <3>2 DEF ModeFacts, FileFacts, FileMatches
    <3> QED
      BY <2>4, <3>2, <3>3
  <2>9. ASSUME NEW s \in Slots, BeginSetup(s) PROVE ModeFacts' /\ FileFacts' /\ SaveFacts'
    <3>1. disk = NoFile
      BY <2>9 DEF BeginSetup, TypeOK, Files, Envelopes
    <3>2. /\ ram'.mode = "password" /\ ~ ram'.locked /\ ~ ram'.setupRequired
          /\ ram'.data = 0 /\ UNCHANGED <<disk, acked, up>>
      BY <2>3, <2>9 DEF BeginSetup, FreshRam, files
    <3>3. /\ task'[s].op = "setup" /\ task'[s].at = "key"
          /\ \A t \in Slots \ {s} : task'[t] = Idle
      BY <2>1, <2>2, <2>9 DEF BeginSetup
    <3>4. ModeFacts' /\ FileFacts'
      BY <2>1, <3>2 DEF ModeFacts, FileFacts
    <3>5. SaveFactsOf(s)'
      BY <2>1, <3>1, <3>2, <3>3 DEF SaveFactsOf, KeySteps
    <3> QED
      BY <3>3, <3>4, <3>5, EndedSaveFacts DEF SaveFacts
  <2> QED
    BY <1>3, <2>5, <2>6, <2>7, <2>8, <2>9 DEF Loads
<1>4. ASSUME Crash \/ \E s \in Slots : Reload(s)
      PROVE  ModeFacts' /\ FileFacts' /\ SaveFacts'
  <2>1. /\ ~ up' /\ ram' = FreshRam /\ UNCHANGED <<disk, acked>>
        /\ \A t \in Slots : task'[t] = Idle
    BY <1>4 DEF Crash, Reload, LoseRam
  <2>2. ModeFacts' /\ FileFacts'
    BY <2>1 DEF ModeFacts, FileFacts, FreshRam
  <2> QED
    BY <2>1, <2>2, EndedSaveFacts DEF SaveFacts
<1>5. ASSUME NEW s \in Slots, Work(s), ~ Reload(s)
      PROVE  ModeFacts' /\ FileFacts' /\ SaveFacts'
  <2>1. CASE task[s].op = "key"
    BY <1>5, <2>1, KeyRequestKeepsFile
  <2>2. CASE task[s].op # "key"
    <3>1. Holds(s)
      BY <1>5, <2>2 DEF Work, EnterUnlock, EnterInit, EnterEnable, EnterDisable,
         EnterChange, EnterLock, EnterWrite, EnterStructure, Entering, KeyCached, KeyRead,
         KeyCreate, KeyFails, KeyWrite, KeySet, Wrap, Open, RefreshFifo, SealChange, Save,
         SaveRaises, DropKey, At
    <3>2. ModeFacts' /\ FileFacts' /\ SaveFactsOf(s)'
      BY <1>5, <3>1, HolderKeepsFile
    <3>3. \A t \in Slots \ {s} : task'[t] = task[t]
      BY <1>5 DEF Work, EnterUnlock, EnterInit, EnterEnable, EnterDisable, EnterChange,
         EnterLock, EnterWrite, EnterStructure, KeyCached, KeyRead, KeyCreate, HaveKey,
         KeyFails, KeyWrite, KeySet, Wrap, Open, RefreshFifo, SealChange, Save, Answered,
         SaveRaises, DropKey, Raise, End, GoTo
    <3>4. ASSUME NEW t \in Slots \ {s} PROVE SaveFactsOf(t)'
      <4>1. ~ InLock(t) /\ SaveFactsOf(t)
        BY <3>1, OnlyOneInLock DEF SaveFacts
      <4>2. up' = up \/ task[t] = Idle
        <5>1. CASE up
          BY <1>5, <5>1 DEF Work, EnterUnlock, EnterInit, EnterEnable, EnterDisable,
             EnterChange, EnterLock, EnterWrite, EnterStructure, KeyCached, KeyRead,
             KeyCreate, KeyFails, KeyWrite, KeySet, Wrap, Open, RefreshFifo, SealChange,
             Save, Answered, SaveRaises, DropKey, Raise, config
        <5>2. CASE ~ up
          BY <4>1, <5>2 DEF SaveFactsOf, InLock, KeySteps
        <5> QED
          BY <5>1, <5>2
      <4> QED
        BY <3>3, <4>1, <4>2, OthersKeepSaveFacts
    <3> QED
      BY <3>2, <3>4 DEF SaveFacts
  <2> QED
    BY <2>1, <2>2
<1> QED
  BY <1>1, <1>2, <1>3, <1>4, <1>5 DEF Next

\* Every reachable state satisfies what is known of the file, the summaries and
\* the acknowledged changes.
THEOREM FileInvariance == Spec => []FInv
<1>1. FInv /\ [Next]_vars => FInv'
  BY TypesPreserved, LockPreserved, FactsPreserved, LockedPreserved, FilePreserved
     DEF FInv, IInv
<1> QED
  BY FileInit, <1>1, PTL DEF Spec

\* With nobody in the lock nobody is half way through a save.
LEMMA AtRest ==
  ASSUME IInv, queue = <<>>
  PROVE  ~ Saving /\ ~ Sealing /\ ~ Opening
<1>1. \A t \in Slots : ~ InLock(t)
  BY DEF IInv, MutualExclusion, Holds
<1> QED
  BY <1>1, InLockSteps DEF Saving, Sealing, Opening

\* When no request holds the lock, the ledger file is what the encryption mode
\* says: no plain file beside an open vault, no envelope other than the one in
\* RAM (async_enable_password, async_disable_password, async_change_password,
\* async_initialize_password, _async_save).
THEOREM FileFollowsMode == Spec => []ModeMatchesFile
<1>1. FInv => ModeMatchesFile
  BY AtRest DEF FInv, FileFacts, FileMatches, ModeMatchesFile
<1> QED
  BY FileInvariance, <1>1, PTL

\* When no request holds the lock, an open ledger's precomputed summaries are
\* those of the ledger: no change, unlock or password change leaves the old ones.
THEOREM SummariesAreFresh == Spec => []FifoNeverStale
<1>1. FInv => FifoNeverStale
  BY AtRest DEF FInv, FileFacts, FifoNeverStale
<1> QED
  BY FileInvariance, <1>1, PTL

\* A change whose caller was answered is in the file for good: no later save,
\* password change, mode change, lock, crash or reload takes it back.
THEOREM AckedIsDurable == Spec => []NoAckedWriteLost
<1>1. FInv => NoAckedWriteLost
  BY DEF FInv, FileFacts, NoAckedWriteLost
<1> QED
  BY FileInvariance, <1>1, PTL

-----------------------------------------------------------------------------
(* The device key.                                                         *)
(*                                                                         *)
(* _async_device_secret caches what a worker thread read when its answer   *)
(* arrives.  Run vault_binding shows a request that takes no lock caching  *)
(* a key that async_disable_password has just removed.  The theorem says   *)
(* that this is the only way to lose the binding, short of losing the file *)
(* itself: without either of the two requests every envelope is bound to   *)
(* the key in the file, through every race of the others and every crash.  *)

\* No key file is lost, and disable-password and Sats Sentinel's key request do
\* not both occur.
BoundTraffic == "lose" \notin Offered /\ ~ ({"disable", "key"} \subseteq Offered)

\* Every copy of the device key is the key in the file.
KeyBound ==
    /\ EnvelopeHasItsKey
    /\ ram.secret # None => ram.secret = keyFile
    /\ ram.env # None => ram.env.key = keyFile

\* What the request in s knows of the key file across its awaits.
KeyFactsOf(s) ==
    /\ task[s].op = "key" => "key" \in Offered
    /\ task[s].op = "disable" => "disable" \in Offered
    /\ task[s].at = "keywrite" => keyFile = s
    /\ task[s].at = "keyset" => task[s].got = keyFile
    /\ task[s].op = "disable" /\ task[s].at \in {"save", "drop"} =>
          ram.mode = "none" /\ ram.env = None
    /\ task[s].at = "drop" =>
          task[s].op = "disable" /\ disk.form = "plain" /\ ram.secret = None
KeyFacts == \A s \in Slots : KeyFactsOf(s)

KInv == IInv /\ KeyBound /\ KeyFacts

LEMMA KeyInit == Init => KInv
<1> SUFFICES ASSUME Init PROVE KInv
  OBVIOUS
<1>1. KeyBound
  BY DEF Init, KeyBound, EnvelopeHasItsKey, NoFile, FreshRam
<1>2. KeyFacts
  BY DEF Init, KeyFacts, KeyFactsOf, Idle
<1> QED
  BY <1>1, <1>2, InitEstablishes DEF KInv

\* A key in a file, in an envelope or in RAM is a key: it is neither missing nor
\* a file a request has still to write.
LEMMA KeyTypes ==
  ASSUME TypeOK
  PROVE  /\ disk.form = "envelope" => disk \in Envelopes /\ disk.key \in Keys
         /\ ram.env # None => ram.env \in Envelopes /\ ram.env.form = "envelope" /\ ram.env.key \in Keys
         /\ ram.secret # None => ram.secret \in Keys
         /\ None \notin Keys \cup Slots /\ Torn \notin Keys
<1>1. disk.form = "envelope" => disk \in Envelopes /\ disk.key \in Keys
  BY DEF TypeOK, Files, NoFile, Envelopes
<1>2. ram.env # None => ram.env \in Envelopes /\ ram.env.form = "envelope" /\ ram.env.key \in Keys
  BY DEF TypeOK, RamStates, Envelopes
<1>3. ram.secret # None => ram.secret \in Keys
  BY DEF TypeOK, RamStates
<1> QED
  BY <1>1, <1>2, <1>3, ValueAssumption

\* While the file holds no key, no copy of a key is anywhere.
LEMMA NoKeyNoCopy ==
  ASSUME KInv, keyFile \notin Keys
  PROVE  disk.form # "envelope" /\ ram.secret = None /\ ram.env = None
  BY KeyTypes DEF KInv, IInv, KeyBound, EnvelopeHasItsKey

LEMMA KeyBoundUnchanged ==
  ASSUME KeyBound, UNCHANGED <<disk, keyFile, ram.secret, ram.env>>
  PROVE  KeyBound'
  BY DEF KeyBound, EnvelopeHasItsKey

\* A request that did not move keeps what it knows, unless its key file or the
\* plain ledger it has written changes under it.
LEMMA OthersKeepKeyFacts ==
  ASSUME IInv, NEW t \in Slots, KeyFactsOf(t), task'[t] = task[t],
         task[t].at \in {"keywrite", "keyset"} => keyFile' = keyFile,
         task[t].op = "disable" /\ task[t].at \in {"save", "drop"} =>
            UNCHANGED <<disk, ram.mode, ram.env, ram.secret>>
  PROVE  KeyFactsOf(t)'
  BY DEF KeyFactsOf

\* A step that leaves every key alone, whatever the request s does.
LEMMA KeysUntouched ==
  ASSUME KInv, NEW s \in Slots, UNCHANGED <<disk, keyFile, ram>>,
         \A t \in Slots \ {s} : task'[t] = task[t], KeyFactsOf(s)'
  PROVE  KeyBound' /\ KeyFacts'
<1>1. KeyBound'
  BY KeyBoundUnchanged DEF KInv
<1>2. ASSUME NEW t \in Slots \ {s} PROVE KeyFactsOf(t)'
  BY OthersKeepKeyFacts DEF KInv, KeyFacts
<1> QED
  BY <1>1, <1>2 DEF KeyFacts

\* A new request waits for the lock, or is about to read the key.
LEMMA RequestKeepsKeys ==
  ASSUME KInv, NEW s \in Slots, NEW op, NEW u, NEW p, NEW q, Request(s, op, u, p, q),
         op # "key", op = "disable" => "disable" \in Offered
  PROVE  KeyBound' /\ KeyFacts'
<1> task \in [Slots -> TaskStates]
  BY DEF KInv, IInv, TypeOK
<1>1. KeyFactsOf(s)'
  BY DEF Request, KeyFactsOf
<1>2. UNCHANGED <<disk, keyFile, ram>> /\ \A t \in Slots \ {s} : task'[t] = task[t]
  BY DEF Request, files
<1> QED
  BY <1>1, <1>2, KeysUntouched

LEMMA EndedKeyFacts ==
  ASSUME NEW s \in Slots, task'[s] = Idle
  PROVE  KeyFactsOf(s)'
  BY DEF KeyFactsOf, Idle

\* The step of a request goes on to a step where it knows nothing of the keys.
LEMMA MovedKeyFacts ==
  ASSUME KInv, NEW s \in Slots,
         task'[s].op \in {task[s].op, "first"},
         task'[s].at \notin {"keywrite", "keyset", "drop"},
         task'[s].op = "disable" /\ task'[s].at = "save" => ram'.mode = "none" /\ ram'.env = None
  PROVE  KeyFactsOf(s)'
  BY DEF KInv, KeyFacts, KeyFactsOf

\* A step of the request in s that keeps the key file keeps what the others know.
LEMMA WorkKeepsOthers ==
  ASSUME BoundTraffic, KInv, NEW s \in Slots, task[s].op = "key" \/ Holds(s),
         \A t \in Slots \ {s} : task'[t] = task[t],
         keyFile' = keyFile,
         task[s].op = "key" => UNCHANGED <<disk, ram.mode, ram.env>>,
         KeyFactsOf(s)', KeyBound'
  PROVE  KeyBound' /\ KeyFacts'
<1> SUFFICES ASSUME NEW t \in Slots \ {s} PROVE KeyFactsOf(t)'
  BY DEF KeyFacts
<1>1. IInv /\ KeyFactsOf(t) /\ KeyFactsOf(s)
  BY DEF KInv, KeyFacts
<1>2. CASE ~ (task[t].op = "disable" /\ task[t].at \in {"save", "drop"})
  BY <1>1, <1>2, OthersKeepKeyFacts
<1>3. CASE task[t].op = "disable" /\ task[t].at \in {"save", "drop"}
  <2>1. InLock(t)
    BY <1>3 DEF InLock
  <2>2. task[s].op = "key"
    BY <1>1, <2>1, OnlyOneInLock
  <2> QED
    BY <1>1, <1>3, <2>2 DEF BoundTraffic, KeyFactsOf
<1> QED
  BY <1>2, <1>3

\* A step of a request in flight.
LEMMA WorkKeepsKeys ==
  ASSUME BoundTraffic, KInv, NEW s \in Slots, Work(s), ~ Reload(s)
  PROVE  KeyBound' /\ KeyFacts'
<1> task \in [Slots -> TaskStates] /\ ram \in RamStates /\ TypeOK /\ IInv
  BY DEF KInv, IInv, TypeOK
<1>0. KeyFactsOf(s) /\ FactsOf(s) /\ KeyBound
  BY DEF KInv, IInv, KeyFacts, StepFacts
<1>1. \A t \in Slots \ {s} : task'[t] = task[t]
  BY DEF Work, EnterUnlock, EnterInit, EnterEnable, EnterDisable, EnterChange,
     EnterLock, EnterWrite, EnterStructure, KeyCached, KeyRead, KeyCreate, HaveKey,
     KeyFails, KeyWrite, KeySet, Wrap, Open, RefreshFifo, SealChange, Save, Answered,
     SaveRaises, DropKey, Raise, End, GoTo
<1>2. task[s].op = "key" \/ Holds(s)
  BY DEF Work, EnterUnlock, EnterInit, EnterEnable, EnterDisable, EnterChange,
     EnterLock, EnterWrite, EnterStructure, Entering, KeyCached, KeyRead, KeyCreate,
     KeyFails, KeyWrite, KeySet, Wrap, Open, RefreshFifo, SealChange, Save, SaveRaises,
     DropKey, At
<1>3. ASSUME Raise(s) PROVE KeyBound' /\ KeyFacts'
  BY <1>1, <1>3, EndedKeyFacts, KeysUntouched DEF Raise, End, files
<1>4. CASE EnterUnlock(s)
  <2>1. UNCHANGED <<disk, keyFile, ram.secret, ram.env>>
    BY <1>4 DEF EnterUnlock, files, RamStates
  <2>2. KeyFactsOf(s)'
    <3>1. CASE End(s)
      BY <3>1, EndedKeyFacts DEF End
    <3>2. CASE GoTo(s, "key")
      <4>1. task'[s].op = task[s].op /\ task'[s].at = "key"
        BY <3>2 DEF GoTo, TaskStates
      <4> QED
        BY <4>1, MovedKeyFacts
    <3>3. CASE task' = [task EXCEPT ![s] = [@ EXCEPT !.op = "first", !.at = "key"]]
      <4>1. task'[s].op = "first" /\ task'[s].at = "key"
        BY <3>3, TaskFields
      <4> QED
        BY <4>1, MovedKeyFacts
    <3> QED
      BY <1>4, <3>1, <3>2, <3>3 DEF EnterUnlock
  <2>3. task[s].op # "key"
    BY <1>4 DEF EnterUnlock, Entering
  <2> QED
    BY <1>0, <1>1, <1>2, <2>1, <2>2, <2>3, KeyBoundUnchanged, WorkKeepsOthers
<1>5. CASE EnterInit(s) \/ EnterEnable(s) \/ EnterChange(s)
  <2>1. CASE Raise(s)
    BY <1>3, <2>1
  <2>2. CASE ~ Raise(s)
    <3>1. UNCHANGED <<disk, keyFile, ram.secret, ram.env>> /\ GoTo(s, "key")
      BY <1>5, <2>2 DEF EnterInit, EnterEnable, EnterChange, files, RamStates
    <3>2. task'[s].op = task[s].op /\ task'[s].at = "key" /\ task[s].op # "key"
      BY <1>5, <3>1 DEF GoTo, TaskStates, EnterInit, EnterEnable, EnterChange, Entering
    <3>3. KeyFactsOf(s)'
      BY <3>2, MovedKeyFacts
    <3> QED
      BY <1>0, <1>1, <1>2, <3>1, <3>2, <3>3, KeyBoundUnchanged, WorkKeepsOthers
  <2> QED
    BY <2>1, <2>2
<1>6. CASE EnterDisable(s)
  <2>1. CASE Raise(s)
    BY <1>3, <2>1
  <2>2. CASE ~ Raise(s)
    <3>1. /\ UNCHANGED <<disk, keyFile, ram.secret>> /\ GoTo(s, "save")
          /\ ram'.mode = "none" /\ ram'.env = None
      BY <1>6, <2>2 DEF EnterDisable, files, RamStates
    <3>2. task'[s].op = task[s].op /\ task'[s].at = "save" /\ task[s].op # "key"
      BY <1>6, <3>1 DEF GoTo, TaskStates, EnterDisable, Entering
    <3>3. KeyFactsOf(s)'
      BY <3>1, <3>2, MovedKeyFacts
    <3>4. KeyBound'
      BY <1>0, <3>1 DEF KeyBound, EnvelopeHasItsKey
    <3> QED
      BY <1>1, <1>2, <3>1, <3>2, <3>3, <3>4, WorkKeepsOthers
  <2> QED
    BY <2>1, <2>2
<1>7. CASE EnterLock(s)
  <2>1. UNCHANGED <<disk, keyFile>> /\ ram'.env = ram.env /\ ram'.secret \in {ram.secret, None}
    BY <1>7 DEF EnterLock, files, RamStates
  <2>2. task'[s] = Idle /\ task[s].op # "key"
    BY <1>7 DEF EnterLock, End, Entering
  <2>3. KeyBound'
    BY <1>0, <2>1 DEF KeyBound, EnvelopeHasItsKey
  <2> QED
    BY <1>1, <1>2, <2>1, <2>2, <2>3, EndedKeyFacts, WorkKeepsOthers
<1>8. CASE EnterWrite(s) \/ EnterStructure(s)
  <2>1. CASE Raise(s)
    BY <1>3, <2>1
  <2>2. CASE ~ Raise(s)
    <3>1. UNCHANGED <<disk, keyFile, ram.secret, ram.env>> /\ GoTo(s, "save")
      BY <1>8, <2>2 DEF EnterWrite, EnterStructure, files, RamStates
    <3>2. task'[s].op \in {"write", "structure"} /\ task'[s].at = "save"
          /\ task'[s].op = task[s].op
      BY <1>8, <3>1 DEF GoTo, TaskStates, EnterWrite, EnterStructure, Entering
    <3>3. KeyFactsOf(s)'
      BY <3>2, MovedKeyFacts
    <3> QED
      BY <1>0, <1>1, <1>2, <3>1, <3>2, <3>3, KeyBoundUnchanged, WorkKeepsOthers
  <2> QED
    BY <2>1, <2>2
<1>9. CASE KeyCached(s)
  <2>1. UNCHANGED <<disk, keyFile, ram>>
    BY <1>9 DEF KeyCached, files
  <2>2. KeyFactsOf(s)'
    <3>1. CASE End(s)
      BY <3>1, EndedKeyFacts DEF End
    <3>2. CASE GoTo(s, AfterKey(s)) /\ task[s].op # "key"
      <4>1. task'[s].op = task[s].op /\ task'[s].at \in {"open", "wrap"}
        BY <3>2 DEF GoTo, AfterKey, TaskStates
      <4> QED
        BY <4>1, MovedKeyFacts
    <3> QED
      BY <1>9, <3>1, <3>2 DEF KeyCached, HaveKey
  <2> QED
    BY <1>1, <2>1, <2>2, KeysUntouched
<1>10. CASE KeyRead(s)
  <2>1. UNCHANGED <<disk, keyFile, ram>> /\ task[s].at = "key"
    BY <1>10 DEF KeyRead, At, files
  <2>2. task'[s] = [task[s] EXCEPT !.at = "keyset", !.got = keyFile]
    BY <1>10 DEF KeyRead
  <2>3. task'[s].op = task[s].op /\ task'[s].at = "keyset" /\ task'[s].got = keyFile
    BY <2>2, TaskFields
  <2>4. KeyFactsOf(s)'
    BY <1>0, <2>1, <2>3 DEF KeyFactsOf
  <2> QED
    BY <1>1, <2>1, <2>4, KeysUntouched
<1>11. CASE KeyCreate(s)
  <2>1. UNCHANGED <<disk, ram>> /\ keyFile = None /\ keyFile' = s /\ GoTo(s, "keywrite")
    BY <1>11 DEF KeyCreate
  <2>2. task'[s].op = task[s].op /\ task'[s].at = "keywrite"
    BY <2>1 DEF GoTo, TaskStates
  <2>3. disk.form # "envelope" /\ ram.secret = None /\ ram.env = None
    BY <2>1, NoKeyNoCopy, KeyTypes
  <2>4. KeyBound'
    BY <2>1, <2>3 DEF KeyBound, EnvelopeHasItsKey
  <2>5. KeyFactsOf(s)'
    BY <1>0, <2>1, <2>2 DEF KeyFactsOf
  <2>6. ASSUME NEW t \in Slots \ {s} PROVE KeyFactsOf(t)'
    <3>1. KeyFactsOf(t) /\ FactsOf(t)
      BY DEF KInv, IInv, KeyFacts, StepFacts
    <3>2. task[t].at \notin {"keywrite", "keyset"}
      BY <2>1, <3>1, KeyTypes DEF KeyFactsOf, FactsOf
    <3> QED
      BY <1>1, <2>1, <3>1, <3>2, OthersKeepKeyFacts
  <2> QED
    BY <2>4, <2>5, <2>6 DEF KeyFacts
<1>12. CASE KeyFails(s)
  BY <1>3, <1>12 DEF KeyFails
<1>13. CASE KeyWrite(s)
  <2>1. PICK k \in Keys : /\ keyFile' = IF keyFile = s THEN k ELSE keyFile
                          /\ task' = [task EXCEPT ![s] = [@ EXCEPT !.at = "keyset", !.got = k]]
    BY <1>13 DEF KeyWrite
  <2>2. UNCHANGED <<disk, ram>> /\ task[s].at = "keywrite" /\ keyFile = s
    BY <1>0, <1>13 DEF KeyWrite, At, KeyFactsOf
  <2>3. task'[s] = [task[s] EXCEPT !.at = "keyset", !.got = k]
    BY <2>1
  <2>4. task'[s].op = task[s].op /\ task'[s].at = "keyset" /\ task'[s].got = k
    BY <2>3, TaskFields
  <2>5. s \notin Keys
    BY ValueAssumption
  <2>6. KeyBound'
    BY <2>2, <2>5, NoKeyNoCopy DEF KeyBound, EnvelopeHasItsKey
  <2>7. KeyFactsOf(s)'
    BY <1>0, <2>1, <2>2, <2>4 DEF KeyFactsOf
  <2>8. ASSUME NEW t \in Slots \ {s} PROVE KeyFactsOf(t)'
    <3>1. KeyFactsOf(t) /\ FactsOf(t)
      BY DEF KInv, IInv, KeyFacts, StepFacts
    <3>2. task[t].at \notin {"keywrite", "keyset"}
      BY <2>2, <2>5, <3>1 DEF KeyFactsOf, FactsOf
    <3> QED
      BY <1>1, <2>2, <3>1, <3>2, OthersKeepKeyFacts
  <2> QED
    BY <2>6, <2>7, <2>8 DEF KeyFacts
<1>14. CASE KeySet(s)
  <2>1. /\ UNCHANGED <<disk, keyFile>> /\ ram'.secret = task[s].got
        /\ ram'.env = ram.env /\ ram'.mode = ram.mode /\ task[s].at = "keyset"
    BY <1>14 DEF KeySet, At, files, RamStates
  <2>2. task[s].got = keyFile
    BY <1>0, <2>1 DEF KeyFactsOf
  <2>3. KeyBound'
    BY <1>0, <2>1, <2>2 DEF KeyBound, EnvelopeHasItsKey
  <2>4. KeyFactsOf(s)'
    <3>1. CASE End(s)
      BY <3>1, EndedKeyFacts DEF End
    <3>2. CASE task' = [task EXCEPT ![s] = [@ EXCEPT !.at = AfterKey(s), !.got = None]]
      <4>1. task'[s] = [task[s] EXCEPT !.at = AfterKey(s), !.got = None]
        BY <3>2
      <4>2. task'[s].op = task[s].op /\ task'[s].at \in {"open", "wrap"}
        BY <4>1, TaskFields DEF AfterKey
      <4> QED
        BY <4>2, MovedKeyFacts
    <3> QED
      BY <1>14, <3>1, <3>2 DEF KeySet
  <2> QED
    BY <1>1, <1>2, <2>1, <2>3, <2>4, WorkKeepsOthers
<1>15. CASE Wrap(s)
  <2>1. task[s].at = "wrap" /\ task[s].op \in Creators /\ ram.secret # None
    BY <1>0, <1>15 DEF Wrap, At, FactsOf
  <2>2. ram'.env = Envelope(task[s].pw, ram.secret, ram.data) /\ ram'.secret = ram.secret
        /\ UNCHANGED <<disk, keyFile>> /\ GoTo(s, "save")
    BY <1>15 DEF Wrap, files, RamStates
  <2>3. ram.secret = keyFile /\ ram'.env.key = keyFile
    BY <1>0, <2>1, <2>2 DEF KeyBound, Envelope
  <2>4. KeyBound'
    BY <1>0, <2>2, <2>3 DEF KeyBound, EnvelopeHasItsKey
  <2>5. task'[s].op = task[s].op /\ task'[s].at = "save" /\ task[s].op \notin {"disable", "key"}
    BY <2>1, <2>2 DEF GoTo, TaskStates, Creators
  <2>6. KeyFactsOf(s)'
    BY <2>5, MovedKeyFacts
  <2> QED
    BY <1>1, <1>2, <2>2, <2>4, <2>5, <2>6, WorkKeepsOthers
<1>16. CASE Open(s)
  <2>1. CASE Raise(s)
    BY <1>3, <2>1
  <2>2. CASE ~ Raise(s)
    <3>1. /\ Opened.form = "envelope" /\ Opened.key = ram.secret /\ task[s].at = "open"
          /\ UNCHANGED <<disk, keyFile>> /\ ram'.secret = ram.secret
          /\ \E step \in {"fifo", "seal"} : GoTo(s, step)
          /\ ram'.env \in {Opened, Envelope(task[s].new, ram.secret, Opened.data)}
          /\ task[s].op \in {"unlock", "change"}
      BY <1>16, <2>2 DEF Open, Opens, At, files, RamStates
    <3>2. ram'.env.key = keyFile
      BY <1>0, <3>1 DEF FactsOf, KeyBound, Envelope
    <3>3. KeyBound'
      BY <1>0, <3>1, <3>2 DEF KeyBound, EnvelopeHasItsKey
    <3>4. task'[s].op = task[s].op /\ task'[s].at \in {"fifo", "seal"}
      BY <3>1 DEF GoTo, TaskStates
    <3>5. KeyFactsOf(s)'
      BY <3>1, <3>4, MovedKeyFacts
    <3> QED
      BY <1>1, <1>2, <3>1, <3>3, <3>5, WorkKeepsOthers
  <2> QED
    BY <2>1, <2>2
<1>17. CASE RefreshFifo(s)
  <2>1. UNCHANGED <<disk, keyFile, ram.secret, ram.env, ram.mode>> /\ task'[s] = Idle
    BY <1>17 DEF RefreshFifo, End, files, RamStates
  <2> QED
    BY <1>0, <1>1, <1>2, <2>1, EndedKeyFacts, KeyBoundUnchanged, WorkKeepsOthers
<1>18. CASE SealChange(s)
  <2>1. /\ UNCHANGED <<keyFile, ram>> /\ disk' = ram.env /\ task'[s] = Idle
        /\ task[s].at = "seal"
    BY <1>18 DEF SealChange, End, At
  <2>2. ram.env # None /\ task[s].op # "key"
    BY <1>0, <2>1, EnvelopeAssumption DEF FactsOf, KeySteps
  <2>3. KeyBound'
    BY <1>0, <2>1, <2>2 DEF KeyBound, EnvelopeHasItsKey
  <2> QED
    BY <1>1, <1>2, <2>1, <2>2, <2>3, EndedKeyFacts, WorkKeepsOthers
<1>19. CASE Save(s)
  <2>1. /\ task[s].at = "save" /\ keyFile' = keyFile /\ disk' = Sealed /\ Saveable
        /\ ram'.env = IF ram.mode = "password" THEN Sealed ELSE ram.env
        /\ ram'.secret = IF task[s].op = "disable" THEN None ELSE ram.secret
        /\ ram'.mode = ram.mode
    BY <1>19 DEF Save, At, RamStates
  <2>2. task[s].op # "key"
    BY <1>0, <2>1 DEF FactsOf, KeySteps
  <2>3. Sealed.form = "envelope" => Sealed.key = keyFile /\ ram.mode = "password"
    BY <1>0, <2>1 DEF Sealed, Saveable, KeyBound, Envelope, Plain
  <2>4. ram.mode = "password" => Sealed.form = "envelope"
    BY DEF Sealed, Envelope
  <2>5. KeyBound'
    BY <1>0, <2>1, <2>3, <2>4 DEF KeyBound, EnvelopeHasItsKey
  <2>6. KeyFactsOf(s)'
    <3>1. CASE End(s)
      BY <3>1, EndedKeyFacts DEF End
    <3>2. CASE GoTo(s, "reload")
      <4>1. task'[s].op = task[s].op /\ task'[s].at = "reload"
        BY <3>2 DEF GoTo, TaskStates
      <4> QED
        BY <4>1, MovedKeyFacts
    <3>3. CASE task[s].op = "disable" /\ GoTo(s, "drop")
      <4>1. task'[s].op = "disable" /\ task'[s].at = "drop"
        BY <3>3 DEF GoTo, TaskStates
      <4>2. ram.mode = "none" /\ ram.env = None /\ "disable" \in Offered
        BY <1>0, <2>1, <3>3 DEF KeyFactsOf
      <4>3. disk'.form = "plain"
        BY <2>1, <4>2 DEF Sealed, Plain
      <4> QED
        BY <2>1, <3>3, <4>1, <4>2, <4>3 DEF KeyFactsOf
    <3> QED
      BY <1>19, <3>1, <3>2, <3>3 DEF Save, Answered
  <2> QED
    BY <1>1, <1>2, <2>1, <2>2, <2>5, <2>6, WorkKeepsOthers
<1>20. CASE SaveRaises(s)
  BY <1>3, <1>20 DEF SaveRaises
<1>21. CASE DropKey(s)
  <2>1. /\ UNCHANGED <<disk, ram>> /\ keyFile' = None /\ GoTo(s, "reload")
        /\ task[s].at = "drop" /\ task[s].op = "disable" /\ disk.form = "plain"
        /\ ram.secret = None /\ ram.env = None /\ "disable" \in Offered
    BY <1>0, <1>21 DEF DropKey, At, KeyFactsOf
  <2>2. KeyBound'
    BY <2>1 DEF KeyBound, EnvelopeHasItsKey
  <2>3. task'[s].op = task[s].op /\ task'[s].at = "reload"
    BY <2>1 DEF GoTo, TaskStates
  <2>4. KeyFactsOf(s)'
    BY <2>3, MovedKeyFacts
  <2>5. ASSUME NEW t \in Slots \ {s} PROVE KeyFactsOf(t)'
    <3>1. KeyFactsOf(t) /\ FactsOf(t) /\ ~ InLock(t)
      BY <1>2, <2>1, OnlyOneInLock DEF KInv, IInv, KeyFacts, StepFacts
    <3>2. task[t].at \notin {"keywrite", "keyset"}
      BY <2>1, <3>1 DEF BoundTraffic, KeyFactsOf, InLock
    <3> QED
      BY <1>1, <2>1, <3>1, <3>2, OthersKeepKeyFacts
  <2> QED
    BY <2>2, <2>4, <2>5 DEF KeyFacts
<1> QED
  BY <1>4, <1>5, <1>6, <1>7, <1>8, <1>9, <1>10, <1>11, <1>12, <1>13, <1>14, <1>15,
     <1>16, <1>17, <1>18, <1>19, <1>20, <1>21 DEF Work

\* Every copy of the device key stays the one in the file through every step.
LEMMA KeysPreserved == BoundTraffic /\ KInv /\ [Next]_vars => KeyBound' /\ KeyFacts'
<1> SUFFICES ASSUME BoundTraffic, KInv, [Next]_vars PROVE KeyBound' /\ KeyFacts'
  OBVIOUS
<1> task \in [Slots -> TaskStates] /\ ram \in RamStates /\ TypeOK /\ IInv
  BY DEF KInv, IInv, TypeOK
<1>0. ASSUME UNCHANGED <<disk, keyFile, ram, task>> PROVE KeyBound' /\ KeyFacts'
  BY <1>0, KeyBoundUnchanged, OthersKeepKeyFacts DEF KInv, KeyFacts
<1>1. ASSUME NEW s \in Slots, Requests(s) \/ TimerFires(s) PROVE KeyBound' /\ KeyFacts'
  <2>1. CASE RequestKey(s)
    <3>1. /\ UNCHANGED <<disk, keyFile, ram>> /\ "key" \in Offered
          /\ task'[s] = [Idle EXCEPT !.op = "key", !.at = "key"]
          /\ \A t \in Slots \ {s} : task'[t] = task[t]
      BY <2>1 DEF RequestKey, files
    <3>2. KeyFactsOf(s)'
      BY <3>1 DEF KeyFactsOf, Idle
    <3> QED
      BY <3>1, <3>2, KeysUntouched
  <2>2. CASE RequestDisable(s)
    BY <2>2, RequestKeepsKeys DEF RequestDisable
  <2>3. CASE UNCHANGED <<files, config, ram, queue, task, acked>>
    BY <1>0, <2>3 DEF files
  <2>4. CASE \E op, u, p, q : op \notin {"key", "disable"} /\ Request(s, op, u, p, q)
    BY <2>4, RequestKeepsKeys
  <2> QED
    BY <1>1, <2>1, <2>2, <2>3, <2>4 DEF Requests, RequestUnlock, RequestEnable,
       RequestChange, RequestLock, RequestWrite, TimerFires, Ops
<1>2. CASE Sessions \/ UNCHANGED vars
  BY <1>0, <1>2 DEF Sessions, DeadlinePasses, ObserveSession, ConfigureAutoLock,
     SetAllowedUsers, vars, files
<1>3. CASE Loads
  <2>1. /\ keyFile' = keyFile /\ ram'.secret = None
        /\ disk' = disk \/ disk'.form = "plain"
        /\ ram'.env = None \/ (ram'.env = disk /\ disk.form = "envelope")
    <3>1. CASE LoadEnvelope
      BY <3>1 DEF LoadEnvelope, Load, FreshRam
    <3>2. CASE LoadPlain \/ LoadUnset
      BY <3>2 DEF LoadPlain, LoadUnset, Load, FreshRam
    <3>3. CASE LoadNew
      BY <3>3 DEF LoadNew, Load, FreshRam, Plain
    <3>4. CASE \E s \in Slots : BeginSetup(s)
      BY <3>4 DEF BeginSetup, FreshRam, files
    <3> QED
      BY <1>3, <3>1, <3>2, <3>3, <3>4 DEF Loads
  <2>2. KeyBound'
    BY <2>1 DEF KInv, KeyBound, EnvelopeHasItsKey
  <2>3. ASSUME NEW t \in Slots PROVE ~ InLock(t)
    BY <1>3 DEF Loads, LoadEnvelope, LoadPlain, LoadNew, LoadUnset, Load, BeginSetup,
       IInv, MutualExclusion, Holds
  <2>4. ASSUME NEW t \in Slots, task'[t] = task[t] PROVE KeyFactsOf(t)'
    <3>1. KeyFactsOf(t) /\ FactsOf(t) /\ ~ (task[t].op = "disable" /\ task[t].at \in {"save", "drop"})
      BY <2>3 DEF KInv, KeyFacts, IInv, StepFacts, InLock
    <3> QED
      BY <2>1, <2>4, <3>1, OthersKeepKeyFacts
  <2>5. ASSUME NEW s \in Slots, BeginSetup(s) PROVE KeyFacts'
    <3>1. KeyFactsOf(s)'
      BY <2>5 DEF BeginSetup, KeyFactsOf
    <3>2. \A t \in Slots \ {s} : task'[t] = task[t]
      BY <2>5 DEF BeginSetup
    <3> QED
      BY <2>4, <3>1, <3>2 DEF KeyFacts
  <2>6. UNCHANGED task => KeyFacts'
    BY <2>4 DEF KeyFacts
  <2> QED
    BY <1>3, <2>2, <2>5, <2>6 DEF Loads, LoadEnvelope, LoadPlain, LoadNew, LoadUnset, Load
<1>4. ASSUME Crash \/ \E s \in Slots : Reload(s) PROVE KeyBound' /\ KeyFacts'
  <2>1. /\ \A t \in Slots : task'[t] = Idle
        /\ ram'.secret = None /\ ram'.env = None /\ disk' = disk
        /\ keyFile' = IF keyFile \in Slots THEN Torn ELSE keyFile
    BY <1>4 DEF Crash, Reload, LoseRam, FreshRam
  <2>2. KeyFacts'
    BY <2>1, EndedKeyFacts DEF KeyFacts
  <2>3. keyFile \in Slots => disk.form # "envelope"
    BY NoKeyNoCopy, ValueAssumption
  <2>4. KeyBound'
    BY <2>1, <2>3 DEF KInv, KeyBound, EnvelopeHasItsKey
  <2> QED
    BY <2>2, <2>4
<1>5. CASE LoseKeyFile
  BY <1>5 DEF LoseKeyFile, BoundTraffic
<1>6. ASSUME NEW s \in Slots, Work(s), ~ Reload(s) PROVE KeyBound' /\ KeyFacts'
  BY <1>6, WorkKeepsKeys
<1> QED
  BY <1>1, <1>2, <1>3, <1>4, <1>5, <1>6 DEF Next

\* As long as the key file is not lost and removing the password does not meet
\* Sats Sentinel's lock-free request for the device key, the key in the file
\* opens the envelope on disk: a first password, a password change, an unlock,
\* a lock and a crash in the middle of any of them bind the ledger to no other
\* key (_async_device_secret, _async_set_new_password_without_lock, _async_save).
THEOREM EnvelopeKeepsItsKey == BoundTraffic => (Spec => []EnvelopeHasItsKey)
<1> SUFFICES ASSUME BoundTraffic PROVE Spec => []EnvelopeHasItsKey
  OBVIOUS
<1>1. KInv /\ [Next]_vars => KInv'
  BY TypesPreserved, LockPreserved, FactsPreserved, LockedPreserved, KeysPreserved
     DEF KInv, IInv
<1>2. KInv => EnvelopeHasItsKey
  BY DEF KInv, KeyBound
<1> QED
  BY KeyInit, <1>1, <1>2, PTL DEF Spec

=============================================================================
