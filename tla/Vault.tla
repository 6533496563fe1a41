------------------------------- MODULE Vault -------------------------------
(***************************************************************************)
(* The life of one password vault: BitcoinLedgerStore's lock, unlock and   *)
(* encryption operations (storage.py), the unlock sessions and encryption  *)
(* mode of BitcoinSecurityStore (security.py), the panel and service       *)
(* handlers that drive both (__init__.py), crash, restart and reload.      *)
(*                                                                         *)
(* A request in flight occupies a slot.  Every step below is the code      *)
(* between two awaits: the event loop is single threaded, so a step is     *)
(* atomic and anything else may run between two steps.  storage._lock is   *)
(* an asyncio.Lock, which serves its waiters first come, first served: the *)
(* sequence "queue", whose head holds the lock or is about to.             *)
(*                                                                         *)
(* The ledger is a version number (0 is the empty ledger).  An envelope is *)
(* the password and the device key that open it, and the version inside.   *)
(***************************************************************************)
EXTENDS Integers, Sequences

CONSTANTS
    Users,       \* Home Assistant users that may be on the allowlist
    Owner,       \* the portfolio owner
    Slots,       \* requests that can be in flight together
    Passwords,   \* passwords a user may type
    Keys,        \* device-binding secrets new_device_secret may return
    None,        \* Python's None
    Torn,        \* a key file whose creator died before it wrote the key
    MaxVersion,  \* bound on the number of ledger writes
    Offered      \* the operations the environment asks for

ASSUME OwnerAssumption   == Owner \in Users
ASSUME VersionAssumption == MaxVersion \in Nat
ASSUME ValueAssumption   ==
    /\ None \notin Passwords \cup Keys \cup Slots \cup Users
    /\ Torn \notin Keys \cup Slots \cup {None}
    /\ Keys \cap Slots = {}

VARIABLES
    disk,       \* the ledger file
    keyFile,    \* the device-binding key file; a slot is still writing it
    requested,  \* the encryption mode chosen in the config flow
    handoff,    \* the config flow's one-time initial password, RAM only
    up,         \* the entry is set up (its runtime is registered)
    ram,        \* BitcoinLedgerStore's fields and the security store's mode
    session,    \* BitcoinSecurityStore's unlock sessions
    allowed,    \* the allowlist
    queue,      \* storage._lock
    task,       \* the requests in flight
    acked       \* history: the newest version a caller was told is saved

vars == <<disk, keyFile, requested, handoff, up, ram, session, allowed, queue,
          task, acked>>
files == <<disk, keyFile>>
config == <<requested, handoff, up, allowed>>

Stray == -1           \* a structure edit made on top of a locked, empty ledger
Versions == Stray .. MaxVersion
Modes == {"none", "password"}

NoFile == [form |-> "absent", pw |-> None, key |-> None, data |-> 0]
Plain(v) == [form |-> "plain", pw |-> None, key |-> None, data |-> v]
Envelope(p, k, v) == [form |-> "envelope", pw |-> p, key |-> k, data |-> v]
Envelopes == [form : {"envelope"}, pw : Passwords, key : Keys, data : Versions]
ASSUME EnvelopeAssumption == None \notin Envelopes
Files == {NoFile} \cup [form : {"plain"}, pw : {None}, key : {None}, data : Versions]
                  \cup Envelopes

Ops == {"none", "unlock", "first", "init", "enable", "disable", "change",
        "lock", "write", "structure", "key", "setup"}
Steps == {"idle", "lock", "key", "keywrite", "keyset", "wrap", "open", "fifo",
          "seal", "save", "drop", "reload"}
Idle == [op |-> "none", by |-> None, at |-> "idle", pw |-> None, new |-> None,
         got |-> None]

RamStates == [mode : Modes, data : Versions, locked : BOOLEAN,
              setupRequired : BOOLEAN, env : Envelopes \cup {None},
              dek : BOOLEAN, secret : Keys \cup {None}, fifo : Versions \cup {None}]
SessionStates == {"none", "live", "due", "endless"}
TaskStates == [op : Ops, by : Users \cup {None}, at : Steps,
               pw : Passwords \cup {None}, new : Passwords \cup {None},
               got : Keys \cup {None}]

\* The type of every variable.
TypeOK ==
    /\ disk \in Files
    /\ keyFile \in Keys \cup Slots \cup {None, Torn}
    /\ requested \in Modes
    /\ handoff \in Passwords \cup {None}
    /\ up \in BOOLEAN
    /\ ram \in RamStates
    /\ session \in [Users -> SessionStates]
    /\ allowed \in SUBSET Users
    /\ queue \in Seq(Slots)
    /\ task \in [Slots -> TaskStates]
    /\ acked \in Versions

-----------------------------------------------------------------------------
(* Fresh objects: BitcoinLedgerStore.__init__, BitcoinSecurityStore.__init__ *)
FreshRam == [mode |-> "none", data |-> 0, locked |-> FALSE,
             setupRequired |-> FALSE, env |-> None, dek |-> FALSE,
             secret |-> None, fifo |-> None]

NoSessions == [u \in Users |-> "none"]

Init ==
    /\ disk = NoFile /\ keyFile = None
    /\ requested \in Modes
    /\ handoff \in IF requested = "password" THEN Passwords \cup {None} ELSE {None}
    /\ up = FALSE /\ ram = FreshRam
    /\ session = NoSessions
    /\ allowed = Users
    /\ queue = <<>> /\ task = [s \in Slots |-> Idle]
    /\ acked = 0

-----------------------------------------------------------------------------
(* Sessions *)

IsUnlocked(sess, u) == sess[u] \in {"live", "endless"}
NoOneUnlocked(sess) == \A u \in Users : ~ IsUnlocked(sess, u)

\* _expire_user_if_due of one user; expire_unlock_sessions of all of them
Expired(sess, u) == IF sess[u] = "due" THEN [sess EXCEPT ![u] = "none"] ELSE sess
AllExpired(sess) == [u \in Users |-> IF sess[u] = "due" THEN "none" ELSE sess[u]]

\* security.require_unlocked of one user
MayUse(u) ==
    /\ u \in allowed
    /\ ram.mode = "password" => IsUnlocked(session, u)

\* Mutant: the session is granted to a user removed during the unlock.
MarkUnlockedUnchecked(sess, u) == [sess EXCEPT ![u] = "live"]

\* mark_user_unlocked: raises for a user who has left the allowlist meanwhile
MarkUnlocked(sess, u) == IF u \in allowed THEN [sess EXCEPT ![u] = "live"] ELSE sess

\* monotonic() reaches the user's deadline
DeadlinePasses(u) ==
    /\ session[u] = "live"
    /\ session' = [session EXCEPT ![u] = "due"]
    /\ UNCHANGED <<files, config, ram, queue, task, acked>>

\* is_user_unlocked in any status or authorisation call expires that user;
\* public_status also counts, and so expires, everybody for the owner
ObserveSession(u) ==
    /\ up /\ ram.mode = "password"
    /\ session' = IF u = Owner THEN AllExpired(session) ELSE Expired(session, u)
    /\ UNCHANGED <<files, config, ram, queue, task, acked>>

\* configure_user_auto_lock: 0 minutes removes the deadline, others renew it
ConfigureAutoLock(u) ==
    /\ up /\ ram.mode = "password" /\ MayUse(u)
    /\ \E d \in {"live", "endless"} : session' = [session EXCEPT ![u] = d]
    /\ UNCHANGED <<files, config, ram, queue, task, acked>>

\* async_set_allowed_users; who leaves the list loses the session
SetAllowedUsers(S) ==
    /\ up
    /\ allowed' = S \cup {Owner}
    /\ session' = [u \in Users |-> IF u \in allowed' THEN session[u] ELSE "none"]
    /\ UNCHANGED <<files, requested, handoff, up, ram, queue, task, acked>>

-----------------------------------------------------------------------------
(* Requests.  A handler checks its caller and then waits for storage._lock. *)

Free(s) == task[s] = Idle

Request(s, op, u, p, q) ==
    /\ up /\ Free(s)
    /\ task' = [task EXCEPT ![s] = [op |-> op, by |-> u, at |-> "lock",
                                    pw |-> p, new |-> q, got |-> None]]
    /\ queue' = Append(queue, s)
    /\ UNCHANGED <<files, config, ram, acked>>

\* _async_unlock_for_requester
RequestUnlock(s, u, p) ==
    /\ "unlock" \in Offered /\ u \in allowed
    /\ Request(s, "unlock", u, p, None)
    /\ UNCHANGED session

\* panel operation "enable": first setup of a vault, or of an open plain ledger
RequestEnable(s, p) ==
    /\ "enable" \in Offered
    /\ IF ram.setupRequired
       THEN Request(s, "init", Owner, p, None)
       ELSE /\ ~ ram.locked /\ ram.mode # "password"
            /\ Request(s, "enable", Owner, p, None)
    /\ UNCHANGED session

\* panel operation "disable"
RequestDisable(s) ==
    /\ "disable" \in Offered
    /\ MayUse(Owner) /\ ram.mode = "password"
    /\ Request(s, "disable", Owner, None, None)
    /\ UNCHANGED session

\* panel operation "change-password"
RequestChange(s, p, q) ==
    /\ "change" \in Offered /\ MayUse(Owner)
    /\ Request(s, "change", Owner, p, q)
    /\ UNCHANGED session

\* Service lock_vault: the ledger is locked once nobody is left inside.
RequestLock(s, u) ==
    /\ "lock" \in Offered /\ up /\ u \in allowed
    /\ session' = AllExpired([session EXCEPT ![u] = "none"])
    /\ IF NoOneUnlocked(session')
       THEN Request(s, "lock", u, None, None)
       ELSE UNCHANGED <<files, config, ram, queue, task, acked>>

\* _async_expire_vault_sessions on one runtime: it locks only when this call
\* has expired somebody
TimerFires(s) ==
    /\ up
    /\ session' = AllExpired(session)
    /\ IF /\ session' # session /\ ram.mode = "password"
          /\ NoOneUnlocked(session') /\ ~ ram.locked
       THEN Request(s, "lock", None, None, None)
       ELSE UNCHANGED <<files, config, ram, queue, task, acked>>

\* Any ledger change.  Transactions are validated under the lock behind
\* require_unlocked ("write"); depots, goals and settings are changed in RAM
\* first ("structure").
RequestWrite(s, u, op) ==
    /\ op \in Offered /\ MayUse(u)
    /\ Request(s, op, u, None, None)
    /\ UNCHANGED session

\* WalletWatchRuntimeStore asks for the device-binding secret, with no lock
RequestKey(s) ==
    /\ "key" \in Offered /\ up /\ Free(s) /\ ram.secret = None
    /\ task' = [task EXCEPT ![s] = [Idle EXCEPT !.op = "key", !.at = "key"]]
    /\ UNCHANGED <<files, config, ram, session, queue, acked>>

-----------------------------------------------------------------------------
(* The steps of a request *)

Holds(s) == queue # <<>> /\ Head(queue) = s
At(s, step) == task[s].at = step /\ (task[s].op = "key" \/ Holds(s))
Entering(s, op) == At(s, "lock") /\ task[s].op = op

GoTo(s, step) == task' = [task EXCEPT ![s].at = step]
Release(s) == queue' = IF task[s].op = "key" THEN queue ELSE Tail(queue)
End(s) == task' = [task EXCEPT ![s] = Idle] /\ Release(s)

\* Mutant: the lock is acquired by hand and an exception skips its release.
RaiseKeepsLock(s) ==
    /\ task' = [task EXCEPT ![s] = Idle]
    /\ UNCHANGED <<files, config, ram, session, queue, acked>>

\* an exception inside "async with self._lock"
Raise(s) == End(s) /\ UNCHANGED <<files, config, ram, session, acked>>

\* async_unlock
EnterUnlock(s) ==
    /\ Entering(s, "unlock")
    /\ \/ /\ ram.mode # "password"
          /\ ram' = [ram EXCEPT !.locked = FALSE]
          /\ session' = MarkUnlocked(session, task[s].by)
          /\ End(s)
       \/ /\ ram.mode = "password" /\ ram.setupRequired
          /\ ram' = [ram EXCEPT !.data = 0]
          /\ task' = [task EXCEPT ![s] = [@ EXCEPT !.op = "first", !.at = "key"]]
          /\ UNCHANGED <<session, queue>>
       \/ /\ ram.mode = "password" /\ ~ ram.setupRequired
          /\ GoTo(s, "key")
          /\ UNCHANGED <<ram, session, queue>>
    /\ UNCHANGED <<files, config, acked>>

\* async_initialize_password
EnterInit(s) ==
    /\ Entering(s, "init")
    /\ IF ram.setupRequired
       THEN /\ ram' = [ram EXCEPT !.data = 0] /\ GoTo(s, "key")
            /\ UNCHANGED <<files, config, session, queue, acked>>
       ELSE Raise(s)

\* async_enable_password
EnterEnable(s) ==
    /\ Entering(s, "enable")
    /\ IF ram.locked
       THEN Raise(s)
       ELSE GoTo(s, "key") /\ UNCHANGED <<files, config, ram, session, queue, acked>>

\* async_disable_password up to its save; changing the mode ends every session
EnterDisable(s) ==
    /\ Entering(s, "disable")
    /\ IF ram.locked
       THEN Raise(s)
       ELSE /\ ram' = [ram EXCEPT !.mode = "none", !.env = None, !.dek = FALSE]
            /\ session' = NoSessions
            /\ GoTo(s, "save")
            /\ UNCHANGED <<files, config, queue, acked>>

\* async_change_password
EnterChange(s) ==
    /\ Entering(s, "change")
    /\ IF ram.mode # "password"
       THEN Raise(s)
       ELSE GoTo(s, "key") /\ UNCHANGED <<files, config, ram, session, queue, acked>>

\* Mutant: async_lock forgets the precomputed summaries.
EnterLockKeepsFifo(s) ==
    /\ Entering(s, "lock")
    /\ ram' = IF ram.mode # "password" THEN ram
              ELSE [ram EXCEPT !.data = 0, !.dek = FALSE, !.secret = None,
                               !.locked = TRUE]
    /\ End(s)
    /\ UNCHANGED <<files, config, session, acked>>

\* async_lock
EnterLock(s) ==
    /\ Entering(s, "lock")
    /\ ram' = IF ram.mode # "password" THEN ram
              ELSE [ram EXCEPT !.data = 0, !.dek = FALSE, !.secret = None,
                               !.fifo = None, !.locked = TRUE]
    /\ End(s)
    /\ UNCHANGED <<files, config, session, acked>>

\* async_append_entry and the other validated changes; validation may refuse
EnterWrite(s) ==
    /\ Entering(s, "write")
    /\ \/ /\ ~ ram.locked /\ ram.data < MaxVersion
          /\ ram' = [ram EXCEPT !.data = @ + 1]
          /\ GoTo(s, "save")
          /\ UNCHANGED <<files, config, session, queue, acked>>
       \/ Raise(s)

\* async_add_depot, async_add_goal...: RAM first, _async_save checks the lock
EnterStructure(s) ==
    /\ Entering(s, "structure")
    /\ \/ /\ ram.locked \/ ram.data < MaxVersion
          /\ ram' = [ram EXCEPT !.data = IF ram.locked THEN Stray ELSE @ + 1]
          /\ GoTo(s, "save")
          /\ UNCHANGED <<files, config, session, queue, acked>>
       \/ Raise(s)

(* _async_device_secret: the file is read or created in a worker thread, and *)
(* the result is cached when the thread's answer reaches the event loop.     *)

CreatesKey(s) == task[s].op \in {"first", "init", "enable", "setup", "key"}
AfterKey(s) == IF task[s].op \in {"unlock", "change"} THEN "open" ELSE "wrap"

HaveKey(s) ==
    IF task[s].op = "key" THEN End(s) ELSE GoTo(s, AfterKey(s)) /\ UNCHANGED queue

KeyCached(s) ==
    /\ At(s, "key") /\ ram.secret # None
    /\ HaveKey(s)
    /\ UNCHANGED <<files, config, ram, session, acked>>

KeyRead(s) ==
    /\ At(s, "key") /\ ram.secret = None /\ keyFile \in Keys
    /\ task' = [task EXCEPT ![s] = [@ EXCEPT !.at = "keyset", !.got = keyFile]]
    /\ UNCHANGED <<files, config, ram, session, queue, acked>>

\* os.open(..., O_CREAT | O_EXCL): the file exists, empty
KeyCreate(s) ==
    /\ At(s, "key") /\ ram.secret = None /\ keyFile = None /\ CreatesKey(s)
    /\ keyFile' = s
    /\ GoTo(s, "keywrite")
    /\ UNCHANGED <<disk, config, ram, session, queue, acked>>

\* missing and not to be replaced, or damaged: PasswordDecryptionError
KeyFails(s) ==
    /\ At(s, "key") /\ ram.secret = None
    /\ \/ keyFile \in Slots \cup {Torn}
       \/ keyFile = None /\ ~ CreatesKey(s)
    /\ Raise(s)

\* Mutant: the new key is cached but its bytes never reach the file.
KeyWriteLost(s) ==
    /\ At(s, "keywrite")
    /\ \E k \in Keys \ {disk.key, ram.secret} :
          task' = [task EXCEPT ![s] = [@ EXCEPT !.at = "keyset", !.got = k]]
    /\ UNCHANGED <<files, config, ram, session, queue, acked>>

\* write and fsync; the bytes are lost when the file was unlinked meanwhile
KeyWrite(s) ==
    /\ At(s, "keywrite")
    /\ \E k \in Keys \ {disk.key, ram.secret} :
          /\ keyFile' = IF keyFile = s THEN k ELSE keyFile
          /\ task' = [task EXCEPT ![s] = [@ EXCEPT !.at = "keyset", !.got = k]]
    /\ UNCHANGED <<disk, config, ram, session, queue, acked>>

KeySet(s) ==
    /\ At(s, "keyset")
    /\ ram' = [ram EXCEPT !.secret = task[s].got]
    /\ IF task[s].op = "key"
       THEN End(s)
       ELSE /\ task' = [task EXCEPT ![s] = [@ EXCEPT !.at = AfterKey(s), !.got = None]]
            /\ UNCHANGED queue
    /\ UNCHANGED <<files, config, session, acked>>

\* _async_set_new_password_without_lock; async_set_encryption_mode then ends
\* every session in RAM
Wrap(s) ==
    /\ At(s, "wrap")
    /\ ram' = [ram EXCEPT !.env = Envelope(task[s].pw, ram.secret, ram.data),
                          !.dek = TRUE, !.locked = FALSE,
                          !.setupRequired = FALSE, !.mode = "password"]
    /\ session' = IF task[s].op \in {"init", "enable"} THEN NoSessions ELSE session
    /\ GoTo(s, "save")
    /\ UNCHANGED <<files, config, queue, acked>>

Opened == IF ram.env = None THEN disk ELSE ram.env
Opens(s) == /\ Opened.form = "envelope"
            /\ Opened.pw = task[s].pw /\ Opened.key = ram.secret

\* decrypt_password_envelope for async_unlock and for async_change_password,
\* which also wraps the data key for the new password
Open(s) ==
    /\ At(s, "open")
    /\ IF Opens(s)
       THEN /\ \/ /\ task[s].op = "unlock"
                  /\ ram' = [ram EXCEPT !.env = Opened, !.data = Opened.data,
                                        !.dek = TRUE, !.locked = FALSE,
                                        !.setupRequired = FALSE]
                  /\ GoTo(s, "fifo")
               \/ /\ task[s].op = "change"
                  /\ ram' = [ram EXCEPT
                                !.env = Envelope(task[s].new, ram.secret, Opened.data),
                                !.data = Opened.data, !.dek = TRUE,
                                !.locked = FALSE]
                  /\ GoTo(s, "seal")
            /\ UNCHANGED <<files, config, session, queue, acked>>
       ELSE Raise(s)

\* end of _async_unlock_without_lock, release, mark_user_unlocked
RefreshFifo(s) ==
    /\ At(s, "fifo")
    /\ ram' = [ram EXCEPT !.fifo = ram.data]
    /\ session' = MarkUnlocked(session, task[s].by)
    /\ End(s)
    /\ UNCHANGED <<files, config, acked>>

\* Mutant: the envelope for the new password stays in RAM.
SealChangeUnsaved(s) ==
    /\ At(s, "seal")
    /\ session' = MarkUnlocked(NoSessions, task[s].by)
    /\ End(s)
    /\ UNCHANGED <<files, config, ram, acked>>

\* end of async_change_password, release, lock_all_users, mark_user_unlocked
SealChange(s) ==
    /\ At(s, "seal")
    /\ disk' = ram.env
    /\ session' = MarkUnlocked(NoSessions, task[s].by)
    /\ End(s)
    /\ UNCHANGED <<keyFile, config, ram, acked>>

(* _async_save: refresh the FIFO cache, encrypt, write the file *)

\* the ledger file _async_save writes
Sealed == IF ram.mode = "password"
          THEN Envelope(ram.env.pw, ram.env.key, ram.data)
          ELSE Plain(ram.data)

\* what the handler does with its answer, and the reload of async_reload
Answered(s) ==
    /\ session' = IF task[s].op \in {"first", "init", "enable", "setup"}
                  THEN MarkUnlocked(session, task[s].by) ELSE session
    /\ acked' = IF task[s].op \in {"write", "structure"} /\ ram.data > acked
                THEN ram.data ELSE acked
    /\ up' = (up \/ task[s].op = "setup")
    /\ \/ /\ task[s].op = "disable"
          /\ GoTo(s, "drop") /\ UNCHANGED queue
       \/ /\ \/ task[s].op \in {"init", "enable"}
             \/ task[s].op = "structure" /\ ram.mode = "none"
          /\ GoTo(s, "reload") /\ Release(s)
       \/ /\ \/ task[s].op \in {"first", "setup", "write"}
             \/ task[s].op = "structure" /\ ram.mode = "password"
          /\ End(s)

Saveable == ~ ram.locked /\ (ram.mode = "password" => ram.dek /\ ram.env # None)

\* Mutant: the file is written by a delayed save that a restart forgets.
SaveDelayed(s) ==
    /\ At(s, "save") /\ Saveable
    /\ ram' = [ram EXCEPT !.fifo = ram.data,
                          !.env = IF ram.mode = "password" THEN Sealed ELSE @,
                          !.secret = IF task[s].op = "disable" THEN None ELSE @]
    /\ Answered(s)
    /\ UNCHANGED <<files, requested, handoff, allowed>>

\* Mutant: the summaries are not rebuilt.
SaveKeepsFifo(s) ==
    /\ At(s, "save") /\ Saveable
    /\ disk' = Sealed
    /\ ram' = [ram EXCEPT !.env = IF ram.mode = "password" THEN Sealed ELSE @,
                          !.secret = IF task[s].op = "disable" THEN None ELSE @]
    /\ Answered(s)
    /\ UNCHANGED <<keyFile, requested, handoff, allowed>>

Save(s) ==
    /\ At(s, "save") /\ Saveable
    /\ disk' = Sealed
    /\ ram' = [ram EXCEPT !.fifo = ram.data,
                          !.env = IF ram.mode = "password" THEN Sealed ELSE @,
                          !.secret = IF task[s].op = "disable" THEN None ELSE @]
    /\ Answered(s)
    /\ UNCHANGED <<keyFile, requested, handoff, allowed>>

\* VaultLockedError, after the structure edit was made in RAM
SaveRaises(s) ==
    /\ At(s, "save") /\ ~ Saveable
    /\ Raise(s)

\* _async_remove_device_secret
DropKey(s) ==
    /\ At(s, "drop")
    /\ keyFile' = None
    /\ GoTo(s, "reload") /\ Release(s)
    /\ UNCHANGED <<disk, config, ram, session, acked>>

-----------------------------------------------------------------------------
(* Setup, reload and crash *)

\* Everything in RAM is gone.  Requests of the old objects end here too: what
\* they do when they are left running is module LedgerReload.
LoseRam ==
    /\ up' = FALSE /\ ram' = FreshRam /\ session' = NoSessions
    /\ queue' = <<>> /\ task' = [s \in Slots |-> Idle]
    /\ UNCHANGED <<requested, allowed, acked>>

\* config_entries.async_reload at the end of a handler
Reload(s) ==
    /\ task[s].at = "reload"
    /\ LoseRam
    /\ keyFile' = IF keyFile \in Slots THEN Torn ELSE keyFile
    /\ UNCHANGED <<disk, handoff>>

\* Home Assistant stops or dies, or the user reloads the entry
Crash ==
    /\ "crash" \in Offered
    /\ LoseRam
    /\ keyFile' = IF keyFile \in Slots THEN Torn ELSE keyFile
    /\ handoff' = None
    /\ UNCHANGED disk

\* A backup restored without the key file, or the file lost: the code expects
\* it ("restore the matching Home Assistant backup").
LoseKeyFile ==
    /\ "lose" \in Offered /\ ~ up /\ queue = <<>>
    /\ keyFile' = None
    /\ UNCHANGED <<disk, config, ram, session, queue, task, acked>>

\* async_setup_entry with fresh objects: the file decides the mode
Load(mode, data, locked, setupRequired, env, fifo) ==
    /\ ~ up /\ queue = <<>>
    /\ ram' = [FreshRam EXCEPT !.mode = mode, !.data = data, !.locked = locked,
                               !.setupRequired = setupRequired, !.env = env,
                               !.fifo = fifo]
    /\ up' = TRUE
    /\ UNCHANGED <<keyFile, requested, handoff, session, allowed, queue, task, acked>>

LoadEnvelope ==
    /\ disk.form = "envelope"
    /\ Load("password", 0, TRUE, FALSE, disk, None)
    /\ UNCHANGED disk

LoadPlain ==
    /\ disk.form = "plain"
    /\ Load("none", disk.data, FALSE, FALSE, None, disk.data)
    /\ UNCHANGED disk

\* a new portfolio without a password is written at once
LoadNew ==
    /\ disk.form = "absent" /\ requested = "none"
    /\ Load("none", 0, FALSE, FALSE, None, 0)
    /\ disk' = Plain(0)

\* a new vault whose password was lost with the config flow's RAM
LoadUnset ==
    /\ disk.form = "absent" /\ requested = "password" /\ handoff = None
    /\ Load("password", 0, TRUE, TRUE, None, None)
    /\ UNCHANGED disk

\* a new vault with the password of the config flow, which is popped
BeginSetup(s) ==
    /\ ~ up /\ queue = <<>>
    /\ disk.form = "absent" /\ requested = "password" /\ handoff # None
    /\ ram' = [FreshRam EXCEPT !.mode = "password"]
    /\ task' = [task EXCEPT ![s] = [op |-> "setup", by |-> Owner, at |-> "key",
                                    pw |-> handoff, new |-> None, got |-> None]]
    /\ queue' = <<s>> /\ handoff' = None
    /\ UNCHANGED <<files, requested, up, session, allowed, acked>>

-----------------------------------------------------------------------------
Requests(s) ==
    \/ \E u \in Users, p \in Passwords : RequestUnlock(s, u, p)
    \/ \E p \in Passwords : RequestEnable(s, p)
    \/ RequestDisable(s)
    \/ \E p, q \in Passwords : RequestChange(s, p, q)
    \/ \E u \in Users : RequestLock(s, u)
    \/ \E u \in Users, op \in {"write", "structure"} : RequestWrite(s, u, op)
    \/ RequestKey(s)

\* the steps of a request in flight: the event loop and the worker threads
Work(s) ==
    \/ EnterUnlock(s) \/ EnterInit(s) \/ EnterEnable(s) \/ EnterDisable(s)
    \/ EnterChange(s) \/ EnterLock(s) \/ EnterWrite(s) \/ EnterStructure(s)
    \/ KeyCached(s) \/ KeyRead(s) \/ KeyCreate(s) \/ KeyFails(s)
    \/ KeyWrite(s) \/ KeySet(s)
    \/ Wrap(s) \/ Open(s) \/ RefreshFifo(s) \/ SealChange(s)
    \/ Save(s) \/ SaveRaises(s) \/ DropKey(s) \/ Reload(s)

Sessions ==
    \/ \E u \in Users : DeadlinePasses(u) \/ ObserveSession(u) \/ ConfigureAutoLock(u)
    \/ \E S \in SUBSET Users : SetAllowedUsers(S)

Loads ==
    \/ LoadEnvelope \/ LoadPlain \/ LoadNew \/ LoadUnset
    \/ \E s \in Slots : BeginSetup(s)

Next ==
    \/ Sessions \/ Loads \/ Crash \/ LoseKeyFile
    \/ \E s \in Slots : Requests(s) \/ Work(s) \/ TimerFires(s)

Spec == Init /\ [][Next]_vars

\* The event loop keeps running what is ready; the 30-second timer keeps firing.
Fairness == \A s \in Slots : WF_vars(Work(s)) /\ WF_vars(TimerFires(s))
FairSpec == Spec /\ Fairness

-----------------------------------------------------------------------------
(* Properties *)

\* async_lock and a restart leave no plaintext, no data key and no summaries
\* in RAM, whatever request is in flight: "locked" never lies.
LockedHoldsNoPlaintext ==
    ram.locked => ram.data \in {0, Stray} /\ ~ ram.dek /\ ram.fifo = None

\* Whenever nobody holds the lock, the file is what the mode says: sealed with
\* the envelope in RAM, or the plain ledger.
ModeMatchesFile ==
    up /\ queue = <<>> =>
        IF ram.mode = "password"
        THEN IF ram.setupRequired THEN disk = NoFile ELSE disk = ram.env
        ELSE disk = Plain(ram.data)

\* The envelope is bound to the device key "in Home Assistant Core's private
\* .storage area": the key file opens the envelope on disk, through first
\* passwords, password changes, locks and concurrent requests.
EnvelopeHasItsKey == disk.form = "envelope" => disk.key = keyFile

\* A change whose caller was answered is in the file, and no stray edit is.
NoAckedWriteLost == acked <= disk.data

\* Outside a request the summaries, when there are any, are of the ledger.
FifoNeverStale ==
    up /\ queue = <<>> /\ ~ ram.locked => ram.fifo \in {ram.data, None}

\* Only users on the allowlist hold a session, although one may be removed
\* while its unlock is in flight.
OnlyAllowedHoldSessions == \A u \in Users : session[u] # "none" => u \in allowed

\* "Once the last finite unlock session expires, decrypted ledger data and the
\* DEK are removed": the vault is locked, unless somebody unlocks it again or
\* the password or the entry goes away first.
LastExpiryLocks ==
    (/\ \E u \in Users : session[u] = "due"
     /\ up /\ ram.mode = "password" /\ NoOneUnlocked(session))
    ~> (ram.locked \/ ~ NoOneUnlocked(session) \/ ram.mode = "none" \/ ~ up)

\* No request waits for ever: every path out of the lock releases it.
RequestsEnd == \A s \in Slots : (task[s] # Idle) ~> (task[s] = Idle)

=============================================================================
