---------------------------- MODULE SentinelConfig ----------------------------
(***************************************************************************)
(* Where the watch targets and the node of Sats Sentinel are kept          *)
(* (wallet_watch.py, wallet_watch_config of storage.py, the wallet-watch   *)
(* routes of __init__.py): in the password vault, which can be edited only *)
(* while it is open; in the runtime store, which the owner can edit while  *)
(* the vault is locked and which owes the vault those edits then; and, the *)
(* node alone, in a third store that outlives both.  A request of the      *)
(* owner, the recovery that an unlock or a read starts, and a scan of the  *)
(* addresses may run at once; each is a sequence of awaits.                *)
(***************************************************************************)
EXTENDS Integers, FiniteSets, Functions

CONSTANTS
  Targets, Keys, Hosts, None,
  Kinds,                          \* requests this instance issues
  MaxReqs, MaxFailures, MaxCrashes  \* bounds on requests, failed saves, stops

\* None stands for a target that is not there, and is the configuration of none.
ASSUME KeysAssumption == None \notin Keys

VARIABLES
  open,      \* the vault is unlocked for the owner
  vault,     \* [mons, host]: wallet_watch in the vault, in memory and on disk
  rt,        \* [cat, rows, host, pending]: the runtime data in memory
  rtDisk,    \* the runtime data last saved
  ep,        \* the saved endpoint, memory and disk (written as one)
  req,       \* the owner's request in flight
  rec,       \* the recovery in flight
  scan,      \* the background discovery
  want,      \* the acknowledged content of each target, None when removed
  wantHost,  \* the acknowledged endpoint
  excused,   \* targets without a promise, see EditsKept
  revived,   \* targets removed under a running scan, see WatchesWhatIsSaved
  crossed,   \* a request and a recovery were under way at once
  reqs, failures, crashes

cfgVars == <<open, vault, rt, rtDisk, ep, req, rec, scan, want, wantHost, excused,
             revived, crossed, reqs, failures, crashes>>
wishes == <<want, wantHost, excused, revived>>
bounds == <<crossed, reqs, failures, crashes>>

Drop(f, m) == Restrict(f, DOMAIN f \ {m})
Put(f, m, v) == [x \in DOMAIN f \cup {m} |-> IF x = m THEN v ELSE f[x]]
NoTargets == [m \in {} |-> None]
NoTask == [at |-> "idle", op |-> "none", m |-> None, cfg |-> None, old |-> None, back |-> None]
NoScan == [at |-> "off", mons |-> NoTargets, only |-> {}, rows |-> NoTargets]

CfgInit ==
  /\ open = FALSE
  /\ \E host \in Hosts \cup {None}, c \in Keys, ms \in {{}, Targets} :
       vault = [mons |-> [m \in ms |-> c], host |-> host]
  /\ ep = vault.host
  /\ rt = [cat |-> vault.mons, rows |-> vault.mons, host |-> vault.host, pending |-> FALSE]
  /\ rtDisk = rt
  /\ req = NoTask /\ rec = NoTask /\ scan = NoScan
  /\ want = [m \in Targets |-> IF m \in DOMAIN vault.mons THEN vault.mons[m] ELSE None]
  /\ wantHost = vault.host
  /\ excused = {} /\ revived = {} /\ crossed = FALSE
  /\ reqs = 0 /\ failures = 0 /\ crashes = 0

-----------------------------------------------------------------------------
(* Helpers of the manager and of the runtime store.                        *)

(* async_replace_from_full_config: a blank host takes the saved endpoint.  *)
HostOf(cfg) == IF cfg.host = None THEN ep ELSE cfg.host
Fresh(cfg) == [cat |-> cfg.mons, rows |-> cfg.mons, host |-> HostOf(cfg), pending |-> FALSE]

(* _runtime_management_config: the targets as the runtime store has them.  *)
Managed(r) == [mons |-> r.cat, host |-> r.host]

\* Mutant: what the runtime store owes is taken only when the vault has nothing.
RecoveredWhenEmpty(cfg, r) ==
  [mons |-> IF cfg.mons = NoTargets THEN r.cat ELSE cfg.mons,
   host |-> IF cfg.host = None THEN r.host ELSE cfg.host]

(* async_recover_unlocked_config: what the vault should hold.              *)
Recovered(cfg, r) ==
  [mons |-> IF r.cat # NoTargets /\ (r.pending \/ cfg.mons = NoTargets) THEN r.cat ELSE cfg.mons,
   host |-> IF cfg.host = None THEN r.host ELSE cfg.host]
Heals(cfg, r) == Recovered(cfg, r) # cfg \/ (r.pending /\ r.cat # NoTargets)
Settled(r) == IF r.cat # NoTargets THEN [r EXCEPT !.pending = FALSE] ELSE r

(* _runtime_matches_full_config: the same node, the same targets, and the  *)
(* first address of each.                                                  *)
Matches(cfg, r) == r.host = cfg.host /\ r.rows = cfg.mons

ScanOf(mons, only) == [at |-> "wait", mons |-> mons, only |-> only, rows |-> NoTargets]
Failure == failures < MaxFailures /\ failures' = failures + 1
Ask(kind) ==
  /\ kind \in Kinds /\ req = NoTask
  /\ reqs < MaxReqs /\ reqs' = reqs + 1
  /\ crossed' = (crossed \/ rec # NoTask)
Acked(m, v) == want' = [want EXCEPT ![m] = v]

-----------------------------------------------------------------------------
(* Requests with the vault open: upsert and remove.  The vault first, then *)
(* the runtime store; when one fails both are put back as they were.       *)

Change(op, m, mons) ==
  req' = [NoTask EXCEPT !.at = "vault", !.op = op, !.m = m, !.old = vault, !.back = rt,
            !.cfg = [vault EXCEPT !.mons = mons]]

SaveTarget(m, k) ==
  /\ Ask("save") /\ open
  /\ Change("save", m, Put(vault.mons, m, k))
  /\ scan' = NoScan
  /\ UNCHANGED <<open, vault, rt, rtDisk, ep, rec, wishes, failures, crashes>>

(* Unlike the others this one leaves the scan alone.                       *)
RemoveTarget(m) ==
  /\ Ask("remove") /\ open
  /\ m \in DOMAIN vault.mons
  /\ Change("remove", m, Drop(vault.mons, m))
  /\ revived' = revived \cup IF scan = NoScan THEN {} ELSE {m}
  /\ UNCHANGED <<open, vault, rt, rtDisk, ep, rec, scan, want, wantHost, excused, failures, crashes>>

(* The runtime data are new in memory before any of it is saved.           *)
ReqVault ==
  /\ req.at = "vault" /\ req.op # "settings"
  /\ \/ /\ open
        /\ vault' = req.cfg /\ rt' = Fresh(req.cfg)
        /\ req' = [req EXCEPT !.at = "disk"]
        /\ failures' = failures
     \/ /\ IF open THEN Failure ELSE failures' = failures
        /\ req' = [req EXCEPT !.at = "rollback"]
        /\ UNCHANGED <<vault, rt>>
  /\ UNCHANGED <<open, rtDisk, ep, rec, scan, wishes, crossed, reqs, crashes>>

ReqDisk ==
  /\ req.at = "disk"
  /\ ep' = HostOf(req.cfg)
  /\ \/ /\ rtDisk' = rt
        /\ failures' = failures
        /\ req' = NoTask
        /\ IF req.op = "remove"
           THEN Acked(req.m, None) /\ scan' = scan
           ELSE Acked(req.m, req.cfg.mons[req.m]) /\ scan' = ScanOf(req.cfg.mons, {req.m})
     \/ /\ Failure
        /\ req' = [req EXCEPT !.at = "rollback"]
        /\ UNCHANGED <<rtDisk, want, scan>>
  /\ UNCHANGED <<open, vault, rt, rec, wantHost, excused, revived, crossed, reqs, crashes>>

(* The runtime data of before, saved again, and then the vault of before.  *)
Rollback ==
  /\ req.at = "rollback"
  /\ rt' = req.back /\ rtDisk' = req.back
  /\ req' = [req EXCEPT !.at = "undo"]
  /\ UNCHANGED <<open, vault, ep, rec, scan, wishes, bounds>>

RollbackVault ==
  /\ req.at = "undo"
  /\ vault' = IF open THEN req.old ELSE vault
  /\ excused' = IF open THEN excused ELSE excused \cup {req.m}
  /\ req' = NoTask
  /\ UNCHANGED <<open, rt, rtDisk, ep, rec, scan, want, wantHost, revived, bounds>>

-----------------------------------------------------------------------------
(* Requests with the vault locked: the runtime store alone changes, and    *)
(* the debt to the vault is marked in a second save.                       *)

\* Mutant: the scan that runs goes on.
ChangeLockedUnderScan(op, m, mons) ==
  /\ rt' = Fresh([Managed(rt) EXCEPT !.mons = mons])
  /\ scan' = scan
  /\ req' = [NoTask EXCEPT !.at = "mark", !.op = op, !.m = m]

ChangeLocked(op, m, mons) ==
  /\ rt' = Fresh([Managed(rt) EXCEPT !.mons = mons])
  /\ scan' = NoScan
  /\ req' = [NoTask EXCEPT !.at = "mark", !.op = op, !.m = m]

LockedSave(m, k) ==
  /\ Ask("lockedSave") /\ ~open
  /\ m \in DOMAIN rt.cat
  /\ ChangeLocked("save", m, [rt.cat EXCEPT ![m] = k])
  /\ UNCHANGED <<open, vault, rtDisk, ep, rec, wishes, failures, crashes>>

LockedRemove(m) ==
  /\ Ask("lockedRemove") /\ ~open
  /\ m \in DOMAIN rt.cat
  /\ ChangeLocked("remove", m, Drop(rt.cat, m))
  /\ UNCHANGED <<open, vault, rtDisk, ep, rec, wishes, failures, crashes>>

LockedMark ==
  /\ req.at = "mark"
  /\ rtDisk' = rt
  /\ rt' = [rt EXCEPT !.pending = TRUE]
  /\ req' = [req EXCEPT !.at = "owe"]
  /\ UNCHANGED <<open, vault, ep, rec, scan, wishes, bounds>>

LockedDone ==
  /\ req.at = "owe"
  /\ rtDisk' = rt
  /\ req' = NoTask
  /\ Acked(req.m, IF req.m \in DOMAIN rt.cat THEN rt.cat[req.m] ELSE None)
  /\ scan' = IF req.op = "save" THEN ScanOf(rt.cat, {req.m}) ELSE scan
  /\ excused' = IF rt.cat = NoTargets THEN Targets ELSE excused
  /\ UNCHANGED <<open, vault, rt, ep, rec, wantHost, revived, bounds>>

-----------------------------------------------------------------------------
(* Settings of the node: async_update_settings recovers the vault first,   *)
(* takes its watch list, and never stores a blank host over a saved one.   *)

Settings(h) ==
  /\ Ask("settings") /\ open
  /\ LET stored == Recovered(vault, rt)
         cfg == [stored EXCEPT !.host = IF h = None THEN @ ELSE h]
     IN req' = [NoTask EXCEPT !.op = "settings", !.m = h, !.cfg = cfg, !.old = stored,
                  !.at = IF Heals(vault, rt) THEN "heal" ELSE "vault"]
  /\ UNCHANGED <<open, vault, rt, rtDisk, ep, rec, scan, wishes, failures, crashes>>

SettingsHeal ==
  /\ req.at = "heal"
  /\ IF open
     THEN vault' = req.old /\ rt' = Settled(rt) /\ req' = [req EXCEPT !.at = "vault"]
     ELSE UNCHANGED <<vault, rt>> /\ req' = NoTask
  /\ UNCHANGED <<open, rtDisk, ep, rec, scan, wishes, bounds>>

SettingsVault ==
  /\ req.at = "vault" /\ req.op = "settings"
  /\ IF open
     THEN /\ vault' = req.cfg
          /\ rt' = [rt EXCEPT !.host = req.cfg.host]
          /\ req' = [req EXCEPT !.at = "place", !.back = (rt.host # req.cfg.host)]
     ELSE /\ UNCHANGED <<vault, rt>>
          /\ req' = NoTask
  /\ rtDisk' = rt
  /\ UNCHANGED <<open, ep, rec, scan, wishes, bounds>>

SettingsPlace ==
  /\ req.at = "place"
  /\ rtDisk' = rt
  /\ req' = [req EXCEPT !.at = "endpoint"]
  /\ UNCHANGED <<open, vault, rt, ep, rec, scan, wishes, bounds>>

SettingsEndpoint ==
  /\ req.at = "endpoint"
  /\ ep' = rt.host
  /\ wantHost' = IF req.m = None THEN wantHost ELSE req.m
  /\ scan' = IF req.back THEN ScanOf(req.cfg.mons, DOMAIN req.cfg.mons) ELSE scan
  /\ req' = NoTask
  /\ UNCHANGED <<open, vault, rt, rtDisk, rec, want, excused, revived, bounds>>

-----------------------------------------------------------------------------
(* Unlock and the recovery it queues with the configuration it read; the   *)
(* route that reads the settings recovers too, and leaves the rows alone.  *)

Unlock ==
  /\ ~open
  /\ open' = TRUE
  /\ rec' = IF rec.at = "idle" THEN [NoTask EXCEPT !.at = "begin", !.op = "unlock", !.cfg = vault] ELSE rec
  /\ crossed' = (crossed \/ req # NoTask)
  /\ UNCHANGED <<vault, rt, rtDisk, ep, req, scan, wishes, reqs, failures, crashes>>

ReadSettings ==
  /\ open /\ rec.at = "idle" /\ Heals(vault, rt)
  /\ rec' = [NoTask EXCEPT !.at = "vault", !.op = "read", !.cfg = Recovered(vault, rt)]
  /\ crossed' = (crossed \/ req # NoTask)
  /\ UNCHANGED <<open, vault, rt, rtDisk, ep, req, scan, wishes, reqs, failures, crashes>>

Lock ==
  /\ open
  /\ open' = FALSE
  /\ UNCHANGED <<vault, rt, rtDisk, ep, req, rec, scan, wishes, bounds>>

(* async_restore_full_config after the recovery.                           *)
Restore(cfg) ==
  IF Matches(cfg, rt)
  THEN rt' = rt /\ rtDisk' = rtDisk /\ ep' = ep /\ scan' = NoScan
  ELSE /\ rt' = Fresh(cfg) /\ rtDisk' = rt' /\ ep' = HostOf(cfg)
       /\ scan' = ScanOf(cfg.mons, DOMAIN cfg.mons)

(* The lock of the ledger store lies between the decision and the write.   *)
RecBegin ==
  /\ rec.at = "begin"
  /\ IF Heals(rec.cfg, rt)
     THEN /\ rec' = [rec EXCEPT !.at = "vault", !.cfg = Recovered(@, rt)]
          /\ UNCHANGED <<rt, rtDisk, ep, scan>>
     ELSE /\ rec' = NoTask
          /\ Restore(rec.cfg)
  /\ UNCHANGED <<open, vault, req, wishes, bounds>>

RecVault ==
  /\ rec.at = "vault"
  /\ IF open
     THEN /\ vault' = rec.cfg
          /\ rt' = Settled(rt)
          /\ rec' = [rec EXCEPT !.at = "synced"]
     ELSE UNCHANGED <<vault, rt>> /\ rec' = NoTask
  /\ UNCHANGED <<open, rtDisk, ep, req, scan, wishes, bounds>>

RecSynced ==
  /\ rec.at = "synced"
  /\ rec' = NoTask
  /\ IF rec.op = "unlock" THEN Restore(rec.cfg) ELSE rtDisk' = rt /\ UNCHANGED <<rt, ep, scan>>
  /\ UNCHANGED <<open, vault, req, wishes, bounds>>

-----------------------------------------------------------------------------
(* The background discovery: rows read at its start, assigned at its end.  *)
ScanStart ==
  /\ scan.at = "wait"
  /\ scan' = [scan EXCEPT !.at = "probe", !.rows = rt.rows]
  /\ UNCHANGED <<open, vault, rt, rtDisk, ep, req, rec, wishes, bounds>>

ScanDone ==
  /\ scan.at = "probe"
  /\ rt' = [rt EXCEPT !.rows =
       [m \in (DOMAIN scan.rows \ scan.only) \cup (scan.only \cap DOMAIN scan.mons) |->
          IF m \in scan.only THEN scan.mons[m] ELSE scan.rows[m]]]
  /\ rtDisk' = rt'
  /\ scan' = NoScan
  /\ UNCHANGED <<open, vault, ep, req, rec, wishes, bounds>>

(* Home Assistant stops and starts with the vault locked.                  *)
Restart ==
  /\ crashes < MaxCrashes /\ crashes' = crashes + 1
  /\ open' = FALSE
  /\ rt' = [rtDisk EXCEPT !.host = IF ep = None THEN @ ELSE ep]
  /\ req' = NoTask /\ rec' = NoTask /\ scan' = NoScan
  /\ excused' = CASE req.at \in {"mark", "owe"} -> Targets
                  [] req.at \in {"disk", "rollback", "undo"} -> excused \cup {req.m}
                  [] OTHER -> excused
  /\ UNCHANGED <<vault, rtDisk, ep, want, wantHost, revived, crossed, reqs, failures>>

CfgNext ==
  \/ \E m \in Targets : \/ \E k \in Keys : SaveTarget(m, k) \/ LockedSave(m, k)
                        \/ RemoveTarget(m) \/ LockedRemove(m)
  \/ \E h \in Hosts \cup {None} : Settings(h)
  \/ ReqVault \/ ReqDisk \/ Rollback \/ RollbackVault \/ LockedMark \/ LockedDone
  \/ SettingsHeal \/ SettingsVault \/ SettingsPlace \/ SettingsEndpoint
  \/ Unlock \/ ReadSettings \/ Lock \/ RecBegin \/ RecVault \/ RecSynced
  \/ ScanStart \/ ScanDone \/ Restart

CfgSpec == CfgInit /\ [][CfgNext]_cfgVars

-----------------------------------------------------------------------------
Quiet == req = NoTask /\ rec = NoTask /\ ~crossed
Truth == IF rt.pending THEN rt.cat ELSE vault.mons

(* When nothing is under way, the vault or, while it is owed something,    *)
(* the runtime store holds each target as it was last acknowledged, over   *)
(* failed saves and their rollback, locks, unlocks and stops.  Excused are *)
(* targets whose request a stop cut short, all of them when it fell        *)
(* between the two saves of a locked edit (the first clears an older debt, *)
(* :2189) or when the last target was removed under lock (:2808); and all  *)
(* bets are off once a request met a recovery (wallet_watch.py:2835).      *)
EditsKept ==
  Quiet => \A m \in Targets \ excused :
    want[m] = IF m \in DOMAIN Truth THEN Truth[m] ELSE None

(* The addresses polled are those of the targets that are saved, whichever *)
(* of a scan, an edit, a rollback or a recovery came last, unless a target *)
(* was removed under a scan (async_remove_monitor cancels none).           *)
WatchesWhatIsSaved ==
  (Quiet /\ scan = NoScan) => \A m \in Targets \ (excused \cup revived) :
    /\ m \in DOMAIN rt.rows <=> m \in DOMAIN Truth
    /\ m \in DOMAIN rt.rows => rt.rows[m] = Truth[m]

(* A node that was saved is never forgotten: not for a blank field of a    *)
(* form, nor over a stop, which may at most bring back the one before      *)
(* (_overlay_endpoint_backup).                                             *)
EndpointKept ==
  (Quiet /\ wantHost # None) =>
    IF crashes = 0 THEN rt.host = wantHost ELSE rt.host # None

(* What is saved is what is watched: the same targets, at the same node.   *)
SavedIsWatched == WatchesWhatIsSaved /\ EndpointKept

(* "Existing watch targets can be edited/removed while the portfolio vault *)
(* is locked, then reconciled back into the encrypted portfolio            *)
(* configuration after unlock." (CHANGELOG.md:76)                          *)
LockedEditsReachVault ==
  (Quiet /\ open) => \A m \in Targets :
    want[m] = IF m \in DOMAIN vault.mons THEN vault.mons[m] ELSE None

(* "Cancel a stale scan before the first persistence await.  Otherwise an  *)
(* older discovery task could finish while this newer monitor is being     *)
(* saved and overwrite the just-updated runtime address set."              *)
(* (wallet_watch.py:2974)                                                  *)
RemovedIsNotWatched ==
  (Quiet /\ scan = NoScan) => DOMAIN rt.rows \subseteq DOMAIN Truth
=============================================================================
