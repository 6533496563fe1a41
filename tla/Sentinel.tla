------------------------------- MODULE Sentinel -------------------------------
(***************************************************************************)
(* Sats Sentinel: the poller of wallet_watch.py.  A poll holds the         *)
(* manager's lock from its first to its last await, and nothing else does: *)
(* edits replace or change the runtime data between any two of its steps,  *)
(* a reload leaves it running in a manager that nobody listens to any      *)
(* more, and a stop keeps only what was saved.                             *)
(*                                                                         *)
(* The chain is the number `tip` of transactions broadcast so far; an      *)
(* address's status hash and balance are the set of its transactions.      *)
(***************************************************************************)
EXTENDS Integers, FiniteSets

CONSTANTS
  Monitors, Addrs,       \* watch targets and the addresses they cover
  Owner,                 \* Owner[a]: the monitor of address a
  MaxTip, Touches,       \* Touches[t]: the addresses transaction t moves
  Sources,               \* kinds of node: "electrum", "mempool"
  Managers,              \* instances of WalletWatchManager, reloads included
  Batch,                 \* baselines, and balances of unchanged rows, per poll
  Window,                \* the newest entries of a history that are read
  MaxFaults, MaxEdits, MaxStops,  \* bounds on refusals, edits, stops
  Spent   \* what of these bounds, and of MaxTip, is used up at first, and the saved streak

Txs == 1 .. MaxTip

ASSUME ChainAssumption ==
  /\ IsFiniteSet(Addrs) /\ Owner \in [Addrs -> Monitors]
  /\ MaxTip \in Nat /\ Window \in Nat /\ MaxStops \in Nat /\ Touches \in [Txs -> SUBSET Addrs]
  /\ Managers # {}
  /\ \A b \in Spent : b.tip \in 0 .. MaxTip /\ b.streak \in 0 .. 2 /\ b.stops \in Nat

VARIABLES
  tip,        \* transactions broadcast
  mem,        \* mem[k]: the runtime data of manager k (runtime_store.data)
  disk,       \* the encrypted runtime store
  poll,       \* poll[k]: the poll of manager k
  live,       \* the manager hass.data knows
  alerts,     \* alerts[<<m, t>>]: notifications sent, AlertCap standing for more
  redone,     \* a report was started again: an edit, a reload or a stop met a poll
  offline,    \* the owner's last word on the source is "offline"
  baselined,  \* movements that a baseline absorbed without a report
  lost,       \* movements a row knows that no report will mention
  faults, edits, stops

ghosts == <<alerts, redone, offline, baselined, lost>>
counts == <<faults, edits, stops>>
vars == <<tip, mem, disk, poll, live, ghosts, counts>>

AlertCap == Cardinality(Addrs) + 1
History(a) == {t \in 1 .. tip : a \in Touches[t]}
Latest(a) == {t \in History(a) : Cardinality({u \in History(a) : u > t}) < Window}

NewRow == [base |-> FALSE, sig |-> {}, known |-> {}, bal |-> {}]
AddrsOf(ms) == {a \in Addrs : Owner[a] \in ms}
Watched(d) == {Owner[a] : a \in DOMAIN d.rows}

NoData == [rows |-> [a \in {} |-> NewRow], log |-> {}, streak |-> 0,
           outage |-> FALSE, src |-> "none"]
Idle == [at |-> "idle", orphan |-> FALSE, data |-> NoData,
         sigs |-> [a \in Addrs |-> {}], todo |-> {}, detail |-> {}, recon |-> {},
         new |-> {}, acts |-> {}, moved |-> FALSE]

(* The data a poll works on: it took the reference when it began, and an   *)
(* edit that builds new data leaves it with the old.                       *)
Current(k) == k = live /\ ~poll[k].orphan
DataOf(k) == IF poll[k].orphan THEN poll[k].data ELSE mem[k]
WorkOn(k, d, p) ==
  IF poll[k].orphan
  THEN /\ poll' = [poll EXCEPT ![k] = [p EXCEPT !.data = d]]
       /\ mem' = mem
  ELSE /\ poll' = [poll EXCEPT ![k] = p]
       /\ mem' = [mem EXCEPT ![k] = d]
With(d, a, r) == [d EXCEPT !.rows[a] = r]

Init ==
  /\ \E s \in Sources, b \in Spent :
       /\ disk = [rows |-> [a \in Addrs |-> NewRow], log |-> {}, streak |-> b.streak,
                  outage |-> FALSE, src |-> s]
       /\ faults = b.faults /\ edits = b.edits /\ stops = b.stops /\ tip = b.tip
  /\ mem = [k \in Managers |-> disk]
  /\ poll = [k \in Managers |-> Idle]
  /\ live = CHOOSE k \in Managers : TRUE
  /\ alerts = [x \in Monitors \X Txs |-> 0]
  /\ redone = FALSE /\ offline = FALSE
  /\ baselined = {} /\ lost = {}

At(k, s) == poll[k].at = s
Fault == faults < MaxFaults /\ faults' = faults + 1

-----------------------------------------------------------------------------
(* The poll: async_poll and _poll_electrum_source.                         *)

Broadcast ==
  /\ tip < MaxTip
  /\ tip' = tip + 1
  /\ UNCHANGED <<mem, disk, poll, live, ghosts, counts>>

Start(k) ==
  /\ k = live /\ At(k, "idle")
  /\ DOMAIN mem[k].rows # {}
  /\ poll' = [poll EXCEPT ![k] = [Idle EXCEPT
       !.at = IF mem[k].src = "electrum" THEN "status" ELSE "rows",
       !.todo = DOMAIN mem[k].rows]]
  /\ UNCHANGED <<tip, mem, disk, live, ghosts, counts>>

(* Rows without a baseline wait for their turn; of the others a changed    *)
(* status asks for details, and an unchanged one may be due for a balance. *)
Status(k) ==
  /\ At(k, "status")
  /\ LET rows == DataOf(k).rows
         bare == {a \in poll[k].todo : ~rows[a].base}
         changed == {a \in poll[k].todo \ bare : History(a) # rows[a].sig}
     IN \E batch \in SUBSET bare, due \in SUBSET (poll[k].todo \ (bare \cup changed)) :
          /\ Cardinality(batch) = IF Cardinality(bare) < Batch THEN Cardinality(bare) ELSE Batch
          /\ Cardinality(due) <= Batch
          /\ poll' = [poll EXCEPT ![k] = [@ EXCEPT
               !.at = "detail", !.todo = {}, !.sigs = [a \in Addrs |->
                  IF a \in changed \cup batch THEN History(a) ELSE {}],
               !.detail = changed \cup batch, !.recon = due]]
  /\ UNCHANGED <<tip, mem, disk, live, ghosts, counts>>

\* Mutant: a malformed answer is skipped and its status counts as read.
DetailSigned(k) ==
  /\ At(k, "detail")
  /\ \E bad \in SUBSET poll[k].detail :
       /\ IF bad = {} THEN faults' = faults ELSE Fault
       /\ LET rows == DataOf(k).rows
          IN WorkOn(k, [DataOf(k) EXCEPT !.rows = [a \in DOMAIN rows |->
                 IF a \in bad THEN [rows[a] EXCEPT !.sig = poll[k].sigs[a]] ELSE
                 IF a \in poll[k].detail THEN [rows[a] EXCEPT !.bal = History(a)] ELSE rows[a]]],
               [poll[k] EXCEPT !.at = "reconcile", !.detail = @ \ bad])
  /\ UNCHANGED <<tip, disk, live, ghosts, edits, stops>>

(* Balances of the rows in detail; a row whose answer is malformed is left *)
(* for the next poll.                                                      *)
Detail(k) ==
  /\ At(k, "detail")
  /\ \E bad \in SUBSET poll[k].detail :
       /\ IF bad = {} THEN faults' = faults ELSE Fault
       /\ LET good == poll[k].detail \ bad
              rows == DataOf(k).rows
          IN WorkOn(k, [DataOf(k) EXCEPT !.rows = [a \in DOMAIN rows |->
                 IF a \in good THEN [rows[a] EXCEPT !.bal = History(a)] ELSE rows[a]]],
               [poll[k] EXCEPT !.at = "reconcile", !.detail = good])
  /\ UNCHANGED <<tip, disk, live, ghosts, edits, stops>>

(* The safety net for unchanged rows: another balance than the stored one  *)
(* sends the row back to its baseline.                                     *)
Reconciled(r, a) ==
  IF r.bal # History(a) THEN [r EXCEPT !.bal = History(a), !.base = FALSE] ELSE r
Reconcile(k) ==
  /\ At(k, "reconcile")
  /\ LET rows == DataOf(k).rows
     IN WorkOn(k, [DataOf(k) EXCEPT !.rows = [a \in DOMAIN rows |->
            IF a \in poll[k].recon THEN Reconciled(rows[a], a) ELSE rows[a]]],
          [poll[k] EXCEPT !.recon = {}, !.at = IF poll[k].detail = {} THEN "close" ELSE "history"])
  /\ UNCHANGED <<tip, disk, live, ghosts, counts>>

(* A row after its history has been read: what is new to a row with a      *)
(* baseline is to be reported, and the row knows it from here on.          *)
Read(r, a, sig) == [r EXCEPT !.base = TRUE, !.sig = sig, !.known = Latest(a)]
NewIn(r, a) == IF r.base THEN {<<a, t>> : t \in Latest(a) \ r.known} ELSE {}
SkippedIn(r, a) ==
  IF r.base THEN {<<a, t>> : t \in (History(a) \ Latest(a)) \ (r.sig \cup r.known)} ELSE {}
AbsorbedIn(r, a) == IF r.base THEN {} ELSE {<<a, t>> : t \in History(a)}

HistoryRead(k) ==
  /\ At(k, "history")
  /\ \E bad \in SUBSET poll[k].detail :
       /\ IF bad = {} THEN faults' = faults ELSE Fault
       /\ LET good == poll[k].detail \ bad
              rows == DataOf(k).rows
              new == UNION {NewIn(rows[a], a) : a \in good}
          IN /\ WorkOn(k, [DataOf(k) EXCEPT !.rows = [a \in DOMAIN rows |->
                    IF a \in good THEN Read(rows[a], a, poll[k].sigs[a]) ELSE rows[a]]],
                  [poll[k] EXCEPT !.new = new, !.at = IF new = {} THEN "close" ELSE "raw",
                     !.detail = {}, !.sigs = Idle.sigs])
             /\ lost' = lost \cup IF Current(k) THEN UNION {SkippedIn(rows[a], a) : a \in good} ELSE {}
             /\ baselined' = baselined \cup
                  IF Current(k) THEN UNION {AbsorbedIn(rows[a], a) : a \in good} ELSE {}
  /\ UNCHANGED <<tip, disk, live, alerts, redone, offline, edits, stops>>

(* What the manager's rows already count as seen, in their list of known    *)
(* transactions or in their status, will not be reported any more.          *)
SeenBy(r) == r.known \cup r.sig
Known(d, s) == {x \in s : x[1] \in DOMAIN d.rows /\ x[2] \in SeenBy(d.rows[x[1]])}

(* transaction.get: an answer that is not a transaction drops the entry.   *)
Raw(k) ==
  /\ At(k, "raw")
  /\ \E gone \in SUBSET {x[2] : x \in poll[k].new} :
       LET dropped == {x \in poll[k].new : x[2] \in gone}
           kept == poll[k].new \ dropped
       IN /\ IF gone = {} THEN faults' = faults ELSE Fault
          /\ poll' = [poll EXCEPT ![k] = [@ EXCEPT !.new = {},
               !.at = IF kept = {} THEN "close" ELSE "report",
               !.acts = {<<Owner[x[1]], x[2]>> : x \in kept}, !.moved = (kept # {})]]
          /\ lost' = lost \cup IF k = live THEN Known(mem[k], dropped) ELSE {}
  /\ UNCHANGED <<tip, mem, disk, live, alerts, redone, offline, baselined, edits, stops>>

(* The Mempool source: row by row, the summary first, and the transactions *)
(* themselves when it changed.  A refusal leaves the row as it was.        *)
Summary(k) ==
  /\ At(k, "rows")
  /\ \E a \in poll[k].todo :
       LET r == DataOf(k).rows[a]
           same == r.base /\ r.sig = History(a)
           p == [poll[k] EXCEPT !.todo = @ \ {a}]
       IN \/ /\ same
             /\ WorkOn(k, With(DataOf(k), a, [r EXCEPT !.bal = History(a)]), p)
             /\ faults' = faults
          \/ /\ ~same
             /\ poll' = [poll EXCEPT ![k] = [p EXCEPT !.at = "txs", !.detail = {a},
                           !.sigs[a] = History(a)]]
             /\ UNCHANGED <<mem, faults>>
          \/ /\ poll[k].todo # DOMAIN DataOf(k).rows
             /\ Fault
             /\ poll' = [poll EXCEPT ![k] = p]
             /\ UNCHANGED mem
  /\ UNCHANGED <<tip, disk, live, ghosts, edits, stops>>

Transactions(k) ==
  /\ At(k, "txs")
  /\ \E a \in poll[k].detail :
       LET r == DataOf(k).rows[a]
           p == [poll[k] EXCEPT !.at = "rows", !.detail = {}, !.sigs = Idle.sigs]
           new == {<<Owner[x[1]], x[2]>> : x \in NewIn(r, a)}
       IN \/ /\ WorkOn(k, With(DataOf(k), a, [Read(r, a, poll[k].sigs[a]) EXCEPT !.bal = History(a)]),
                  [p EXCEPT !.acts = @ \cup new, !.moved = @ \/ new # {}])
             /\ lost' = lost \cup IF Current(k) THEN SkippedIn(r, a) ELSE {}
             /\ baselined' = baselined \cup IF Current(k) THEN AbsorbedIn(r, a) ELSE {}
             /\ faults' = faults
          \/ /\ Fault
             /\ WorkOn(k, With(DataOf(k), a, [r EXCEPT !.bal = poll[k].sigs[a]]), p)
             /\ UNCHANGED <<lost, baselined>>
  /\ UNCHANGED <<tip, disk, live, alerts, redone, offline, edits, stops>>

RowsDone(k) ==
  /\ At(k, "rows") /\ poll[k].todo = {}
  /\ poll' = [poll EXCEPT ![k].at = IF poll[k].acts = {} THEN "close" ELSE "report"]
  /\ UNCHANGED <<tip, mem, disk, live, ghosts, counts>>

\* Mutant: the journal of the data the poll began with.
ReportToOwn(k) ==
  /\ At(k, "report")
  /\ \E x \in poll[k].acts :
       /\ WorkOn(k, [DataOf(k) EXCEPT !.log = @ \cup {x}],
                 [poll[k] EXCEPT !.acts = @ \ {x},
                     !.at = IF poll[k].acts = {x} THEN "close" ELSE "report"])
       /\ alerts' = [alerts EXCEPT ![x] = IF @ < AlertCap THEN @ + 1 ELSE @]
  /\ UNCHANGED <<tip, disk, live, redone, offline, baselined, lost, faults, edits, stops>>

(* Once per monitor and transaction: the journal of the data the manager   *)
(* has now, then the notification.                                         *)
Report(k) ==
  /\ At(k, "report")
  /\ \E x \in poll[k].acts :
       /\ poll' = [poll EXCEPT ![k].acts = @ \ {x},
                     ![k].at = IF poll[k].acts = {x} THEN "close" ELSE "report"]
       /\ mem' = [mem EXCEPT ![k].log = @ \cup {x}]
       /\ alerts' = [alerts EXCEPT ![x] = IF @ < AlertCap THEN @ + 1 ELSE @]
  /\ UNCHANGED <<tip, disk, live, redone, offline, baselined, lost, faults, edits, stops>>

\* Mutant: an activity does not force the save.
CloseWhenDue(k) ==
  /\ At(k, "close")
  /\ LET d == DataOf(k)
         sound == [d EXCEPT !.streak = 0, !.outage = FALSE]
     IN /\ mem' = IF poll[k].orphan THEN mem ELSE [mem EXCEPT ![k] = sound]
        /\ poll' = [poll EXCEPT ![k] = Idle]
        /\ disk' \in {mem'[k], disk}
        /\ offline' = (offline /\ ~(Current(k) /\ d.outage))
  /\ UNCHANGED <<tip, live, alerts, redone, baselined, lost, faults, edits, stops>>

(* The end of a poll that reached its source.  Only an activity or a       *)
(* recovery forces the save; otherwise it depends on the time of the last. *)
Close(k) ==
  /\ At(k, "close")
  /\ LET d == DataOf(k)
         sound == [d EXCEPT !.streak = 0, !.outage = FALSE]
     IN /\ mem' = IF poll[k].orphan THEN mem ELSE [mem EXCEPT ![k] = sound]
        /\ poll' = [poll EXCEPT ![k] = Idle]
        /\ disk' \in {mem'[k]} \cup IF poll[k].moved \/ d.outage THEN {} ELSE {disk}
        /\ offline' = (offline /\ ~(Current(k) /\ d.outage))
  /\ UNCHANGED <<tip, live, alerts, redone, baselined, lost, faults, edits, stops>>

(* The source refuses: any call of the Electrum poll, the first probe of a *)
(* Mempool poll.  The third refusal in a row is an outage.                 *)
Refused(d) == [d EXCEPT !.streak = IF @ < 3 THEN @ + 1 ELSE 3,
                        !.outage = @ \/ d.streak >= 2]
Fail(k) ==
  /\ poll[k].at \in {"status", "detail", "reconcile", "history", "raw"}
     \/ (At(k, "rows") /\ poll[k].todo = DOMAIN DataOf(k).rows)
  /\ Fault
  /\ WorkOn(k, Refused(DataOf(k)), [Idle EXCEPT !.at = "failed", !.orphan = poll[k].orphan, !.moved = (DataOf(k).streak \in {0, 2})])
  /\ lost' = lost \cup IF k = live THEN Known(mem[k], poll[k].new) ELSE {}
  /\ offline' = (offline \/ (Current(k) /\ DataOf(k).streak >= 2 /\ ~DataOf(k).outage))
  /\ UNCHANGED <<tip, disk, live, alerts, redone, baselined, edits, stops>>

\* Mutant: a refused poll saves when a save is due.
FailSavedWhenDue(k) ==
  /\ At(k, "failed")
  /\ poll' = [poll EXCEPT ![k] = Idle]
  /\ disk' \in {mem[k], disk}
  /\ UNCHANGED <<tip, mem, live, ghosts, counts>>

(* The first and the third refusal are saved at once.                      *)
FailSaved(k) ==
  /\ At(k, "failed")
  /\ poll' = [poll EXCEPT ![k] = Idle]
  /\ disk' \in {mem[k]} \cup IF poll[k].moved THEN {} ELSE {disk}
  /\ UNCHANGED <<tip, mem, live, ghosts, counts>>

-----------------------------------------------------------------------------
(* Edits, reloads, stops.                                                  *)

Edit == edits < MaxEdits /\ edits' = edits + 1

(* async_replace_from_full_config: new data, in which the rows that stay   *)
(* keep their state and the journal of a removed monitor is purged; then   *)
(* the save.  A poll that runs keeps the old data.                         *)
Orphaned(p, d) == IF p.at # "idle" /\ ~p.orphan THEN [p EXCEPT !.orphan = TRUE, !.data = d] ELSE p
Purged(log, ms) == {x \in log : x[1] \in ms}
Replace ==
  /\ Edit
  /\ \E ms \in SUBSET Monitors :
       LET d == mem[live]
           fresh == [d EXCEPT !.log = Purged(@, ms),
                      !.rows = [a \in AddrsOf(ms) |-> IF a \in DOMAIN d.rows THEN d.rows[a] ELSE NewRow]]
       IN /\ mem' = [mem EXCEPT ![live] = fresh]
          /\ disk' = fresh
          /\ poll' = [poll EXCEPT ![live] = Orphaned(@, d)]
          /\ lost' = {x \in lost : Owner[x[1]] \in ms}
          /\ baselined' = {x \in baselined : Owner[x[1]] \in ms}
          /\ redone' = (redone \/ ~At(live, "idle"))
  /\ UNCHANGED <<tip, live, alerts, offline, faults, stops>>

(* async_update_settings_from_config: the settings change in place, and    *)
(* the health of the source with them when the source is another.          *)
Settings ==
  /\ Edit
  /\ \E s \in Sources :
       LET d == mem[live]
           new == IF s = d.src THEN d
                  ELSE [d EXCEPT !.src = s, !.streak = 0, !.outage = FALSE]
       IN /\ mem' = [mem EXCEPT ![live] = new]
          /\ disk' = new
          /\ offline' = (offline /\ s = d.src)
  /\ UNCHANGED <<tip, poll, live, alerts, redone, baselined, lost, faults, stops>>

(* What a start finds: a movement its rows know and its journal does not   *)
(* was still to be reported when the data were saved.                      *)
Forgotten(d) == {x \in Addrs \X Txs : /\ x \in Known(d, {x})
                                      /\ <<Owner[x[1]], x[2]>> \notin d.log
                                      /\ x \notin baselined}

(* The entry is reloaded.  The timer of the old manager is cancelled, its  *)
(* poll is not: it ends in the old manager and saves that one's data.      *)
Reload ==
  /\ stops < MaxStops /\ stops' = stops + 1
  /\ \E k \in Managers \ {live} :
       /\ At(k, "idle")
       /\ live' = k
       /\ mem' = [mem EXCEPT ![k] = disk]
  /\ lost' = Known(disk, lost) \cup Forgotten(disk)
  /\ redone' = (redone \/ ~At(live, "idle"))
  /\ offline' = (offline /\ ~At(live, "failed"))
  /\ UNCHANGED <<tip, disk, poll, alerts, baselined, faults, edits>>

(* Home Assistant stops and starts: memory is gone.                        *)
Restart ==
  /\ stops < MaxStops /\ stops' = stops + 1
  /\ mem' = [k \in Managers |-> disk]
  /\ poll' = [k \in Managers |-> Idle]
  /\ lost' = Known(disk, lost) \cup Forgotten(disk)
  /\ redone' = (redone \/ \E k \in Managers : poll[k].at \in {"report", "close"} /\ poll[k].moved)
  /\ offline' = (offline /\ ~At(live, "failed"))
  /\ UNCHANGED <<tip, disk, live, alerts, baselined, faults, edits>>

PollStep(k) ==
  \/ Start(k) \/ Status(k) \/ Detail(k) \/ Reconcile(k) \/ HistoryRead(k) \/ Raw(k)
  \/ Summary(k) \/ Transactions(k) \/ RowsDone(k) \/ Report(k) \/ Close(k)
  \/ Fail(k) \/ FailSaved(k)

Next ==
  \/ Broadcast
  \/ \E k \in Managers : PollStep(k)
  \/ Replace \/ Settings \/ Reload \/ Restart

Spec == Init /\ [][Next]_vars /\ \A k \in Managers : WF_vars(PollStep(k))

-----------------------------------------------------------------------------
(* What a row of the live manager counts as seen is in the journal, or on  *)
(* its way there in the running poll, or was absorbed by a baseline, or is *)
(* one of the named losses: the known list of a row and the journal live   *)
(* in one record but are written many awaits apart (wallet_watch.py:3501,  *)
(* :4709), while edits copy and save that record.                          *)
SeenIsAccounted ==
  \A a \in DOMAIN mem[live].rows : mem[live].rows[a].base => \A t \in SeenBy(mem[live].rows[a]) :
    \/ <<Owner[a], t>> \in mem[live].log \cup poll[live].acts
    \/ <<a, t>> \in poll[live].new \cup baselined \cup lost

(* A movement is notified at most once per address it touches, unless an   *)
(* edit, a reload or a stop came between its report and the save that      *)
(* closes the poll: the forced save of an active poll (:4727) is what a    *)
(* later stop relies on.                                                   *)
AlertedOnce ==
  redone \/ \A m \in Monitors, t \in Txs :
              alerts[<<m, t>>] <= Cardinality(Touches[t] \cap AddrsOf({m}))

(* One outage, one notice: the owner is not told "offline" again before    *)
(* the source answered or was changed, and the third refusal's save makes  *)
(* that hold over a restart (:4556-4560).  Two stops break it: the poll    *)
(* that a reload leaves running (:2036) saves its own data over the new    *)
(* manager's outage, and the start after that reads no outage.             *)
OutageToldOnce ==
  [][\A k \in Managers :
       (Current(k) /\ At(k, "failed")' /\ mem'[k].outage /\ ~mem[k].outage) => ~offline]_vars

(* While the timer runs and the node answers in the end, a movement of a   *)
(* watched address reaches the journal, unless it was absorbed or lost.    *)
Reported ==
  \A a \in Addrs, t \in Txs :
    (t \in History(a)) ~>
      \/ a \notin DOMAIN mem[live].rows
      \/ <<Owner[a], t>> \in mem[live].log
      \/ <<a, t>> \in baselined \cup lost

(* "Every real detected movement is written to the encrypted device-bound  *)
(* activity journal" (docs/testing/SATS-SENTINEL-TEST.md:129).             *)
NothingLost == lost = {}

(* "removing a watch entry also permanently purges that monitor's journal  *)
(* history" (README.md:100).                                               *)
RemovedStaysPurged == \A x \in mem[live].log : x[1] \in Watched(mem[live])
=============================================================================
