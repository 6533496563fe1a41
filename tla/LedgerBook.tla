----------------------------- MODULE LedgerBook -----------------------------
(***************************************************************************)
(* The ledger store (storage.py, BitcoinLedgerStore) under the service     *)
(* calls of __init__.py: entries, depots, goals and holding-period         *)
(* settings in RAM, written to a file as a whole.  Calls check what they   *)
(* can before they take the store's lock, wait for it in turn, validate in *)
(* a worker thread while they hold it, change the RAM and save.  Without   *)
(* encryption a change of depots or goals reloads the config entry         *)
(* afterwards: a new store reads the file while calls of the old one may   *)
(* still be running.  Home Assistant may stop at any moment.               *)
(*                                                                         *)
(* The vault is open throughout (Vault.tla models locking).  The chart     *)
(* cache, names, prices and notes are left out.                            *)
(***************************************************************************)
EXTENDS LedgerRows, Sequences

CONSTANTS
    Calls,          \* the service calls that may be under way at once
    FirstBooks,     \* what the file may hold at first
    Main, All,      \* DEFAULT_DEPOT_ID and ALL_DEPOTS
    Settings,       \* the holding-period settings there can be
    MaxEntries, MaxDepots, MaxGoals,    \* the limits of limits.py
    NoBook,
    Traffic         \* the ways the store is used, each a record of
                    \*   reloads: no password mode, so _refresh_structure_after_write reloads,
                    \*   requests: what the calls may ask for, and bounds:
                    \*   together: calls under way at once, starts: requests started,
                    \*   loads: loads of the config entry between two restarts

Goal == [id : Nat, depot : Depots \cup {All}]
\* However many, the entries of a book, or of one request, are finitely many.
Ledgers == {S \in SUBSET Entry : IsFiniteSet(S)}
Book == [entries : Ledgers, depots : SUBSET Depots,
         goals : SUBSET Goal, tax : Settings]

Request ==
    [op : {"add", "import"}, entries : Ledgers]
    \cup [op : {"update"}, entry : Entry]
    \cup [op : {"delete"}, id : Ids]
    \cup [op : {"clear"}]
    \cup [op : {"addDepot", "dropDepot"}, depot : Depots]
    \cup [op : {"addGoal", "setGoal"}, goal : Goal]
    \cup [op : {"dropGoal"}, id : Nat]
    \cup [op : {"setTax"}, tax : Settings]
    \cup [op : {"restore"}, book : Book, fails : BOOLEAN]

IdsOf(S) == {e.id : e \in S}
Distinct(S) == \A e, f \in S : e.id = f.id => e = f

\* An id is a uuid4: no file, no backup and no import has one twice.
ASSUME LedgerAssumption ==
    /\ IsFiniteSet(Calls)
    /\ FirstBooks \subseteq Book /\ \A b \in FirstBooks : Distinct(b.entries)
    /\ \A u \in Traffic :
          /\ u.requests \subseteq Request
          /\ u.reloads \in BOOLEAN /\ u.together \in Nat /\ u.starts \in Nat /\ u.loads \in Nat
          /\ \A req \in u.requests :
                /\ req.op \in {"add", "import"} => Distinct(req.entries)
                /\ req.op = "restore" => Distinct(req.book.entries)
    /\ Main \in Depots /\ All \notin Depots

VARIABLES
    use,        \* the way this store is used
    file,       \* the book in the file
    ram,        \* _data of each store loaded since the last start
    queue,      \* the lock of each store: the holder and the waiters, in order
    cur,        \* the store in hass.data, 0 while the entry is not loaded
    call,       \* what each call is doing
    started,    \* bound: the requests started
    kept        \* history: ids of the entries stored and not deleted since

vars == <<use, file, ram, queue, cur, call, started, kept>>

Idle == [phase |-> "idle"]
Phases == {"entered", "queued", "checked", "saving", "export", "history", "undo",
           "undoing", "reload", "loading", "publishing"}

\* The type of every variable.
TypeOK ==
    /\ use \in Traffic
    /\ file \in Book
    /\ ram \in Seq(Book)
    /\ queue \in [1 .. Len(ram) -> Seq(Calls)]
    /\ cur \in 0 .. Len(ram)
    /\ \A c \in Calls : call[c] = Idle \/
          /\ call[c].phase \in Phases
          /\ call[c].req \in use.requests
          /\ call[c].inc \in 1 .. Len(ram)
          /\ call[c].next \in Book \cup {NoBook}
          /\ call[c].prev \in Book \cup {NoBook}
    /\ started \in 0 .. use.starts
    /\ kept \subseteq Ids

\* migrate_ledger_data: what belongs to no depot there is falls to the main
\* depot, a goal to all depots.
Normalize(b) ==
    [b EXCEPT
       !.depots = @ \cup {Main},
       !.entries = {IF e.depot \in b.depots THEN e ELSE [e EXCEPT !.depot = Main] : e \in @},
       !.goals = {IF g.depot \in b.depots \cup {Main, All}
                     THEN g ELSE [g EXCEPT !.depot = All] : g \in @}]

Init ==
    /\ use \in Traffic
    /\ \E b \in FirstBooks : file = Normalize(b)
    /\ ram = <<file>> /\ queue = <<<<>>>> /\ cur = 1
    /\ call = [c \in Calls |-> Idle]
    /\ started = 0 /\ kept = {}

-----------------------------------------------------------------------------
(* What each request asks of the book *)

\* What the handler checks before it waits for the lock.
Prechecked(b, req) ==
    /\ req.op = "add" => \A e \in req.entries : e.depot \in b.depots
    /\ req.op = "update" => req.entry.id \in IdsOf(b.entries) /\ req.entry.depot \in b.depots
    /\ req.op = "delete" => req.id \in IdsOf(b.entries)
    /\ req.op = "dropDepot" => req.depot # Main
    /\ req.op = "setGoal" => req.goal.depot \in b.depots \cup {All}

\* Mutant: looks at the default depot only.
WorsenedInMain(b, entries) == Deficit(entries, Main) > Deficit(b.entries, Main)

\* _oversold_increased: for the depots there are.
Worsened(b, entries) == \E d \in b.depots : Deficit(entries, d) > Deficit(b.entries, d)

\* _same_transaction_identity, for entries whose prices are equal.
Duplicates(b, e) ==
    \E o \in b.entries : o.id # e.id /\ [o EXCEPT !.id = e.id] = e

\* The entries of b when the request is carried out.
Rewritten(b, req) ==
    CASE req.op = "add" -> b.entries \cup req.entries
      [] req.op = "import" -> b.entries \cup {e \in req.entries : ~ Duplicates(b, e)}
      [] req.op = "update" -> {e \in b.entries : e.id # req.entry.id} \cup {req.entry}
      [] req.op = "delete" -> {e \in b.entries : e.id # req.id}

\* Under the lock: the edits of the entries that are carried out.
EditAccepted(b, req) ==
    /\ req.op \in {"add", "import", "update", "delete"}
    /\ req.op = "import" => \A e \in req.entries : e.depot \in b.depots
    /\ req.op = "import" => Rewritten(b, req) # b.entries
    /\ req.op \in {"add", "import"} => Cardinality(Rewritten(b, req)) <= MaxEntries
    /\ req.op = "update" => req.entry.id \in IdsOf(b.entries) /\ ~ Duplicates(b, req.entry)
    /\ req.op = "delete" => req.id \in IdsOf(b.entries)
    /\ ~ Worsened(b, Rewritten(b, req))

\* Mutant: deletes a depot that has entries.
StructureAcceptedWithEntries(b, req) ==
    \/ req.op = "addDepot" /\ req.depot \notin b.depots /\ Cardinality(b.depots) < MaxDepots
    \/ req.op = "dropDepot" /\ req.depot \in b.depots
    \/ /\ req.op = "addGoal" /\ req.goal.depot \in b.depots \cup {All}
       /\ Cardinality(b.goals) < MaxGoals /\ req.goal.id \notin {g.id : g \in b.goals}
    \/ req.op = "setGoal" /\ \E g \in b.goals : g.id = req.goal.id
    \/ req.op = "dropGoal" /\ \E g \in b.goals : g.id = req.id
    \/ req.op = "setTax"
    \/ req.op = "clear" /\ b.entries # {}

\* Under the lock: what is carried out without validation, deleting all entries
\* among it. The id of a new depot or goal is not in use.
StructureAccepted(b, req) ==
    \/ req.op = "addDepot" /\ req.depot \notin b.depots /\ Cardinality(b.depots) < MaxDepots
    \/ /\ req.op = "dropDepot" /\ req.depot \in b.depots
       /\ \A e \in b.entries : e.depot # req.depot
    \/ /\ req.op = "addGoal" /\ req.goal.depot \in b.depots \cup {All}
       /\ Cardinality(b.goals) < MaxGoals /\ req.goal.id \notin {g.id : g \in b.goals}
    \/ req.op = "setGoal" /\ \E g \in b.goals : g.id = req.goal.id
    \/ req.op = "dropGoal" /\ \E g \in b.goals : g.id = req.id
    \/ req.op = "setTax"
    \/ req.op = "clear" /\ b.entries # {}

\* _data after such a change.
Restructured(b, req) ==
    CASE req.op = "addDepot" -> [b EXCEPT !.depots = @ \cup {req.depot}]
      [] req.op = "dropDepot" -> [b EXCEPT !.depots = @ \ {req.depot},
                                           !.goals = {g \in @ : g.depot # req.depot}]
      [] req.op = "addGoal" -> [b EXCEPT !.goals = @ \cup {req.goal}]
      [] req.op = "setGoal" -> [b EXCEPT !.goals = {g \in @ : g.id # req.goal.id} \cup {req.goal}]
      [] req.op = "dropGoal" -> [b EXCEPT !.goals = {g \in @ : g.id # req.id}]
      [] req.op = "setTax" -> [b EXCEPT !.tax = req.tax]
      [] req.op = "clear" -> [b EXCEPT !.entries = {}]

-----------------------------------------------------------------------------
(* The steps of a call *)

IdsAsked(req) ==
    CASE req.op \in {"add", "import"} -> IdsOf(req.entries)
      [] req.op = "update" -> {req.entry.id}
      [] req.op = "delete" -> {req.id}
      [] OTHER -> {}

Busy == {c \in Calls : call[c] # Idle}

IdsNew(req) == IF req.op \in {"add", "import"} THEN IdsAsked(req) ELSE {}
IdsBacked(req) == IF req.op = "restore" THEN IdsOf(req.book.entries) ELSE {}

\* uuid4: an id nobody has used, and that no backup under way has.
Fresh(req) ==
    /\ IdsNew(req) \cap (kept \cup IdsOf(file.entries)) = {}
    /\ \A n \in 1 .. Len(ram) : IdsNew(req) \cap IdsOf(ram[n].entries) = {}
    /\ \A c \in Busy :
          /\ IdsNew(req) \cap (IdsAsked(call[c].req) \cup IdsBacked(call[c].req)) = {}
          /\ IdsNew(call[c].req) \cap IdsBacked(req) = {}

To(c, phase) == call' = [call EXCEPT ![c].phase = phase]
End(c) == call' = [call EXCEPT ![c] = Idle]

Join(n, c) == queue' = [queue EXCEPT ![n] = Append(@, c)]
Leave(n) == queue' = [queue EXCEPT ![n] = Tail(@)]

\* A restore asks for the lock twice, to export the book and to replace it.
Restored(prev, b) == [b EXCEPT !.tax = prev.tax]

NoneIn(phases) == \A c \in Busy : call[c].phase \notin phases

\* A call enters: it checks what it can and waits for the lock. One that does
\* not have to wait goes on before another call enters, and its export is over.
Start(c, req) ==
    LET waits == queue[cur] # <<>>
    IN /\ call[c] = Idle /\ cur # 0 /\ started < use.starts /\ Cardinality(Busy) < use.together
       /\ NoneIn({"entered"})
       /\ Prechecked(ram[cur], req) /\ Fresh(req)
       /\ started' = started + 1
       /\ Join(cur, c)
       /\ call' = [call EXCEPT ![c] =
            [phase |-> IF ~ waits THEN "entered"
                      ELSE IF req.op = "restore" THEN "export" ELSE "queued",
             req |-> req, inc |-> cur,
             prev |-> IF req.op = "restore" /\ ~ waits THEN ram[cur] ELSE NoBook,
             next |-> IF req.op = "restore" /\ ~ waits
                         THEN Restored(ram[cur], req.book) ELSE NoBook]]
       /\ UNCHANGED <<use, file, ram, cur, kept>>

\* Mutant: does not wait for the lock.
HoldsAtOnce(c) == call[c] # Idle

\* The lock is given in the order it was asked for.
Holds(c) ==
    call[c] # Idle /\ queue[call[c].inc] # <<>> /\ Head(queue[call[c].inc]) = c

\* async_export: the lock is given back, and asked for again by async_replace.
Export(c) ==
    LET n == call[c].inc
    IN /\ Holds(c) /\ call[c].phase = "export"
       /\ queue' = [queue EXCEPT ![n] = Append(Tail(@), c)]
       /\ call' = [call EXCEPT ![c].phase = "queued", ![c].prev = ram[n],
                               ![c].next = Restored(ram[n], call[c].req.book)]
       /\ UNCHANGED <<use, file, ram, cur, started, kept>>

\* async_delete_depot drops the goals of a depot before it finds that there is
\* no such depot, and does not save then.
RefusedGoals(b, req) ==
    IF req.op = "dropDepot" /\ \A e \in b.entries : e.depot # req.depot
    THEN {g \in b.goals : g.depot # req.depot} ELSE b.goals

Refuse(c) ==
    LET n == call[c].inc
        req == call[c].req
    IN /\ Holds(c) /\ call[c].phase \in {"entered", "queued"} /\ req.op # "restore"
       /\ ~ EditAccepted(ram[n], req) /\ ~ StructureAccepted(ram[n], req)
       /\ ram' = [ram EXCEPT ![n].goals = RefusedGoals(ram[n], req)]
       /\ Leave(n) /\ End(c)
       /\ UNCHANGED <<use, file, cur, started, kept>>

\* A candidate is validated in a worker thread, with the lock held.
Validate(c) ==
    LET n == call[c].inc
        req == call[c].req
    IN /\ Holds(c) /\ call[c].phase \in {"entered", "queued"}
       /\ EditAccepted(ram[n], req)
       /\ call' = [call EXCEPT ![c].phase = "checked",
                               ![c].next = [ram[n] EXCEPT !.entries = Rewritten(ram[n], req)]]
       /\ UNCHANGED <<use, file, ram, queue, cur, started, kept>>

\* Only now the entries change.
Change(c) ==
    LET n == call[c].inc
    IN /\ call[c] # Idle /\ call[c].phase = "checked"
       /\ ram' = [ram EXCEPT ![n].entries = call[c].next.entries]
       /\ call' = [call EXCEPT ![c].phase = "saving", ![c].next = NoBook]
       /\ UNCHANGED <<use, file, queue, cur, started, kept>>

Restructure(c) ==
    LET n == call[c].inc
        req == call[c].req
    IN /\ Holds(c) /\ call[c].phase \in {"entered", "queued"}
       /\ StructureAccepted(ram[n], req)
       /\ ram' = [ram EXCEPT ![n] = Restructured(@, req)]
       /\ To(c, "saving")
       /\ UNCHANGED <<use, file, queue, cur, started, kept>>

\* async_replace, whose limits the backup was checked against before: by the restore and, when its history fails, to undo it.
Replace(c) ==
    LET n == call[c].inc
        undo == call[c].phase = "undo"
    IN /\ Holds(c) /\ call[c].req.op = "restore"
       /\ call[c].phase \in {"entered", "queued", "undo"}
       /\ ram' = [ram EXCEPT ![n] = Normalize(IF undo THEN call[c].prev ELSE call[c].next)]
       /\ To(c, IF undo THEN "undoing" ELSE "saving")
       /\ UNCHANGED <<use, file, queue, cur, started, kept>>

Structural == {"addDepot", "dropDepot", "addGoal", "setGoal", "dropGoal"}

\* What follows the save: a restore replaces the history, a change of structure
\* reloads the entry; the handlers of depots look it up again and fail when it
\* is not loaded.
Saved(c) ==
    LET op == call[c].req.op
    IN IF call[c].phase = "saving" /\ op = "restore" THEN To(c, "history")
       ELSE IF use.reloads /\ op \in Structural /\ ~ (op \in {"addDepot", "dropDepot"} /\ cur = 0)
            THEN To(c, "reload")
            ELSE End(c)

KeptAfter(req, b) ==
    CASE req.op \in {"add", "import"} -> kept \cup (IdsAsked(req) \cap IdsOf(b.entries))
      [] req.op = "delete" -> kept \ IdsAsked(req)
      [] req.op = "clear" -> {}
      [] OTHER -> kept

\* The file is written as a whole, and the lock given back.
Save(c) ==
    LET n == call[c].inc
    IN /\ call[c] # Idle /\ call[c].phase \in {"saving", "undoing"}
       /\ file' = ram[n]
       /\ Leave(n) /\ Saved(c)
       /\ kept' = KeptAfter(call[c].req, ram[n])
       /\ UNCHANGED <<use, ram, cur, started>>

\* The history of the backup is stored, or the ledger is put back.
History(c) ==
    /\ call[c] # Idle /\ call[c].phase = "history"
    /\ IF call[c].req.fails
       THEN Join(call[c].inc, c) /\ To(c, "undo") /\ UNCHANGED kept
       ELSE End(c) /\ kept' = {} /\ UNCHANGED queue
    /\ UNCHANGED <<use, file, ram, cur, started>>

-----------------------------------------------------------------------------
(* Reloads and restarts *)

\* One reload at a time takes the old store out of hass.data.
Unload(c) ==
    /\ call[c] # Idle /\ call[c].phase = "reload"
    /\ NoneIn({"loading", "publishing"}) /\ Len(ram) < use.loads
    /\ cur' = 0 /\ To(c, "loading")
    /\ UNCHANGED <<use, file, ram, queue, started, kept>>

\* A new store reads the file, and writes it back if it had to be normalised.
Load(c) ==
    /\ call[c] # Idle /\ call[c].phase = "loading"
    /\ file' = Normalize(file)
    /\ ram' = Append(ram, file') /\ queue' = Append(queue, <<>>)
    /\ To(c, "publishing")
    /\ UNCHANGED <<use, cur, started, kept>>

\* The set-up ends: calls find the new store.
Publish(c) ==
    /\ call[c] # Idle /\ call[c].phase = "publishing"
    /\ cur' = Len(ram) /\ End(c)
    /\ UNCHANGED <<use, file, ram, queue, started, kept>>

\* Home Assistant dies and starts again. A restore under way has its effect.
Restart ==
    /\ file' = Normalize(file)
    /\ ram' = <<file'>> /\ queue' = <<<<>>>> /\ cur' = 1
    /\ call' = [c \in Calls |-> Idle]
    /\ kept' = IF NoneIn({"history", "undo", "undoing"}) THEN kept ELSE {}
    /\ UNCHANGED <<use, started>>

Next ==
    \/ \E c \in Calls :
          \/ \E req \in use.requests : Start(c, req)
          \/ Export(c) \/ Refuse(c) \/ Validate(c) \/ Change(c) \/ Restructure(c)
          \/ Replace(c) \/ Save(c) \/ History(c)
          \/ Unload(c) \/ Load(c) \/ Publish(c)
    \/ Restart

Spec == Init /\ [][Next]_vars

-----------------------------------------------------------------------------
(* Properties *)

\* The stored book, in which a restore that is going to fail does not show.
Stored ==
    LET failing == {c \in Busy : call[c].req.op = "restore" /\ call[c].req.fails
                                  /\ call[c].phase \in {"history", "undo", "undoing"}}
    IN IF failing = {} THEN file ELSE call[CHOOSE c \in failing : TRUE].prev

\* The stored book changes by one whole operation at a time, applied to what the
\* one before it left: validated against the very book it is written over.
Requests == UNION {u.requests : u \in Traffic}
BackupsThere == {req.book : req \in {r \in Requests : r.op = "restore"}}
GoalsThere == {req.goal : req \in {r \in Requests : r.op \in {"addGoal", "setGoal"}}}
              \cup UNION {b.goals : b \in FirstBooks \cup BackupsThere}
AL == INSTANCE AtomicLedger WITH
          book <- Stored,
          Offered <- (UNION {req.entries : req \in {r \in Requests : r.op \in {"add", "import"}}})
                     \cup {req.entry : req \in {r \in Requests : r.op = "update"}},
          Goals <- GoalsThere \cup {[g EXCEPT !.depot = All] : g \in GoalsThere},
          Backups <- BackupsThere

ImplementsAtomicLedger == AL!Spec

\* An entry that was stored and answered for stays in the file until a call
\* deletes it, through reloads and restarts: unless a restore is under way.
StoredStays ==
    (\A c \in Busy : call[c].req.op # "restore") => kept \subseteq IdsOf(file.entries)

Sound(b) == \A d \in b.depots : Deficit(b.entries, d) = 0

Homed(b) == \A e \in b.entries : e.depot \in b.depots

\* A book with nothing oversold stays so, through every edit, restore, reload
\* and restart, as long as no entry has lost its depot.
SoundStaysSound == [][Sound(Stored) /\ Homed(Stored) => Sound(Stored')]_vars

\* "no edit/import is allowed to create or increase one", without a condition.
NoOversellCreated == [][Sound(Stored) => Sound(Stored')]_vars

=============================================================================
