-------------------------- MODULE LedgerBookProofs --------------------------
(***************************************************************************)
(* Theorems about the ledger store: its types and the lock for every use   *)
(* of it, that stored entries stay (StoredStays) where calls do not meet a *)
(* reload or a restore that fails, that the stored book changes by whole   *)
(* operations (ImplementsAtomicLedger) where no call stores what it read   *)
(* or checked before it had the lock, and that these operations leave      *)
(* nothing oversold that was not (SoundStaysSound).                        *)
(*                                                                         *)
(* The invariant says, of each call, what it has made of the book of the   *)
(* file so far.  That can be said because the head of the queue is alone   *)
(* at work: the file is as the head of the queue found it until it saves.  *)
(***************************************************************************)
EXTENDS LedgerBook, SumProofs, FiniteSetTheorems, TLAPS

-----------------------------------------------------------------------------
(* How the store is used *)

\* Calls do not meet a reload or a restore that fails: one is under way at a
\* time, or there is neither. A reload leaves two stores with a lock each, and
\* a failing restore puts back what was there before the calls between.
Calm(u) ==
    \/ u.together = 1
    \/ ~ u.reloads /\ \A req \in u.requests : req.op = "restore" => ~ req.fails
CalmTraffic == \A u \in Traffic : Calm(u)

\* Nor does a call store what it checked or read before it had the lock while
\* others work: the depot of a goal it edits, the settings a restore keeps.
Orderly(u) ==
    \/ u.together = 1
    \/ /\ Calm(u)
       /\ \A req \in u.requests : req.op # "setGoal"
       /\ (\E req \in u.requests : req.op = "setTax") => \A req \in u.requests : req.op # "restore"
OrderlyTraffic == \A u \in Traffic : Orderly(u)

-----------------------------------------------------------------------------
(* Types *)

BookOrNone == Book \cup {NoBook}
Task == [phase : Phases, req : use.requests, inc : 1 .. Len(ram), prev : BookOrNone, next : BookOrNone]

\* The state has its types: those of TypeOK, and what the domains are.
Shape ==
    /\ use \in Traffic
    /\ file \in Book
    /\ ram \in Seq(Book) /\ Len(ram) > 0
    /\ queue \in [1 .. Len(ram) -> Seq(Calls)]
    /\ cur \in 0 .. Len(ram)
    /\ DOMAIN call = Calls
    /\ \A c \in Calls : call[c] = Idle \/ call[c] \in Task
    /\ started \in 0 .. use.starts
    /\ kept \subseteq Ids

\* What a call carries fits where it stands.
Carries ==
    \A c \in Busy :
        LET t == call[c] IN
        /\ t.phase \in {"history", "undo", "undoing"} => t.req.op = "restore" /\ t.prev \in Book
        /\ t.phase = "checked" => t.req.op \in {"add", "import", "update", "delete"} /\ t.next \in Book
        /\ t.req.op = "restore" =>
              /\ t.phase \notin {"checked", "reload", "loading", "publishing"}
              /\ t.phase # "export" => t.prev \in Book
              /\ t.phase \in {"entered", "queued"} => t.next = Restored(t.prev, t.req.book)
        /\ t.phase = "export" => t.req.op = "restore"
        /\ t.req.op = "dropDepot" => t.req.depot # Main

-----------------------------------------------------------------------------
(* The lock *)

InLock == {"entered", "checked", "saving", "undoing"}
Waiting == InLock \cup {"queued", "export", "undo"}

Alone == use.together = 1

\* One call is under way, and the lock is its own.
OneCall ==
    Alone =>
        /\ \A c, d \in Busy : c = d
        /\ \A c \in Busy : call[c].phase \notin {"queued", "export"}
        /\ cur # 0 =>
              /\ \A c \in Busy : call[c].phase \in Waiting => queue[cur] = <<c>>
              /\ (\A c \in Busy : call[c].phase \notin Waiting) => queue[cur] = <<>>

\* One store serves all calls.
OneStore ==
    ~ Alone =>
        /\ Len(ram) = 1 /\ cur = 1
        /\ \A c \in Busy : call[c].phase \notin {"reload", "loading", "publishing", "undo", "undoing"}

\* A call works on the store there is, unless it is loading the next one.
Current ==
    /\ \A c \in Busy : \/ call[c].phase \in {"loading", "publishing"}
                       \/ cur # 0 /\ call[c].inc = cur
    /\ \A c \in Busy : /\ call[c].phase = "publishing" => ram[Len(ram)] = file /\ queue[Len(ram)] = <<>>
                       /\ call[c].phase = "loading" => cur = 0

\* Who has the lock is the head of its queue.
Exclusive ==
    \A c \in Busy : call[c].phase \in InLock =>
        queue[call[c].inc] # <<>> /\ Head(queue[call[c].inc]) = c

LockFacts == OneCall /\ OneStore /\ Current

-----------------------------------------------------------------------------
(* Ids and what is kept *)

NoneSaving == NoneIn({"saving", "undoing"})

\* The entries in RAM are those of the file, but for who is saving.
SameEntries == cur # 0 /\ NoneSaving => ram[cur].entries = file.entries

EntriesAfter(b, req) ==
    IF req.op \in {"add", "import", "update", "delete"} THEN Rewritten(b, req)
    ELSE IF req.op = "clear" THEN {} ELSE b.entries

\* What a call makes of the entries of the file, "was", in RAM, "now".
MidwayOf(t, was, now) ==
    /\ t.phase = "checked" => t.next.entries = Rewritten(was, t.req)
    /\ t.phase \in {"checked", "saving"} /\ t.req.op = "update" => t.req.entry.id \in IdsOf(was.entries)
    /\ t.phase = "saving" /\ t.req.op # "restore" => now.entries = EntriesAfter(was, t.req)
    /\ t.phase = "saving" /\ t.req.op = "restore" =>
          IdsOf(now.entries) = IdsOf(t.req.book.entries) /\ Distinct(now.entries)
    /\ t.phase = "undoing" => IdsOf(now.entries) = IdsOf(t.prev.entries) /\ Distinct(now.entries)
Midway == \A c \in Busy : MidwayOf(call[c], file, ram[cur])

\* What a failing restore puts back is what was there.
PutBackOf(t, was, ids) ==
    /\ t.phase \in {"entered", "saving"} => t.prev.entries = was.entries
    /\ Distinct(t.prev.entries)
    /\ t.phase \in {"undo", "undoing"} => t.req.fails
    /\ t.phase \in {"history", "undo", "undoing"} /\ t.req.fails => ids \subseteq IdsOf(t.prev.entries)
PutBack == Alone => \A c \in Busy : call[c].req.op = "restore" => PutBackOf(call[c], file, kept)

NewIds ==
    /\ Distinct(file.entries)
    /\ \A c \in Busy : call[c].phase \in {"entered", "queued", "checked", "saving"} =>
          IdsNew(call[c].req) \cap IdsOf(file.entries) = {}
    /\ \A c, d \in Busy : c # d =>
          /\ IdsNew(call[c].req) \cap (IdsNew(call[d].req) \cup IdsBacked(call[d].req)) = {}

KeptThere == NoneIn({"history", "undo", "undoing"}) => kept \subseteq IdsOf(file.entries)

EntryFacts == SameEntries /\ Midway /\ PutBack /\ NewIds /\ KeptThere
-----------------------------------------------------------------------------
(* The whole book *)

KnownGoals == GoalsThere \cup {[g EXCEPT !.depot = All] : g \in GoalsThere}
GoalsHomed(b) == \A g \in b.goals : g.depot \in b.depots \cup {All}
Sane(b) == Main \in b.depots /\ GoalsHomed(b) /\ b.goals \subseteq KnownGoals

SameBook == cur # 0 /\ NoneSaving => ram[cur] = file

Done(b, req) ==
    IF req.op = "restore" THEN Normalize(Restored(b, req.book))
    ELSE IF EditAccepted(b, req) THEN [b EXCEPT !.entries = Rewritten(b, req)]
    ELSE Restructured(b, req)
Accepted(b, req) == req.op = "restore" \/ EditAccepted(b, req) \/ StructureAccepted(b, req)

\* What a call makes of the book of the file, "was", in RAM, "now".
CarriedOf(t, was, now) ==
    /\ t.phase = "checked" => EditAccepted(was, t.req) /\ t.next = Done(was, t.req)
    /\ t.phase = "saving" => Accepted(was, t.req) /\ now = Done(was, t.req)
    /\ t.phase = "undoing" => now = Normalize(t.prev)
Carried == \A c \in Busy : CarriedOf(call[c], file, ram[cur])

\* The settings a restore keeps are those of the file.
TaxKept ==
    \A c \in Busy : call[c].req.op = "restore" /\ call[c].phase \in {"entered", "queued", "saving"}
                    => call[c].prev.tax = file.tax

\* What a failing restore puts back, and the book of the file meanwhile.
UndoneOf(t, was) ==
    /\ Sane(t.prev)
    /\ t.phase \in {"entered", "saving"} => t.prev = was
    /\ t.phase \in {"history", "undo", "undoing"} => was = Normalize(Restored(t.prev, t.req.book))
Undone == Alone => \A c \in Busy : call[c].req.op = "restore" => UndoneOf(call[c], file)

\* The depot of an edited goal, checked before the lock, is still there.
GoalChecked ==
    \A c \in Busy : call[c].req.op = "setGoal" /\ call[c].phase \in {"entered", "saving"}
                    => call[c].req.goal.depot \in file.depots \cup {All}

BookFacts == Sane(file) /\ SameBook /\ Carried /\ TaxKept /\ Undone /\ GoalChecked

-----------------------------------------------------------------------------
(* What is done to a book *)

LEMMA RequestFits ==
  ASSUME NEW u \in Traffic, NEW req \in u.requests
  PROVE  /\ req \in Request
         /\ req.op \in {"add", "import"} => req.entries \in Ledgers /\ Distinct(req.entries)
         /\ req.op = "update" => req.entry \in Entry
         /\ req.op = "delete" => req.id \in Ids
         /\ req.op \in {"addDepot", "dropDepot"} => req.depot \in Depots
         /\ req.op \in {"addGoal", "setGoal"} => req.goal \in Goal
         /\ req.op = "setTax" => req.tax \in Settings
         /\ req.op = "restore" => req.book \in Book /\ req.fails \in BOOLEAN /\ Distinct(req.book.entries)
  BY LedgerAssumption DEF LedgerAssumption, Request

LEMMA NormalizeFits ==
  ASSUME NEW b \in Book
  PROVE  /\ Normalize(b) \in Book
         /\ Normalize(b).tax = b.tax
         /\ Main \in Normalize(b).depots
         /\ GoalsHomed(Normalize(b))
         /\ \A g \in Normalize(b).goals : g \in b.goals \/ \E h \in b.goals : g = [h EXCEPT !.depot = All]
         /\ \A e \in Normalize(b).entries : e.depot \in Normalize(b).depots
<1>1. Main \in Depots
  BY LedgerAssumption DEF LedgerAssumption
<1>2. \A e \in b.entries : e \in Entry /\ [e EXCEPT !.depot = Main] \in Entry
  BY <1>1 DEF Book, Ledgers, Entry
<1>3. \A g \in b.goals : g \in Goal /\ [g EXCEPT !.depot = All] \in Goal
  BY DEF Book, Goal
<1>4. Normalize(b).entries \in Ledgers
  <2> DEFINE home(e) == IF e.depot \in b.depots THEN e ELSE [e EXCEPT !.depot = Main]
             f == [e \in b.entries |-> home(e)]
             T == {home(e) : e \in b.entries}
  <2>1. Normalize(b).entries = T /\ IsFiniteSet(b.entries)
    BY DEF Normalize, Book, Ledgers
  <2>2. T \in SUBSET Entry
    BY <1>2
  <2>3. f \in [b.entries -> T] /\ \A t \in T : \E e \in b.entries : f[e] = t
    OBVIOUS
  <2> HIDE DEF home, f, T
  <2>4. f \in Surjection(b.entries, T)
    BY <2>3 DEF Surjection
  <2>5. IsFiniteSet(T)
    BY <2>1, <2>4, FS_Surjection
  <2> QED
    BY <2>1, <2>2, <2>5 DEF Ledgers
<1>5. Normalize(b).goals \subseteq Goal
  BY <1>3 DEF Normalize, Book
<1>6. Normalize(b) \in Book /\ Normalize(b).tax = b.tax /\ Normalize(b).depots = b.depots \cup {Main}
  BY <1>1, <1>4, <1>5 DEF Normalize, Book
<1>7. \A g \in Normalize(b).goals : /\ g.depot \in b.depots \cup {Main, All}
                                    /\ g \in b.goals \/ \E h \in b.goals : g = [h EXCEPT !.depot = All]
  BY <1>3 DEF Normalize, Book, Goal
<1>8. \A e \in Normalize(b).entries : e.depot \in b.depots \cup {Main}
  BY <1>2 DEF Normalize, Book, Entry
<1> QED
  BY <1>6, <1>7, <1>8 DEF GoalsHomed

\* Only a depot changes: not the ids.
LEMMA NormalizeIds ==
  ASSUME NEW b \in Book
  PROVE  /\ IdsOf(Normalize(b).entries) = IdsOf(b.entries)
         /\ Distinct(b.entries) => Distinct(Normalize(b).entries)
<1> DEFINE home(e) == IF e.depot \in b.depots THEN e ELSE [e EXCEPT !.depot = Main]
<1>1. \A e \in b.entries : home(e).id = e.id
  BY DEF Book, Entry
<1>2. Normalize(b).entries = {home(e) : e \in b.entries}
  BY DEF Normalize, Book
<1>3. IdsOf(Normalize(b).entries) = IdsOf(b.entries)
  <2> HIDE DEF home
  <2> QED
    BY <1>1, <1>2 DEF IdsOf
<1>4. Distinct(b.entries) => Distinct(Normalize(b).entries)
  <2> HIDE DEF home
  <2> QED
    BY <1>1, <1>2 DEF Distinct
<1> QED
  BY <1>3, <1>4

LEMMA NormalizeTwice ==
  ASSUME NEW b \in Book
  PROVE  Normalize(Normalize(b)) = Normalize(b)
<1> DEFINE n == Normalize(b)
<1>1. /\ n \in Book /\ Main \in n.depots /\ GoalsHomed(n) /\ \A e \in n.entries : e.depot \in n.depots
  BY NormalizeFits
<1> HIDE DEF n
<1>2. {IF e.depot \in n.depots THEN e ELSE [e EXCEPT !.depot = Main] : e \in n.entries} = n.entries
  BY <1>1
<1>3. {IF g.depot \in n.depots \cup {Main, All} THEN g ELSE [g EXCEPT !.depot = All] : g \in n.goals} = n.goals
  BY <1>1 DEF GoalsHomed
<1>4. n.depots \cup {Main} = n.depots
  BY <1>1
<1>5. Normalize(n) = n
  BY <1>1, <1>2, <1>3, <1>4 DEF Normalize, Book
<1> QED
  BY <1>5 DEF n

LEMMA RestoredFits ==
  ASSUME NEW p \in Book, NEW b \in Book
  PROVE  /\ Restored(p, b) \in Book /\ Restored(p, b).tax = p.tax
         /\ Restored(p, b).entries = b.entries /\ Restored(p, b).goals = b.goals
  BY DEF Restored, Book

LEMMA RewrittenFits ==
  ASSUME NEW u \in Traffic, NEW req \in u.requests, NEW b \in Book,
         req.op \in {"add", "import", "update", "delete"}
  PROVE  Rewritten(b, req) \in Ledgers
<1>1. b.entries \in SUBSET Entry /\ IsFiniteSet(b.entries)
  BY DEF Book, Ledgers
<1>2. ASSUME NEW S, IsFiniteSet(S), S \in SUBSET Entry, NEW T \in SUBSET b.entries
      PROVE  T \cup S \in Ledgers
  <2>1. IsFiniteSet(T)
    BY <1>1, FS_Subset
  <2>2. IsFiniteSet(T \cup S)
    BY <1>2, <2>1, FS_Union
  <2> QED
    BY <1>1, <1>2, <2>2 DEF Ledgers
<1>3. CASE req.op \in {"add", "import"}
  <2>1. req.entries \in SUBSET Entry /\ IsFiniteSet(req.entries)
    BY <1>3, RequestFits DEF Ledgers
  <2>2. PICK S \in SUBSET req.entries : Rewritten(b, req) = b.entries \cup S
    BY <1>3 DEF Rewritten
  <2>3. IsFiniteSet(S) /\ S \in SUBSET Entry /\ b.entries \in SUBSET b.entries
    BY <2>1, FS_Subset
  <2> QED
    BY <1>2, <2>2, <2>3
<1>4. CASE req.op = "update"
  <2>1. req.entry \in Entry /\ IsFiniteSet({req.entry})
    BY <1>4, RequestFits, FS_Singleton
  <2>2. Rewritten(b, req) = {e \in b.entries : e.id # req.entry.id} \cup {req.entry}
    BY <1>4 DEF Rewritten
  <2> QED
    BY <1>2, <2>1, <2>2
<1>5. CASE req.op = "delete"
  <2>1. Rewritten(b, req) = {e \in b.entries : e.id # req.id} \cup {}
    BY <1>5 DEF Rewritten
  <2> QED
    BY <1>2, <2>1, FS_EmptySet
<1> QED
  BY <1>3, <1>4, <1>5

LEMMA EditOps ==
  ASSUME NEW b, NEW req, EditAccepted(b, req)
  PROVE  /\ req.op \in {"add", "import", "update", "delete"}
         /\ req.op = "update" => req.entry.id \in IdsOf(b.entries)
  BY DEF EditAccepted

Structures == {"addDepot", "dropDepot", "addGoal", "setGoal", "dropGoal", "setTax", "clear"}

LEMMA StructureOps ==
  ASSUME NEW b, NEW req, StructureAccepted(b, req)
  PROVE  req.op \in Structures
  BY DEF StructureAccepted, Structures

LEMMA RestructuredFits ==
  ASSUME NEW u \in Traffic, NEW req \in u.requests, NEW b \in Book, req.op \in Structures
  PROVE  Restructured(b, req) \in Book /\ Restructured(b, req).entries = EntriesAfter(b, req)
<1>1. CASE req.op = "addDepot"
  BY <1>1, RequestFits DEF Restructured, EntriesAfter, Book
<1>2. CASE req.op = "dropDepot"
  BY <1>2, RequestFits DEF Restructured, EntriesAfter, Book
<1>3. CASE req.op = "addGoal"
  BY <1>3, RequestFits DEF Restructured, EntriesAfter, Book
<1>4. CASE req.op = "setGoal"
  BY <1>4, RequestFits DEF Restructured, EntriesAfter, Book
<1>5. CASE req.op = "dropGoal"
  BY <1>5, RequestFits DEF Restructured, EntriesAfter, Book
<1>6. CASE req.op = "setTax"
  BY <1>6, RequestFits DEF Restructured, EntriesAfter, Book
<1>7. CASE req.op = "clear"
  <2>1. {} \in Ledgers
    BY FS_EmptySet DEF Ledgers
  <2> QED
    BY <1>7, <2>1, RequestFits DEF Restructured, EntriesAfter, Book
<1> QED
  BY <1>1, <1>2, <1>3, <1>4, <1>5, <1>6, <1>7 DEF Structures

LEMMA RefusedGoalsFit ==
  ASSUME NEW b \in Book, NEW req
  PROVE  RefusedGoals(b, req) \in SUBSET Goal
  BY DEF RefusedGoals, Book

\* Two calls under way at a time are two.
LEMMA AloneMeansNone ==
  ASSUME Cardinality(Busy) < 1
  PROVE  Busy = {}
<1>1. IsFiniteSet(Busy)
  BY LedgerAssumption, FS_Subset DEF LedgerAssumption, Busy
<1> QED
  BY <1>1, FS_EmptySet, FS_CardinalityType

-----------------------------------------------------------------------------
(* Types, and who has the lock: for every traffic *)

CallsFit == DOMAIN call = Calls /\ \A c \in Calls : call[c] = Idle \/ call[c] \in Task

LEMMA TaskStep ==
  ASSUME Shape, NEW c \in Calls, NEW STATE t, t = Idle \/ t \in Task, call' = [call EXCEPT ![c] = t],
         use' = use, Len(ram') \in Nat, Len(ram') >= Len(ram)
  PROVE  CallsFit'
<1>1. Len(ram) \in Nat
  BY DEF Shape
<1>2. \A x : x \in Task => x \in Task'
  BY <1>1 DEF Task
<1> QED
  BY <1>2 DEF Shape, CallsFit, Idle

LEMMA PhaseStep ==
  ASSUME Shape, NEW c \in Calls, NEW p \in Phases, call[c] # Idle, To(c, p),
         use' = use, Len(ram') \in Nat, Len(ram') >= Len(ram)
  PROVE  CallsFit'
<1>1. [call[c] EXCEPT !.phase = p] \in Task
  BY DEF Shape, Task
<1>2. call' = [call EXCEPT ![c] = [call[c] EXCEPT !.phase = p]]
  BY DEF To
<1> QED
  BY <1>1, <1>2, TaskStep

LEMMA EndStep ==
  ASSUME Shape, NEW c \in Calls, End(c), use' = use, Len(ram') \in Nat, Len(ram') >= Len(ram)
  PROVE  CallsFit'
  BY TaskStep DEF End

\* What a call that is under way is.
LEMMA BusyFits ==
  ASSUME Shape, NEW c \in Calls, call[c] # Idle
  PROVE  /\ call[c] \in Task /\ c \in Busy
         /\ call[c].req \in use.requests /\ use \in Traffic
         /\ call[c].inc \in 1 .. Len(ram) /\ Len(ram) \in Nat
         /\ ram[call[c].inc] \in Book /\ queue[call[c].inc] \in Seq(Calls)
  BY DEF Shape, Busy, Task

LEMMA RamStep ==
  ASSUME Shape, NEW n \in 1 .. Len(ram), NEW b \in Book, ram' = [ram EXCEPT ![n] = b]
  PROVE  ram' \in Seq(Book) /\ Len(ram') = Len(ram) /\ ram'[n] = b
         /\ \A m \in 1 .. Len(ram) : m # n => ram'[m] = ram[m]
  BY DEF Shape

LEMMA QueueStep ==
  ASSUME Shape, NEW n \in 1 .. Len(ram), NEW q \in Seq(Calls), queue' = [queue EXCEPT ![n] = q]
  PROVE  queue' \in [1 .. Len(ram) -> Seq(Calls)]
  BY DEF Shape

LEMMA KeptFits ==
  ASSUME NEW req, NEW b \in Book, kept \subseteq Ids
  PROVE  KeptAfter(req, b) \subseteq Ids
<1>1. IdsOf(b.entries) \subseteq Ids
  BY DEF IdsOf, Book, Ledgers, Entry
<1> QED
  BY <1>1 DEF KeptAfter

LEMMA StartFits ==
  ASSUME Shape, NEW c \in Calls, NEW req \in use.requests, Start(c, req)
  PROVE  Shape'
<1>1. /\ cur \in 1 .. Len(ram) /\ Len(ram) \in Nat /\ ram[cur] \in Book /\ queue[cur] \in Seq(Calls)
      /\ use \in Traffic
  BY DEF Shape, Start
<1>2. started' \in 0 .. use.starts
  BY <1>1, LedgerAssumption DEF Shape, Start, LedgerAssumption
<1>3. req.op = "restore" => Restored(ram[cur], req.book) \in Book
  BY <1>1, RequestFits, RestoredFits
<1>4. CallsFit'
  <2> DEFINE waits == queue[cur] # <<>>
             t == [phase |-> IF ~ waits THEN "entered"
                             ELSE IF req.op = "restore" THEN "export" ELSE "queued",
                   req |-> req, inc |-> cur,
                   prev |-> IF req.op = "restore" /\ ~ waits THEN ram[cur] ELSE NoBook,
                   next |-> IF req.op = "restore" /\ ~ waits
                               THEN Restored(ram[cur], req.book) ELSE NoBook]
  <2>1. t \in Task
    BY <1>1, <1>3 DEF Task, BookOrNone, Phases
  <2>2. call' = [call EXCEPT ![c] = t] /\ use' = use /\ ram' = ram
    BY DEF Start
  <2>3. Len(ram') \in Nat /\ Len(ram') >= Len(ram)
    BY <1>1, <2>2
  <2>4. t = Idle \/ t \in Task
    BY <2>1
  <2> HIDE DEF t
  <2> QED
    BY <2>2, <2>3, <2>4, TaskStep
<1>5. queue' \in [1 .. Len(ram) -> Seq(Calls)]
  <2>1. queue' = [queue EXCEPT ![cur] = Append(queue[cur], c)] /\ Append(queue[cur], c) \in Seq(Calls)
    BY <1>1 DEF Start, Join
  <2> QED
    BY <1>1, <2>1, QueueStep
<1> QED
  BY <1>2, <1>4, <1>5 DEF Shape, CallsFit, Start

LEMMA ExportFits ==
  ASSUME Shape, Carries, NEW c \in Calls, Export(c)
  PROVE  Shape'
<1> DEFINE n == call[c].inc
<1>1. call[c] \in Task /\ n \in 1 .. Len(ram) /\ Len(ram) \in Nat /\ ram[n] \in Book /\ queue[n] \in Seq(Calls)
  BY BusyFits DEF Export, Holds
<1>2. call[c].req.op = "restore"
  BY BusyFits DEF Carries, Export, Holds
<1>3. Restored(ram[n], call[c].req.book) \in Book
  BY <1>1, <1>2, BusyFits, RequestFits, RestoredFits DEF Export, Holds
<1>4. CallsFit'
  <2> DEFINE t == [call[c] EXCEPT !.phase = "queued", !.prev = ram[n],
                                  !.next = Restored(ram[n], call[c].req.book)]
  <2>1. t \in Task
    BY <1>1, <1>3 DEF Task, BookOrNone, Phases
  <2>2. call' = [call EXCEPT ![c] = t] /\ use' = use /\ ram' = ram
    BY DEF Export
  <2>3. Len(ram') \in Nat /\ Len(ram') >= Len(ram)
    BY <1>1, <2>2
  <2>4. t = Idle \/ t \in Task
    BY <2>1
  <2> HIDE DEF t
  <2> QED
    BY <2>2, <2>3, <2>4, TaskStep
<1>5. Append(Tail(queue[n]), c) \in Seq(Calls)
  <2>1. queue[n] # <<>>
    BY DEF Export, Holds
  <2> QED
    BY <1>1, <2>1
<1>6. queue' \in [1 .. Len(ram) -> Seq(Calls)]
  BY <1>1, <1>5, QueueStep DEF Export
<1> QED
  BY <1>4, <1>6 DEF Shape, CallsFit, Export

LEMMA RefuseFits ==
  ASSUME Shape, NEW c \in Calls, Refuse(c)
  PROVE  Shape'
<1> DEFINE n == call[c].inc
           b == [ram[n] EXCEPT !.goals = RefusedGoals(ram[n], call[c].req)]
<1>1. n \in 1 .. Len(ram) /\ Len(ram) \in Nat /\ ram[n] \in Book /\ queue[n] \in Seq(Calls)
  BY BusyFits DEF Refuse, Holds
<1>2. b \in Book
  BY <1>1, RefusedGoalsFit DEF Book
<1>3. ram' = [ram EXCEPT ![n] = b]
  BY DEF Refuse
<1>4. ram' \in Seq(Book) /\ Len(ram') = Len(ram)
  BY <1>1, <1>2, <1>3, RamStep
<1>5. CallsFit'
  BY <1>1, <1>4, EndStep DEF Refuse
<1>6. queue' \in [1 .. Len(ram) -> Seq(Calls)]
  <2>1. queue[n] # <<>> /\ queue' = [queue EXCEPT ![n] = Tail(queue[n])]
    BY DEF Refuse, Leave, Holds
  <2>2. Tail(queue[n]) \in Seq(Calls)
    BY <1>1, <2>1
  <2> QED
    BY <1>1, <2>1, <2>2, QueueStep
<1> QED
  BY <1>4, <1>5, <1>6 DEF Shape, CallsFit, Refuse

LEMMA ValidateFits ==
  ASSUME Shape, NEW c \in Calls, Validate(c)
  PROVE  Shape' /\ call'[c].next \in Book /\ call'[c].phase = "checked"
<1> DEFINE n == call[c].inc
           next == [ram[n] EXCEPT !.entries = Rewritten(ram[n], call[c].req)]
           t == [call[c] EXCEPT !.phase = "checked", !.next = next]
<1>1. call[c] \in Task /\ n \in 1 .. Len(ram) /\ Len(ram) \in Nat /\ ram[n] \in Book
  BY BusyFits DEF Validate, Holds
<1>2. Rewritten(ram[n], call[c].req) \in Ledgers
  BY <1>1, BusyFits, EditOps, RewrittenFits DEF Validate, Holds
<1>3. next \in Book
  BY <1>1, <1>2 DEF Book
<1>4. t \in Task
  BY <1>1, <1>3 DEF Task, BookOrNone, Phases
<1>5. call' = [call EXCEPT ![c] = t] /\ use' = use /\ ram' = ram
  BY DEF Validate
<1>6. CallsFit'
  <2>1. Len(ram') \in Nat /\ Len(ram') >= Len(ram)
    BY <1>1, <1>5
  <2>2. t = Idle \/ t \in Task
    BY <1>4
  <2> HIDE DEF t
  <2> QED
    BY <1>5, <2>1, <2>2, TaskStep
<1>7. call'[c].next \in Book /\ call'[c].phase = "checked"
  BY <1>1, <1>3, <1>5 DEF Shape, Task
<1> QED
  BY <1>6, <1>7 DEF Shape, CallsFit, Validate

LEMMA ChangeFits ==
  ASSUME Shape, Carries, NEW c \in Calls, Change(c)
  PROVE  Shape' /\ ram'[call[c].inc] = [ram[call[c].inc] EXCEPT !.entries = call[c].next.entries]
<1> DEFINE n == call[c].inc
           b == [ram[n] EXCEPT !.entries = call[c].next.entries]
           t == [call[c] EXCEPT !.phase = "saving", !.next = NoBook]
<1>1. call[c] \in Task /\ n \in 1 .. Len(ram) /\ Len(ram) \in Nat /\ ram[n] \in Book
  BY BusyFits DEF Change
<1>2. call[c].next \in Book
  BY BusyFits DEF Change, Carries
<1>3. b \in Book
  BY <1>1, <1>2 DEF Book
<1>4. ram' = [ram EXCEPT ![n] = b]
  BY DEF Change
<1>5. ram' \in Seq(Book) /\ Len(ram') = Len(ram) /\ ram'[n] = b
  BY <1>1, <1>3, <1>4, RamStep
<1>6. t \in Task
  BY <1>1 DEF Task, BookOrNone, Phases
<1>7. call' = [call EXCEPT ![c] = t]
  BY DEF Change
<1>8. CallsFit'
  <2>1. Len(ram') \in Nat /\ Len(ram') >= Len(ram) /\ use' = use
    BY <1>1, <1>5 DEF Change
  <2>2. t = Idle \/ t \in Task
    BY <1>6
  <2> HIDE DEF t
  <2> QED
    BY <1>7, <2>1, <2>2, TaskStep
<1> QED
  BY <1>5, <1>8 DEF Shape, CallsFit, Change

LEMMA RestructureFits ==
  ASSUME Shape, NEW c \in Calls, Restructure(c)
  PROVE  Shape' /\ ram'[call[c].inc] = Restructured(ram[call[c].inc], call[c].req)
<1> DEFINE n == call[c].inc
<1>1. n \in 1 .. Len(ram) /\ Len(ram) \in Nat /\ ram[n] \in Book
  BY BusyFits DEF Restructure, Holds
<1>2. Restructured(ram[n], call[c].req) \in Book
  BY <1>1, BusyFits, StructureOps, RestructuredFits DEF Restructure, Holds
<1>3. ram' \in Seq(Book) /\ Len(ram') = Len(ram) /\ ram'[n] = Restructured(ram[n], call[c].req)
  BY <1>1, <1>2, RamStep DEF Restructure
<1>4. CallsFit'
  BY <1>1, <1>3, PhaseStep DEF Restructure, Holds, Phases
<1> QED
  BY <1>3, <1>4 DEF Shape, CallsFit, Restructure

LEMMA ReplaceFits ==
  ASSUME Shape, Carries, NEW c \in Calls, Replace(c)
  PROVE  /\ Shape'
         /\ call[c].phase # "undo" => call[c].prev \in Book /\ call[c].req.book \in Book
         /\ ram'[call[c].inc] = IF call[c].phase = "undo" THEN Normalize(call[c].prev)
                                ELSE Normalize(Restored(call[c].prev, call[c].req.book))
<1> DEFINE n == call[c].inc
           b == IF call[c].phase = "undo" THEN call[c].prev ELSE call[c].next
<1>1. n \in 1 .. Len(ram) /\ Len(ram) \in Nat /\ ram[n] \in Book /\ c \in Busy
  BY BusyFits DEF Replace, Holds
<1>2. call[c].prev \in Book /\ call[c].req.book \in Book
  BY <1>1, BusyFits, RequestFits DEF Replace, Carries, Holds
<1>3. call[c].phase # "undo" => call[c].next = Restored(call[c].prev, call[c].req.book)
  BY <1>1 DEF Replace, Carries
<1>4. b \in Book
  BY <1>2, <1>3, RestoredFits
<1>5. ram' = [ram EXCEPT ![n] = Normalize(b)]
  BY DEF Replace
<1>6. ram' \in Seq(Book) /\ Len(ram') = Len(ram) /\ ram'[n] = Normalize(b)
  BY <1>1, <1>4, <1>5, NormalizeFits, RamStep
<1>7. \E p \in {"undoing", "saving"} : To(c, p)
  BY DEF Replace
<1>8. CallsFit'
  BY <1>1, <1>6, <1>7, PhaseStep DEF Replace, Holds, Phases
<1> QED
  BY <1>2, <1>3, <1>6, <1>8 DEF Shape, CallsFit, Replace

LEMMA SaveFits ==
  ASSUME Shape, Exclusive, NEW c \in Calls, Save(c)
  PROVE  Shape'
<1> DEFINE n == call[c].inc
<1>1. n \in 1 .. Len(ram) /\ Len(ram) \in Nat /\ ram[n] \in Book /\ queue[n] \in Seq(Calls) /\ c \in Busy
  BY BusyFits DEF Save
<1>2. queue[n] # <<>>
  BY <1>1 DEF Exclusive, InLock, Save
<1>3. queue' \in [1 .. Len(ram) -> Seq(Calls)]
  <2>1. queue' = [queue EXCEPT ![n] = Tail(queue[n])]
    BY DEF Save, Leave
  <2>2. Tail(queue[n]) \in Seq(Calls)
    BY <1>1, <1>2
  <2> QED
    BY <1>1, <2>1, <2>2, QueueStep
<1>4. CallsFit'
  BY <1>1, PhaseStep, EndStep DEF Save, Saved, Phases
<1>5. kept' \subseteq Ids
  BY <1>1, KeptFits DEF Save, Shape
<1> QED
  BY <1>1, <1>3, <1>4, <1>5 DEF Shape, CallsFit, Save

LEMMA HistoryFits ==
  ASSUME Shape, NEW c \in Calls, History(c)
  PROVE  Shape'
<1> DEFINE n == call[c].inc
<1>1. n \in 1 .. Len(ram) /\ Len(ram) \in Nat /\ queue[n] \in Seq(Calls)
  BY BusyFits DEF History
<1>2. CallsFit'
  BY <1>1, PhaseStep, EndStep DEF History, Phases
<1>3. queue' \in [1 .. Len(ram) -> Seq(Calls)]
  <2>1. \/ queue' = queue
        \/ queue' = [queue EXCEPT ![n] = Append(queue[n], c)]
    BY DEF History, Join
  <2>2. Append(queue[n], c) \in Seq(Calls)
    BY <1>1
  <2> QED
    BY <1>1, <2>1, <2>2, QueueStep DEF Shape
<1>4. kept' \subseteq Ids
  BY DEF History, Shape
<1> QED
  BY <1>2, <1>3, <1>4 DEF Shape, CallsFit, History

LEMMA UnloadFits ==
  ASSUME Shape, NEW c \in Calls, Unload(c)
  PROVE  Shape'
<1>1. CallsFit'
  BY PhaseStep DEF Unload, Phases, Shape
<1> QED
  BY <1>1 DEF Shape, CallsFit, Unload

LEMMA LoadFits ==
  ASSUME Shape, NEW c \in Calls, Load(c)
  PROVE  /\ Shape'
         /\ Len(ram') = Len(ram) + 1 /\ ram'[Len(ram')] = file' /\ queue'[Len(ram')] = <<>>
         /\ \A m \in 1 .. Len(ram) : ram'[m] = ram[m] /\ queue'[m] = queue[m]
<1>1. file' \in Book /\ Len(ram) \in Nat
  BY NormalizeFits DEF Shape, Load
<1>2. ram' \in Seq(Book) /\ Len(ram') = Len(ram) + 1 /\ ram'[Len(ram')] = file'
      /\ \A m \in 1 .. Len(ram) : ram'[m] = ram[m]
  BY <1>1 DEF Shape, Load
<1>3. queue \in Seq(Seq(Calls)) /\ Len(queue) = Len(ram)
  BY <1>1 DEF Shape
<1>4. /\ queue' \in [1 .. Len(ram) + 1 -> Seq(Calls)] /\ queue'[Len(ram) + 1] = <<>>
      /\ \A m \in 1 .. Len(ram) : queue'[m] = queue[m]
  <2>1. queue' = Append(queue, <<>>) /\ <<>> \in Seq(Calls)
    BY DEF Load
  <2>2. queue' \in Seq(Seq(Calls)) /\ Len(queue') = Len(ram) + 1 /\ queue'[Len(ram) + 1] = <<>>
    BY <1>3, <2>1
  <2>3. DOMAIN queue' = 1 .. Len(ram) + 1 /\ \A m \in 1 .. Len(ram) : queue'[m] = queue[m]
    BY <1>1, <1>3, <2>1
  <2> QED
    BY <1>1, <2>2, <2>3
<1>5. CallsFit'
  BY <1>1, <1>2, PhaseStep DEF Load, Phases
<1> QED
  BY <1>1, <1>2, <1>4, <1>5 DEF Shape, CallsFit, Load

LEMMA PublishFits ==
  ASSUME Shape, NEW c \in Calls, Publish(c)
  PROVE  Shape'
<1>1. CallsFit'
  BY EndStep DEF Publish, Shape
<1> QED
  BY <1>1 DEF Shape, CallsFit, Publish

LEMMA RestartFits ==
  ASSUME Shape, Restart
  PROVE  Shape' /\ Len(ram') = 1 /\ ram'[1] = file' /\ queue'[1] = <<>>
<1>1. file' \in Book
  BY NormalizeFits DEF Shape, Restart
<1>2. ram' \in Seq(Book) /\ Len(ram') = 1 /\ ram'[1] = file'
  BY <1>1 DEF Restart
<1>3. queue' \in [1 .. 1 -> Seq(Calls)] /\ queue'[1] = <<>>
  <2> DEFINE free == <<>>
  <2>1. queue' = <<free>> /\ free \in Seq(Calls)
    BY DEF Restart
  <2> HIDE DEF free
  <2>2. queue' \in [1 .. 1 -> Seq(Calls)] /\ queue'[1] = free
    BY <2>1
  <2> QED
    BY <2>2 DEF free
<1> QED
  BY <1>1, <1>2, <1>3 DEF Shape, Restart

-----------------------------------------------------------------------------
(* What a step does to the calls and the lock *)

Others(c) == \A d \in Calls : d # c => call'[d] = call[d]
Turns(c, p) ==
    /\ Others(c)
    /\ call'[c] # Idle /\ call'[c].phase = p
    /\ call'[c].req = call[c].req /\ call'[c].inc = call[c].inc
Same(c) == call'[c].prev = call[c].prev /\ call'[c].next = call[c].next
Ends(c) == Others(c) /\ call'[c] = Idle
Queues(n, q) == queue'[n] = q /\ \A m \in 1 .. Len(ram) : m # n => queue'[m] = queue[m]
Writes(n, b) == ram'[n] = b /\ Len(ram') = Len(ram) /\ \A m \in 1 .. Len(ram) : m # n => ram'[m] = ram[m]

LEMMA ToTurns ==
  ASSUME Shape, NEW c \in Calls, call[c] # Idle, NEW p \in Phases, To(c, p)
  PROVE  Turns(c, p) /\ Same(c)
<1>1. call[c] \in Task
  BY BusyFits
<1>2. call' = [call EXCEPT ![c] = [call[c] EXCEPT !.phase = p]]
  BY DEF To
<1>3. Others(c) /\ call'[c] = [call[c] EXCEPT !.phase = p]
  BY <1>2 DEF Shape, Others
<1>4. call'[c].phase # "idle"
  BY <1>1, <1>3 DEF Phases, Task
<1> QED
  BY <1>1, <1>3, <1>4 DEF Turns, Same, Task, Idle

LEMMA EndEnds ==
  ASSUME Shape, NEW c \in Calls, End(c)
  PROVE  Ends(c)
  BY DEF Shape, End, Ends, Others

LEMMA LeaveQueues ==
  ASSUME Shape, NEW n \in 1 .. Len(ram), Leave(n)
  PROVE  Queues(n, Tail(queue[n]))
  BY DEF Shape, Leave, Queues

LEMMA JoinQueues ==
  ASSUME Shape, NEW n \in 1 .. Len(ram), NEW c, Join(n, c)
  PROVE  Queues(n, Append(queue[n], c))
  BY DEF Shape, Join, Queues

LEMMA StartMoves ==
  ASSUME Shape, NEW c \in Calls, NEW req \in use.requests, Start(c, req)
  PROVE  /\ call[c] = Idle /\ cur \in 1 .. Len(ram)
         /\ Others(c)
         /\ call'[c] # Idle /\ call'[c].req = req /\ call'[c].inc = cur
         /\ call'[c].phase \in {"entered", "queued", "export"}
         /\ call'[c].phase = "entered" <=> queue[cur] = <<>>
         /\ call'[c].phase = "export" <=> queue[cur] # <<>> /\ req.op = "restore"
         /\ req.op = "restore" /\ call'[c].phase = "entered" =>
               call'[c].prev = ram[cur] /\ call'[c].next = Restored(ram[cur], req.book)
         /\ Queues(cur, Append(queue[cur], c))
         /\ Prechecked(ram[cur], req) /\ Fresh(req) /\ NoneIn({"entered"})
         /\ Cardinality(Busy) < use.together
         /\ UNCHANGED <<use, file, ram, cur, kept>>
<1>1. call[c] = Idle /\ cur \in 1 .. Len(ram)
  BY DEF Start, Shape
<1>2. Queues(cur, Append(queue[cur], c))
  BY <1>1, JoinQueues DEF Start
<1> DEFINE waits == queue[cur] # <<>>
           t == [phase |-> IF ~ waits THEN "entered"
                           ELSE IF req.op = "restore" THEN "export" ELSE "queued",
                 req |-> req, inc |-> cur,
                 prev |-> IF req.op = "restore" /\ ~ waits THEN ram[cur] ELSE NoBook,
                 next |-> IF req.op = "restore" /\ ~ waits
                             THEN Restored(ram[cur], req.book) ELSE NoBook]
<1>3. Others(c) /\ call'[c] = t
  BY DEF Start, Shape, Others
<1>4. t.phase # "idle"
  OBVIOUS
<1>5. t # Idle
  BY <1>4 DEF Idle
<1>6. Prechecked(ram[cur], req) /\ Fresh(req) /\ NoneIn({"entered"})
      /\ Cardinality(Busy) < use.together
      /\ UNCHANGED <<use, file, ram, cur, kept>>
  BY DEF Start
<1> QED
  BY <1>1, <1>2, <1>3, <1>5, <1>6

LEMMA ExportMoves ==
  ASSUME Shape, NEW c \in Calls, Export(c)
  PROVE  /\ Holds(c) /\ call[c].phase = "export"
         /\ Turns(c, "queued")
         /\ call'[c].prev = ram[call[c].inc]
         /\ call'[c].next = Restored(ram[call[c].inc], call[c].req.book)
         /\ Queues(call[c].inc, Append(Tail(queue[call[c].inc]), c))
         /\ UNCHANGED <<use, file, ram, cur, kept>>
<1> DEFINE n == call[c].inc
           t == [call[c] EXCEPT !.phase = "queued", !.prev = ram[n], !.next = Restored(ram[n], call[c].req.book)]
<1>1. call[c] \in Task /\ n \in 1 .. Len(ram) /\ Holds(c) /\ call[c].phase = "export"
  BY BusyFits DEF Export, Holds
<1>2. call' = [call EXCEPT ![c] = t] /\ UNCHANGED <<use, file, ram, cur, kept>>
      /\ queue' = [queue EXCEPT ![n] = Append(Tail(queue[n]), c)]
  BY DEF Export
<1>3. Others(c) /\ call'[c] = t
  BY <1>2 DEF Shape, Others
<1>4. t.phase = "queued" /\ t.req = call[c].req /\ t.inc = n /\ t.prev = ram[n]
      /\ t.next = Restored(ram[n], call[c].req.book) /\ t # Idle
  BY <1>1 DEF Task, Idle
<1>5. Queues(n, Append(Tail(queue[n]), c))
  BY <1>1, <1>2 DEF Shape, Queues
<1> QED
  BY <1>1, <1>2, <1>3, <1>4, <1>5 DEF Turns

LEMMA RefuseMoves ==
  ASSUME Shape, NEW c \in Calls, Refuse(c)
  PROVE  /\ Holds(c) /\ call[c].phase \in {"entered", "queued"} /\ call[c].req.op # "restore"
         /\ ~ EditAccepted(ram[call[c].inc], call[c].req)
         /\ ~ StructureAccepted(ram[call[c].inc], call[c].req)
         /\ Ends(c)
         /\ Queues(call[c].inc, Tail(queue[call[c].inc]))
         /\ Writes(call[c].inc, [ram[call[c].inc] EXCEPT !.goals = RefusedGoals(ram[call[c].inc], call[c].req)])
         /\ UNCHANGED <<use, file, cur, kept>>
<1> DEFINE n == call[c].inc
           b == [ram[n] EXCEPT !.goals = RefusedGoals(ram[n], call[c].req)]
<1>1. n \in 1 .. Len(ram) /\ ram[n] \in Book
  BY BusyFits DEF Refuse, Holds
<1>2. b \in Book
  BY <1>1, RefusedGoalsFit DEF Book
<1>3. ram' = [ram EXCEPT ![n] = b]
  BY DEF Refuse
<1>4. Writes(n, b)
  BY <1>1, <1>2, <1>3, RamStep DEF Writes
<1>5. Ends(c) /\ Queues(n, Tail(queue[n]))
  BY <1>1, EndEnds, LeaveQueues DEF Refuse
<1> QED
  BY <1>4, <1>5 DEF Refuse

LEMMA ValidateMoves ==
  ASSUME Shape, NEW c \in Calls, Validate(c)
  PROVE  /\ Holds(c) /\ call[c].phase \in {"entered", "queued"}
         /\ EditAccepted(ram[call[c].inc], call[c].req)
         /\ Turns(c, "checked") /\ call'[c].prev = call[c].prev
         /\ call'[c].next = [ram[call[c].inc] EXCEPT !.entries = Rewritten(ram[call[c].inc], call[c].req)]
         /\ UNCHANGED <<use, file, ram, queue, cur, kept>>
<1> DEFINE n == call[c].inc
           next == [ram[n] EXCEPT !.entries = Rewritten(ram[n], call[c].req)]
           t == [call[c] EXCEPT !.phase = "checked", !.next = next]
<1>1. call[c] \in Task
  BY BusyFits DEF Validate, Holds
<1>2. call' = [call EXCEPT ![c] = t]
  BY DEF Validate
<1>3. Others(c) /\ call'[c] = t
  BY <1>2 DEF Shape, Others
<1>4. t.phase = "checked" /\ t.req = call[c].req /\ t.inc = n /\ t.prev = call[c].prev /\ t.next = next /\ t # Idle
  BY <1>1 DEF Task, Idle
<1>5. /\ Holds(c) /\ call[c].phase \in {"entered", "queued"} /\ EditAccepted(ram[n], call[c].req)
      /\ UNCHANGED <<use, file, ram, queue, cur, kept>>
  BY DEF Validate
<1> QED
  BY <1>3, <1>4, <1>5 DEF Turns

LEMMA ChangeMoves ==
  ASSUME Shape, Carries, NEW c \in Calls, Change(c)
  PROVE  /\ call[c] # Idle /\ call[c].phase = "checked"
         /\ Turns(c, "saving") /\ call'[c].prev = call[c].prev
         /\ Writes(call[c].inc, [ram[call[c].inc] EXCEPT !.entries = call[c].next.entries])
         /\ UNCHANGED <<use, file, queue, cur, kept>>
<1> DEFINE n == call[c].inc
           t == [call[c] EXCEPT !.phase = "saving", !.next = NoBook]
           b == [ram[n] EXCEPT !.entries = call[c].next.entries]
<1>1. call[c] \in Task /\ n \in 1 .. Len(ram) /\ ram[n] \in Book /\ call[c].next \in Book
  BY BusyFits DEF Change, Carries
<1>2. call' = [call EXCEPT ![c] = t] /\ ram' = [ram EXCEPT ![n] = b]
  BY DEF Change
<1>3. Others(c) /\ call'[c] = t
  BY <1>2 DEF Shape, Others
<1>4. t.phase = "saving" /\ t.req = call[c].req /\ t.inc = n /\ t.prev = call[c].prev /\ t # Idle
  BY <1>1 DEF Task, Idle
<1>5. b \in Book
  BY <1>1 DEF Book
<1>6. Writes(n, b)
  BY <1>1, <1>2, <1>5, RamStep DEF Writes
<1>7. call[c] # Idle /\ call[c].phase = "checked" /\ UNCHANGED <<use, file, queue, cur, kept>>
  BY DEF Change
<1> QED
  BY <1>3, <1>4, <1>6, <1>7 DEF Turns

LEMMA RestructureMoves ==
  ASSUME Shape, NEW c \in Calls, Restructure(c)
  PROVE  /\ Holds(c) /\ call[c].phase \in {"entered", "queued"}
         /\ StructureAccepted(ram[call[c].inc], call[c].req)
         /\ Turns(c, "saving") /\ Same(c)
         /\ Writes(call[c].inc, Restructured(ram[call[c].inc], call[c].req))
         /\ UNCHANGED <<use, file, queue, cur, kept>>
<1> DEFINE n == call[c].inc
<1>1. call[c] # Idle /\ n \in 1 .. Len(ram) /\ ram[n] \in Book
  BY BusyFits DEF Restructure, Holds
<1>2. Restructured(ram[n], call[c].req) \in Book
  BY <1>1, BusyFits, StructureOps, RestructuredFits DEF Restructure
<1>3. Writes(n, Restructured(ram[n], call[c].req))
  BY <1>1, <1>2, RamStep DEF Writes, Restructure
<1>4. Turns(c, "saving") /\ Same(c)
  BY <1>1, ToTurns DEF Restructure, Phases
<1> QED
  BY <1>3, <1>4 DEF Restructure

LEMMA ReplaceMoves ==
  ASSUME Shape, Carries, NEW c \in Calls, Replace(c)
  PROVE  /\ Holds(c) /\ call[c].req.op = "restore" /\ call[c].phase \in {"entered", "queued", "undo"}
         /\ call[c].prev \in Book /\ call[c].req.book \in Book
         /\ IF call[c].phase = "undo"
            THEN Turns(c, "undoing") /\ Writes(call[c].inc, Normalize(call[c].prev))
            ELSE /\ Turns(c, "saving")
                 /\ Writes(call[c].inc, Normalize(Restored(call[c].prev, call[c].req.book)))
         /\ Same(c)
         /\ UNCHANGED <<use, file, queue, cur, kept>>
<1> DEFINE n == call[c].inc
           undo == call[c].phase = "undo"
           b == IF undo THEN call[c].prev ELSE call[c].next
<1>1. /\ Holds(c) /\ call[c].req.op = "restore" /\ call[c].phase \in {"entered", "queued", "undo"}
      /\ UNCHANGED <<use, file, queue, cur, kept>>
  BY DEF Replace
<1>2. call[c] # Idle /\ c \in Busy /\ n \in 1 .. Len(ram) /\ ram[n] \in Book
  BY <1>1, BusyFits DEF Holds
<1>3. call[c].prev \in Book /\ call[c].req.book \in Book
  BY <1>1, <1>2, BusyFits, RequestFits DEF Carries
<1>4. ~ undo => call[c].next = Restored(call[c].prev, call[c].req.book)
  BY <1>1, <1>2 DEF Carries
<1>5. b \in Book
  BY <1>3, <1>4, RestoredFits
<1>6. ram' = [ram EXCEPT ![n] = Normalize(b)]
  BY DEF Replace
<1>7. Writes(n, Normalize(b))
  BY <1>2, <1>5, <1>6, NormalizeFits, RamStep DEF Writes
<1>8. Same(c) /\ Turns(c, IF undo THEN "undoing" ELSE "saving")
  BY <1>2, ToTurns DEF Replace, Phases
<1> QED
  BY <1>1, <1>3, <1>4, <1>7, <1>8

\* After a save a call ends, or goes on with the history or a reload.
LEMMA SaveMoves ==
  ASSUME Shape, NEW c \in Calls, Save(c)
  PROVE  /\ call[c] # Idle /\ call[c].phase \in {"saving", "undoing"}
         /\ file' = ram[call[c].inc] /\ kept' = KeptAfter(call[c].req, ram[call[c].inc])
         /\ Queues(call[c].inc, Tail(queue[call[c].inc]))
         /\ IF call[c].phase = "saving" /\ call[c].req.op = "restore"
            THEN Turns(c, "history") /\ Same(c)
            ELSE \/ Ends(c)
                 \/ use.reloads /\ call[c].req.op \in Structures /\ Turns(c, "reload") /\ Same(c)
         /\ UNCHANGED <<use, ram, cur>>
<1>1. call[c] # Idle /\ call[c].inc \in 1 .. Len(ram)
  BY BusyFits DEF Save
<1>2. \A p \in {"history", "reload"} : To(c, p) => Turns(c, p) /\ Same(c)
  BY <1>1, ToTurns DEF Phases
<1>3. Queues(call[c].inc, Tail(queue[call[c].inc]))
  BY <1>1, LeaveQueues DEF Save
<1>4. Structural \subseteq Structures
  BY DEF Structural, Structures
<1> QED
  BY <1>1, <1>2, <1>3, <1>4, EndEnds DEF Save, Saved

LEMMA HistoryMoves ==
  ASSUME Shape, NEW c \in Calls, History(c)
  PROVE  /\ call[c] # Idle /\ call[c].phase = "history"
         /\ IF call[c].req.fails
            THEN /\ Turns(c, "undo") /\ Same(c) /\ kept' = kept
                 /\ Queues(call[c].inc, Append(queue[call[c].inc], c))
            ELSE Ends(c) /\ kept' = {} /\ queue' = queue
         /\ UNCHANGED <<use, file, ram, cur>>
<1>1. call[c] # Idle /\ call[c].inc \in 1 .. Len(ram)
  BY BusyFits DEF History
<1> QED
  BY <1>1, ToTurns, EndEnds, JoinQueues DEF History, Phases

LEMMA UnloadMoves ==
  ASSUME Shape, NEW c \in Calls, Unload(c)
  PROVE  /\ call[c] # Idle /\ call[c].phase = "reload" /\ NoneIn({"loading", "publishing"})
         /\ Turns(c, "loading") /\ Same(c) /\ cur' = 0
         /\ UNCHANGED <<use, file, ram, queue, kept>>
  BY ToTurns DEF Unload, Phases

LEMMA LoadMoves ==
  ASSUME Shape, NEW c \in Calls, Load(c)
  PROVE  /\ call[c] # Idle /\ call[c].phase = "loading"
         /\ Turns(c, "publishing") /\ Same(c)
         /\ file' = Normalize(file)
         /\ Len(ram') = Len(ram) + 1 /\ ram'[Len(ram')] = file' /\ queue'[Len(ram')] = <<>>
         /\ \A m \in 1 .. Len(ram) : ram'[m] = ram[m] /\ queue'[m] = queue[m]
         /\ UNCHANGED <<use, cur, kept>>
  BY ToTurns, LoadFits DEF Load, Phases

LEMMA PublishMoves ==
  ASSUME Shape, NEW c \in Calls, Publish(c)
  PROVE  /\ call[c] # Idle /\ call[c].phase = "publishing"
         /\ Ends(c) /\ cur' = Len(ram)
         /\ UNCHANGED <<use, file, ram, queue, kept>>
  BY EndEnds DEF Publish

LEMMA RestartMoves ==
  ASSUME Shape, Restart
  PROVE  /\ file' = Normalize(file)
         /\ Len(ram') = 1 /\ ram'[1] = file' /\ queue'[1] = <<>> /\ cur' = 1
         /\ \A c \in Calls : call'[c] = Idle
         /\ kept' = IF NoneIn({"history", "undo", "undoing"}) THEN kept ELSE {}
         /\ use' = use
  BY RestartFits DEF Restart

-----------------------------------------------------------------------------
(* Who has the lock, and what a call carries *)

LEMMA ExclusiveStep ==
  ASSUME Shape, NEW c \in Calls, Others(c),
         \A d \in Busy : d # c /\ call[d].phase \in InLock =>
             queue'[call[d].inc] # <<>> /\ Head(queue'[call[d].inc]) = d,
         call'[c] # Idle /\ call'[c].phase \in InLock =>
             queue'[call'[c].inc] # <<>> /\ Head(queue'[call'[c].inc]) = c
  PROVE  Exclusive'
  BY DEF Exclusive, Others, Busy, Idle

\* At the same store two calls cannot both have the lock.
LEMMA OneHolder ==
  ASSUME Exclusive, NEW c \in Busy, NEW d \in Busy, c # d, call[c].inc = call[d].inc,
         queue[call[c].inc] # <<>> /\ Head(queue[call[c].inc]) = c
  PROVE  call[d].phase \notin InLock
  BY DEF Exclusive

LEMMA StartExcludes ==
  ASSUME Shape, Exclusive, NEW c \in Calls, NEW req \in use.requests, Start(c, req)
  PROVE  Exclusive'
<1>1. /\ cur \in 1 .. Len(ram) /\ queue[cur] \in Seq(Calls) /\ Others(c)
      /\ call'[c].inc = cur /\ queue'[cur] = Append(queue[cur], c)
      /\ \A m \in 1 .. Len(ram) : m # cur => queue'[m] = queue[m]
      /\ call'[c].phase \in InLock => queue[cur] = <<>>
  BY StartMoves DEF Shape, Queues, InLock
<1>2. ASSUME NEW d \in Busy, d # c, call[d].phase \in InLock
      PROVE  queue'[call[d].inc] # <<>> /\ Head(queue'[call[d].inc]) = d
  <2>1. call[d].inc \in 1 .. Len(ram) /\ queue[call[d].inc] # <<>> /\ Head(queue[call[d].inc]) = d
    BY <1>2, BusyFits DEF Exclusive, Busy
  <2>2. CASE call[d].inc = cur
    BY <1>1, <2>1, <2>2
  <2>3. CASE call[d].inc # cur
    BY <1>1, <2>1, <2>3
  <2> QED
    BY <2>2, <2>3
<1>3. call'[c].phase \in InLock => queue'[cur] # <<>> /\ Head(queue'[cur]) = c
  BY <1>1
<1> QED
  BY <1>1, <1>2, <1>3, ExclusiveStep

LEMMA ExportExcludes ==
  ASSUME Shape, Exclusive, NEW c \in Calls, Export(c)
  PROVE  Exclusive'
<1> DEFINE n == call[c].inc
<1>1. /\ c \in Busy /\ n \in 1 .. Len(ram) /\ queue[n] # <<>> /\ Head(queue[n]) = c /\ Others(c)
      /\ call'[c].phase \notin InLock /\ \A m \in 1 .. Len(ram) : m # n => queue'[m] = queue[m]
  BY ExportMoves, BusyFits DEF Holds, Turns, Queues, InLock
<1>2. ASSUME NEW d \in Busy, d # c, call[d].phase \in InLock
      PROVE  queue'[call[d].inc] # <<>> /\ Head(queue'[call[d].inc]) = d
  <2>1. call[d].inc \in 1 .. Len(ram) /\ queue[call[d].inc] # <<>> /\ Head(queue[call[d].inc]) = d
    BY <1>2, BusyFits DEF Exclusive, Busy
  <2>2. call[d].inc # n
    BY <1>1, <1>2, <2>1
  <2> QED
    BY <1>1, <2>1, <2>2
<1> QED
  BY <1>1, <1>2, ExclusiveStep

LEMMA LeaveExcludes ==
  ASSUME Shape, Exclusive, NEW c \in Calls, Refuse(c) \/ Save(c)
  PROVE  Exclusive'
<1> DEFINE n == call[c].inc
<1>1. /\ c \in Busy /\ n \in 1 .. Len(ram) /\ queue[n] # <<>> /\ Head(queue[n]) = c /\ Others(c)
      /\ call'[c] = Idle \/ call'[c].phase \notin InLock
      /\ \A m \in 1 .. Len(ram) : m # n => queue'[m] = queue[m]
  <2>1. CASE Refuse(c)
    BY <2>1, RefuseMoves, BusyFits DEF Holds, Ends, Queues
  <2>2. CASE Save(c)
    <3>1. c \in Busy /\ n \in 1 .. Len(ram) /\ call[c].phase \in {"saving", "undoing"}
      BY <2>2, SaveMoves, BusyFits
    <3>2. queue[n] # <<>> /\ Head(queue[n]) = c
      BY <3>1 DEF Exclusive, InLock
    <3>3. Others(c) /\ (call'[c] = Idle \/ call'[c].phase \notin InLock)
      BY <2>2, SaveMoves DEF Turns, Ends, InLock
    <3> QED
      BY <2>2, <3>1, <3>2, <3>3, SaveMoves DEF Queues
  <2> QED
    BY <2>1, <2>2
<1>2. ASSUME NEW d \in Busy, d # c, call[d].phase \in InLock
      PROVE  queue'[call[d].inc] # <<>> /\ Head(queue'[call[d].inc]) = d
  <2>1. call[d].inc \in 1 .. Len(ram) /\ queue[call[d].inc] # <<>> /\ Head(queue[call[d].inc]) = d
    BY <1>2, BusyFits DEF Exclusive, Busy
  <2>2. call[d].inc # n
    BY <1>1, <1>2, <2>1
  <2> QED
    BY <1>1, <2>1, <2>2
<1> QED
  BY <1>1, <1>2, ExclusiveStep

\* A step that leaves the queues alone, of a call that is the head of its own.
LEMMA HeadExcludes ==
  ASSUME Shape, Carries, Exclusive, NEW c \in Calls,
         Validate(c) \/ Change(c) \/ Restructure(c) \/ Replace(c)
  PROVE  Exclusive'
<1>1. /\ c \in Busy /\ queue[call[c].inc] # <<>> /\ Head(queue[call[c].inc]) = c /\ Others(c)
      /\ call'[c].inc = call[c].inc /\ queue' = queue
  <2>1. CASE Validate(c)
    BY <2>1, ValidateMoves, BusyFits DEF Holds, Turns
  <2>2. CASE Change(c)
    BY <2>2, ChangeMoves, BusyFits DEF Exclusive, InLock, Turns
  <2>3. CASE Restructure(c)
    BY <2>3, RestructureMoves, BusyFits DEF Holds, Turns
  <2>4. CASE Replace(c)
    BY <2>4, ReplaceMoves, BusyFits DEF Holds, Turns
  <2> QED
    BY <2>1, <2>2, <2>3, <2>4
<1>2. \A d \in Busy : d # c /\ call[d].phase \in InLock =>
          queue'[call[d].inc] # <<>> /\ Head(queue'[call[d].inc]) = d
  BY <1>1 DEF Exclusive
<1> QED
  BY <1>1, <1>2, ExclusiveStep

LEMMA HistoryExcludes ==
  ASSUME Shape, Exclusive, NEW c \in Calls, History(c)
  PROVE  Exclusive'
<1> DEFINE n == call[c].inc
<1>1. /\ c \in Busy /\ n \in 1 .. Len(ram) /\ queue[n] \in Seq(Calls) /\ Others(c)
      /\ call'[c] = Idle \/ call'[c].phase \notin InLock
      /\ queue' = queue \/ Queues(n, Append(queue[n], c))
  BY HistoryMoves, BusyFits DEF Turns, Ends, InLock
<1>2. ASSUME NEW d \in Busy, d # c, call[d].phase \in InLock
      PROVE  queue'[call[d].inc] # <<>> /\ Head(queue'[call[d].inc]) = d
  <2>1. call[d].inc \in 1 .. Len(ram) /\ queue[call[d].inc] # <<>> /\ Head(queue[call[d].inc]) = d
    BY <1>2, BusyFits DEF Exclusive, Busy
  <2>2. CASE queue' = queue
    BY <2>1, <2>2
  <2>3. CASE Queues(n, Append(queue[n], c)) /\ call[d].inc = n
    BY <1>1, <2>1, <2>3 DEF Queues
  <2>4. CASE Queues(n, Append(queue[n], c)) /\ call[d].inc # n
    BY <1>1, <2>1, <2>4 DEF Queues
  <2> QED
    BY <1>1, <2>2, <2>3, <2>4
<1> QED
  BY <1>1, <1>2, ExclusiveStep

LEMMA ReloadExcludes ==
  ASSUME Shape, Exclusive, NEW c \in Calls, Unload(c) \/ Load(c) \/ Publish(c)
  PROVE  Exclusive'
<1>1. /\ Others(c) /\ (call'[c] = Idle \/ call'[c].phase \notin InLock)
      /\ \A m \in 1 .. Len(ram) : queue'[m] = queue[m]
  BY UnloadMoves, LoadMoves, PublishMoves DEF Turns, Ends, InLock
<1>2. \A d \in Busy : d # c /\ call[d].phase \in InLock =>
          queue'[call[d].inc] # <<>> /\ Head(queue'[call[d].inc]) = d
  <2>1. \A d \in Busy : call[d].inc \in 1 .. Len(ram)
    BY BusyFits DEF Busy
  <2> QED
    BY <1>1, <2>1 DEF Exclusive
<1> QED
  BY <1>1, <1>2, ExclusiveStep

LEMMA RestartExcludes ==
  ASSUME Shape, Restart
  PROVE  Exclusive'
  BY RestartMoves DEF Exclusive, Busy

\* The rest of a call stays as it is.
LEMMA CarriesStep ==
  ASSUME Shape, Carries, NEW c \in Calls, Others(c),
         call'[c] # Idle =>
            LET t == call'[c] IN
            /\ t.phase \in {"history", "undo", "undoing"} => t.req.op = "restore" /\ t.prev \in Book
            /\ t.phase = "checked" => t.req.op \in {"add", "import", "update", "delete"} /\ t.next \in Book
            /\ t.req.op = "restore" =>
                  /\ t.phase \notin {"checked", "reload", "loading", "publishing"}
                  /\ t.phase # "export" => t.prev \in Book
                  /\ t.phase \in {"entered", "queued"} => t.next = Restored(t.prev, t.req.book)
            /\ t.phase = "export" => t.req.op = "restore"
            /\ t.req.op = "dropDepot" => t.req.depot # Main
  PROVE  Carries'
  BY DEF Carries, Others, Busy

LEMMA StartCarries ==
  ASSUME Shape, Carries, NEW c \in Calls, NEW req \in use.requests, Start(c, req)
  PROVE  Carries'
<1>1. /\ Others(c) /\ call'[c].req = req /\ call'[c].phase \in {"entered", "queued", "export"}
      /\ call'[c].phase = "export" => req.op = "restore"
      /\ req.op = "restore" => call'[c].phase # "queued"
      /\ req.op = "restore" /\ call'[c].phase = "entered" =>
               call'[c].prev = ram[cur] /\ call'[c].next = Restored(ram[cur], req.book)
      /\ ram[cur] \in Book
      /\ req.op = "dropDepot" => req.depot # Main
  BY StartMoves DEF Prechecked, Shape
<1> QED
  BY <1>1, CarriesStep

LEMMA ValidateCarries ==
  ASSUME Shape, Carries, NEW c \in Calls, Validate(c)
  PROVE  Carries'
<1>1. /\ c \in Busy /\ Others(c) /\ call'[c].req = call[c].req /\ call'[c].phase = "checked"
      /\ call'[c].next \in Book /\ call'[c].req.op \in {"add", "import", "update", "delete"}
  BY ValidateMoves, ValidateFits, EditOps, BusyFits DEF Turns, Holds
<1>2. call[c].req.op = "dropDepot" => call[c].req.depot # Main
  BY <1>1 DEF Carries
<1> QED
  BY <1>1, <1>2, CarriesStep

LEMMA ChangeCarries ==
  ASSUME Shape, Carries, NEW c \in Calls, Change(c)
  PROVE  Carries'
<1>1. /\ c \in Busy /\ Others(c) /\ call'[c].req = call[c].req /\ call'[c].phase = "saving"
      /\ call[c].phase = "checked"
  BY ChangeMoves, BusyFits DEF Turns
<1>2. call[c].req.op \in {"add", "import", "update", "delete"}
  BY <1>1 DEF Carries
<1> QED
  BY <1>1, <1>2, CarriesStep

LEMMA EndCarries ==
  ASSUME Shape, Carries, NEW c \in Calls, Ends(c)
  PROVE  Carries'
  BY CarriesStep DEF Ends

LEMMA SaveCarries ==
  ASSUME Shape, Carries, NEW c \in Calls, Save(c)
  PROVE  Carries'
<1>1. c \in Busy /\ call[c].phase \in {"saving", "undoing"}
  BY SaveMoves, BusyFits
<1>2. CASE Ends(c)
  BY <1>2, EndCarries
<1>3. CASE call[c].req.op = "restore" /\ Turns(c, "history") /\ Same(c)
  <2>1. call[c].prev \in Book
    BY <1>1, <1>3 DEF Carries
  <2> QED
    BY <1>1, <1>3, <2>1, CarriesStep DEF Turns, Same
<1>4. CASE call[c].req.op \in Structures /\ Turns(c, "reload") /\ Same(c)
  <2>1. call[c].req.op = "dropDepot" => call[c].req.depot # Main
    BY <1>1 DEF Carries
  <2>2. call[c].req.op # "restore"
    BY <1>4 DEF Structures
  <2> QED
    BY <1>4, <2>1, <2>2, CarriesStep DEF Turns
<1> QED
  BY <1>2, <1>3, <1>4, SaveMoves

\* The types, who has the lock and what a call carries, for every traffic.
Typed == Shape /\ Carries /\ Exclusive

LEMMA StepTyped ==
  ASSUME Typed, [Next]_vars
  PROVE  Typed'
<1> USE DEF Typed
<1>1. ASSUME NEW c \in Calls, NEW req \in use.requests, Start(c, req)
      PROVE  Typed'
  BY <1>1, StartFits, StartCarries, StartExcludes
<1>2. ASSUME NEW c \in Calls, Export(c)
      PROVE  Typed'
  <2>1. Carries'
    BY <1>2, ExportMoves, BusyFits, ExportFits
       DEF Busy, Others, Turns, Same, Ends, Queues, Writes, Holds, Carries, Phases, Idle
  <2> QED
    BY <1>2, <2>1, ExportFits, ExportExcludes
<1>3. ASSUME NEW c \in Calls, Refuse(c)
      PROVE  Typed'
  BY <1>3, RefuseFits, RefuseMoves, EndCarries, LeaveExcludes
<1>4. ASSUME NEW c \in Calls, Validate(c)
      PROVE  Typed'
  BY <1>4, ValidateFits, ValidateCarries, HeadExcludes
<1>5. ASSUME NEW c \in Calls, Change(c)
      PROVE  Typed'
  BY <1>5, ChangeFits, ChangeCarries, HeadExcludes
<1>6. ASSUME NEW c \in Calls, Restructure(c)
      PROVE  Typed'
  <2>1. Carries'
    BY <1>6, RestructureMoves, BusyFits, RestructureFits, StructureOps
       DEF Busy, Others, Turns, Same, Ends, Queues, Writes, Holds, Carries, Phases, Idle, Structures
  <2> QED
    BY <1>6, <2>1, RestructureFits, HeadExcludes
<1>7. ASSUME NEW c \in Calls, Replace(c)
      PROVE  Typed'
  <2>1. Carries'
    BY <1>7, ReplaceMoves, BusyFits, ReplaceFits
       DEF Busy, Others, Turns, Same, Ends, Queues, Writes, Holds, Carries, Phases, Idle
  <2> QED
    BY <1>7, <2>1, ReplaceFits, HeadExcludes
<1>8. ASSUME NEW c \in Calls, Save(c)
      PROVE  Typed'
  BY <1>8, SaveFits, SaveCarries, LeaveExcludes
<1>9. ASSUME NEW c \in Calls, History(c)
      PROVE  Typed'
  <2>1. Carries'
    BY <1>9, HistoryMoves, BusyFits, HistoryFits
       DEF Busy, Others, Turns, Same, Ends, Queues, Writes, Holds, Carries, Phases, Idle
  <2> QED
    BY <1>9, <2>1, HistoryFits, HistoryExcludes
<1>10. ASSUME NEW c \in Calls, Unload(c)
       PROVE  Typed'
  <2>1. Carries'
    BY <1>10, UnloadMoves, BusyFits, UnloadFits
       DEF Busy, Others, Turns, Same, Ends, Queues, Writes, Holds, Carries, Phases, Idle
  <2> QED
    BY <1>10, <2>1, UnloadFits, ReloadExcludes
<1>11. ASSUME NEW c \in Calls, Load(c)
       PROVE  Typed'
  <2>1. Carries'
    BY <1>11, LoadMoves, BusyFits, LoadFits
       DEF Busy, Others, Turns, Same, Ends, Queues, Writes, Holds, Carries, Phases, Idle
  <2> QED
    BY <1>11, <2>1, LoadFits, ReloadExcludes
<1>12. ASSUME NEW c \in Calls, Publish(c)
       PROVE  Typed'
  BY <1>12, PublishFits, PublishMoves, EndCarries, ReloadExcludes
<1>13. ASSUME Restart
       PROVE  Typed'
  BY <1>13, RestartFits, RestartMoves, RestartExcludes DEF Carries, Busy
<1>14. CASE UNCHANGED vars
  BY <1>14 DEF vars, Shape, Task, BookOrNone, Carries, Exclusive, Busy
<1> QED
  BY <1>1, <1>2, <1>3, <1>4, <1>5, <1>6, <1>7, <1>8, <1>9, <1>10, <1>11, <1>12, <1>13, <1>14 DEF Next

LEMMA InitTyped ==
  ASSUME Init
  PROVE  Typed
<1>1. file \in Book
  BY NormalizeFits, LedgerAssumption DEF Init, LedgerAssumption
<1>2. Len(ram) = 1 /\ ram \in Seq(Book) /\ queue \in [1 .. Len(ram) -> Seq(Calls)]
  <2>1. ram = <<file>> /\ queue = << <<>> >>
    BY DEF Init
  <2>2. Len(ram) = 1 /\ ram \in Seq(Book)
    BY <1>1, <2>1
  <2>3. queue \in [1 .. 1 -> Seq(Calls)]
    <3>1. <<>> \in Seq(Calls)
      OBVIOUS
    <3>2. queue \in Seq(Seq(Calls)) /\ Len(queue) = 1
      BY <2>1, <3>1
    <3> QED
      BY <3>2
  <2> QED
    BY <2>2, <2>3
<1>3. started \in 0 .. use.starts
  BY LedgerAssumption DEF Init, LedgerAssumption
<1>4. Busy = {} /\ DOMAIN call = Calls /\ \A c \in Calls : call[c] = Idle
  BY DEF Init, Busy
<1> QED
  BY <1>1, <1>2, <1>3, <1>4 DEF Init, Typed, Shape, Carries, Exclusive

\* Every variable keeps its type whatever calls, reloads and restarts do.
THEOREM BooksAreTyped == Spec => []TypeOK
<1>1. Typed => TypeOK
  BY DEF Typed, Shape, TypeOK, Task, BookOrNone
<1> QED
  BY <1>1, InitTyped, StepTyped, PTL DEF Spec

-----------------------------------------------------------------------------
(* The lock, where calls do not meet a reload or a restore that fails *)

LEMMA AloneLocks ==
  ASSUME Shape', Alone, use' = use, NEW c \in Calls, Others(c), \A d \in Busy : d = c,
         call'[c] # Idle =>
            /\ call'[c].phase \notin {"queued", "export"}
            /\ call'[c].phase \in {"loading", "publishing"} \/ (cur' # 0 /\ call'[c].inc = cur')
            /\ call'[c].phase = "publishing" => ram'[Len(ram')] = file' /\ queue'[Len(ram')] = <<>>
            /\ call'[c].phase = "loading" => cur' = 0,
         cur' # 0 => queue'[cur'] = IF call'[c] # Idle /\ call'[c].phase \in Waiting THEN <<c>> ELSE <<>>
  PROVE  LockFacts'
<1>1. \A d \in Calls : call'[d] # Idle => d = c
  BY DEF Others, Busy
<1> QED
  BY <1>1 DEF LockFacts, OneCall, OneStore, Current, Alone, Busy

LEMMA TogetherLocks ==
  ASSUME Shape', ~ Alone, OneStore, use' = use, NEW c \in Calls, Others(c), Len(ram') = Len(ram), cur' = cur,
         call'[c] # Idle => call'[c].phase \notin {"reload", "loading", "publishing", "undo", "undoing"}
  PROVE  LockFacts'
<1>1. \A d \in Calls : call'[d] # Idle => call'[d].phase \notin {"reload", "loading", "publishing", "undo", "undoing"}
  BY DEF Others, Busy, OneStore
<1>2. Len(ram') = 1 /\ cur' = 1 /\ ~ Alone'
  BY DEF OneStore, Alone
<1>3. \A d \in Calls : call'[d] # Idle => call'[d].inc = 1
  BY <1>2 DEF Shape, Task
<1> QED
  BY <1>1, <1>2, <1>3 DEF LockFacts, OneCall, OneStore, Current, Busy

\* What the facts say of a call under way.
LEMMA BusyLocked ==
  ASSUME Shape, LockFacts, NEW c \in Busy
  PROVE  /\ Alone => \A d \in Busy : d = c
         /\ Alone => call[c].phase \notin {"queued", "export"}
         /\ call[c].phase \notin {"loading", "publishing"} => cur # 0 /\ call[c].inc = cur
         /\ Alone /\ cur # 0 => queue[cur] = IF call[c].phase \in Waiting THEN <<c>> ELSE <<>>
         /\ ~ Alone => Len(ram) = 1 /\ cur = 1
         /\ ~ Alone => call[c].phase \notin {"reload", "loading", "publishing", "undo", "undoing"}
<1>1. Alone => \A d \in Busy : d = c
  BY DEF LockFacts, OneCall
<1>2. Alone /\ cur # 0 => queue[cur] = IF call[c].phase \in Waiting THEN <<c>> ELSE <<>>
  BY <1>1 DEF LockFacts, OneCall
<1> QED
  BY <1>1, <1>2 DEF LockFacts, OneCall, OneStore, Current

LEMMA StartLocks ==
  ASSUME Shape, Shape', LockFacts, NEW c \in Calls, NEW req \in use.requests, Start(c, req)
  PROVE  LockFacts'
<1>1. CASE Alone
  <2>1. Busy = {}
    BY <1>1, AloneMeansNone, StartMoves DEF Alone
  <2>2. queue[cur] = <<>> /\ cur # 0
    BY <1>1, <2>1, StartMoves DEF LockFacts, OneCall
  <2>3. call'[c].phase = "entered" /\ call'[c].inc = cur /\ cur' = cur
    BY <2>2, StartMoves
  <2>4. queue'[cur] = <<c>>
    BY <2>2, StartMoves DEF Queues
  <2> QED
    BY <1>1, <2>1, <2>2, <2>3, <2>4, AloneLocks, StartMoves DEF Waiting, InLock
<1>2. CASE ~ Alone
  BY <1>2, TogetherLocks, StartMoves DEF LockFacts
<1> QED
  BY <1>1, <1>2

LEMMA ExportLocks ==
  ASSUME Shape, Shape', LockFacts, NEW c \in Calls, Export(c)
  PROVE  LockFacts'
<1>1. c \in Busy /\ ~ Alone
  BY BusyFits, BusyLocked, ExportMoves DEF Holds
<1> QED
  BY <1>1, TogetherLocks, ExportMoves DEF LockFacts, Turns

\* A call that ends where it has the lock.
LEMMA RefuseLocks ==
  ASSUME Shape, Shape', LockFacts, NEW c \in Calls, Refuse(c)
  PROVE  LockFacts'
<1>1. /\ c \in Busy /\ call[c].phase \in {"entered", "queued"} /\ use' = use /\ cur' = cur
      /\ Others(c) /\ call'[c] = Idle /\ Len(ram') = Len(ram)
      /\ queue'[call[c].inc] = Tail(queue[call[c].inc])
  BY RefuseMoves, BusyFits DEF Holds, Ends, Queues, Writes
<1>2. CASE Alone
  <2>1. cur # 0 /\ call[c].inc = cur /\ queue[cur] = <<c>>
    BY <1>1, <1>2, BusyLocked DEF Waiting, InLock
  <2>2. queue'[cur] = <<>>
    BY <1>1, <2>1
  <2> QED
    BY <1>1, <1>2, <2>2, AloneLocks, BusyLocked
<1>3. CASE ~ Alone
  BY <1>1, <1>3, TogetherLocks DEF LockFacts
<1> QED
  BY <1>2, <1>3

\* A step of a call that keeps its place.
LEMMA StayLocks ==
  ASSUME Shape, Shape', LockFacts, NEW c \in Busy, Others(c), call'[c] # Idle,
         call[c].phase \in Waiting, call'[c].phase \in Waiting \ {"queued", "export"},
         call[c].phase \in {"undo", "undoing"} <=> call'[c].phase \in {"undo", "undoing"},
         call'[c].inc = call[c].inc, Len(ram') = Len(ram), use' = use, queue' = queue, cur' = cur
  PROVE  LockFacts'
<1>1. c \in Calls /\ call[c].phase \notin {"loading", "publishing"}
      /\ call'[c].phase \notin {"reload", "loading", "publishing", "queued", "export"}
  BY DEF Busy, Waiting, InLock
<1>2. CASE Alone
  BY <1>1, <1>2, AloneLocks, BusyLocked
<1>3. CASE ~ Alone
  BY <1>1, <1>3, TogetherLocks, BusyLocked DEF LockFacts
<1> QED
  BY <1>2, <1>3

LEMMA WorkLocks ==
  ASSUME Shape, Shape', Carries, LockFacts, NEW c \in Calls,
         Validate(c) \/ Change(c) \/ Restructure(c) \/ Replace(c)
  PROVE  LockFacts'
<1>1. CASE Validate(c)
  BY <1>1, ValidateMoves, BusyFits, StayLocks DEF Holds, Turns, Waiting, InLock
<1>2. CASE Change(c)
  BY <1>2, ChangeMoves, BusyFits, StayLocks DEF Writes, Turns, Waiting, InLock
<1>3. CASE Restructure(c)
  BY <1>3, RestructureMoves, BusyFits, StayLocks DEF Holds, Writes, Turns, Waiting, InLock
<1>4. CASE Replace(c)
  BY <1>4, ReplaceMoves, BusyFits, StayLocks DEF Holds, Writes, Turns, Waiting, InLock
<1> QED
  BY <1>1, <1>2, <1>3, <1>4

LEMMA SaveLocks ==
  ASSUME Shape, Shape', Calm(use), LockFacts, NEW c \in Calls, Save(c)
  PROVE  LockFacts'
<1>1. /\ c \in Busy /\ call[c].phase \in {"saving", "undoing"} /\ use' = use /\ cur' = cur
      /\ Others(c) /\ ram' = ram
      /\ queue'[call[c].inc] = Tail(queue[call[c].inc])
      /\ call'[c] # Idle => /\ call'[c].phase = "history" \/ (use.reloads /\ call'[c].phase = "reload")
                            /\ call'[c].inc = call[c].inc
  <2>1. /\ c \in Busy /\ call[c].phase \in {"saving", "undoing"} /\ use' = use /\ cur' = cur /\ ram' = ram
        /\ queue'[call[c].inc] = Tail(queue[call[c].inc])
    BY SaveMoves, BusyFits DEF Queues
  <2>2. CASE Turns(c, "history")
    BY <2>1, <2>2 DEF Turns
  <2>3. CASE use.reloads /\ Turns(c, "reload")
    BY <2>1, <2>3 DEF Turns
  <2>4. CASE Ends(c)
    BY <2>1, <2>4 DEF Ends
  <2> QED
    BY <2>2, <2>3, <2>4, SaveMoves
<1>2. CASE Alone
  <2>1. cur # 0 /\ call[c].inc = cur /\ queue[cur] = <<c>>
    BY <1>1, <1>2, BusyLocked DEF Waiting, InLock
  <2>2. queue'[cur] = <<>>
    BY <1>1, <2>1
  <2>3. call'[c] # Idle => call'[c].phase \notin Waiting
    BY <1>1 DEF Waiting, InLock
  <2> QED
    BY <1>1, <1>2, <2>1, <2>2, <2>3, AloneLocks, BusyLocked
<1>3. CASE ~ Alone
  <2>1. call'[c] # Idle => call'[c].phase = "history"
    BY <1>1, <1>3 DEF Calm, Alone
  <2> QED
    BY <1>1, <1>3, <2>1, TogetherLocks DEF LockFacts
<1> QED
  BY <1>2, <1>3

LEMMA HistoryLocks ==
  ASSUME Shape, Shape', Calm(use), Carries, LockFacts, NEW c \in Calls, History(c)
  PROVE  LockFacts'
<1>1. /\ c \in Busy /\ call[c].phase = "history" /\ call[c].req \in use.requests /\ call[c].req.op = "restore"
      /\ use' = use /\ cur' = cur /\ ram' = ram /\ Others(c)
  BY HistoryMoves, BusyFits DEF Turns, Ends, Carries
<1>2. CASE Alone
  <2>1. cur # 0 /\ call[c].inc = cur /\ queue[cur] = <<>> /\ \A d \in Busy : d = c
    BY <1>1, <1>2, BusyLocked DEF Waiting, InLock
  <2>2. CASE call[c].req.fails
    <3>1. call'[c] # Idle /\ call'[c].phase = "undo" /\ call'[c].inc = cur /\ queue'[cur] = <<c>>
      BY <2>1, <2>2, HistoryMoves DEF Turns, Queues
    <3> QED
      BY <1>1, <1>2, <2>1, <3>1, AloneLocks DEF Waiting, InLock
  <2>3. CASE ~ call[c].req.fails
    BY <1>1, <1>2, <2>1, <2>3, AloneLocks, HistoryMoves DEF Ends
  <2> QED
    BY <2>2, <2>3
<1>3. CASE ~ Alone
  <2>1. call'[c] = Idle
    BY <1>1, <1>3, HistoryMoves DEF Calm, Alone, Ends
  <2> QED
    BY <1>1, <1>3, <2>1, TogetherLocks DEF LockFacts
<1> QED
  BY <1>2, <1>3

LEMMA ReloadLocks ==
  ASSUME Shape, Shape', LockFacts, NEW c \in Calls, Unload(c) \/ Load(c) \/ Publish(c)
  PROVE  LockFacts'
<1>1. c \in Busy /\ call[c].phase \in {"reload", "loading", "publishing"} /\ Others(c) /\ use' = use
  BY UnloadMoves, LoadMoves, PublishMoves, BusyFits DEF Turns, Ends
<1>2. Alone /\ \A d \in Busy : d = c
  BY <1>1, BusyLocked
<1>3. CASE Unload(c)
  <2>1. call'[c] # Idle /\ call'[c].phase = "loading" /\ cur' = 0
    BY <1>3, UnloadMoves DEF Turns
  <2>2. Alone /\ use' = use /\ Others(c) /\ \A d \in Busy : d = c
    BY <1>1, <1>2
  <2>3. call'[c].phase \notin {"queued", "export"} /\ call'[c].phase \in {"loading", "publishing"}
        /\ call'[c].phase # "publishing"
    BY <2>1
  <2> QED
    BY <2>1, <2>2, <2>3, AloneLocks
<1>4. CASE Load(c)
  <2>1. cur = 0 /\ cur' = 0
    BY <1>1, <1>4, LoadMoves DEF LockFacts, Current
  <2> QED
    <3>1. /\ call'[c] # Idle /\ call'[c].phase = "publishing"
          /\ ram'[Len(ram')] = file' /\ queue'[Len(ram')] = <<>>
      BY <1>4, LoadMoves DEF Turns
    <3>2. Alone /\ use' = use /\ Others(c) /\ \A d \in Busy : d = c
      BY <1>1, <1>2
    <3>3. call'[c].phase \notin {"queued", "export"} /\ call'[c].phase \in {"loading", "publishing"}
          /\ call'[c].phase # "loading"
      BY <3>1
    <3> QED
      BY <2>1, <3>1, <3>2, <3>3, AloneLocks
<1>5. CASE Publish(c)
  <2>1. cur' = Len(ram) /\ queue' = queue /\ call'[c] = Idle /\ call[c].phase = "publishing"
    BY <1>5, PublishMoves DEF Ends
  <2>2. queue[Len(ram)] = <<>>
    BY <1>1, <2>1 DEF LockFacts, Current
  <2> QED
    BY <1>1, <1>2, <2>1, <2>2, AloneLocks
<1> QED
  BY <1>3, <1>4, <1>5

LEMMA RestartLocks ==
  ASSUME Shape, Restart
  PROVE  LockFacts'
  BY RestartMoves DEF LockFacts, OneCall, OneStore, Current, Busy

LEMMA StepLocks ==
  ASSUME Typed, Typed', Calm(use), LockFacts, [Next]_vars
  PROVE  LockFacts'
<1> USE DEF Typed
<1>1. ASSUME NEW c \in Calls, \/ \E req \in use.requests : Start(c, req)
                              \/ Export(c) \/ Refuse(c) \/ Validate(c) \/ Change(c) \/ Restructure(c)
                              \/ Replace(c) \/ Save(c) \/ History(c)
                              \/ Unload(c) \/ Load(c) \/ Publish(c)
      PROVE  LockFacts'
  BY <1>1, StartLocks, ExportLocks, RefuseLocks, WorkLocks, SaveLocks, HistoryLocks, ReloadLocks
<1>2. CASE UNCHANGED vars
  BY <1>2 DEF vars, LockFacts, OneCall, OneStore, Current, Busy, Alone
<1> QED
  BY <1>1, <1>2, RestartLocks DEF Next

-----------------------------------------------------------------------------
(* The entries of the file *)

Early == {"entered", "queued", "checked", "saving"}
Undoing == {"history", "undo", "undoing"}

LEMMA Holder ==
  ASSUME Typed, LockFacts, NEW c \in Busy, call[c].phase \notin {"loading", "publishing"},
         queue[call[c].inc] # <<>>, Head(queue[call[c].inc]) = c
  PROVE  /\ cur \in 1 .. Len(ram) /\ call[c].inc = cur
         /\ \A d \in Busy : d # c => call[d].phase \notin InLock
         /\ call[c].phase \notin {"saving", "undoing"} => NoneSaving
<1>1. cur # 0 /\ call[c].inc = cur /\ cur \in 1 .. Len(ram)
  <2>1. cur # 0 /\ call[c].inc = cur
    BY BusyLocked DEF Typed
  <2> QED
    BY <2>1 DEF Typed, Shape
<1>2. ASSUME NEW d \in Busy, d # c, call[d].phase \in InLock
      PROVE  FALSE
  <2>1. call[d].inc = cur
    BY <1>2, BusyLocked DEF InLock, Typed
  <2> QED
    BY <1>1, <1>2, <2>1, OneHolder DEF Typed
<1> QED
  BY <1>1, <1>2 DEF NoneSaving, NoneIn, InLock

LEMMA InLockHolds ==
  ASSUME Typed, LockFacts, NEW c \in Busy, call[c].phase \in InLock
  PROVE  /\ cur \in 1 .. Len(ram) /\ call[c].inc = cur
         /\ \A d \in Busy : d # c => call[d].phase \notin InLock
         /\ call[c].phase \notin {"saving", "undoing"} => NoneSaving
<1>1. queue[call[c].inc] # <<>> /\ Head(queue[call[c].inc]) = c
  BY DEF Typed, Exclusive
<1>2. call[c].phase \notin {"loading", "publishing"}
  BY DEF InLock
<1> QED
  BY <1>1, <1>2, Holder

LEMMA SameEntriesSameEdit ==
  ASSUME NEW b, NEW f, b.entries = f.entries, NEW req
  PROVE  /\ Rewritten(b, req) = Rewritten(f, req)
         /\ EntriesAfter(b, req) = EntriesAfter(f, req)
  BY DEF Rewritten, Duplicates, EntriesAfter

\* A step that leaves the file alone, and what is kept or all of it.
LEMMA QuietEntries ==
  ASSUME LockFacts, EntryFacts, NEW c \in Busy, Others(c), SameEntries', use' = use, file' = file,
         (ram' = ram /\ cur' = cur) \/ \A d \in Busy : d # c => call[d].phase \notin InLock,
         kept' = {} \/ (/\ kept' = kept
                        /\ call[c].phase \in Undoing => call'[c] # Idle /\ call'[c].phase \in Undoing),
         call'[c] # Idle =>
            /\ call'[c].req = call[c].req
            /\ call'[c].phase \in Early => call[c].phase \in Early \/ IdsNew(call[c].req) = {}
            /\ MidwayOf(call'[c], file, ram'[cur'])
            /\ Alone /\ call[c].req.op = "restore" => PutBackOf(call'[c], file, kept')
  PROVE  EntryFacts'
<1>1. Midway'
  <2>1. ASSUME NEW d \in Calls, call'[d] # Idle, d # c
        PROVE  MidwayOf(call'[d], file', ram'[cur'])
    <3>1. call'[d] = call[d] /\ d \in Busy
      BY <2>1 DEF Others, Busy
    <3>2. CASE ram' = ram /\ cur' = cur
      BY <3>1, <3>2 DEF EntryFacts, Midway
    <3>3. CASE call[d].phase \notin InLock
      BY <3>1, <3>3 DEF MidwayOf, InLock
    <3> QED
      BY <2>1, <3>1, <3>2, <3>3
  <2> QED
    BY <2>1 DEF Midway, Busy
<1>2. PutBack'
  <2>1. Alone => \A d \in Calls : call'[d] # Idle => d = c
    BY DEF LockFacts, OneCall, Others, Busy
  <2> QED
    BY <2>1 DEF PutBack, Alone, Busy
<1>3. NewIds'
  <2>1. \A d \in Calls : call'[d] # Idle =>
            /\ d \in Busy /\ call'[d].req = call[d].req
            /\ call'[d].phase \in Early => call[d].phase \in Early \/ IdsNew(call[d].req) = {}
    BY DEF Others, Busy
  <2>2. \A d \in Busy : call[d].phase \in Early => IdsNew(call[d].req) \cap IdsOf(file.entries) = {}
    BY DEF EntryFacts, NewIds, Early
  <2>3. \A d, e \in Busy : d # e => IdsNew(call[d].req) \cap (IdsNew(call[e].req) \cup IdsBacked(call[e].req)) = {}
    BY DEF EntryFacts, NewIds
  <2>4. Distinct(file.entries)
    BY DEF EntryFacts, NewIds
  <2>5. \A d \in Calls : call'[d] # Idle /\ call'[d].phase \in Early
                         => IdsNew(call'[d].req) \cap IdsOf(file'.entries) = {}
    BY <2>1, <2>2
  <2>6. \A d, e \in Calls : call'[d] # Idle /\ call'[e] # Idle /\ d # e
           => IdsNew(call'[d].req) \cap (IdsNew(call'[e].req) \cup IdsBacked(call'[e].req)) = {}
    BY <2>1, <2>3
  <2> QED
    BY <2>4, <2>5, <2>6 DEF NewIds, Busy, Early
<1>4. KeptThere'
  <2>1. CASE kept' = {}
    BY <2>1 DEF KeptThere
  <2>2. CASE kept' = kept /\ (call[c].phase \in Undoing => call'[c] # Idle /\ call'[c].phase \in Undoing)
    <3>1. NoneIn(Undoing)' => NoneIn(Undoing)
      BY <2>2 DEF NoneIn, Busy, Others
    <3> QED
      BY <2>2, <3>1 DEF KeptThere, EntryFacts, Undoing
  <2> QED
    BY <2>1, <2>2
<1> QED
  BY <1>1, <1>2, <1>3, <1>4 DEF EntryFacts

\* What RAM and file have in common stays, when neither changes.
LEMMA StillSame ==
  ASSUME EntryFacts, NEW c \in Calls, Others(c), file' = file, ram' = ram, cur' = cur,
         call[c] # Idle /\ call[c].phase \in {"saving", "undoing"} =>
            call'[c] # Idle /\ call'[c].phase \in {"saving", "undoing"}
  PROVE  SameEntries'
<1>1. NoneSaving' => NoneSaving
  BY DEF NoneSaving, NoneIn, Busy, Others
<1> QED
  BY <1>1 DEF EntryFacts, SameEntries

LEMMA NewIdsAreAsked ==
  ASSUME NEW req
  PROVE  IdsNew(req) \subseteq IdsAsked(req)
  BY DEF IdsNew

LEMMA StartEntries ==
  ASSUME Typed, Typed', LockFacts, EntryFacts, NEW c \in Calls, NEW req \in use.requests, Start(c, req)
  PROVE  EntryFacts'
<1>1. /\ call[c] = Idle /\ Others(c) /\ call'[c] # Idle /\ call'[c].req = req
      /\ call'[c].phase \in {"entered", "queued", "export"} /\ Fresh(req)
      /\ UNCHANGED <<use, file, ram, cur, kept>> /\ cur # 0
  BY StartMoves DEF Typed
<1>2. SameEntries'
  BY <1>1, StillSame
<1>3. Midway'
  <2>1. MidwayOf(call'[c], file', ram'[cur'])
    BY <1>1 DEF MidwayOf
  <2>2. \A d \in Busy : MidwayOf(call[d], file, ram[cur])
    BY DEF EntryFacts, Midway
  <2> QED
    BY <1>1, <2>1, <2>2 DEF Midway, Others, Busy
<1>4. PutBack'
  <2>1. SUFFICES ASSUME Alone, NEW d \in Calls, call'[d] # Idle, call'[d].req.op = "restore"
                 PROVE  PutBackOf(call'[d], file', kept')
    BY <1>1 DEF PutBack, Alone, Busy
  <2>2. Busy = {}
    BY <2>1, StartMoves, AloneMeansNone DEF Alone, Typed
  <2>3. d = c
    BY <1>1, <2>1, <2>2 DEF Others, Busy
  <2>4. ram[cur].entries = file.entries
    BY <1>1, <2>2 DEF EntryFacts, SameEntries, NoneSaving, NoneIn
  <2>5. queue[cur] = <<>>
    BY <1>1, <2>1, <2>2 DEF LockFacts, OneCall
  <2>6. call'[c].phase = "entered" /\ call'[c].prev = ram[cur]
    BY <1>1, <2>1, <2>3, <2>5, StartMoves DEF Typed
  <2> QED
    BY <1>1, <2>3, <2>4, <2>6 DEF PutBackOf, EntryFacts, NewIds
<1>5. NewIds'
  <2>1. \A d \in Calls : call'[d] # Idle /\ d # c => d \in Busy /\ call'[d] = call[d]
    BY <1>1 DEF Others, Busy
  <2>2. IdsNew(req) \cap IdsOf(file.entries) = {}
    BY <1>1 DEF Fresh
  <2>3. \A d \in Busy : /\ IdsNew(req) \cap (IdsNew(call[d].req) \cup IdsBacked(call[d].req)) = {}
                        /\ IdsNew(call[d].req) \cap (IdsNew(req) \cup IdsBacked(req)) = {}
    BY <1>1, NewIdsAreAsked DEF Fresh
  <2>4. \A d, e \in Busy : d # e => IdsNew(call[d].req) \cap (IdsNew(call[e].req) \cup IdsBacked(call[e].req)) = {}
    BY DEF EntryFacts, NewIds
  <2>5. \A d \in Busy : call[d].phase \in Early => IdsNew(call[d].req) \cap IdsOf(file.entries) = {}
    BY DEF EntryFacts, NewIds, Early
  <2>6. \A d \in Calls : call'[d] # Idle /\ call'[d].phase \in Early
                         => IdsNew(call'[d].req) \cap IdsOf(file'.entries) = {}
    BY <1>1, <2>1, <2>2, <2>5
  <2>7. \A d, e \in Calls : call'[d] # Idle /\ call'[e] # Idle /\ d # e
           => IdsNew(call'[d].req) \cap (IdsNew(call'[e].req) \cup IdsBacked(call'[e].req)) = {}
    BY <1>1, <2>1, <2>3, <2>4
  <2> QED
    BY <1>1, <2>6, <2>7 DEF EntryFacts, NewIds, Busy, Early
<1>6. KeptThere'
  <2>1. NoneIn(Undoing)' => NoneIn(Undoing)
    BY <1>1 DEF NoneIn, Busy, Others
  <2> QED
    BY <1>1, <2>1 DEF KeptThere, EntryFacts, Undoing
<1> QED
  BY <1>2, <1>3, <1>4, <1>5, <1>6 DEF EntryFacts

LEMMA ExportEntries ==
  ASSUME Typed, Typed', LockFacts, EntryFacts, NEW c \in Calls, Export(c)
  PROVE  EntryFacts'
<1>1. /\ c \in Busy /\ call[c].phase = "export" /\ Others(c) /\ call'[c] # Idle /\ call'[c].phase = "queued"
      /\ call'[c].req = call[c].req /\ UNCHANGED <<use, file, ram, cur, kept>>
  BY ExportMoves, BusyFits DEF Typed, Holds, Turns
<1>2. ~ Alone
  BY <1>1, BusyLocked DEF Typed
<1>3. call[c].req.op = "restore"
  BY <1>1 DEF Typed, Carries
<1>4. MidwayOf(call'[c], file, ram'[cur']) /\ IdsNew(call[c].req) = {}
  BY <1>1, <1>3 DEF MidwayOf, IdsNew
<1>5. SameEntries'
  BY <1>1, StillSame DEF Busy
<1> QED
  BY <1>1, <1>2, <1>4, <1>5, QuietEntries DEF Undoing

LEMMA RefuseEntries ==
  ASSUME Typed, Typed', LockFacts, EntryFacts, NEW c \in Calls, Refuse(c)
  PROVE  EntryFacts'
<1>1. /\ c \in Busy /\ call[c].phase \in {"entered", "queued"} /\ Others(c) /\ call'[c] = Idle
      /\ Writes(call[c].inc, [ram[call[c].inc] EXCEPT !.goals = RefusedGoals(ram[call[c].inc], call[c].req)])
      /\ UNCHANGED <<use, file, cur, kept>> /\ Holds(c) /\ ram[call[c].inc] \in Book
  BY RefuseMoves, BusyFits DEF Typed, Holds, Ends
<1>2. /\ cur \in 1 .. Len(ram) /\ call[c].inc = cur /\ NoneSaving
      /\ \A d \in Busy : d # c => call[d].phase \notin InLock
  BY <1>1, Holder DEF Holds
<1>3. ram'[cur].entries = ram[cur].entries
  BY <1>1, <1>2 DEF Writes, Book
<1>4. SameEntries'
  BY <1>1, <1>2, <1>3 DEF SameEntries, EntryFacts
<1> QED
  BY <1>1, <1>2, <1>4, QuietEntries DEF Undoing

LEMMA ValidateEntries ==
  ASSUME Typed, Typed', LockFacts, EntryFacts, NEW c \in Calls, Validate(c)
  PROVE  EntryFacts'
<1>1. /\ c \in Busy /\ call[c].phase \in {"entered", "queued"} /\ Others(c)
      /\ call'[c] # Idle /\ call'[c].phase = "checked" /\ call'[c].req = call[c].req
      /\ call'[c].next = [ram[call[c].inc] EXCEPT !.entries = Rewritten(ram[call[c].inc], call[c].req)]
      /\ EditAccepted(ram[call[c].inc], call[c].req)
      /\ UNCHANGED <<use, file, ram, cur, kept>> /\ Holds(c) /\ ram[call[c].inc] \in Book
  BY ValidateMoves, BusyFits DEF Typed, Holds, Turns
<1>2. cur \in 1 .. Len(ram) /\ call[c].inc = cur /\ NoneSaving
  BY <1>1, Holder DEF Holds
<1>3. ram[cur].entries = file.entries
  BY <1>2 DEF SameEntries, EntryFacts
<1>4. call'[c].next.entries = Rewritten(file, call[c].req)
  <2>1. call'[c].next.entries = Rewritten(ram[cur], call[c].req)
    BY <1>1, <1>2 DEF Book
  <2> QED
    BY <1>3, <2>1, SameEntriesSameEdit
<1>5. call[c].req.op # "restore" /\ (call[c].req.op = "update" => call[c].req.entry.id \in IdsOf(file.entries))
  BY <1>1, <1>2, <1>3, EditOps
<1>6. MidwayOf(call'[c], file, ram'[cur'])
  BY <1>1, <1>4, <1>5 DEF MidwayOf
<1>7. SameEntries'
  BY <1>1, <1>2, <1>3 DEF SameEntries
<1> QED
  BY <1>1, <1>5, <1>6, <1>7, QuietEntries DEF Undoing, Early

LEMMA ChangeEntries ==
  ASSUME Typed, Typed', LockFacts, EntryFacts, NEW c \in Calls, Change(c)
  PROVE  EntryFacts'
<1>1. /\ c \in Busy /\ call[c].phase = "checked" /\ Others(c)
      /\ call'[c] # Idle /\ call'[c].phase = "saving" /\ call'[c].req = call[c].req
      /\ Writes(call[c].inc, [ram[call[c].inc] EXCEPT !.entries = call[c].next.entries])
      /\ UNCHANGED <<use, file, cur, kept>> /\ ram[call[c].inc] \in Book
  BY ChangeMoves, BusyFits DEF Typed, Turns
<1>2. /\ cur \in 1 .. Len(ram) /\ call[c].inc = cur
      /\ \A d \in Busy : d # c => call[d].phase \notin InLock
  BY <1>1, InLockHolds DEF InLock
<1>3. /\ call[c].req.op \in {"add", "import", "update", "delete"}
      /\ call[c].next.entries = Rewritten(file, call[c].req)
      /\ call[c].req.op = "update" => call[c].req.entry.id \in IdsOf(file.entries)
  BY <1>1 DEF Typed, Carries, EntryFacts, Midway, MidwayOf
<1>4. ram'[cur].entries = EntriesAfter(file, call[c].req)
  BY <1>1, <1>2, <1>3 DEF Writes, Book, EntriesAfter
<1>5. MidwayOf(call'[c], file, ram'[cur']) /\ call[c].req.op # "restore"
  BY <1>1, <1>3, <1>4 DEF MidwayOf
<1>6. SameEntries'
  BY <1>1 DEF SameEntries, NoneSaving, NoneIn, Busy
<1> QED
  BY <1>1, <1>2, <1>5, <1>6, QuietEntries DEF Undoing, Early

LEMMA RestructureEntries ==
  ASSUME Typed, Typed', LockFacts, EntryFacts, NEW c \in Calls, Restructure(c)
  PROVE  EntryFacts'
<1>1. /\ c \in Busy /\ call[c].phase \in {"entered", "queued"} /\ Others(c)
      /\ call'[c] # Idle /\ call'[c].phase = "saving" /\ call'[c].req = call[c].req
      /\ Writes(call[c].inc, Restructured(ram[call[c].inc], call[c].req))
      /\ StructureAccepted(ram[call[c].inc], call[c].req)
      /\ UNCHANGED <<use, file, cur, kept>> /\ Holds(c) /\ ram[call[c].inc] \in Book
      /\ call[c].req \in use.requests /\ use \in Traffic
  BY RestructureMoves, BusyFits DEF Typed, Holds, Turns
<1>2. /\ cur \in 1 .. Len(ram) /\ call[c].inc = cur /\ NoneSaving
      /\ \A d \in Busy : d # c => call[d].phase \notin InLock
  BY <1>1, Holder DEF Holds
<1>3. ram[cur].entries = file.entries
  BY <1>2 DEF SameEntries, EntryFacts
<1>4. call[c].req.op \in Structures
  BY <1>1, StructureOps
<1>5. ram'[cur].entries = EntriesAfter(ram[cur], call[c].req)
  BY <1>1, <1>2, <1>4, RestructuredFits DEF Writes
<1>6. ram'[cur].entries = EntriesAfter(file, call[c].req)
  BY <1>3, <1>5, SameEntriesSameEdit
<1>7. MidwayOf(call'[c], file, ram'[cur']) /\ call[c].req.op # "restore"
  BY <1>1, <1>4, <1>6 DEF MidwayOf, Structures
<1>8. SameEntries'
  BY <1>1 DEF SameEntries, NoneSaving, NoneIn, Busy
<1> QED
  BY <1>1, <1>2, <1>7, <1>8, QuietEntries DEF Undoing, Early

LEMMA ReplaceEntries ==
  ASSUME Typed, Typed', LockFacts, EntryFacts, NEW c \in Calls, Replace(c)
  PROVE  EntryFacts'
<1>1. /\ c \in Busy /\ call[c].phase \in {"entered", "queued", "undo"} /\ Others(c) /\ call[c].req.op = "restore"
      /\ call'[c] # Idle /\ call'[c].phase \in {"saving", "undoing"} /\ call'[c].req = call[c].req
      /\ call'[c].phase = "undoing" <=> call[c].phase = "undo"
      /\ call'[c].prev = call[c].prev
      /\ UNCHANGED <<use, file, cur, kept>> /\ Holds(c)
      /\ call[c].prev \in Book /\ call[c].req.book \in Book
      /\ call[c].req \in use.requests /\ use \in Traffic
  BY ReplaceMoves, BusyFits DEF Typed, Holds, Turns, Same
<1>2. /\ cur \in 1 .. Len(ram) /\ call[c].inc = cur /\ NoneSaving
      /\ \A d \in Busy : d # c => call[d].phase \notin InLock
  BY <1>1, Holder DEF Holds
<1>3. CASE call[c].phase = "undo"
  <2>1. Alone
    BY <1>1, <1>3, BusyLocked DEF Typed
  <2>2. PutBackOf(call[c], file, kept)
    BY <1>1, <2>1 DEF EntryFacts, PutBack
  <2>3. ram'[cur] = Normalize(call[c].prev)
    BY <1>2, <1>3, ReplaceMoves DEF Typed, Writes
  <2>4. call'[c].phase = "undoing"
    BY <1>1, <1>3
  <2>5. IdsOf(ram'[cur].entries) = IdsOf(call[c].prev.entries) /\ Distinct(ram'[cur].entries)
    BY <1>1, <2>2, <2>3, NormalizeIds DEF PutBackOf
  <2>6. MidwayOf(call'[c], file, ram'[cur'])
    BY <1>1, <2>4, <2>5 DEF MidwayOf
  <2>7. PutBackOf(call'[c], file, kept)
    BY <1>1, <1>3, <2>2, <2>4 DEF PutBackOf
  <2>8. SameEntries'
    BY <1>1 DEF SameEntries, NoneSaving, NoneIn, Busy
  <2> QED
    BY <1>1, <1>2, <2>4, <2>6, <2>7, <2>8, QuietEntries DEF Undoing, Early
<1>4. CASE call[c].phase # "undo"
  <2>1. call'[c].phase = "saving" /\ call[c].phase \in {"entered", "queued"}
    BY <1>1, <1>4
  <2>2. ram'[cur] = Normalize(Restored(call[c].prev, call[c].req.book))
    BY <1>2, <1>4, ReplaceMoves DEF Typed, Writes
  <2>3. Distinct(call[c].req.book.entries)
    BY <1>1, LedgerAssumption DEF LedgerAssumption
  <2>4. IdsOf(ram'[cur].entries) = IdsOf(call[c].req.book.entries) /\ Distinct(ram'[cur].entries)
    BY <1>1, <2>2, <2>3, NormalizeIds, RestoredFits
  <2>5. MidwayOf(call'[c], file, ram'[cur'])
    BY <1>1, <2>1, <2>4 DEF MidwayOf
  <2>6. Alone => PutBackOf(call'[c], file, kept)
    <3>1. Alone => call[c].phase = "entered" /\ PutBackOf(call[c], file, kept)
      BY <1>1, <2>1, BusyLocked DEF EntryFacts, PutBack, Typed
    <3> QED
      BY <1>1, <2>1, <3>1 DEF PutBackOf
  <2>7. SameEntries'
    BY <1>1 DEF SameEntries, NoneSaving, NoneIn, Busy
  <2> QED
    BY <1>1, <1>2, <2>1, <2>5, <2>6, <2>7, QuietEntries DEF Undoing, Early
<1> QED
  BY <1>3, <1>4

\* What is done to the ids: those asked for come and go, the others stay.
LEMMA EditIds ==
  ASSUME NEW u \in Traffic, NEW req \in u.requests, NEW f \in Book, Distinct(f.entries),
         IdsNew(req) \cap IdsOf(f.entries) = {},
         req.op = "update" => req.entry.id \in IdsOf(f.entries)
  PROVE  /\ Distinct(EntriesAfter(f, req))
         /\ IdsOf(EntriesAfter(f, req)) \subseteq IdsOf(f.entries) \cup IdsNew(req)
         /\ req.op = "delete" => IdsOf(f.entries) \ {req.id} \subseteq IdsOf(EntriesAfter(f, req))
         /\ req.op \notin {"delete", "clear"} => IdsOf(f.entries) \subseteq IdsOf(EntriesAfter(f, req))
<1>1. CASE req.op \in {"add", "import"}
  <2>1. PICK S \in SUBSET req.entries : EntriesAfter(f, req) = f.entries \cup S
    BY <1>1 DEF EntriesAfter, Rewritten
  <2>2. Distinct(req.entries) /\ IdsNew(req) = IdsOf(req.entries)
    BY <1>1, RequestFits DEF IdsNew, IdsAsked
  <2>3. Distinct(EntriesAfter(f, req))
    BY <2>1, <2>2 DEF Distinct, IdsOf
  <2>4. /\ IdsOf(EntriesAfter(f, req)) \subseteq IdsOf(f.entries) \cup IdsNew(req)
        /\ IdsOf(f.entries) \subseteq IdsOf(EntriesAfter(f, req))
    BY <2>1, <2>2 DEF IdsOf
  <2> QED
    BY <1>1, <2>3, <2>4
<1>2. CASE req.op = "update"
  <2>1. EntriesAfter(f, req) = {e \in f.entries : e.id # req.entry.id} \cup {req.entry}
    BY <1>2 DEF EntriesAfter, Rewritten
  <2> QED
    BY <1>2, <2>1 DEF Distinct, IdsOf
<1>3. CASE req.op = "delete"
  <2>1. EntriesAfter(f, req) = {e \in f.entries : e.id # req.id}
    BY <1>3 DEF EntriesAfter, Rewritten
  <2> QED
    BY <1>3, <2>1 DEF Distinct, IdsOf
<1>4. CASE req.op \notin {"add", "import", "update", "delete"}
  BY <1>4 DEF EntriesAfter, Distinct, IdsOf
<1> QED
  BY <1>1, <1>2, <1>3, <1>4

\* What a save does, of the call that has the lock.
LEMMA SaveLeaves ==
  ASSUME Typed, LockFacts, NEW c \in Calls, Save(c)
  PROVE  /\ c \in Busy /\ call[c].phase \in {"saving", "undoing"} /\ Others(c)
         /\ call'[c] # Idle => /\ call'[c].phase \in {"history", "reload"} /\ call'[c].req = call[c].req
                               /\ call'[c].prev = call[c].prev
         /\ call'[c] # Idle /\ call[c].req.op = "restore" => call[c].phase = "saving" /\ call'[c].phase = "history"
         /\ call[c].phase = "saving" /\ call[c].req.op = "restore" => call'[c] # Idle /\ call'[c].phase = "history"
         /\ UNCHANGED <<use, ram, cur>>
         /\ call[c].req \in use.requests /\ use \in Traffic /\ file \in Book /\ ram[cur] \in Book
         /\ cur \in 1 .. Len(ram) /\ call[c].inc = cur
         /\ \A d \in Busy : d # c => call[d].phase \notin InLock
         /\ file' = ram[cur] /\ kept' = KeptAfter(call[c].req, ram[cur])
<1> DEFINE req == call[c].req
<1>1. /\ c \in Busy /\ call[c].phase \in {"saving", "undoing"} /\ UNCHANGED <<use, ram, cur>>
      /\ req \in use.requests /\ use \in Traffic /\ ram[call[c].inc] \in Book
      /\ kept' = KeptAfter(req, ram[call[c].inc]) /\ file' = ram[call[c].inc]
  BY SaveMoves, BusyFits DEF Typed
<1>2. /\ cur \in 1 .. Len(ram) /\ call[c].inc = cur
      /\ \A d \in Busy : d # c => call[d].phase \notin InLock
  BY <1>1, InLockHolds DEF InLock
<1>3. file \in Book
  BY DEF Typed, Shape
<1>4. CASE call[c].phase = "saving" /\ req.op = "restore"
  BY <1>1, <1>2, <1>3, <1>4, SaveMoves DEF Typed, Turns, Same
<1>5. CASE Ends(c) /\ ~ (call[c].phase = "saving" /\ req.op = "restore")
  BY <1>1, <1>2, <1>3, <1>5 DEF Ends
<1>6. CASE req.op \in Structures /\ Turns(c, "reload") /\ Same(c)
  BY <1>1, <1>2, <1>3, <1>6 DEF Turns, Same, Structures
<1> QED
  BY <1>4, <1>5, <1>6, SaveMoves DEF Typed

LEMMA SaveEntries ==
  ASSUME Typed, Typed', Calm(use), LockFacts, LockFacts', EntryFacts, NEW c \in Calls, Save(c)
  PROVE  EntryFacts'
<1> DEFINE req == call[c].req
<1>1. /\ c \in Busy /\ call[c].phase \in {"saving", "undoing"} /\ Others(c)
      /\ call'[c] # Idle => /\ call'[c].phase \in {"history", "reload"} /\ call'[c].req = req
                            /\ call'[c].prev = call[c].prev
      /\ call'[c] # Idle /\ req.op = "restore" => call[c].phase = "saving" /\ call'[c].phase = "history"
      /\ call[c].phase = "saving" /\ req.op = "restore" => call'[c] # Idle /\ call'[c].phase = "history"
      /\ UNCHANGED <<use, ram, cur>>
      /\ req \in use.requests /\ use \in Traffic /\ file \in Book /\ ram[cur] \in Book
      /\ cur \in 1 .. Len(ram) /\ call[c].inc = cur
      /\ \A d \in Busy : d # c => call[d].phase \notin InLock
      /\ file' = ram[cur] /\ kept' = KeptAfter(req, ram[cur])
  BY SaveLeaves
<1>4. \A d \in Calls : call'[d] # Idle => /\ d \in Busy /\ call'[d].req = call[d].req
                                          /\ call'[d].phase \notin InLock \cup {"saving", "undoing", "checked", "entered"}
                                          /\ d # c => call'[d] = call[d]
  BY <1>1 DEF Others, Busy, InLock
<1>5. MidwayOf(call[c], file, ram[cur]) /\ Distinct(file.entries)
      /\ (call[c].phase = "saving" => IdsNew(req) \cap IdsOf(file.entries) = {})
  BY <1>1 DEF EntryFacts, Midway, NewIds
<1>6. call[c].phase = "undoing" => /\ req.op = "restore" /\ Alone /\ PutBackOf(call[c], file, kept)
  BY <1>1, BusyLocked DEF Typed, Carries, EntryFacts, PutBack
<1>7. /\ Distinct(ram[cur].entries)
      /\ call[c].phase = "saving" => IdsOf(ram[cur].entries) \subseteq IdsOf(file.entries) \cup IdsNew(req) \cup IdsBacked(req)
  <2>1. CASE call[c].phase = "undoing"
    BY <1>5, <2>1 DEF MidwayOf
  <2>2. CASE call[c].phase = "saving" /\ req.op = "restore"
    BY <1>5, <2>2 DEF MidwayOf, IdsBacked
  <2>3. CASE call[c].phase = "saving" /\ req.op # "restore"
    <3>1. ram[cur].entries = EntriesAfter(file, req) /\ (req.op = "update" => req.entry.id \in IdsOf(file.entries))
      BY <1>5, <2>3 DEF MidwayOf
    <3> QED
      BY <1>1, <1>5, <2>3, <3>1, EditIds
  <2> QED
    BY <1>1, <2>1, <2>2, <2>3
<1>8. SameEntries'
  BY <1>1 DEF SameEntries
<1>9. Midway'
  BY <1>4 DEF Midway, MidwayOf, Busy, InLock
<1>10. NewIds'
  <2>1. ASSUME NEW d \in Calls, call'[d] # Idle, call'[d].phase \in Early
        PROVE  IdsNew(call'[d].req) \cap IdsOf(file'.entries) = {}
    <3>1. d \in Busy /\ d # c /\ call'[d] = call[d]
      BY <1>1, <1>4, <2>1 DEF Early
    <3>2. call[c].phase = "saving"
      BY <1>1, <1>6, <3>1, BusyLocked DEF Typed
    <3>3. IdsNew(call[d].req) \cap (IdsOf(file.entries) \cup IdsNew(req) \cup IdsBacked(req)) = {}
      BY <1>1, <2>1, <3>1 DEF EntryFacts, NewIds, Early
    <3> QED
      BY <1>1, <1>7, <3>1, <3>2, <3>3
  <2>2. \A d, e \in Busy : d # e => IdsNew(call[d].req) \cap (IdsNew(call[e].req) \cup IdsBacked(call[e].req)) = {}
    BY DEF EntryFacts, NewIds
  <2>3. \A d, e \in Calls : call'[d] # Idle /\ call'[e] # Idle /\ d # e
           => IdsNew(call'[d].req) \cap (IdsNew(call'[e].req) \cup IdsBacked(call'[e].req)) = {}
    BY <1>4, <2>2
  <2> QED
    BY <1>1, <1>7, <2>1, <2>3 DEF NewIds, Busy, Early
<1>11. PutBack'
  <2>1. SUFFICES ASSUME Alone, call'[c] # Idle, req.op = "restore"
                 PROVE  PutBackOf(call'[c], file', kept')
    <3>1. Alone => \A d \in Calls : call'[d] # Idle => d = c
      BY <1>1, <1>4, BusyLocked DEF Typed
    <3> QED
      BY <1>1, <2>1, <3>1 DEF PutBack, Alone, Busy
  <2>2. call[c].phase = "saving" /\ call'[c].phase = "history" /\ call'[c].prev = call[c].prev /\ call'[c].req = req
    BY <1>1, <2>1
  <2>3. PutBackOf(call[c], file, kept)
    BY <1>1, <2>1 DEF EntryFacts, PutBack
  <2>4. NoneIn(Undoing)
    BY <1>1, <2>1, <2>2, BusyLocked DEF Typed, NoneIn, Undoing
  <2>5. kept \subseteq IdsOf(file.entries)
    BY <2>4 DEF EntryFacts, KeptThere, Undoing
  <2>6. kept' = kept
    BY <1>1, <2>1 DEF KeptAfter
  <2> QED
    BY <2>2, <2>3, <2>5, <2>6 DEF PutBackOf
<1>12. KeptThere'
  <2>1. SUFFICES ASSUME NoneIn(Undoing)'
                 PROVE  kept' \subseteq IdsOf(ram[cur].entries)
    BY <1>1 DEF KeptThere, Undoing
  <2>2. \A d \in Calls : call'[d] # Idle => call'[d].phase \notin Undoing
    BY <2>1 DEF NoneIn, Busy
  <2>3. CASE call[c].phase = "saving"
    <3>1. NoneIn(Undoing)
      BY <1>1, <2>2, <2>3 DEF NoneIn, Busy, Undoing, Others
    <3>2. kept \subseteq IdsOf(file.entries)
      BY <3>1 DEF EntryFacts, KeptThere, Undoing
    <3>3. req.op # "restore"
      BY <1>1, <2>2, <2>3 DEF Undoing
    <3>4. ram[cur].entries = EntriesAfter(file, req) /\ (req.op = "update" => req.entry.id \in IdsOf(file.entries))
      BY <1>5, <2>3, <3>3 DEF MidwayOf
    <3>5. /\ req.op = "delete" => IdsOf(file.entries) \ {req.id} \subseteq IdsOf(ram[cur].entries)
          /\ req.op \notin {"delete", "clear"} => IdsOf(file.entries) \subseteq IdsOf(ram[cur].entries)
      BY <1>1, <1>5, <2>3, <3>4, EditIds
    <3> QED
      BY <1>1, <3>2, <3>5 DEF KeptAfter, IdsAsked
  <2>4. CASE call[c].phase = "undoing"
    <3>1. kept \subseteq IdsOf(call[c].prev.entries) /\ req.op = "restore"
      BY <1>6, <2>4 DEF PutBackOf
    <3>2. IdsOf(ram[cur].entries) = IdsOf(call[c].prev.entries)
      BY <1>5, <2>4 DEF MidwayOf
    <3> QED
      BY <1>1, <3>1, <3>2 DEF KeptAfter
  <2> QED
    BY <1>1, <2>3, <2>4
<1> QED
  BY <1>8, <1>9, <1>10, <1>11, <1>12 DEF EntryFacts

LEMMA HistoryEntries ==
  ASSUME Typed, Typed', Calm(use), LockFacts, EntryFacts, NEW c \in Calls, History(c)
  PROVE  EntryFacts'
<1>1. /\ c \in Busy /\ call[c].phase = "history" /\ Others(c) /\ UNCHANGED <<use, file, ram, cur>>
      /\ call'[c] # Idle => /\ call'[c].phase = "undo" /\ call'[c].req = call[c].req
                            /\ call'[c].prev = call[c].prev /\ call[c].req.fails /\ kept' = kept
      /\ call'[c] = Idle => kept' = {}
  BY HistoryMoves, BusyFits DEF Typed, Turns, Same, Ends
<1>2. SameEntries'
  BY <1>1, StillSame
<1>3. call'[c] # Idle => MidwayOf(call'[c], file, ram'[cur'])
  BY <1>1 DEF MidwayOf
<1>4. call'[c] # Idle /\ Alone /\ call[c].req.op = "restore" => PutBackOf(call'[c], file, kept')
  BY <1>1 DEF EntryFacts, PutBack, PutBackOf
<1> QED
  BY <1>1, <1>2, <1>3, <1>4, QuietEntries DEF Undoing, Early

LEMMA UnloadEntries ==
  ASSUME Typed, Typed', LockFacts, EntryFacts, NEW c \in Calls, Unload(c) \/ Publish(c)
  PROVE  EntryFacts'
<1>1. /\ c \in Busy /\ call[c].phase \in {"reload", "publishing"} /\ Others(c) /\ UNCHANGED <<use, file, ram, kept>>
      /\ call'[c] # Idle => call'[c].phase = "loading" /\ call'[c].req = call[c].req
  BY UnloadMoves, PublishMoves, BusyFits DEF Typed, Turns, Ends
<1>2. \A d \in Busy : d = c
  BY <1>1, BusyLocked DEF Typed
<1>3. SameEntries'
  <2>1. CASE Unload(c)
    BY <2>1, UnloadMoves DEF SameEntries, Typed
  <2>2. CASE Publish(c)
    BY <1>1, <2>2, PublishMoves DEF SameEntries, Typed, LockFacts, Current
  <2> QED
    BY <2>1, <2>2
<1>4. call[c].req.op # "restore"
  BY <1>1 DEF Typed, Carries
<1>5. call'[c] # Idle => MidwayOf(call'[c], file, ram'[cur'])
  BY <1>1 DEF MidwayOf
<1> QED
  BY <1>1, <1>2, <1>3, <1>4, <1>5, QuietEntries DEF Undoing, Early

LEMMA LoadEntries ==
  ASSUME Typed, Typed', LockFacts, EntryFacts, NEW c \in Calls, Load(c)
  PROVE  EntryFacts'
<1>1. /\ c \in Busy /\ call[c].phase = "loading" /\ Others(c) /\ UNCHANGED <<use, cur, kept>>
      /\ call'[c] # Idle /\ call'[c].phase = "publishing" /\ call'[c].req = call[c].req
      /\ file' = Normalize(file)
  BY LoadMoves, BusyFits DEF Typed, Turns
<1>2. \A d \in Calls : call'[d] # Idle => d = c
  BY <1>1, BusyLocked DEF Typed, Others, Busy
<1>3. cur' = 0 /\ call[c].req.op # "restore"
  BY <1>1 DEF Typed, Carries, LockFacts, Current
<1>4. IdsOf(file'.entries) = IdsOf(file.entries) /\ Distinct(file'.entries)
  BY <1>1, NormalizeIds DEF EntryFacts, NewIds, Typed, Shape
<1>5. SameEntries' /\ Midway' /\ PutBack'
  BY <1>1, <1>2, <1>3 DEF SameEntries, Midway, MidwayOf, PutBack, Busy
<1>6. NewIds'
  BY <1>1, <1>2, <1>4 DEF NewIds, Busy
<1>7. KeptThere'
  <2>1. NoneIn(Undoing)
    BY <1>1, BusyLocked DEF Typed, NoneIn, Undoing
  <2> QED
    BY <1>1, <1>4, <2>1 DEF KeptThere, EntryFacts, Undoing
<1> QED
  BY <1>5, <1>6, <1>7 DEF EntryFacts

LEMMA RestartEntries ==
  ASSUME Typed, EntryFacts, Restart
  PROVE  EntryFacts'
<1>1. /\ Busy' = {} /\ file' = Normalize(file) /\ cur' = 1 /\ ram'[1] = file'
      /\ kept' = IF NoneIn(Undoing) THEN kept ELSE {}
  BY RestartMoves DEF Busy, Typed, Undoing
<1>2. IdsOf(file'.entries) = IdsOf(file.entries) /\ Distinct(file'.entries)
  BY <1>1, NormalizeIds DEF EntryFacts, NewIds, Typed, Shape
<1>3. SameEntries' /\ Midway' /\ PutBack' /\ NewIds'
  BY <1>1, <1>2 DEF SameEntries, Midway, PutBack, NewIds
<1>4. KeptThere'
  BY <1>1, <1>2 DEF EntryFacts, KeptThere, Undoing
<1> QED
  BY <1>3, <1>4 DEF EntryFacts

LEMMA StepEntries ==
  ASSUME Typed, Typed', Calm(use), LockFacts, LockFacts', EntryFacts, [Next]_vars
  PROVE  EntryFacts'
<1>1. ASSUME NEW c \in Calls, \/ \E req \in use.requests : Start(c, req)
                              \/ Export(c) \/ Refuse(c) \/ Validate(c) \/ Change(c) \/ Restructure(c)
                              \/ Replace(c) \/ Save(c) \/ History(c)
                              \/ Unload(c) \/ Load(c) \/ Publish(c)
      PROVE  EntryFacts'
  BY <1>1, StartEntries, ExportEntries, RefuseEntries, ValidateEntries, ChangeEntries, RestructureEntries,
     ReplaceEntries, SaveEntries, HistoryEntries, UnloadEntries, LoadEntries
<1>2. CASE UNCHANGED vars
  BY <1>2 DEF vars, EntryFacts, SameEntries, NoneSaving, NoneIn, Midway, PutBack, Alone, NewIds, KeptThere, Busy
<1> QED
  BY <1>1, <1>2, RestartEntries DEF Next

CalmInv == Typed /\ Calm(use) /\ LockFacts /\ EntryFacts

LEMMA InitCalm ==
  ASSUME CalmTraffic, Init
  PROVE  CalmInv
<1>1. Typed /\ Busy = {} /\ Calm(use) /\ ram = <<file>> /\ cur = 1 /\ kept = {}
  BY InitTyped DEF Init, CalmTraffic, Busy
<1>2. ram[cur] = file /\ Len(ram) = 1 /\ queue[cur] = <<>>
  BY <1>1 DEF Init
<1>3. Distinct(file.entries)
  <2>1. PICK b \in FirstBooks : file = Normalize(b)
    BY DEF Init
  <2> QED
    BY <2>1, NormalizeIds, LedgerAssumption DEF LedgerAssumption
<1>4. LockFacts
  BY <1>1, <1>2 DEF LockFacts, OneCall, OneStore, Current
<1>5. EntryFacts
  BY <1>1, <1>2, <1>3 DEF EntryFacts, SameEntries, Midway, PutBack, NewIds, KeptThere
<1> QED
  BY <1>1, <1>4, <1>5 DEF CalmInv

LEMMA StepCalm ==
  ASSUME CalmInv, [Next]_vars
  PROVE  CalmInv'
<1>1. use' = use
  BY DEF Next, vars, Start, Export, Refuse, Validate, Change, Restructure, Replace, Save, History,
         Unload, Load, Publish, Restart
<1>2. Calm(use)'
  BY <1>1 DEF CalmInv, Calm
<1> QED
  BY <1>2, StepTyped, StepLocks, StepEntries DEF CalmInv

\* StoredStays: what was stored and answered for stays in the file until a call
\* deletes it, through restores that fail, reloads and restarts.
THEOREM StoredEntriesStay == CalmTraffic => (Spec => []StoredStays)
<1> SUFFICES ASSUME CalmTraffic PROVE Spec => []StoredStays
  OBVIOUS
<1>1. Init => CalmInv
  BY InitCalm
<1>2. CalmInv /\ [Next]_vars => CalmInv'
  BY StepCalm
<1>3. CalmInv => StoredStays
  <2>1. SUFFICES ASSUME CalmInv, \A c \in Busy : call[c].req.op # "restore"
                 PROVE  kept \subseteq IdsOf(file.entries)
    BY DEF StoredStays
  <2>2. NoneIn(Undoing)
    BY <2>1 DEF CalmInv, Typed, Carries, NoneIn, Undoing
  <2> QED
    BY <2>1, <2>2 DEF CalmInv, EntryFacts, KeptThere, Undoing
<1> QED
  BY <1>1, <1>2, <1>3, PTL DEF Spec

-----------------------------------------------------------------------------
(* The book of the file, where what was read before the lock stays true *)

\* An entry written into nothing changes nothing.
LEMMA GoalsBack ==
  ASSUME NEW b \in Book
  PROVE  [b EXCEPT !.goals = b.goals] = b
  BY DEF Book

LEMMA SaneNormalized ==
  ASSUME NEW b \in Book, Sane(b)
  PROVE  Sane(Normalize(b))
<1>1. \A g \in b.goals : g.depot \in b.depots \cup {Main, All}
  BY DEF Sane, GoalsHomed
<1>2. Normalize(b).goals = b.goals /\ Normalize(b).depots = b.depots \cup {Main}
  BY <1>1 DEF Normalize, Book
<1> QED
  BY <1>1, <1>2 DEF Sane, GoalsHomed

LEMMA KnownNormalized ==
  ASSUME NEW b \in Book, b.goals \subseteq GoalsThere
  PROVE  Sane(Normalize(b))
  BY NormalizeFits DEF Sane, KnownGoals

LEMMA RestoredSane ==
  ASSUME NEW u \in Traffic, NEW req \in u.requests, req.op = "restore", NEW p \in Book
  PROVE  Sane(Normalize(Restored(p, req.book)))
<1>1. req \in Requests
  BY DEF Requests
<1>2. req.book \in Book
  BY RequestFits
<1>3. req.book \in BackupsThere
  BY <1>1 DEF BackupsThere
<1>4. req.book.goals \subseteq GoalsThere
  BY <1>3 DEF GoalsThere
<1> QED
  BY <1>2, <1>4, RestoredFits, KnownNormalized

LEMMA DoneFits ==
  ASSUME NEW u \in Traffic, NEW req \in u.requests, NEW f \in Book, Sane(f), Accepted(f, req),
         req.op = "dropDepot" => req.depot # Main,
         req.op = "setGoal" => req.goal.depot \in f.depots \cup {All}
  PROVE  /\ Done(f, req) \in Book /\ Sane(Done(f, req))
         /\ req.op # "setTax" => Done(f, req).tax = f.tax
<1>1. CASE req.op = "restore"
  <2>1. Done(f, req) = Normalize(Restored(f, req.book)) /\ req.book \in Book
    BY <1>1, RequestFits DEF Done
  <2> QED
    BY <1>1, <2>1, RestoredSane, RestoredFits, NormalizeFits
<1>2. CASE EditAccepted(f, req)
  <2>1. /\ req.op \in {"add", "import", "update", "delete"}
        /\ Done(f, req) = [f EXCEPT !.entries = Rewritten(f, req)] /\ Rewritten(f, req) \in Ledgers
    BY <1>2, EditOps, RewrittenFits DEF Done
  <2>2. Done(f, req) \in Book /\ Done(f, req).depots = f.depots /\ Done(f, req).goals = f.goals /\ Done(f, req).tax = f.tax
    BY <2>1 DEF Book
  <2> QED
    BY <2>2 DEF Sane, GoalsHomed
<1>3. CASE StructureAccepted(f, req)
  <2>1. req.op \in Structures /\ Done(f, req) = Restructured(f, req) /\ req \in Requests
    BY <1>3, StructureOps, EditOps DEF Done, Structures, Requests
  <2>2. Done(f, req) \in Book
    BY <2>1, RestructuredFits
  <2>3. CASE req.op \in {"addDepot", "setTax", "clear"}
    <3>1. /\ Done(f, req).goals = f.goals /\ f.depots \subseteq Done(f, req).depots
          /\ req.op # "setTax" => Done(f, req).tax = f.tax
      BY <2>1, <2>3 DEF Restructured, Book
    <3> QED
      BY <2>2, <3>1 DEF Sane, GoalsHomed
  <2>4. CASE req.op = "dropDepot"
    <3>1. /\ Done(f, req).goals = {g \in f.goals : g.depot # req.depot}
          /\ Done(f, req).depots = f.depots \ {req.depot} /\ Done(f, req).tax = f.tax
      BY <2>1, <2>4 DEF Restructured, Book
    <3> QED
      BY <2>2, <2>4, <3>1 DEF Sane, GoalsHomed
  <2>5. CASE req.op \in {"addGoal", "setGoal"}
    <3>1. req.goal \in KnownGoals
      BY <2>1, <2>5 DEF KnownGoals, GoalsThere
    <3>2. req.goal.depot \in f.depots \cup {All}
      BY <1>3, <2>5 DEF StructureAccepted
    <3>3. /\ Done(f, req).goals \subseteq f.goals \cup {req.goal}
          /\ Done(f, req).depots = f.depots /\ Done(f, req).tax = f.tax
      BY <2>1, <2>5 DEF Restructured, Book
    <3> QED
      BY <2>2, <2>5, <3>1, <3>2, <3>3 DEF Sane, GoalsHomed
  <2>6. CASE req.op = "dropGoal"
    <3>1. /\ Done(f, req).goals \subseteq f.goals
          /\ Done(f, req).depots = f.depots /\ Done(f, req).tax = f.tax
      BY <2>1, <2>6 DEF Restructured, Book
    <3> QED
      BY <2>2, <2>6, <3>1 DEF Sane, GoalsHomed
  <2> QED
    BY <2>1, <2>3, <2>4, <2>5, <2>6 DEF Structures
<1> QED
  BY <1>1, <1>2, <1>3 DEF Accepted

\* Refusing to drop a depot drops no goal: there is no goal of a depot there is not.
LEMMA RefusesNothing ==
  ASSUME NEW u \in Traffic, NEW req \in u.requests, NEW b \in Book, Sane(b), ~ StructureAccepted(b, req)
  PROVE  [b EXCEPT !.goals = RefusedGoals(b, req)] = b
<1>1. CASE req.op = "dropDepot" /\ \A e \in b.entries : e.depot # req.depot
  <2>1. req.depot \notin b.depots /\ req.depot # All
    BY <1>1, RequestFits, LedgerAssumption DEF StructureAccepted, LedgerAssumption
  <2>2. \A g \in b.goals : g.depot # req.depot
    BY <2>1 DEF Sane, GoalsHomed
  <2>3. RefusedGoals(b, req) = b.goals
    BY <1>1, <2>2 DEF RefusedGoals
  <2> QED
    BY <2>3, GoalsBack
<1>2. CASE ~ (req.op = "dropDepot" /\ \A e \in b.entries : e.depot # req.depot)
  BY <1>2, GoalsBack DEF RefusedGoals
<1> QED
  BY <1>1, <1>2

LEMMA QuietBook ==
  ASSUME LockFacts, BookFacts, NEW c \in Calls, Others(c), Alone => \A d \in Busy : d = c,
         SameBook', use' = use, file' = file,
         (ram' = ram /\ cur' = cur) \/ \A d \in Busy : d # c => call[d].phase \notin InLock,
         call'[c] # Idle =>
            /\ CarriedOf(call'[c], file, ram'[cur'])
            /\ call'[c].req.op = "restore" /\ call'[c].phase \in {"entered", "queued", "saving"}
                  => call'[c].prev.tax = file.tax
            /\ Alone /\ call'[c].req.op = "restore" => UndoneOf(call'[c], file)
            /\ call'[c].req.op = "setGoal" /\ call'[c].phase \in {"entered", "saving"}
                  => call'[c].req.goal.depot \in file.depots \cup {All}
  PROVE  BookFacts'
<1>1. \A d \in Calls : call'[d] # Idle /\ d # c => d \in Busy /\ call'[d] = call[d]
  BY DEF Others, Busy
<1>2. Carried'
  <2>1. ASSUME NEW d \in Busy, d # c
        PROVE  CarriedOf(call[d], file, ram'[cur'])
    <3>1. CASE ram' = ram /\ cur' = cur
      BY <3>1 DEF BookFacts, Carried
    <3>2. CASE call[d].phase \notin InLock
      BY <3>2 DEF CarriedOf, InLock
    <3> QED
      BY <2>1, <3>1, <3>2
  <2> QED
    BY <1>1, <2>1 DEF Carried, Busy
<1>3. TaxKept'
  BY <1>1 DEF BookFacts, TaxKept, Busy
<1>4. Undone'
  BY <1>1 DEF Undone, Alone, Busy
<1>5. GoalChecked'
  BY <1>1 DEF BookFacts, GoalChecked, Busy
<1> QED
  BY <1>2, <1>3, <1>4, <1>5 DEF BookFacts

LEMMA StillSameBook ==
  ASSUME BookFacts, NEW c \in Calls, Others(c), file' = file, ram' = ram, cur' = cur,
         call[c] # Idle /\ call[c].phase \in {"saving", "undoing"} =>
            call'[c] # Idle /\ call'[c].phase \in {"saving", "undoing"}
  PROVE  SameBook'
<1>1. NoneSaving' => NoneSaving
  BY DEF NoneSaving, NoneIn, Busy, Others
<1> QED
  BY <1>1 DEF BookFacts, SameBook

LEMMA StartBook ==
  ASSUME Typed, LockFacts, BookFacts, NEW c \in Calls, NEW req \in use.requests, Start(c, req)
  PROVE  BookFacts'
<1>1. /\ call[c] = Idle /\ Others(c) /\ call'[c] # Idle /\ call'[c].req = req
      /\ call'[c].phase \in {"entered", "queued", "export"}
      /\ call'[c].phase = "entered" <=> queue[cur] = <<>>
      /\ UNCHANGED <<use, file, ram, cur, kept>> /\ cur # 0 /\ Prechecked(ram[cur], req)
      /\ req.op = "restore" /\ call'[c].phase = "entered" => call'[c].prev = ram[cur]
      /\ req.op = "restore" => call'[c].phase # "queued"
  BY StartMoves DEF Typed
<1>2. Alone => Busy = {}
  BY StartMoves, AloneMeansNone DEF Alone, Typed
<1>3. SameBook'
  BY <1>1, StillSameBook
<1>4. call'[c].phase = "entered" => ram[cur] = file
  <2>1. SUFFICES ASSUME queue[cur] = <<>> PROVE NoneSaving
    BY <1>1 DEF BookFacts, SameBook
  <2>2. SUFFICES ASSUME NEW d \in Busy, call[d].phase \in InLock PROVE FALSE
    BY DEF NoneSaving, NoneIn, InLock
  <2> QED
    BY <2>1, <2>2, InLockHolds DEF Typed, Exclusive
<1>5. CarriedOf(call'[c], file, ram'[cur'])
  BY <1>1 DEF CarriedOf
<1>6. Alone /\ req.op = "restore" => UndoneOf(call'[c], file)
  <2>1. SUFFICES ASSUME Alone, req.op = "restore"
                 PROVE  UndoneOf(call'[c], file)
    OBVIOUS
  <2>2. queue[cur] = <<>>
    BY <1>1, <1>2, <2>1 DEF LockFacts, OneCall
  <2> QED
    BY <1>1, <1>4, <2>1, <2>2 DEF UndoneOf, BookFacts
<1>7. req.op = "setGoal" /\ call'[c].phase = "entered" => req.goal.depot \in file.depots \cup {All}
  BY <1>1, <1>4 DEF Prechecked
<1> QED
  BY <1>1, <1>2, <1>3, <1>4, <1>5, <1>6, <1>7, QuietBook

LEMMA ExportBook ==
  ASSUME Typed, LockFacts, BookFacts, NEW c \in Calls, Export(c)
  PROVE  BookFacts'
<1>1. /\ c \in Busy /\ call[c].phase = "export" /\ Others(c) /\ call'[c] # Idle /\ call'[c].phase = "queued"
      /\ call'[c].req = call[c].req /\ UNCHANGED <<use, file, ram, cur, kept>>
      /\ call'[c].prev = ram[call[c].inc] /\ Holds(c)
  BY ExportMoves, BusyFits DEF Typed, Holds, Turns
<1>2. ~ Alone
  BY <1>1, BusyLocked DEF Typed
<1>3. call[c].req.op = "restore"
  BY <1>1 DEF Typed, Carries
<1>4. cur \in 1 .. Len(ram) /\ call[c].inc = cur /\ NoneSaving
  BY <1>1, Holder DEF Holds
<1>5. call'[c].prev = file
  BY <1>1, <1>4 DEF BookFacts, SameBook
<1>6. CarriedOf(call'[c], file, ram'[cur'])
  BY <1>1 DEF CarriedOf
<1>7. SameBook'
  BY <1>1, StillSameBook DEF Busy
<1> QED
  BY <1>1, <1>2, <1>3, <1>5, <1>6, <1>7, QuietBook

LEMMA RefuseBook ==
  ASSUME Typed, LockFacts, BookFacts, NEW c \in Calls, Refuse(c)
  PROVE  BookFacts'
<1>1. /\ c \in Busy /\ call[c].phase \in {"entered", "queued"} /\ Others(c) /\ call'[c] = Idle
      /\ Writes(call[c].inc, [ram[call[c].inc] EXCEPT !.goals = RefusedGoals(ram[call[c].inc], call[c].req)])
      /\ UNCHANGED <<use, file, cur, kept>> /\ Holds(c) /\ ram[call[c].inc] \in Book
      /\ ~ StructureAccepted(ram[call[c].inc], call[c].req)
      /\ call[c].req \in use.requests /\ use \in Traffic
  BY RefuseMoves, BusyFits DEF Typed, Holds, Ends
<1>2. /\ cur \in 1 .. Len(ram) /\ call[c].inc = cur /\ NoneSaving
      /\ \A d \in Busy : d # c => call[d].phase \notin InLock
  BY <1>1, Holder DEF Holds
<1>3. ram[cur] = file /\ Sane(file)
  BY <1>2 DEF SameBook, BookFacts
<1>4. ram'[cur] = file
  BY <1>1, <1>2, <1>3, RefusesNothing DEF Writes
<1>5. SameBook'
  BY <1>1, <1>4 DEF SameBook
<1>6. Alone => \A d \in Busy : d = c
  BY <1>1, BusyLocked DEF Typed
<1> QED
  BY <1>1, <1>2, <1>5, <1>6, QuietBook

LEMMA ValidateBook ==
  ASSUME Typed, LockFacts, BookFacts, NEW c \in Calls, Validate(c)
  PROVE  BookFacts'
<1>1. /\ c \in Busy /\ call[c].phase \in {"entered", "queued"} /\ Others(c)
      /\ call'[c] # Idle /\ call'[c].phase = "checked" /\ call'[c].req = call[c].req
      /\ call'[c].next = [ram[call[c].inc] EXCEPT !.entries = Rewritten(ram[call[c].inc], call[c].req)]
      /\ EditAccepted(ram[call[c].inc], call[c].req)
      /\ UNCHANGED <<use, file, ram, cur, kept>> /\ Holds(c)
  BY ValidateMoves, BusyFits DEF Typed, Holds, Turns
<1>2. cur \in 1 .. Len(ram) /\ call[c].inc = cur /\ NoneSaving
  BY <1>1, Holder DEF Holds
<1>3. ram[cur] = file
  BY <1>2 DEF SameBook, BookFacts
<1>4. call[c].req.op # "restore"
  BY <1>1, EditOps
<1>5. CarriedOf(call'[c], file, ram'[cur'])
  BY <1>1, <1>2, <1>3, <1>4 DEF CarriedOf, Done
<1>6. SameBook' /\ (Alone => \A d \in Busy : d = c)
  BY <1>1, <1>3, BusyLocked DEF SameBook, Typed
<1> QED
  BY <1>1, <1>4, <1>5, <1>6, QuietBook

LEMMA ChangeBook ==
  ASSUME Typed, LockFacts, BookFacts, NEW c \in Calls, Change(c)
  PROVE  BookFacts'
<1>1. /\ c \in Busy /\ call[c].phase = "checked" /\ Others(c)
      /\ call'[c] # Idle /\ call'[c].phase = "saving" /\ call'[c].req = call[c].req
      /\ Writes(call[c].inc, [ram[call[c].inc] EXCEPT !.entries = call[c].next.entries])
      /\ UNCHANGED <<use, file, cur, kept>> /\ ram[call[c].inc] \in Book
  BY ChangeMoves, BusyFits DEF Typed, Turns
<1>2. /\ cur \in 1 .. Len(ram) /\ call[c].inc = cur /\ NoneSaving
      /\ \A d \in Busy : d # c => call[d].phase \notin InLock
  BY <1>1, InLockHolds DEF InLock
<1>3. ram[cur] = file /\ file \in Book
  BY <1>1, <1>2 DEF SameBook, BookFacts
<1>4. /\ call[c].req.op \in {"add", "import", "update", "delete"}
      /\ EditAccepted(file, call[c].req) /\ call[c].next = Done(file, call[c].req)
  BY <1>1 DEF Typed, Carries, BookFacts, Carried, CarriedOf
<1>5. Done(file, call[c].req) = [file EXCEPT !.entries = Rewritten(file, call[c].req)]
  BY <1>4 DEF Done
<1>6. ram'[cur] = Done(file, call[c].req)
  BY <1>1, <1>2, <1>3, <1>4, <1>5 DEF Writes, Book
<1>7. CarriedOf(call'[c], file, ram'[cur'])
  BY <1>1, <1>4, <1>6 DEF CarriedOf, Accepted
<1>8. SameBook' /\ (Alone => \A d \in Busy : d = c)
  BY <1>1, BusyLocked DEF SameBook, NoneSaving, NoneIn, Busy, Typed
<1> QED
  BY <1>1, <1>2, <1>4, <1>7, <1>8, QuietBook

LEMMA RestructureBook ==
  ASSUME Typed, Orderly(use), LockFacts, BookFacts, NEW c \in Calls, Restructure(c)
  PROVE  BookFacts'
<1>1. /\ c \in Busy /\ call[c].phase \in {"entered", "queued"} /\ Others(c)
      /\ call'[c] # Idle /\ call'[c].phase = "saving" /\ call'[c].req = call[c].req
      /\ Writes(call[c].inc, Restructured(ram[call[c].inc], call[c].req))
      /\ StructureAccepted(ram[call[c].inc], call[c].req)
      /\ UNCHANGED <<use, file, cur, kept>> /\ Holds(c)
      /\ call[c].req \in use.requests /\ use \in Traffic
  BY RestructureMoves, BusyFits DEF Typed, Holds, Turns
<1>2. /\ cur \in 1 .. Len(ram) /\ call[c].inc = cur /\ NoneSaving
      /\ \A d \in Busy : d # c => call[d].phase \notin InLock
  BY <1>1, Holder DEF Holds
<1>3. ram[cur] = file
  BY <1>2 DEF SameBook, BookFacts
<1>4. call[c].req.op \in Structures /\ StructureAccepted(file, call[c].req)
  BY <1>1, <1>2, <1>3, StructureOps
<1>5. Done(file, call[c].req) = Restructured(file, call[c].req)
  BY <1>4, EditOps DEF Done, Structures
<1>6. CarriedOf(call'[c], file, ram'[cur']) /\ call[c].req.op # "restore"
  BY <1>1, <1>2, <1>3, <1>4, <1>5 DEF CarriedOf, Accepted, Writes, Structures
<1>7. SameBook' /\ (Alone => \A d \in Busy : d = c)
  BY <1>1, BusyLocked DEF SameBook, NoneSaving, NoneIn, Busy, Typed
<1>8. call[c].req.op = "setGoal" => call[c].req.goal.depot \in file.depots \cup {All}
  <2>1. SUFFICES ASSUME call[c].req.op = "setGoal"
                 PROVE  call[c].req.goal.depot \in file.depots \cup {All}
    OBVIOUS
  <2>2. Alone
    BY <1>1, <2>1 DEF Orderly, Alone
  <2>3. call[c].phase = "entered"
    BY <1>1, <2>2, BusyLocked DEF Typed
  <2> QED
    BY <1>1, <2>1, <2>3 DEF BookFacts, GoalChecked
<1> QED
  BY <1>1, <1>2, <1>6, <1>7, <1>8, QuietBook

LEMMA ReplaceBook ==
  ASSUME Typed, LockFacts, BookFacts, NEW c \in Calls, Replace(c)
  PROVE  BookFacts'
<1>1. /\ c \in Busy /\ call[c].phase \in {"entered", "queued", "undo"} /\ Others(c) /\ call[c].req.op = "restore"
      /\ call'[c] # Idle /\ call'[c].phase \in {"saving", "undoing"} /\ call'[c].req = call[c].req
      /\ call'[c].phase = "undoing" <=> call[c].phase = "undo"
      /\ call'[c].prev = call[c].prev
      /\ UNCHANGED <<use, file, cur, kept>> /\ Holds(c)
  BY ReplaceMoves, BusyFits DEF Typed, Holds, Turns, Same
<1>2. /\ cur \in 1 .. Len(ram) /\ call[c].inc = cur
      /\ \A d \in Busy : d # c => call[d].phase \notin InLock
  BY <1>1, Holder DEF Holds
<1>3. SameBook' /\ (Alone => \A d \in Busy : d = c)
  BY <1>1, BusyLocked DEF SameBook, NoneSaving, NoneIn, Busy, Typed
<1>4. call[c].phase # "undo" => call[c].prev.tax = file.tax
  BY <1>1 DEF BookFacts, TaxKept
<1>5. CarriedOf(call'[c], file, ram'[cur'])
  <2>1. CASE call[c].phase = "undo"
    <3>1. ram'[cur] = Normalize(call[c].prev)
      BY <1>2, <2>1, ReplaceMoves DEF Typed, Writes
    <3> QED
      BY <1>1, <2>1, <3>1 DEF CarriedOf
  <2>2. CASE call[c].phase # "undo"
    <3>1. ram'[cur] = Normalize(Restored(call[c].prev, call[c].req.book))
      BY <1>2, <2>2, ReplaceMoves DEF Typed, Writes
    <3>2. Restored(call[c].prev, call[c].req.book) = Restored(file, call[c].req.book)
      BY <1>4, <2>2 DEF Restored
    <3> QED
      BY <1>1, <2>2, <3>1, <3>2 DEF CarriedOf, Accepted, Done
  <2> QED
    BY <2>1, <2>2
<1>6. Alone => UndoneOf(call'[c], file)
  <2>1. SUFFICES ASSUME Alone PROVE UndoneOf(call'[c], file)
    OBVIOUS
  <2>2. UndoneOf(call[c], file) /\ call[c].phase \in {"entered", "undo"}
    BY <1>1, <2>1, BusyLocked DEF BookFacts, Undone, Typed
  <2> QED
    BY <1>1, <2>2 DEF UndoneOf
<1> QED
  BY <1>1, <1>2, <1>3, <1>4, <1>5, <1>6, QuietBook

LEMMA SaveBook ==
  ASSUME Typed, Orderly(use), LockFacts, BookFacts, NEW c \in Calls, Save(c)
  PROVE  BookFacts'
<1> DEFINE req == call[c].req
<1>1. /\ c \in Busy /\ call[c].phase \in {"saving", "undoing"} /\ Others(c)
      /\ call'[c] # Idle => /\ call'[c].phase \in {"history", "reload"} /\ call'[c].req = req
                            /\ call'[c].prev = call[c].prev
      /\ call'[c] # Idle /\ req.op = "restore" => call[c].phase = "saving" /\ call'[c].phase = "history"
      /\ call[c].phase = "saving" /\ req.op = "restore" => call'[c] # Idle /\ call'[c].phase = "history"
      /\ UNCHANGED <<use, ram, cur>>
      /\ req \in use.requests /\ use \in Traffic /\ file \in Book /\ ram[cur] \in Book
      /\ cur \in 1 .. Len(ram) /\ call[c].inc = cur
      /\ \A d \in Busy : d # c => call[d].phase \notin InLock
      /\ file' = ram[cur] /\ kept' = KeptAfter(req, ram[cur])
  BY SaveLeaves
<1>3. SameBook'
  BY <1>1 DEF SameBook
<1>4. \A d \in Calls : call'[d] # Idle => /\ d \in Busy /\ call'[d].req = call[d].req
                                          /\ call'[d].phase \notin InLock
                                          /\ d # c => call'[d] = call[d]
  BY <1>1 DEF Others, Busy, InLock
<1>5. CarriedOf(call[c], file, ram[cur]) /\ Sane(file)
  BY <1>1 DEF BookFacts, Carried
<1>6. Alone => \A d \in Busy : d = c
  BY <1>1, BusyLocked DEF Typed
<1>7. call[c].phase = "undoing" => Alone /\ req.op = "restore" /\ UndoneOf(call[c], file) /\ call[c].prev \in Book
  BY <1>1, BusyLocked DEF Typed, Carries, BookFacts, Undone
<1>8. /\ Sane(file')
      /\ call[c].phase = "saving" /\ req.op # "setTax" => file'.tax = file.tax
  <2>1. CASE call[c].phase = "undoing"
    BY <1>1, <1>5, <1>7, <2>1, SaneNormalized DEF CarriedOf, UndoneOf
  <2>2. CASE call[c].phase = "saving"
    <3>1. Accepted(file, req) /\ file' = Done(file, req)
      BY <1>1, <1>5, <2>2 DEF CarriedOf
    <3>2. req.op = "dropDepot" => req.depot # Main
      BY <1>1 DEF Typed, Carries
    <3>3. req.op = "setGoal" => req.goal.depot \in file.depots \cup {All}
      BY <1>1, <2>2 DEF BookFacts, GoalChecked
    <3> QED
      BY <1>1, <1>5, <3>1, <3>2, <3>3, DoneFits
  <2> QED
    BY <1>1, <2>1, <2>2
<1>9. Carried'
  BY <1>4 DEF Carried, CarriedOf, Busy, InLock
<1>10. TaxKept'
  <2>1. SUFFICES ASSUME NEW d \in Calls, call'[d] # Idle, call'[d].req.op = "restore",
                        call'[d].phase \in {"entered", "queued", "saving"}
                 PROVE  call'[d].prev.tax = file'.tax
    BY DEF TaxKept, Busy
  <2>2. d \in Busy /\ d # c /\ call'[d] = call[d] /\ ~ Alone
    BY <1>1, <1>4, <1>6, <2>1
  <2>3. call[d].prev.tax = file.tax
    BY <2>1, <2>2 DEF BookFacts, TaxKept
  <2>4. call[d].req \in use.requests
    BY <2>2, BusyFits DEF Typed, Busy
  <2>5. req.op # "setTax"
    BY <1>1, <2>1, <2>2, <2>4 DEF Orderly, Alone
  <2> QED
    BY <1>1, <1>7, <1>8, <2>2, <2>3, <2>5
<1>11. Undone'
  <2>1. SUFFICES ASSUME Alone, call'[c] # Idle, req.op = "restore"
                 PROVE  UndoneOf(call'[c], file')
    BY <1>1, <1>4, <1>6 DEF Undone, Alone, Busy
  <2>2. call[c].phase = "saving" /\ call'[c].phase = "history" /\ call'[c].prev = call[c].prev /\ call'[c].req = req
    BY <1>1, <2>1
  <2>3. UndoneOf(call[c], file) /\ call[c].prev = file
    BY <1>1, <2>1, <2>2 DEF BookFacts, Undone, UndoneOf
  <2>4. file' = Normalize(Restored(call[c].prev, req.book))
    BY <1>1, <1>5, <2>1, <2>2, <2>3 DEF CarriedOf, Done
  <2> QED
    BY <2>2, <2>3, <2>4 DEF UndoneOf
<1>12. GoalChecked'
  <2>1. SUFFICES ASSUME NEW d \in Calls, call'[d] # Idle, call'[d].req.op = "setGoal",
                        call'[d].phase \in {"entered", "saving"}
                 PROVE  FALSE
    BY DEF GoalChecked, Busy
  <2> QED
    BY <1>4, <2>1 DEF InLock
<1> QED
  BY <1>3, <1>8, <1>9, <1>10, <1>11, <1>12 DEF BookFacts

LEMMA HistoryBook ==
  ASSUME Typed, LockFacts, BookFacts, NEW c \in Calls, History(c)
  PROVE  BookFacts'
<1>1. /\ c \in Busy /\ call[c].phase = "history" /\ Others(c) /\ UNCHANGED <<use, file, ram, cur>>
      /\ call'[c] # Idle => /\ call'[c].phase = "undo" /\ call'[c].req = call[c].req
                            /\ call'[c].prev = call[c].prev
  BY HistoryMoves, BusyFits DEF Typed, Turns, Same, Ends
<1>2. SameBook' /\ (Alone => \A d \in Busy : d = c)
  BY <1>1, StillSameBook, BusyLocked DEF Typed
<1>3. call'[c] # Idle => CarriedOf(call'[c], file, ram'[cur'])
  BY <1>1 DEF CarriedOf
<1>4. call'[c] # Idle /\ Alone /\ call'[c].req.op = "restore" => UndoneOf(call'[c], file)
  BY <1>1 DEF BookFacts, Undone, UndoneOf
<1> QED
  BY <1>1, <1>2, <1>3, <1>4, QuietBook

LEMMA UnloadBook ==
  ASSUME Typed, LockFacts, BookFacts, NEW c \in Calls, Unload(c) \/ Publish(c)
  PROVE  BookFacts'
<1>1. /\ c \in Busy /\ call[c].phase \in {"reload", "publishing"} /\ Others(c) /\ UNCHANGED <<use, file, ram, kept>>
      /\ call'[c] # Idle => call'[c].phase = "loading" /\ call'[c].req = call[c].req
  BY UnloadMoves, PublishMoves, BusyFits DEF Typed, Turns, Ends
<1>2. \A d \in Busy : d = c
  BY <1>1, BusyLocked DEF Typed
<1>3. SameBook'
  <2>1. CASE Unload(c)
    BY <2>1, UnloadMoves DEF SameBook, Typed
  <2>2. CASE Publish(c)
    BY <1>1, <2>2, PublishMoves DEF SameBook, Typed, LockFacts, Current
  <2> QED
    BY <2>1, <2>2
<1>4. call[c].req.op # "restore"
  BY <1>1 DEF Typed, Carries
<1>5. call'[c] # Idle => CarriedOf(call'[c], file, ram'[cur'])
  BY <1>1 DEF CarriedOf
<1> QED
  BY <1>1, <1>2, <1>3, <1>4, <1>5, QuietBook

LEMMA LoadBook ==
  ASSUME Typed, LockFacts, BookFacts, NEW c \in Calls, Load(c)
  PROVE  BookFacts'
<1>1. /\ c \in Busy /\ call[c].phase = "loading" /\ Others(c) /\ UNCHANGED <<use, cur, kept>>
      /\ call'[c] # Idle /\ call'[c].phase = "publishing" /\ call'[c].req = call[c].req
      /\ file' = Normalize(file)
  BY LoadMoves, BusyFits DEF Typed, Turns
<1>2. \A d \in Calls : call'[d] # Idle => d = c
  BY <1>1, BusyLocked DEF Typed, Others, Busy
<1>3. cur' = 0 /\ call[c].req.op # "restore"
  BY <1>1 DEF Typed, Carries, LockFacts, Current
<1>4. Sane(file')
  BY <1>1, SaneNormalized DEF BookFacts, Typed, Shape
<1> QED
  BY <1>1, <1>2, <1>3, <1>4 DEF BookFacts, SameBook, Carried, CarriedOf, TaxKept, Undone, GoalChecked, Busy

LEMMA RestartBook ==
  ASSUME Typed, BookFacts, Restart
  PROVE  BookFacts'
<1>1. Busy' = {} /\ file' = Normalize(file) /\ cur' = 1 /\ ram'[1] = file'
  BY RestartMoves DEF Busy, Typed
<1>2. Sane(file')
  BY <1>1, SaneNormalized DEF BookFacts, Typed, Shape
<1> QED
  BY <1>1, <1>2 DEF BookFacts, SameBook, Carried, TaxKept, Undone, GoalChecked

LEMMA StepBook ==
  ASSUME Typed, Orderly(use), LockFacts, BookFacts, [Next]_vars
  PROVE  BookFacts'
<1>1. ASSUME NEW c \in Calls, \/ \E req \in use.requests : Start(c, req)
                              \/ Export(c) \/ Refuse(c) \/ Validate(c) \/ Change(c) \/ Restructure(c)
                              \/ Replace(c) \/ Save(c) \/ History(c)
                              \/ Unload(c) \/ Load(c) \/ Publish(c)
      PROVE  BookFacts'
  BY <1>1, StartBook, ExportBook, RefuseBook, ValidateBook, ChangeBook, RestructureBook,
     ReplaceBook, SaveBook, HistoryBook, UnloadBook, LoadBook
<1>2. CASE UNCHANGED vars
  BY <1>2 DEF vars, BookFacts, SameBook, NoneSaving, NoneIn, Carried, TaxKept, Undone, Alone, GoalChecked, Busy
<1> QED
  BY <1>1, <1>2, RestartBook DEF Next

OrderlyInv == CalmInv /\ Orderly(use) /\ BookFacts

LEMMA InitOrderly ==
  ASSUME OrderlyTraffic, Init
  PROVE  OrderlyInv
<1>1. CalmTraffic
  BY DEF OrderlyTraffic, CalmTraffic, Orderly, Calm
<1>2. CalmInv /\ Orderly(use)
  BY <1>1, InitCalm DEF Init, OrderlyTraffic
<1>3. Busy = {} /\ ram[1] = file /\ cur = 1
  BY DEF Init, Busy
<1>4. Sane(file)
  <2>1. PICK b \in FirstBooks : file = Normalize(b)
    BY DEF Init
  <2>2. b \in Book /\ b.goals \subseteq GoalsThere
    BY <2>1, LedgerAssumption DEF LedgerAssumption, GoalsThere
  <2> QED
    BY <2>1, <2>2, KnownNormalized
<1> QED
  BY <1>2, <1>3, <1>4 DEF OrderlyInv, BookFacts, SameBook, Carried, TaxKept, Undone, GoalChecked

LEMMA UseStays ==
  ASSUME [Next]_vars
  PROVE  use' = use
  BY DEF Next, vars, Start, Export, Refuse, Validate, Change, Restructure, Replace, Save, History,
         Unload, Load, Publish, Restart

LEMMA StepOrderly ==
  ASSUME OrderlyInv, [Next]_vars
  PROVE  OrderlyInv'
<1>1. Orderly(use)'
  BY UseStays DEF OrderlyInv, Orderly, Calm
<1> QED
  BY <1>1, StepCalm, StepBook DEF OrderlyInv, CalmInv

-----------------------------------------------------------------------------
(* The stored book changes as AtomicLedger says *)

\* A restore that fails does not show while it is not undone.
Failing(t) == t # Idle /\ t.req.op = "restore" /\ t.req.fails /\ t.phase \in Undoing

LEMMA OneFails ==
  \A c \in Calls : (\A d \in Calls : Failing(call[d]) => d = c)
                   => Stored = IF Failing(call[c]) THEN call[c].prev ELSE file
<1> SUFFICES ASSUME NEW c \in Calls, \A d \in Calls : Failing(call[d]) => d = c
             PROVE  Stored = IF Failing(call[c]) THEN call[c].prev ELSE file
  OBVIOUS
<1> DEFINE failing == {d \in Busy : call[d].req.op = "restore" /\ call[d].req.fails
                                    /\ call[d].phase \in {"history", "undo", "undoing"}}
<1>1. failing = {d \in Calls : Failing(call[d])}
  BY DEF Failing, Busy, Undoing
<1>2. Stored = IF failing = {} THEN file ELSE call[CHOOSE d \in failing : TRUE].prev
  BY DEF Stored
<1> HIDE DEF failing
<1>3. CASE Failing(call[c])
  <2>1. failing = {c}
    BY <1>1, <1>3
  <2>2. (CHOOSE d \in failing : TRUE) = c
    BY <2>1
  <2> QED
    BY <1>2, <1>3, <2>1, <2>2
<1>4. CASE ~ Failing(call[c])
  BY <1>1, <1>2, <1>4
<1> QED
  BY <1>3, <1>4

LEMMA OneFailsThen ==
  \A c \in Calls : (\A d \in Calls : Failing(call'[d]) => d = c)
                   => Stored' = IF Failing(call'[c]) THEN call'[c].prev ELSE file'
<1>1. (\A c \in Calls : (\A d \in Calls : Failing(call[d]) => d = c)
                   => Stored = IF Failing(call[c]) THEN call[c].prev ELSE file)'
  BY OneFails, PTL
<1> QED
  BY <1>1 DEF Failing

\* A failing restore is alone.
LEMMA FailsAlone ==
  ASSUME Typed, Calm(use), NEW c \in Calls, Failing(call[c])
  PROVE  Alone /\ c \in Busy
  BY BusyFits DEF Typed, Failing, Calm, Alone

LEMMA StoredNow ==
  ASSUME CalmInv, NEW c \in Calls, Others(c), Alone => \A d \in Busy : d = c
  PROVE  /\ Stored = IF Failing(call[c]) THEN call[c].prev ELSE file
         /\ Stored' = IF Failing(call'[c]) THEN call'[c].prev ELSE file'
<1>1. \A d \in Calls : Failing(call[d]) => d = c
  BY FailsAlone DEF CalmInv
<1>2. \A d \in Calls : Failing(call'[d]) => d = c
  BY <1>1 DEF Others
<1> QED
  BY <1>1, <1>2, OneFails, OneFailsThen

LEMMA SameDeficit ==
  ASSUME NEW B, NEW d
  PROVE  AL!Deficit(B, d) = Deficit(B, d)
  BY DEF AL!Deficit, Deficit, AL!ShortBy, ShortBy, AL!RowsOf, RowsOf, AL!Expand, Expand,
         AL!EntryRow, EntryRow, AL!FeeRow, FeeRow, AL!Before, Before,
         AL!Max, Max, AL!Total, Total, AL!Amounts, Amounts, AL!MapThenSumSet, MapThenSumSet, AL!MapThenFoldSet, MapThenFoldSet

LEMMA SameRehomed ==
  ASSUME NEW b
  PROVE  AL!Rehomed(b) = Normalize(b)
  BY DEF AL!Rehomed, Normalize

\* Each operation that is carried out is one of AtomicLedger.
LEMMA EditIsAtomic ==
  ASSUME NEW u \in Traffic, NEW req \in u.requests, Stored \in Book, Distinct(Stored.entries),
         EditAccepted(Stored, req), Stored' = Done(Stored, req)
  PROVE  AL!Next
<1> DEFINE f == Stored
           new == Rewritten(f, req)
           Offered == (UNION {r.entries : r \in {s \in Requests : s.op \in {"add", "import"}}})
                      \cup {r.entry : r \in {s \in Requests : s.op = "update"}}
<1>1. /\ req.op \in {"add", "import", "update", "delete"} /\ req \in Requests
      /\ Stored' = [f EXCEPT !.entries = new]
  BY EditOps DEF Done, Requests
<1>2. AL!Rewrite(new)
  <2>1. ~ Worsened(f, new)
    BY DEF EditAccepted
  <2>2. ~ AL!Grows(f, new)
    BY <2>1, SameDeficit DEF Worsened, AL!Grows
  <2> QED
    BY <1>1, <2>2 DEF AL!Rewrite
<1>3. CASE req.op \in {"add", "import"}
  <2>1. PICK S \in SUBSET req.entries : new = f.entries \cup S
    BY <1>3 DEF Rewritten
  <2>2. S \in SUBSET Offered
    BY <1>1, <1>3, <2>1
  <2> QED
    BY <1>2, <2>1, <2>2 DEF AL!Next, AL!Add
<1>4. CASE req.op = "update"
  <2>1. PICK old \in f.entries : old.id = req.entry.id
    BY <1>4 DEF EditAccepted, IdsOf
  <2>2. new = (f.entries \ {old}) \cup {req.entry}
    BY <1>4, <2>1 DEF Rewritten, Distinct
  <2>3. req.entry \in Offered
    BY <1>1, <1>4
  <2> QED
    BY <1>2, <2>1, <2>2, <2>3 DEF AL!Next, AL!Update
<1>5. CASE req.op = "delete"
  <2>1. PICK old \in f.entries : old.id = req.id
    BY <1>5 DEF EditAccepted, IdsOf
  <2>2. new = f.entries \ {old}
    BY <1>5, <2>1 DEF Rewritten, Distinct
  <2> QED
    BY <1>2, <2>1, <2>2 DEF AL!Next, AL!Delete
<1> QED
  BY <1>1, <1>3, <1>4, <1>5

LEMMA StructureIsAtomic ==
  ASSUME NEW u \in Traffic, NEW req \in u.requests, Stored \in Book, Sane(Stored),
         StructureAccepted(Stored, req), Stored' = Done(Stored, req),
         req.op = "dropDepot" => req.depot # Main
  PROVE  AL!Next
<1> DEFINE f == Stored
<1>1. req.op \in Structures /\ req \in Requests /\ Stored' = Restructured(f, req)
  BY StructureOps, EditOps DEF Done, Structures, Requests
<1>2. CASE req.op = "addDepot"
  <2>1. Stored' = [f EXCEPT !.depots = @ \cup {req.depot}]
    BY <1>1, <1>2 DEF Restructured
  <2>2. req.depot \in Depots \ f.depots
    BY <1>2, RequestFits DEF StructureAccepted
  <2> QED
    BY <2>1, <2>2 DEF AL!Next, AL!AddDepot
<1>3. CASE req.op = "dropDepot"
  <2>1. Stored' = [f EXCEPT !.depots = @ \ {req.depot}, !.goals = {g \in @ : g.depot # req.depot}]
    BY <1>1, <1>3 DEF Restructured
  <2>2. req.depot \in f.depots \ {Main} /\ \A e \in f.entries : e.depot # req.depot
    BY <1>3 DEF StructureAccepted
  <2> QED
    BY <2>1, <2>2 DEF AL!Next, AL!DropDepot
<1>4. CASE req.op \in {"addGoal", "setGoal", "dropGoal"}
  <2>1. req.op \in {"addGoal", "setGoal"} => req.goal \in KnownGoals
    BY <1>1 DEF KnownGoals, GoalsThere
  <2>2. f.goals \subseteq KnownGoals
    BY DEF Sane
  <2>3. PICK G : G \subseteq KnownGoals /\ Stored' = [f EXCEPT !.goals = G]
    <3>1. CASE req.op = "addGoal"
      BY <1>1, <2>1, <2>2, <3>1 DEF Restructured
    <3>2. CASE req.op = "setGoal"
      BY <1>1, <2>1, <2>2, <3>2 DEF Restructured
    <3>3. CASE req.op = "dropGoal"
      BY <1>1, <2>2, <3>3 DEF Restructured
    <3> QED
      BY <1>4, <3>1, <3>2, <3>3
  <2> QED
    BY <2>3 DEF AL!Next, AL!SetGoals, KnownGoals
<1>5. CASE req.op = "setTax"
  <2>1. req.tax \in Settings
    BY <1>5, RequestFits DEF Request
  <2>2. Stored' = [f EXCEPT !.tax = req.tax]
    BY <1>1, <1>5 DEF Restructured
  <2> QED
    BY <2>1, <2>2 DEF AL!Next, AL!SetTax
<1>6. CASE req.op = "clear"
  <2>1. Stored' = [f EXCEPT !.entries = {}]
    BY <1>1, <1>6 DEF Restructured
  <2> QED
    BY <2>1 DEF AL!Next, AL!Clear
<1> QED
  BY <1>1, <1>2, <1>3, <1>4, <1>5, <1>6 DEF Structures

LEMMA RestoreIsAtomic ==
  ASSUME NEW u \in Traffic, NEW req \in u.requests, req.op = "restore",
         Stored' = Normalize(Restored(Stored, req.book))
  PROVE  AL!Next
<1>1. req.book \in BackupsThere
  BY DEF BackupsThere, Requests
<1>2. Stored' = AL!Rehomed([req.book EXCEPT !.tax = Stored.tax])
  BY SameRehomed DEF Restored
<1> QED
  BY <1>1, <1>2 DEF AL!Next, AL!Restore

LEMMA RehomeIsAtomic ==
  ASSUME Stored' = Normalize(Stored)
  PROVE  AL!Next
  BY SameRehomed DEF AL!Next

LEMMA QuietIsStutter ==
  ASSUME OrderlyInv, NEW c \in Calls, Others(c), Alone => \A d \in Busy : d = c, file' = file,
         Failing(call'[c]) <=> Failing(call[c]),
         Failing(call[c]) => call'[c].prev = call[c].prev
  PROVE  Stored' = Stored
  BY StoredNow DEF OrderlyInv

LEMMA SaveIsAtomic ==
  ASSUME OrderlyInv, OrderlyInv', NEW c \in Calls, Save(c)
  PROVE  AL!Next \/ Stored' = Stored
<1> DEFINE req == call[c].req
<1>1. /\ c \in Busy /\ call[c].phase \in {"saving", "undoing"} /\ Others(c)
      /\ call'[c] # Idle => /\ call'[c].phase \in {"history", "reload"} /\ call'[c].req = req
                            /\ call'[c].prev = call[c].prev
      /\ call'[c] # Idle /\ req.op = "restore" => call[c].phase = "saving" /\ call'[c].phase = "history"
      /\ call[c].phase = "saving" /\ req.op = "restore" => call'[c] # Idle /\ call'[c].phase = "history"
      /\ UNCHANGED <<use, ram, cur>>
      /\ req \in use.requests /\ use \in Traffic /\ file \in Book /\ ram[cur] \in Book
      /\ cur \in 1 .. Len(ram) /\ call[c].inc = cur
      /\ \A d \in Busy : d # c => call[d].phase \notin InLock
      /\ file' = ram[cur] /\ kept' = KeptAfter(req, ram[cur])
  BY SaveLeaves DEF OrderlyInv, CalmInv
<1>3. Alone => \A d \in Busy : d = c
  BY <1>1, BusyLocked DEF OrderlyInv, CalmInv, Typed
<1>4. /\ Stored = IF Failing(call[c]) THEN call[c].prev ELSE file
      /\ Stored' = IF Failing(call'[c]) THEN call'[c].prev ELSE file'
  BY <1>1, <1>3, StoredNow DEF OrderlyInv
<1>5. CarriedOf(call[c], file, ram[cur]) /\ Sane(file) /\ Distinct(file.entries)
  BY <1>1 DEF OrderlyInv, CalmInv, BookFacts, Carried, EntryFacts, NewIds
<1>6. CASE call[c].phase = "undoing"
  <2>1. req.op = "restore" /\ Alone
    BY <1>1, <1>6, BusyLocked DEF OrderlyInv, CalmInv, Typed, Carries
  <2>2. req.fails
    BY <1>1, <1>6, <2>1 DEF OrderlyInv, CalmInv, EntryFacts, PutBack, PutBackOf
  <2>3. Stored = call[c].prev
    BY <1>1, <1>4, <1>6, <2>1, <2>2 DEF Failing, Undoing, Busy
  <2>4. call'[c] = Idle
    BY <1>1, <1>6, <2>1
  <2>5. Stored' = Normalize(call[c].prev)
    BY <1>1, <1>4, <1>5, <1>6, <2>4 DEF Failing, CarriedOf
  <2> QED
    BY <2>3, <2>5, RehomeIsAtomic
<1>7. CASE call[c].phase = "saving"
  <2>1. Accepted(file, req) /\ file' = Done(file, req)
    BY <1>1, <1>5, <1>7 DEF CarriedOf
  <2>2. Stored = file
    BY <1>4, <1>7 DEF Failing, Undoing
  <2>3. CASE req.op = "restore"
    <3>1. call'[c] # Idle /\ call'[c].phase = "history" /\ call'[c].req = req /\ call'[c].prev = call[c].prev
      BY <1>1, <1>7, <2>3
    <3>2. CASE req.fails
      <4>1. Failing(call'[c])
        BY <2>3, <3>1, <3>2 DEF Failing, Undoing
      <4>2. Alone
        BY <1>1, <2>3, <3>2 DEF OrderlyInv, CalmInv, Calm, Alone
      <4>3. call[c].prev = file
        BY <1>1, <1>7, <2>3, <4>2 DEF OrderlyInv, BookFacts, Undone, UndoneOf
      <4> QED
        BY <1>4, <2>2, <3>1, <4>1, <4>3
    <3>3. CASE ~ req.fails
      <4>1. Stored' = file'
        BY <1>4, <3>1, <3>3 DEF Failing
      <4>2. Stored' = Normalize(Restored(Stored, req.book))
        BY <2>1, <2>2, <2>3, <4>1 DEF Done
      <4> QED
        BY <1>1, <2>3, <4>2, RestoreIsAtomic
    <3> QED
      BY <3>2, <3>3
  <2>4. CASE req.op # "restore"
    <3>1. Stored' = Done(Stored, req)
      BY <1>1, <1>4, <2>1, <2>2, <2>4 DEF Failing
    <3>2. CASE EditAccepted(file, req)
      BY <1>1, <1>5, <2>2, <3>1, <3>2, EditIsAtomic
    <3>3. CASE StructureAccepted(file, req)
      <4>1. req.op = "dropDepot" => req.depot # Main
        BY <1>1 DEF OrderlyInv, CalmInv, Typed, Carries
      <4> QED
        BY <1>1, <1>5, <2>2, <3>1, <3>3, <4>1, StructureIsAtomic
    <3> QED
      BY <2>1, <2>4, <3>2, <3>3 DEF Accepted
  <2> QED
    BY <2>3, <2>4
<1> QED
  BY <1>1, <1>6, <1>7

LEMMA RestartIsAtomic ==
  ASSUME OrderlyInv, Restart
  PROVE  AL!Next
<1>1. file' = Normalize(file) /\ (\A d \in Calls : call'[d] = Idle) /\ file \in Book
  <2>1. Shape /\ file \in Book
    BY DEF OrderlyInv, CalmInv, Typed, Shape
  <2> QED
    BY <2>1, RestartMoves
<1>2. Stored' = file'
  <2>1. (Stored = file)' \/ \E c \in Calls : TRUE
    BY DEF Stored, Busy
  <2>2. CASE \E c \in Calls : TRUE
    BY <1>1, <2>2, OneFailsThen DEF Failing
  <2>3. CASE (Stored = file)'
    BY <2>3
  <2> QED
    BY <2>1, <2>2, <2>3
<1>3. CASE \A d \in Calls : ~ Failing(call[d])
  <2>1. Stored = file
    <3>1. CASE \E c \in Calls : TRUE
      BY <1>3, <3>1, OneFails
    <3>2. CASE Calls = {}
      BY <3>2 DEF Stored, Busy
    <3> QED
      BY <3>1, <3>2
  <2> QED
    BY <1>1, <1>2, <2>1, RehomeIsAtomic
<1>4. ASSUME NEW c \in Calls, Failing(call[c])
      PROVE  AL!Next
  <2>1. /\ Alone /\ c \in Busy /\ \A d \in Busy : d = c
        /\ call[c].req \in use.requests /\ use \in Traffic /\ call[c].req.op = "restore" /\ call[c].phase \in Undoing
    <3>1. Alone /\ c \in Busy
      BY <1>4, FailsAlone DEF OrderlyInv, CalmInv
    <3>2. \A d \in Busy : d = c
      BY <3>1, BusyLocked DEF OrderlyInv, CalmInv, Typed
    <3> QED
      BY <1>4, <3>1, <3>2, BusyFits DEF Failing, OrderlyInv, CalmInv, Typed
  <2>2. \A d \in Calls : Failing(call[d]) => d = c
    BY <2>1 DEF Failing, Busy
  <2>3. Stored = call[c].prev
    BY <1>4, <2>2, OneFails
  <2>4. file = Normalize(Restored(call[c].prev, call[c].req.book)) /\ call[c].prev \in Book
    BY <2>1 DEF OrderlyInv, BookFacts, Undone, UndoneOf, Undoing, CalmInv, Typed, Carries
  <2>5. call[c].req.book \in Book
    BY <2>1, RequestFits
  <2>6. file' = Normalize(Restored(call[c].prev, call[c].req.book))
    BY <1>1, <2>4, <2>5, RestoredFits, NormalizeTwice
  <2> QED
    BY <1>2, <2>1, <2>3, <2>6, RestoreIsAtomic
<1> QED
  BY <1>3, <1>4

\* Every step but a save, a load and a restart leaves the stored book alone.
LEMMA OtherStepsStutter ==
  ASSUME OrderlyInv, NEW c \in Calls,
         \/ \E req \in use.requests : Start(c, req)
         \/ Export(c) \/ Refuse(c) \/ Validate(c) \/ Change(c) \/ Restructure(c)
         \/ Replace(c) \/ History(c) \/ Unload(c) \/ Publish(c)
  PROVE  Stored' = Stored
<1>1. Typed /\ Shape /\ Carries /\ LockFacts
  BY DEF OrderlyInv, CalmInv, Typed
<1>2. CASE \E req \in use.requests : Start(c, req)
  <2>1. PICK req \in use.requests : Start(c, req)
    BY <1>2
  <2>2. /\ call[c] = Idle /\ Others(c) /\ file' = file /\ (Alone => Busy = {})
        /\ call'[c].phase \in {"entered", "queued", "export"}
    BY <1>1, <2>1, StartMoves, AloneMeansNone DEF Alone
  <2> QED
    BY <2>2, QuietIsStutter DEF Failing, Undoing
<1>3. CASE Export(c) \/ Refuse(c) \/ Validate(c) \/ Change(c) \/ Restructure(c)
           \/ Replace(c) \/ History(c) \/ Unload(c) \/ Publish(c)
  <2>1. /\ c \in Busy /\ Others(c) /\ file' = file
        /\ Failing(call'[c]) <=> Failing(call[c])
        /\ Failing(call[c]) => call'[c].prev = call[c].prev
    <3>1. CASE Export(c)
      BY <1>1, <3>1, ExportMoves, BusyFits DEF Failing, Undoing, Turns, Holds
    <3>2. CASE Refuse(c)
      BY <1>1, <3>2, RefuseMoves, BusyFits DEF Failing, Undoing, Ends, Holds
    <3>3. CASE Validate(c)
      BY <1>1, <3>3, ValidateMoves, BusyFits DEF Failing, Undoing, Turns, Holds
    <3>4. CASE Change(c)
      BY <1>1, <3>4, ChangeMoves, BusyFits DEF Failing, Undoing, Turns
    <3>5. CASE Restructure(c)
      BY <1>1, <3>5, RestructureMoves, BusyFits DEF Failing, Undoing, Turns, Holds
    <3>6. CASE Replace(c)
      BY <1>1, <3>6, ReplaceMoves, BusyFits DEF Failing, Undoing, Turns, Same, Holds
    <3>7. CASE History(c)
      BY <1>1, <3>7, HistoryMoves, BusyFits DEF Failing, Undoing, Turns, Ends, Same
    <3>8. CASE Unload(c)
      BY <1>1, <3>8, UnloadMoves, BusyFits DEF Failing, Undoing, Turns, Same
    <3>9. CASE Publish(c)
      BY <1>1, <3>9, PublishMoves, BusyFits DEF Failing, Undoing, Ends
    <3> QED
      BY <1>3, <3>1, <3>2, <3>3, <3>4, <3>5, <3>6, <3>7, <3>8, <3>9
  <2>2. Alone => \A d \in Busy : d = c
    BY <1>1, <2>1, BusyLocked
  <2> QED
    BY <2>1, <2>2, QuietIsStutter
<1> QED
  BY <1>2, <1>3

LEMMA LoadIsAtomic ==
  ASSUME OrderlyInv, NEW c \in Calls, Load(c)
  PROVE  AL!Next
<1>1. Typed /\ Shape /\ Carries /\ LockFacts
  BY DEF OrderlyInv, CalmInv, Typed
<1>2. /\ c \in Busy /\ call[c].phase = "loading" /\ Others(c) /\ file' = Normalize(file)
      /\ call'[c].phase = "publishing"
  BY <1>1, LoadMoves, BusyFits DEF Turns
<1>3. Alone => \A d \in Busy : d = c
  BY <1>1, <1>2, BusyLocked
<1>4. Stored = file /\ Stored' = file'
  BY <1>2, <1>3, StoredNow DEF OrderlyInv, Failing, Undoing
<1> QED
  BY <1>2, <1>4, RehomeIsAtomic

LEMMA StepIsAtomic ==
  ASSUME OrderlyInv, OrderlyInv', [Next]_vars
  PROVE  AL!Next \/ Stored' = Stored
<1>1. CASE UNCHANGED vars
  BY <1>1 DEF vars, Stored, Busy
<1> QED
  BY <1>1, OtherStepsStutter, SaveIsAtomic, LoadIsAtomic, RestartIsAtomic DEF Next

\* ImplementsAtomicLedger: every step changes the stored book by one whole
\* operation of AtomicLedger, or not at all: edits validated against the very
\* book they are written over.
THEOREM WholeOperations == OrderlyTraffic => (Spec => ImplementsAtomicLedger)
<1> SUFFICES ASSUME OrderlyTraffic PROVE Spec => ImplementsAtomicLedger
  OBVIOUS
<1>1. Init => OrderlyInv
  BY InitOrderly
<1>2. OrderlyInv /\ [Next]_vars => OrderlyInv'
  BY StepOrderly
<1>3. OrderlyInv /\ OrderlyInv' /\ [Next]_vars => [AL!Next]_Stored
  BY StepIsAtomic
<1>4. Init => AL!Init
  <2>1. SUFFICES ASSUME Init PROVE Main \in Stored.depots
    BY DEF AL!Init
  <2>2. Stored = file
    BY <2>1 DEF Init, Stored, Busy
  <2> QED
    BY <1>1, <2>1, <2>2 DEF OrderlyInv, BookFacts, Sane
<1> QED
  BY <1>1, <1>2, <1>3, <1>4, PTL DEF Spec, ImplementsAtomicLedger, AL!Spec

-----------------------------------------------------------------------------
(* Nothing becomes oversold *)

\* A ledger has finitely many rows.
LEMMA RowsAreFinite ==
  ASSUME NEW B \in Ledgers
  PROVE  IsFiniteSet(Expand(B)) /\ \A r \in Expand(B) : r.amount \in Nat
<1> DEFINE E == {EntryRow(e) : e \in B}
           C == {b \in B : b.fee > 0}
           F == {FeeRow(e) : e \in C}
           em == [e \in B |-> EntryRow(e)]
           fm == [e \in C |-> FeeRow(e)]
<1>1. em \in [B -> E] /\ \A z \in E : \E e \in B : em[e] = z
  OBVIOUS
<1>2. fm \in [C -> F] /\ \A z \in F : \E e \in C : fm[e] = z
  OBVIOUS
<1>3. IsFiniteSet(B) /\ IsFiniteSet(C) /\ B \in SUBSET Entry
  BY FS_Subset DEF Ledgers
<1>4. \A r \in E \cup F : r.amount \in Nat
  BY <1>3 DEF EntryRow, FeeRow, Entry
<1>5. Expand(B) = E \cup F
  BY DEF Expand
<1> HIDE DEF em, fm, E, F, C
<1>6. em \in Surjection(B, E) /\ fm \in Surjection(C, F)
  BY <1>1, <1>2 DEF Surjection
<1>7. IsFiniteSet(E) /\ IsFiniteSet(F)
  BY <1>3, <1>6, FS_Surjection
<1>8. IsFiniteSet(E \cup F)
  BY <1>7, FS_Union
<1> QED
  BY <1>4, <1>5, <1>8

\* What a row leaves short is a whole number.
LEMMA ShortIsInt ==
  ASSUME NEW B \in Ledgers, NEW d, NEW q
  PROVE  ShortBy(B, d, q) \in Int
<1> DEFINE until == {s \in RowsOf(B, d) : s = q \/ Before(s, q)}
           A == {s \in until : s.out}
           C == {s \in until : ~ s.out}
<1>1. ShortBy(B, d, q) = Total(Amounts(A)) - Total(Amounts(C))
  BY DEF ShortBy
<1>2. A \in SUBSET Expand(B) /\ C \in SUBSET Expand(B)
  BY DEF RowsOf
<1> HIDE DEF A, C, until
<1>3. ASSUME NEW S \in SUBSET Expand(B) PROVE Total(Amounts(S)) \in Nat
  <2>1. IsFiniteSet(S)
    BY RowsAreFinite, FS_Subset
  <2>2. Amounts(S) \in [S -> Nat]
    BY RowsAreFinite DEF Amounts
  <2> QED
    BY <2>1, <2>2, TotalIsNat
<1> QED
  BY <1>1, <1>2, <1>3

\* What a depot is oversold by is a natural number, none without entries there.
LEMMA DeficitIsNat ==
  ASSUME NEW B \in Ledgers, NEW d
  PROVE  /\ Deficit(B, d) \in Nat
         /\ (\A e \in B : e.depot # d) => Deficit(B, d) = 0
<1> DEFINE R == RowsOf(B, d)
           T == {ShortBy(B, d, r) : r \in R}
           f == [r \in R |-> ShortBy(B, d, r)]
           M == {0} \cup T
<1>1. Deficit(B, d) = Max(M)
  BY DEF Deficit
<1>2. f \in [R -> T] /\ \A t \in T : \E r \in R : f[r] = t
  OBVIOUS
<1>3. T \in SUBSET Int
  BY ShortIsInt
<1>4. IsFiniteSet(R)
  BY RowsAreFinite, FS_Subset DEF RowsOf
<1>5. (\A e \in B : e.depot # d) => T = {}
  <2> SUFFICES ASSUME \A e \in B : e.depot # d PROVE R = {}
    OBVIOUS
  <2> QED
    BY DEF RowsOf, Expand, EntryRow, FeeRow
<1> HIDE DEF R, T, f
<1>6. IsFiniteSet(T)
  <2>1. f \in Surjection(R, T)
    BY <1>2 DEF Surjection
  <2> QED
    BY <1>4, <2>1, FS_Surjection
<1>7. IsFiniteSet(M) /\ M \in SUBSET Int /\ 0 \in M
  <2>1. IsFiniteSet({0})
    BY FS_Singleton
  <2>2. IsFiniteSet({0} \cup T)
    BY <1>6, <2>1, FS_Union
  <2> QED
    BY <1>3, <2>2
<1>8. T = {} => M = {0}
  OBVIOUS
<1> HIDE DEF M
<1>9. Max(M) \in M /\ \A y \in M : y <= Max(M)
  BY <1>7, GreatestOf
<1>10. Max(M) \in Int /\ 0 <= Max(M)
  BY <1>7, <1>9
<1> QED
  BY <1>1, <1>5, <1>8, <1>9, <1>10

\* The backups there are leave nothing oversold once they are restored.
SoundBackups == \A b \in BackupsThere : Sound(Normalize(b))

\* A book that has a depot for each entry is normalised already, but for the main depot.
LEMMA HomedStays ==
  ASSUME NEW b \in Book, Homed(b), Main \in b.depots
  PROVE  Normalize(b).entries = b.entries /\ Normalize(b).depots = b.depots
<1>1. b.entries = {e : e \in b.entries}
  OBVIOUS
<1>2. {IF e.depot \in b.depots THEN e ELSE [e EXCEPT !.depot = Main] : e \in b.entries} = b.entries
  BY DEF Homed
<1>3. b.depots \cup {Main} = b.depots
  OBVIOUS
<1> QED
  BY <1>2, <1>3 DEF Normalize, Book

\* The stored book is a book.
LEMMA StoredFits ==
  OrderlyInv => Stored \in Book /\ Main \in Stored.depots
<1> SUFFICES ASSUME OrderlyInv PROVE Stored \in Book /\ Main \in Stored.depots
  OBVIOUS
<1> DEFINE failing == {d \in Busy : call[d].req.op = "restore" /\ call[d].req.fails
                                    /\ call[d].phase \in {"history", "undo", "undoing"}}
<1>1. Typed /\ Calm(use) /\ BookFacts /\ Shape /\ Carries
  BY DEF OrderlyInv, CalmInv, Typed
<1>2. Stored = IF failing = {} THEN file ELSE call[CHOOSE d \in failing : TRUE].prev
  BY DEF Stored
<1>3. file \in Book /\ Main \in file.depots
  BY <1>1 DEF Shape, BookFacts, Sane
<1>4. ASSUME NEW d \in failing PROVE call[d].prev \in Book /\ Main \in call[d].prev.depots
  <2>1. d \in Calls /\ d \in Busy /\ Failing(call[d])
    BY <1>4 DEF Busy, Failing, Undoing
  <2>2. Alone
    BY <1>1, <2>1, FailsAlone
  <2>3. call[d].req.op = "restore" /\ call[d].phase \in {"history", "undo", "undoing"}
    BY <1>4
  <2>4. call[d].prev \in Book
    BY <1>1, <2>1, <2>3 DEF Carries
  <2>5. Sane(call[d].prev)
    BY <1>1, <2>1, <2>2, <2>3 DEF BookFacts, Undone, UndoneOf
  <2> QED
    BY <2>4, <2>5 DEF Sane
<1> HIDE DEF failing
<1>5. failing # {} => (CHOOSE d \in failing : TRUE) \in failing
  OBVIOUS
<1> QED
  BY <1>2, <1>3, <1>4, <1>5

\* The book that is stored next is one.
LEMMA StoredFitsThen ==
  OrderlyInv' => Stored' \in Book
<1>1. (OrderlyInv => Stored \in Book /\ Main \in Stored.depots)'
  BY StoredFits, PTL
<1> QED
  BY <1>1

\* An operation of AtomicLedger, but for a restore of something oversold.
LEMMA OperationKeepsSound ==
  ASSUME SoundBackups, AL!Next, Stored \in Book, Stored' \in Book, Main \in Stored.depots,
         Sound(Stored), Homed(Stored)
  PROVE  Sound(Stored')
<1> DEFINE b == Stored
           n == Stored'
<1>1. b.entries \in Ledgers /\ n.entries \in Ledgers
  BY DEF Book
<1>2. ASSUME NEW entries, AL!Rewrite(entries) PROVE Sound(n)
  <2>1. n.entries = entries /\ n.depots = b.depots /\ ~ AL!Grows(b, entries)
    BY <1>2 DEF AL!Rewrite, Book
  <2>2. ASSUME NEW d \in b.depots PROVE Deficit(entries, d) = 0
    <3>1. ~ (Deficit(entries, d) > Deficit(b.entries, d))
      BY <2>1, SameDeficit DEF AL!Grows
    <3>2. Deficit(b.entries, d) = 0
      BY DEF Sound
    <3>3. Deficit(entries, d) \in Nat
      BY <1>1, <2>1, DeficitIsNat
    <3> QED
      BY <3>1, <3>2, <3>3
  <2> QED
    BY <2>1, <2>2 DEF Sound
<1>3. CASE AL!Add \/ AL!Update \/ AL!Delete
  BY <1>2, <1>3 DEF AL!Add, AL!Update, AL!Delete
<1>4. CASE AL!Clear
  <2>1. n.entries = {}
    BY <1>4 DEF AL!Clear, Book
  <2> QED
    BY <1>1, <2>1, DeficitIsNat DEF Sound
<1>5. CASE AL!AddDepot
  <2>1. PICK d \in Depots \ b.depots : n = [b EXCEPT !.depots = @ \cup {d}]
    BY <1>5 DEF AL!AddDepot
  <2>2. n.entries = b.entries /\ n.depots = b.depots \cup {d}
    BY <2>1 DEF Book
  <2>3. Deficit(b.entries, d) = 0
    BY <1>1, <2>1, DeficitIsNat DEF Homed
  <2> QED
    BY <2>2, <2>3 DEF Sound
<1>6. CASE AL!DropDepot
  <2>1. n.entries = b.entries /\ n.depots \in SUBSET b.depots
    BY <1>6 DEF AL!DropDepot, Book
  <2> QED
    BY <2>1 DEF Sound
<1>7. CASE AL!SetGoals \/ AL!SetTax
  <2>1. n.entries = b.entries /\ n.depots = b.depots
    BY <1>7 DEF AL!SetGoals, AL!SetTax, Book
  <2> QED
    BY <2>1 DEF Sound
<1>8. CASE AL!Restore
  <2>1. PICK k \in BackupsThere : n = AL!Rehomed([k EXCEPT !.tax = b.tax])
    BY <1>8 DEF AL!Restore
  <2>2. k \in Book
    BY RequestFits DEF BackupsThere, Requests
  <2>3. /\ Normalize([k EXCEPT !.tax = b.tax]).entries = Normalize(k).entries
        /\ Normalize([k EXCEPT !.tax = b.tax]).depots = Normalize(k).depots
    BY <2>2 DEF Normalize, Book
  <2>4. Sound(Normalize(k))
    BY <2>1 DEF SoundBackups
  <2> QED
    BY <2>1, <2>3, <2>4, SameRehomed DEF Sound
<1>9. CASE n = AL!Rehomed(b)
  <2>1. n.entries = b.entries /\ n.depots = b.depots
    BY <1>9, SameRehomed, HomedStays
  <2> QED
    BY <2>1 DEF Sound
<1> QED
  BY <1>3, <1>4, <1>5, <1>6, <1>7, <1>8, <1>9 DEF AL!Next

\* A book with nothing oversold stays so, through every edit, restore, reload and
\* restart, while each entry has its depot (_oversold_increased): where every
\* operation is whole, as in WholeOperations, and no backup is oversold.
THEOREM NothingBecomesOversold ==
    OrderlyTraffic /\ SoundBackups => (Spec => SoundStaysSound)
<1> SUFFICES ASSUME OrderlyTraffic, SoundBackups PROVE Spec => SoundStaysSound
  OBVIOUS
<1>1. Init => OrderlyInv
  BY InitOrderly
<1>2. OrderlyInv /\ [Next]_vars => OrderlyInv'
  BY StepOrderly
<1>3. OrderlyInv /\ OrderlyInv' /\ [Next]_vars
      => [Sound(Stored) /\ Homed(Stored) => Sound(Stored')]_vars
  <2> SUFFICES ASSUME OrderlyInv, OrderlyInv', [Next]_vars, Sound(Stored), Homed(Stored)
               PROVE  Sound(Stored')
    OBVIOUS
  <2>1. Stored \in Book /\ Main \in Stored.depots /\ Stored' \in Book
    BY StoredFits, StoredFitsThen
  <2>2. CASE AL!Next
    BY <2>1, <2>2, OperationKeepsSound
  <2>3. CASE Stored' = Stored
    BY <2>3
  <2> QED
    BY <2>2, <2>3, StepIsAtomic
<1> QED
  BY <1>1, <1>2, <1>3, PTL DEF Spec, SoundStaysSound

=============================================================================
