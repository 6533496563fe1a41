--------------------------- MODULE SentinelProofs ---------------------------
(***************************************************************************)
(* Theorems about the poller, for any number of watched addresses, targets, *)
(* managers, transactions, refusals, edits and stops: what a row counts as  *)
(* seen is accounted for (SeenIsAccounted), a movement is notified at most  *)
(* once per address it touches (AlertedOnce), and an outage is told once    *)
(* (OutageToldOnce).                                                        *)
(***************************************************************************)
EXTENDS Sentinel, FiniteSetTheorems, TLAPS

-----------------------------------------------------------------------------
(* Shapes: the runtime data, and what a poll carries at each await.         *)

RowRecs == [base : BOOLEAN, sig : SUBSET Txs, known : SUBSET Txs, bal : SUBSET Txs]
IsData(d) ==
  /\ DOMAIN d = {"rows", "log", "streak", "outage", "src"}
  /\ DOMAIN d.rows \subseteq Addrs
  /\ \A a \in DOMAIN d.rows : d.rows[a] \in RowRecs
IsPoll(p) == DOMAIN p = {"at", "orphan", "data", "sigs", "todo", "detail", "recon",
                         "new", "acts", "moved"}

Early == {"status", "detail", "reconcile", "history"}
ByRow == {"rows", "txs"}

\* What a poll that works on the data d has in hand.
Hands(p, d) ==
  /\ p.at \in {"idle", "failed", "close", "raw"} \cup Early => p.acts = {}
  /\ p.at # "raw" => p.new = {}
  /\ p.at \in ByRow /\ p.todo = DOMAIN d.rows => p.at = "rows" /\ p.acts = {}
  /\ p.detail \subseteq DOMAIN d.rows /\ p.todo \subseteq DOMAIN d.rows
  /\ DOMAIN p.sigs = Addrs /\ \A a \in Addrs : p.sigs[a] \subseteq History(a)
Carries(p, d) ==
  /\ p.at = "idle" => p = Idle
  /\ p.orphan => IsData(p.data)
  /\ Hands(p, d)

Shape ==
  /\ tip \in 0 .. MaxTip
  /\ live \in Managers
  /\ IsData(disk)
  /\ DOMAIN mem = Managers /\ DOMAIN poll = Managers
  /\ \A k \in Managers : IsData(mem[k]) /\ IsPoll(poll[k]) /\ poll[k].orphan \in BOOLEAN
  /\ \A k \in Managers : Carries(poll[k], DataOf(k))

SeenInv == Shape /\ SeenIsAccounted

-----------------------------------------------------------------------------
(* What may still be reported.                                              *)

\* Transaction t may still be reported of address a, by a poll of the data d.
Open(d, a, t) ==
  \/ t \notin History(a)
  \/ a \in DOMAIN d.rows /\ d.rows[a].base /\ t \in Latest(a) \ d.rows[a].known
Moves(m, t) == Touches[t] \cap AddrsOf({m})
Closed(d, m, t) == {a \in Moves(m, t) : ~ Open(d, a, t)}

\* It is about to be notified.
Pending(p, m, t) ==
  <<m, t>> \in p.acts \/ \E x \in p.new : Owner[x[1]] = m /\ x[2] = t
\* Of n notifications sent, and one more if it is about to be.
Bounded(n, p, d, m, t) ==
  n + (IF Pending(p, m, t) THEN 1 ELSE 0) <= Cardinality(Closed(d, m, t))
Reporting(p) == p.at \in {"report", "close"} /\ p.moved

AlertShape ==
  /\ DOMAIN alerts = Monitors \X Txs
  /\ \A m \in Monitors, t \in Txs : alerts[<<m, t>>] \in Nat
AloneFacts ==
  /\ \A k \in Managers \ {live} : At(k, "idle")
  /\ ~ poll[live].orphan
  /\ poll[live].acts # {} => poll[live].moved
BoundFacts ==
  /\ \A m \in Monitors, t \in Txs :
        Bounded(alerts[<<m, t>>], poll[live], mem[live], m, t)
  /\ ~ Reporting(poll[live]) => \A m \in Monitors, t \in Txs :
        alerts[<<m, t>>] <= Cardinality(Closed(disk, m, t))
ToldInv == Shape /\ AlertShape /\ (~ redone => AloneFacts /\ BoundFacts)

-----------------------------------------------------------------------------
(* The chain: histories only grow, and what fell out of the window stays    *)
(* out.                                                                     *)

LEMMA HistoryFits ==
  ASSUME tip \in 0 .. MaxTip, NEW a
  PROVE  Latest(a) \subseteq History(a) /\ History(a) \subseteq Txs /\ IsFiniteSet(History(a))
<1>1. Latest(a) \subseteq History(a) /\ History(a) \subseteq Txs
  BY ChainAssumption DEF Latest, History, Txs
<1>2. IsFiniteSet(1 .. tip)
  BY FS_Interval
<1>3. IsFiniteSet(History(a))
  BY <1>2, FS_Subset DEF History
<1> QED
  BY <1>1, <1>3

LEMMA HistoryGrows ==
  ASSUME tip \in 0 .. MaxTip, tip' \in 0 .. MaxTip, tip' >= tip, NEW a
  PROVE  /\ History(a) \subseteq History(a)'
         /\ \A t \in History(a) \ Latest(a) : t \notin Latest(a)'
<1>1. History(a) \subseteq History(a)'
  BY DEF History
<1>2. ASSUME NEW t \in History(a), t \in Latest(a)' PROVE t \in Latest(a)
  <2> DEFINE Now == {u \in History(a) : u > t}
             Then == {u \in History(a)' : u > t}
  <2>1. Now \subseteq Then
    BY <1>1
  <2>2. IsFiniteSet(History(a)')
    <3>1. IsFiniteSet(1 .. tip')
      BY FS_Interval
    <3> QED
      BY <3>1, FS_Subset DEF History
  <2>3. IsFiniteSet(Then)
    BY <2>2, FS_Subset
  <2>4. IsFiniteSet(Now) /\ Cardinality(Now) <= Cardinality(Then)
    BY <2>1, <2>3, FS_Subset
  <2>5. Cardinality(Now) \in Nat /\ Cardinality(Then) \in Nat
    BY <2>3, <2>4, FS_CardinalityType
  <2>6. Cardinality(Then) < Window
    BY <1>2 DEF Latest
  <2>7. Cardinality(Now) < Window
    <3> HIDE DEF Now, Then
    <3> QED
      BY <2>4, <2>5, <2>6, ChainAssumption
  <2> QED
    BY <2>7 DEF Latest
<1> QED
  BY <1>1, <1>2

LEMMA HistoryStays ==
  ASSUME tip' = tip, NEW a
  PROVE  History(a)' = History(a) /\ Latest(a)' = Latest(a)
BY DEF History, Latest

-----------------------------------------------------------------------------
(* Shapes survive.                                                          *)

LEMMA IdleIsPoll == IsPoll(Idle) /\ Idle.orphan = FALSE
BY DEF Idle, IsPoll

LEMMA IdleCarries ==
  ASSUME NEW d
  PROVE  Carries(Idle, d)
BY DEF Carries, Hands, Idle, Early, ByRow

\* One poll moves on: it and the data of its manager change.
LEMMA MoveKeepsShape ==
  ASSUME Shape, NEW k \in Managers, NEW d, NEW p,
         DOMAIN mem' = Managers, mem'[k] = d, \A j \in Managers \ {k} : mem'[j] = mem[j],
         DOMAIN poll' = Managers, poll'[k] = p, \A j \in Managers \ {k} : poll'[j] = poll[j],
         IsData(d), IsPoll(p), p.orphan \in BOOLEAN,
         Carries(p, IF p.orphan THEN p.data ELSE d),
         tip' = tip, live' = live, IsData(disk')
  PROVE  Shape'
<1>3. \A q, e : Carries(q, e)' <=> Carries(q, e)
  BY HistoryStays DEF Carries, Hands, IsData
<1>4. ASSUME NEW j \in Managers PROVE Carries(poll[j], DataOf(j))'
  <2>1. CASE j = k
    BY <1>3, <2>1 DEF DataOf
  <2>2. CASE j # k
    <3>1. DataOf(j)' = DataOf(j) /\ poll'[j] = poll[j]
      BY <2>2 DEF DataOf
    <3> QED
      BY <3>1, <1>3 DEF Shape
  <2> QED
    BY <2>1, <2>2
<1> QED
  BY <1>4 DEF Shape

\* A poll moves on with the data it works on, its own or its manager's.
LEMMA WorkKeepsShape ==
  ASSUME Shape, NEW k \in Managers, NEW d, NEW p, WorkOn(k, d, p),
         IsData(d), IsPoll(p), p.orphan = poll[k].orphan, p.at # "idle", Hands(p, d),
         tip' = tip, live' = live, IsData(disk')
  PROVE  Shape'
<1> DEFINE q == [p EXCEPT !.data = d]
<1>1. CASE poll[k].orphan
  <2>1. poll' = [poll EXCEPT ![k] = q] /\ mem' = mem
    BY <1>1 DEF WorkOn
  <2>2. /\ IsPoll(q) /\ q.data = d
        /\ q.at = p.at /\ q.orphan = p.orphan /\ q.sigs = p.sigs /\ q.todo = p.todo
        /\ q.detail = p.detail /\ q.new = p.new /\ q.acts = p.acts
    BY DEF IsPoll
  <2>3. Hands(q, d)
    BY <2>2 DEF Hands
  <2>4. Carries(q, q.data)
    BY <2>2, <2>3 DEF Carries
  <2>5. IsData(mem[k]) /\ q.orphan \in BOOLEAN
    BY <2>2 DEF Shape
  <2>6. q.orphan /\ Carries(q, IF q.orphan THEN q.data ELSE mem[k])
    BY <1>1, <2>2, <2>4
  <2> HIDE DEF q
  <2>7. /\ DOMAIN mem' = Managers /\ mem'[k] = mem[k]
        /\ DOMAIN poll' = Managers /\ poll'[k] = q
        /\ \A j \in Managers \ {k} : mem'[j] = mem[j] /\ poll'[j] = poll[j]
    BY <2>1 DEF Shape
  <2> QED
    BY <2>2, <2>5, <2>6, <2>7, MoveKeepsShape
<1>2. CASE ~ poll[k].orphan
  <2>1. poll' = [poll EXCEPT ![k] = p] /\ mem' = [mem EXCEPT ![k] = d]
    BY <1>2 DEF WorkOn
  <2>2. Carries(p, d) /\ p.orphan \in BOOLEAN
    BY <1>2 DEF Carries, Shape
  <2> QED
    BY <1>2, <2>1, <2>2, MoveKeepsShape DEF Shape
<1> QED
  BY <1>1, <1>2

\* A poll moves on and leaves the data as they are.
LEMMA PollKeepsShape ==
  ASSUME Shape, NEW k \in Managers, NEW p, poll' = [poll EXCEPT ![k] = p],
         IsPoll(p), p.orphan = poll[k].orphan, p.data = poll[k].data,
         p.at # "idle", Hands(p, DataOf(k)), UNCHANGED <<tip, mem, live>>, IsData(disk')
  PROVE  Shape'
<1>2. Carries(poll[k], DataOf(k)) /\ poll[k].orphan \in BOOLEAN /\ IsData(mem[k])
  BY DEF Shape
<1>3. DataOf(k) = IF p.orphan THEN p.data ELSE mem[k]
  BY DEF DataOf
<1>4. Carries(p, IF p.orphan THEN p.data ELSE mem[k])
  BY <1>2, <1>3 DEF Carries
<1> QED
  BY <1>2, <1>4, MoveKeepsShape DEF Shape

LEMMA DataIsData ==
  ASSUME Shape, NEW k \in Managers
  PROVE  IsData(DataOf(k)) /\ IsPoll(poll[k]) /\ Hands(poll[k], DataOf(k))
BY DEF Shape, DataOf, Carries

\* New rows at the same addresses.
LEMMA RowsFit ==
  ASSUME NEW d, IsData(d), NEW f, DOMAIN f = DOMAIN d.rows,
         \A a \in DOMAIN f : f[a] \in RowRecs, NEW e, e = [d EXCEPT !.rows = f]
  PROVE  /\ IsData(e)
         /\ e.rows = f /\ e.log = d.log /\ e.src = d.src
         /\ e.streak = d.streak /\ e.outage = d.outage
<1>1. DOMAIN e = DOMAIN d /\ e.rows = f /\ e.log = d.log /\ e.src = d.src
      /\ e.streak = d.streak /\ e.outage = d.outage
  BY DEF IsData
<1> QED
  BY <1>1 DEF IsData

\* A new row at one address.
LEMMA RowFits ==
  ASSUME NEW d, IsData(d), NEW a, NEW r \in RowRecs
  PROVE  /\ IsData(With(d, a, r))
         /\ DOMAIN With(d, a, r).rows = DOMAIN d.rows
         /\ \A b \in DOMAIN d.rows : With(d, a, r).rows[b] = IF b = a THEN r ELSE d.rows[b]
         /\ With(d, a, r).log = d.log
<1> DEFINE f == [d.rows EXCEPT ![a] = r]
<1>1. With(d, a, r) = [d EXCEPT !.rows = f]
  BY DEF With, IsData
<1>2. DOMAIN f = DOMAIN d.rows /\ \A b \in DOMAIN f : f[b] = IF b = a THEN r ELSE d.rows[b]
  OBVIOUS
<1>3. \A b \in DOMAIN f : f[b] \in RowRecs
  BY <1>2 DEF IsData
<1> HIDE DEF f
<1> QED
  BY <1>1, <1>2, <1>3, RowsFit

LEMMA WorkDoes ==
  ASSUME Shape, NEW k \in Managers, NEW d, NEW p, WorkOn(k, d, p), IsPoll(p)
  PROVE  /\ \A j \in Managers \ {k} : mem'[j] = mem[j] /\ poll'[j] = poll[j]
         /\ mem'[k] = IF poll[k].orphan THEN mem[k] ELSE d
         /\ poll'[k].at = p.at /\ poll'[k].new = p.new /\ poll'[k].acts = p.acts
         /\ poll'[k].moved = p.moved /\ poll'[k].orphan = p.orphan
<1>1. CASE poll[k].orphan
  <2>1. poll'[k] = [p EXCEPT !.data = d]
    BY <1>1 DEF WorkOn, Shape
  <2> QED
    BY <1>1, <2>1 DEF WorkOn, Shape, IsPoll
<1>2. CASE ~ poll[k].orphan
  BY <1>2 DEF WorkOn, Shape
<1> QED
  BY <1>1, <1>2

-----------------------------------------------------------------------------
(* What each step of a poll does to the data of its manager.                *)

Fades(d, e) ==
  /\ DOMAIN e.rows = DOMAIN d.rows /\ e.log = d.log
  /\ \A a \in DOMAIN d.rows :
        /\ e.rows[a].base => d.rows[a].base
        /\ e.rows[a].known = d.rows[a].known /\ e.rows[a].sig = d.rows[a].sig

OthersStay(k) == \A j \in Managers \ {k} : mem'[j] = mem[j] /\ poll'[j] = poll[j]

\* A step that reads nothing new and reports nothing.
Quiet(k) ==
  /\ OthersStay(k) /\ Fades(mem[k], mem'[k])
  /\ poll'[k].acts = poll[k].acts /\ poll'[k].new = poll[k].new

LEMMA StartDoes ==
  ASSUME Shape, NEW k \in Managers, Start(k)
  PROVE  Shape' /\ Quiet(k) /\ ~ poll'[k].orphan /\ ~ poll'[k].moved /\ mem' = mem
<1> DEFINE p == [Idle EXCEPT !.at = IF mem[k].src = "electrum" THEN "status" ELSE "rows",
                             !.todo = DOMAIN mem[k].rows]
<1>1. /\ IsPoll(p) /\ p.at \in {"status", "rows"} /\ p.todo = DOMAIN mem[k].rows
      /\ p.orphan = FALSE /\ p.data = NoData /\ p.sigs = [a \in Addrs |-> {}]
      /\ p.detail = {} /\ p.new = {} /\ p.acts = {} /\ p.moved = FALSE
  BY DEF Idle, IsPoll
<1>2. poll[k] = Idle
  BY DEF Start, At, Shape, Carries
<1>3. /\ poll[k].acts = {} /\ poll[k].new = {} /\ poll[k].orphan = FALSE /\ poll[k].data = NoData
  BY <1>2 DEF Idle
<1>4. poll' = [poll EXCEPT ![k] = p] /\ UNCHANGED <<tip, mem, disk, live>>
  BY DEF Start
<1> HIDE DEF p
<1>5. Hands(p, DataOf(k))
  BY <1>1, <1>3 DEF Hands, DataOf, Early, ByRow
<1>6. IsData(disk')
  BY <1>4 DEF Shape
<1>7. Shape'
  BY <1>1, <1>3, <1>4, <1>5, <1>6, PollKeepsShape
<1>8. poll'[k] = p /\ OthersStay(k)
  BY <1>4 DEF Shape, OthersStay
<1> QED
  BY <1>1, <1>3, <1>4, <1>7, <1>8 DEF Quiet, Fades

LEMMA StatusDoes ==
  ASSUME Shape, NEW k \in Managers, Status(k)
  PROVE  /\ Shape' /\ Quiet(k) /\ mem' = mem
         /\ poll'[k].orphan = poll[k].orphan /\ poll'[k].moved = poll[k].moved
<1> DEFINE rows == DataOf(k).rows
           bare == {a \in poll[k].todo : ~rows[a].base}
           changed == {a \in poll[k].todo \ bare : History(a) # rows[a].sig}
<1>1. PICK batch \in SUBSET bare, due \in SUBSET (poll[k].todo \ (bare \cup changed)) :
        poll' = [poll EXCEPT ![k] = [@ EXCEPT
               !.at = "detail", !.todo = {}, !.sigs = [a \in Addrs |->
                  IF a \in changed \cup batch THEN History(a) ELSE {}],
               !.detail = changed \cup batch, !.recon = due]]
  BY DEF Status
<1> DEFINE S == changed \cup batch
           g == [a \in Addrs |-> IF a \in S THEN History(a) ELSE {}]
           p == [poll[k] EXCEPT !.at = "detail", !.todo = {}, !.sigs = g, !.detail = S, !.recon = due]
<1>2. S \subseteq poll[k].todo
  OBVIOUS
<1>3. DOMAIN g = Addrs /\ \A a \in Addrs : g[a] \subseteq History(a)
  OBVIOUS
<1>4. poll' = [poll EXCEPT ![k] = p] /\ UNCHANGED <<tip, mem, disk, live>>
  BY <1>1 DEF Status
<1> HIDE DEF g, S
<1>5. IsPoll(poll[k]) /\ Hands(poll[k], DataOf(k)) /\ poll[k].at = "status"
  BY DataIsData DEF Status, At
<1>6. /\ IsPoll(p) /\ p.at = "detail" /\ p.todo = {} /\ p.sigs = g /\ p.detail = S
      /\ p.orphan = poll[k].orphan /\ p.data = poll[k].data
      /\ p.new = poll[k].new /\ p.acts = poll[k].acts /\ p.moved = poll[k].moved
  BY <1>5 DEF IsPoll
<1> HIDE DEF p
<1>7. Hands(p, DataOf(k))
  BY <1>2, <1>3, <1>5, <1>6 DEF Hands, Early, ByRow
<1>8. IsData(disk')
  BY <1>4 DEF Shape
<1>9. Shape'
  BY <1>4, <1>6, <1>7, <1>8, PollKeepsShape
<1>10. poll'[k] = p /\ OthersStay(k)
  BY <1>4 DEF Shape, OthersStay
<1> QED
  BY <1>4, <1>6, <1>9, <1>10 DEF Quiet, Fades

\* What a step makes of the data it works on, its manager's rows show, unless
\* it works on its own.
LEMMA FadesFor ==
  ASSUME Shape, NEW k \in Managers, NEW d, Fades(DataOf(k), d),
         mem'[k] = IF poll[k].orphan THEN mem[k] ELSE d
  PROVE  Fades(mem[k], mem'[k])
BY DEF Fades, DataOf

LEMMA DetailDoes ==
  ASSUME Shape, NEW k \in Managers, Detail(k)
  PROVE  /\ Shape' /\ Quiet(k)
         /\ poll'[k].orphan = poll[k].orphan /\ poll'[k].moved = poll[k].moved
<1> DEFINE rows == DataOf(k).rows
<1>1. PICK bad \in SUBSET poll[k].detail :
        LET good == poll[k].detail \ bad
        IN WorkOn(k, [DataOf(k) EXCEPT !.rows = [a \in DOMAIN rows |->
                 IF a \in good THEN [rows[a] EXCEPT !.bal = History(a)] ELSE rows[a]]],
               [poll[k] EXCEPT !.at = "reconcile", !.detail = good])
  BY DEF Detail
<1> DEFINE good == poll[k].detail \ bad
           f == [a \in DOMAIN rows |-> IF a \in good THEN [rows[a] EXCEPT !.bal = History(a)] ELSE rows[a]]
           d == [DataOf(k) EXCEPT !.rows = f]
           p == [poll[k] EXCEPT !.at = "reconcile", !.detail = good]
<1>2. WorkOn(k, d, p)
  BY <1>1
<1>3. IsData(DataOf(k)) /\ IsPoll(poll[k]) /\ Hands(poll[k], DataOf(k)) /\ poll[k].at = "detail"
  BY DataIsData DEF Detail, At
<1>4. \A a \in DOMAIN f : /\ f[a] \in RowRecs
                          /\ f[a].base = rows[a].base /\ f[a].known = rows[a].known /\ f[a].sig = rows[a].sig
  <2> TAKE a \in DOMAIN f
  <2>1. rows[a] \in RowRecs /\ History(a) \subseteq Txs
    BY <1>3, HistoryFits DEF IsData, Shape
  <2>2. CASE a \in good
    BY <2>1, <2>2 DEF RowRecs
  <2>3. CASE a \notin good
    BY <2>1, <2>3 DEF RowRecs
  <2> QED
    BY <2>2, <2>3
<1>5. DOMAIN f = DOMAIN rows
  OBVIOUS
<1>6. /\ IsPoll(p) /\ p.at = "reconcile" /\ p.detail \subseteq poll[k].detail
      /\ p.orphan = poll[k].orphan /\ p.todo = poll[k].todo /\ p.sigs = poll[k].sigs
      /\ p.new = poll[k].new /\ p.acts = poll[k].acts /\ p.moved = poll[k].moved
  BY <1>3 DEF IsPoll
<1> HIDE DEF f, p
<1>7. IsData(d) /\ d.rows = f /\ d.log = DataOf(k).log
  BY <1>3, <1>4, <1>5, RowsFit
<1>8. Fades(DataOf(k), d)
  BY <1>4, <1>5, <1>7 DEF Fades
<1> HIDE DEF d
<1>9. Hands(p, d)
  BY <1>3, <1>5, <1>6, <1>7 DEF Hands, Early, ByRow
<1>10. IsData(disk') /\ tip' = tip /\ live' = live
  BY DEF Detail, Shape
<1>11. Shape'
  BY <1>2, <1>6, <1>7, <1>9, <1>10, WorkKeepsShape
<1>12. /\ OthersStay(k) /\ mem'[k] = (IF poll[k].orphan THEN mem[k] ELSE d)
       /\ poll'[k].new = p.new /\ poll'[k].acts = p.acts /\ poll'[k].moved = p.moved
       /\ poll'[k].orphan = p.orphan
  BY <1>2, <1>6, WorkDoes DEF OthersStay
<1>13. Fades(mem[k], mem'[k])
  BY <1>8, <1>12, FadesFor
<1> QED
  BY <1>6, <1>11, <1>12, <1>13 DEF Quiet

LEMMA ReconcileDoes ==
  ASSUME Shape, NEW k \in Managers, Reconcile(k)
  PROVE  /\ Shape' /\ Quiet(k)
         /\ poll'[k].orphan = poll[k].orphan /\ poll'[k].moved = poll[k].moved
<1> DEFINE rows == DataOf(k).rows
           f == [a \in DOMAIN rows |-> IF a \in poll[k].recon THEN Reconciled(rows[a], a) ELSE rows[a]]
           d == [DataOf(k) EXCEPT !.rows = f]
           p == [poll[k] EXCEPT !.recon = {}, !.at = IF poll[k].detail = {} THEN "close" ELSE "history"]
<1>2. WorkOn(k, d, p)
  BY DEF Reconcile
<1>3. IsData(DataOf(k)) /\ IsPoll(poll[k]) /\ Hands(poll[k], DataOf(k)) /\ poll[k].at = "reconcile"
  BY DataIsData DEF Reconcile, At
<1>4. \A a \in DOMAIN f : /\ f[a] \in RowRecs
                          /\ f[a].base => rows[a].base
                          /\ f[a].known = rows[a].known /\ f[a].sig = rows[a].sig
  <2> TAKE a \in DOMAIN f
  <2>1. rows[a] \in RowRecs /\ History(a) \subseteq Txs
    BY <1>3, HistoryFits DEF IsData, Shape
  <2>2. CASE a \in poll[k].recon /\ rows[a].bal # History(a)
    BY <2>1, <2>2 DEF RowRecs, Reconciled
  <2>3. CASE ~ (a \in poll[k].recon /\ rows[a].bal # History(a))
    BY <2>1, <2>3 DEF RowRecs, Reconciled
  <2> QED
    BY <2>2, <2>3
<1>5. DOMAIN f = DOMAIN rows
  OBVIOUS
<1>6. /\ IsPoll(p) /\ p.at \in {"close", "history"} /\ p.detail = poll[k].detail
      /\ p.orphan = poll[k].orphan /\ p.todo = poll[k].todo /\ p.sigs = poll[k].sigs
      /\ p.new = poll[k].new /\ p.acts = poll[k].acts /\ p.moved = poll[k].moved
  BY <1>3 DEF IsPoll
<1> HIDE DEF f, p
<1>7. IsData(d) /\ d.rows = f /\ d.log = DataOf(k).log
  BY <1>3, <1>4, <1>5, RowsFit
<1>8. Fades(DataOf(k), d)
  BY <1>4, <1>5, <1>7 DEF Fades
<1> HIDE DEF d
<1>9. Hands(p, d)
  BY <1>3, <1>5, <1>6, <1>7 DEF Hands, Early, ByRow
<1>10. IsData(disk') /\ tip' = tip /\ live' = live
  BY DEF Reconcile, Shape
<1>11. Shape'
  BY <1>2, <1>6, <1>7, <1>9, <1>10, WorkKeepsShape
<1>12. /\ OthersStay(k) /\ mem'[k] = (IF poll[k].orphan THEN mem[k] ELSE d)
       /\ poll'[k].new = p.new /\ poll'[k].acts = p.acts /\ poll'[k].moved = p.moved
       /\ poll'[k].orphan = p.orphan
  BY <1>2, <1>6, WorkDoes DEF OthersStay
<1>13. Fades(mem[k], mem'[k])
  BY <1>8, <1>12, FadesFor
<1> QED
  BY <1>6, <1>11, <1>12, <1>13 DEF Quiet

LEMMA RowsDoneDoes ==
  ASSUME Shape, NEW k \in Managers, RowsDone(k)
  PROVE  /\ Shape' /\ Quiet(k) /\ mem' = mem
         /\ poll'[k].orphan = poll[k].orphan /\ poll'[k].moved = poll[k].moved
<1> DEFINE p == [poll[k] EXCEPT !.at = IF poll[k].acts = {} THEN "close" ELSE "report"]
<1>1. poll' = [poll EXCEPT ![k] = p] /\ UNCHANGED <<tip, mem, disk, live>>
  BY DEF RowsDone
<1>2. IsPoll(poll[k]) /\ Hands(poll[k], DataOf(k)) /\ poll[k].at = "rows"
  BY DataIsData DEF RowsDone, At
<1>3. /\ IsPoll(p) /\ p.at \in {"close", "report"} /\ (p.at = "close" => p.acts = {})
      /\ p.orphan = poll[k].orphan /\ p.data = poll[k].data /\ p.todo = poll[k].todo
      /\ p.sigs = poll[k].sigs /\ p.detail = poll[k].detail
      /\ p.new = poll[k].new /\ p.acts = poll[k].acts /\ p.moved = poll[k].moved
  BY <1>2 DEF IsPoll
<1> HIDE DEF p
<1>4. Hands(p, DataOf(k))
  BY <1>2, <1>3 DEF Hands, Early, ByRow
<1>5. Shape'
  BY <1>1, <1>3, <1>4, PollKeepsShape DEF Shape
<1>6. poll'[k] = p /\ OthersStay(k)
  BY <1>1 DEF Shape, OthersStay
<1> QED
  BY <1>1, <1>3, <1>5, <1>6 DEF Quiet, Fades

LEMMA ReportDoes ==
  ASSUME Shape, NEW k \in Managers, Report(k)
  PROVE  /\ Shape' /\ OthersStay(k) /\ mem'[k].rows = mem[k].rows
         /\ \E x \in poll[k].acts :
              /\ poll'[k].acts = poll[k].acts \ {x} /\ mem'[k].log = mem[k].log \cup {x}
              /\ alerts' = [alerts EXCEPT ![x] = IF @ < AlertCap THEN @ + 1 ELSE @]
         /\ poll[k].new = {} /\ poll'[k].new = {} /\ poll'[k].at \in {"close", "report"}
         /\ poll'[k].orphan = poll[k].orphan /\ poll'[k].moved = poll[k].moved
<1>1. PICK x \in poll[k].acts :
       /\ poll' = [poll EXCEPT ![k].acts = @ \ {x},
                     ![k].at = IF poll[k].acts = {x} THEN "close" ELSE "report"]
       /\ mem' = [mem EXCEPT ![k].log = @ \cup {x}]
       /\ alerts' = [alerts EXCEPT ![x] = IF @ < AlertCap THEN @ + 1 ELSE @]
  BY DEF Report
<1> DEFINE d == [mem[k] EXCEPT !.log = mem[k].log \cup {x}]
           p == [poll[k] EXCEPT !.acts = poll[k].acts \ {x}, !.at = IF poll[k].acts = {x} THEN "close" ELSE "report"]
<1>2. /\ DOMAIN mem' = Managers /\ mem'[k] = d /\ DOMAIN poll' = Managers /\ poll'[k] = p
      /\ \A j \in Managers \ {k} : mem'[j] = mem[j] /\ poll'[j] = poll[j]
  <2>1. DOMAIN mem' = Managers
    BY <1>1 DEF Shape
  <2>2. mem'[k] = d
    BY <1>1 DEF Shape
  <2>3. poll'[k] = p
    BY <1>1 DEF Shape
  <2>4. DOMAIN poll' = Managers
    BY <1>1 DEF Shape
  <2>5. \A j \in Managers \ {k} : mem'[j] = mem[j]
    BY <1>1 DEF Shape
  <2>6. \A j \in Managers \ {k} : poll'[j] = poll[j]
    BY <1>1 DEF Shape
  <2> QED
    BY <2>1, <2>2, <2>3, <2>4, <2>5, <2>6
<1>3. IsData(mem[k]) /\ IsPoll(poll[k]) /\ Carries(poll[k], DataOf(k)) /\ poll[k].at = "report"
  BY DEF Report, At, Shape
<1>4. DOMAIN d = DOMAIN mem[k] /\ d.rows = mem[k].rows /\ d.log = mem[k].log \cup {x}
  BY <1>3 DEF IsData
<1>5. IsData(d)
  BY <1>3, <1>4 DEF IsData
<1>6. /\ IsPoll(p) /\ p.at \in {"close", "report"} /\ p.acts = poll[k].acts \ {x}
      /\ (p.at = "close" => p.acts = {})
      /\ p.orphan = poll[k].orphan /\ p.data = poll[k].data /\ p.todo = poll[k].todo
      /\ p.sigs = poll[k].sigs /\ p.detail = poll[k].detail /\ p.new = poll[k].new
      /\ p.moved = poll[k].moved
  BY <1>3 DEF IsPoll
<1> HIDE DEF d, p
<1>7. Carries(p, IF p.orphan THEN p.data ELSE d)
  BY <1>3, <1>4, <1>6 DEF Carries, Hands, Early, ByRow, DataOf
<1>9. tip' = tip /\ live' = live /\ IsData(disk') /\ p.orphan \in BOOLEAN
  BY <1>6 DEF Report, Shape
<1>10. Shape'
  BY <1>2, <1>5, <1>6, <1>7, <1>9, MoveKeepsShape
<1> QED
  BY <1>1, <1>2, <1>3, <1>4, <1>6, <1>10 DEF OthersStay, Carries, Hands

\* Data with another word about the source.
LEMMA HealthFits ==
  ASSUME NEW d, IsData(d), NEW e, DOMAIN e = DOMAIN d, e.rows = d.rows, e.log = d.log
  PROVE  IsData(e) /\ Fades(d, e)
BY DEF IsData, Fades

LEMMA CloseDoes ==
  ASSUME Shape, NEW k \in Managers, Close(k)
  PROVE  /\ Shape' /\ Quiet(k) /\ poll'[k] = Idle
         /\ disk' = mem'[k] \/ (disk' = disk /\ ~ poll[k].moved)
<1> DEFINE sound == [DataOf(k) EXCEPT !.streak = 0, !.outage = FALSE]
           d == IF poll[k].orphan THEN mem[k] ELSE sound
<1>1. IsData(mem[k]) /\ IsData(DataOf(k)) /\ Hands(poll[k], DataOf(k)) /\ poll[k].at = "close"
  BY DataIsData DEF Close, At, Shape
<1>2. /\ DOMAIN sound = DOMAIN DataOf(k) /\ sound.rows = DataOf(k).rows
      /\ sound.log = DataOf(k).log
  BY <1>1 DEF IsData
<1>3. IsData(sound) /\ Fades(DataOf(k), sound)
  BY <1>1, <1>2, HealthFits
<1>4. /\ DOMAIN mem' = Managers /\ mem'[k] = d /\ DOMAIN poll' = Managers /\ poll'[k] = Idle
      /\ \A j \in Managers \ {k} : mem'[j] = mem[j] /\ poll'[j] = poll[j]
  BY DEF Close, Shape
<1>5. /\ disk' = mem'[k] \/ (disk' = disk /\ ~ poll[k].moved)
      /\ tip' = tip /\ live' = live
  BY DEF Close
<1> HIDE DEF sound
<1>6. IsData(d)
  BY <1>1, <1>3
<1>7. Fades(mem[k], mem'[k])
  BY <1>3, <1>4, FadesFor
<1> HIDE DEF d
<1>8. Carries(Idle, IF Idle.orphan THEN Idle.data ELSE d) /\ IsPoll(Idle) /\ Idle.orphan \in BOOLEAN
  BY IdleCarries, IdleIsPoll
<1>9. IsData(disk')
  BY <1>4, <1>5, <1>6 DEF Shape
<1>10. Shape'
  BY <1>4, <1>5, <1>6, <1>8, <1>9, MoveKeepsShape
<1>11. poll[k].acts = {} /\ poll[k].new = {} /\ Idle.acts = {} /\ Idle.new = {}
  BY <1>1 DEF Hands, Early, Idle
<1> QED
  BY <1>4, <1>5, <1>7, <1>10, <1>11 DEF Quiet, OthersStay

LEMMA FailSavedDoes ==
  ASSUME Shape, NEW k \in Managers, FailSaved(k)
  PROVE  /\ Shape' /\ Quiet(k) /\ mem' = mem /\ poll'[k] = Idle
         /\ disk' = mem[k] \/ disk' = disk
<1>1. IsData(mem[k]) /\ Hands(poll[k], DataOf(k)) /\ poll[k].at = "failed"
  BY DataIsData DEF FailSaved, At, Shape
<1>2. /\ DOMAIN mem' = Managers /\ mem'[k] = mem[k] /\ DOMAIN poll' = Managers /\ poll'[k] = Idle
      /\ \A j \in Managers \ {k} : mem'[j] = mem[j] /\ poll'[j] = poll[j]
  BY DEF FailSaved, Shape
<1>3. /\ disk' = mem[k] \/ disk' = disk
      /\ tip' = tip /\ live' = live /\ mem' = mem
  BY DEF FailSaved
<1>4. Carries(Idle, IF Idle.orphan THEN Idle.data ELSE mem[k]) /\ IsPoll(Idle) /\ Idle.orphan \in BOOLEAN
  BY IdleCarries, IdleIsPoll
<1>5. IsData(disk')
  BY <1>1, <1>3 DEF Shape
<1>6. Shape'
  BY <1>1, <1>2, <1>3, <1>4, <1>5, MoveKeepsShape
<1>7. poll[k].acts = {} /\ poll[k].new = {} /\ Idle.acts = {} /\ Idle.new = {}
  BY <1>1 DEF Hands, Early, Idle
<1> QED
  BY <1>2, <1>3, <1>6, <1>7 DEF Quiet, OthersStay, Fades

LEMMA FailDoes ==
  ASSUME Shape, NEW k \in Managers, Fail(k)
  PROVE  /\ Shape' /\ OthersStay(k) /\ Fades(mem[k], mem'[k]) /\ poll'[k].at = "failed"
         /\ poll[k].acts = {} /\ poll'[k].acts = {} /\ poll'[k].new = {}
         /\ poll'[k].orphan = poll[k].orphan
         /\ poll[k].at \notin {"report", "close"}
<1> DEFINE d == Refused(DataOf(k))
           p == [Idle EXCEPT !.at = "failed", !.orphan = poll[k].orphan, !.moved = (DataOf(k).streak \in {0, 2})]
<1>1. WorkOn(k, d, p) /\ UNCHANGED <<tip, disk, live>>
  BY DEF Fail
<1>2. IsData(DataOf(k)) /\ Hands(poll[k], DataOf(k))
  BY DataIsData
<1>3. poll[k].acts = {} /\ poll[k].at \notin {"report", "close"}
  BY <1>2 DEF Fail, At, Hands, Early, ByRow
<1>4. /\ IsPoll(p) /\ p.at = "failed" /\ p.orphan = poll[k].orphan /\ p.todo = {}
      /\ p.sigs = [a \in Addrs |-> {}] /\ p.detail = {} /\ p.new = {} /\ p.acts = {}
  BY DEF Idle, IsPoll
<1>5. DOMAIN d = DOMAIN DataOf(k) /\ d.rows = DataOf(k).rows /\ d.log = DataOf(k).log
  BY <1>2 DEF Refused, IsData
<1> HIDE DEF d, p
<1>6. IsData(d) /\ Fades(DataOf(k), d)
  BY <1>2, <1>5, HealthFits
<1>7. Hands(p, d)
  BY <1>4 DEF Hands, Early, ByRow
<1>8. Shape'
  BY <1>1, <1>4, <1>6, <1>7, WorkKeepsShape DEF Shape
<1>9. /\ OthersStay(k) /\ mem'[k] = (IF poll[k].orphan THEN mem[k] ELSE d)
      /\ poll'[k].new = p.new /\ poll'[k].acts = p.acts /\ poll'[k].at = p.at
      /\ poll'[k].orphan = p.orphan
  BY <1>1, <1>4, WorkDoes DEF OthersStay
<1>10. Fades(mem[k], mem'[k])
  BY <1>6, <1>9, FadesFor
<1> QED
  BY <1>3, <1>4, <1>8, <1>9, <1>10 DEF Quiet

-----------------------------------------------------------------------------
(* The steps that read histories.                                           *)

\* The data e are d after the histories of the addresses G were read.
Reads(d, e, G) ==
  /\ DOMAIN e.rows = DOMAIN d.rows /\ e.log = d.log
  /\ \A a \in DOMAIN d.rows \ G :
        /\ e.rows[a].base = d.rows[a].base
        /\ e.rows[a].known = d.rows[a].known /\ e.rows[a].sig = d.rows[a].sig
  /\ \A a \in G : /\ e.rows[a].base /\ e.rows[a].known = Latest(a)
                   /\ e.rows[a].sig \subseteq History(a)

\* Manager k's poll reads G for the data it works on.
ReadFor(k, G) ==
  /\ OthersStay(k)
  /\ G \subseteq DOMAIN DataOf(k).rows
  /\ IF poll[k].orphan THEN mem'[k] = mem[k] ELSE Reads(mem[k], mem'[k], G)
  /\ lost' = lost \cup IF Current(k) THEN UNION {SkippedIn(DataOf(k).rows[a], a) : a \in G} ELSE {}
  /\ baselined' = baselined \cup
        IF Current(k) THEN UNION {AbsorbedIn(DataOf(k).rows[a], a) : a \in G} ELSE {}

LEMMA ReadFits ==
  ASSUME tip \in 0 .. MaxTip, NEW r \in RowRecs, NEW a, NEW sig, sig \subseteq History(a)
  PROVE  /\ Read(r, a, sig) \in RowRecs /\ Read(r, a, sig).base
         /\ Read(r, a, sig).sig = sig /\ Read(r, a, sig).known = Latest(a)
BY HistoryFits DEF Read, RowRecs

LEMMA HistoryReadDoes ==
  ASSUME Shape, NEW k \in Managers, HistoryRead(k)
  PROVE  /\ Shape'
         /\ \E G : /\ ReadFor(k, G)
                   /\ poll'[k].new = UNION {NewIn(DataOf(k).rows[a], a) : a \in G}
         /\ poll[k].at = "history" /\ poll[k].new = {} /\ poll[k].acts = {} /\ poll'[k].acts = {}
         /\ poll'[k].orphan = poll[k].orphan /\ poll'[k].moved = poll[k].moved
<1> DEFINE rows == DataOf(k).rows
<1>1. PICK bad \in SUBSET poll[k].detail :
       LET good == poll[k].detail \ bad
           new == UNION {NewIn(rows[a], a) : a \in good}
       IN /\ WorkOn(k, [DataOf(k) EXCEPT !.rows = [a \in DOMAIN rows |->
                    IF a \in good THEN Read(rows[a], a, poll[k].sigs[a]) ELSE rows[a]]],
                  [poll[k] EXCEPT !.new = new, !.at = IF new = {} THEN "close" ELSE "raw",
                     !.detail = {}, !.sigs = Idle.sigs])
          /\ lost' = lost \cup IF Current(k) THEN UNION {SkippedIn(rows[a], a) : a \in good} ELSE {}
          /\ baselined' = baselined \cup
                  IF Current(k) THEN UNION {AbsorbedIn(rows[a], a) : a \in good} ELSE {}
  BY DEF HistoryRead
<1> DEFINE G == poll[k].detail \ bad
           new == UNION {NewIn(rows[a], a) : a \in G}
           f == [a \in DOMAIN rows |-> IF a \in G THEN Read(rows[a], a, poll[k].sigs[a]) ELSE rows[a]]
           d == [DataOf(k) EXCEPT !.rows = f]
           p == [poll[k] EXCEPT !.new = new, !.at = IF new = {} THEN "close" ELSE "raw",
                                !.detail = {}, !.sigs = Idle.sigs]
<1>2. WorkOn(k, d, p)
  BY <1>1
<1>3. IsData(DataOf(k)) /\ IsPoll(poll[k]) /\ Hands(poll[k], DataOf(k)) /\ poll[k].at = "history"
  BY DataIsData DEF HistoryRead, At
<1>4. G \subseteq DOMAIN rows /\ DOMAIN rows \subseteq Addrs
  BY <1>3 DEF Hands, IsData
<1>5. \A a \in G : /\ f[a] \in RowRecs /\ f[a].base /\ f[a].known = Latest(a)
                   /\ f[a].sig \subseteq History(a)
  <2> TAKE a \in G
  <2>1. rows[a] \in RowRecs /\ poll[k].sigs[a] \subseteq History(a) /\ tip \in 0 .. MaxTip
    BY <1>3, <1>4 DEF IsData, Hands, Shape
  <2>2. f[a] = Read(rows[a], a, poll[k].sigs[a])
    BY <1>4
  <2> QED
    BY <2>1, <2>2, ReadFits
<1>6. \A a \in DOMAIN rows \ G : f[a] = rows[a] /\ f[a] \in RowRecs
  BY <1>3 DEF IsData
<1>7. DOMAIN f = DOMAIN rows
  OBVIOUS
<1> HIDE DEF f, new
<1>8. /\ IsPoll(p) /\ p.at \in {"close", "raw"} /\ p.detail = {} /\ p.new = new
      /\ (p.at = "close" => p.new = {}) /\ p.sigs = [a \in Addrs |-> {}]
      /\ p.orphan = poll[k].orphan /\ p.todo = poll[k].todo
      /\ p.acts = poll[k].acts /\ p.moved = poll[k].moved
  BY <1>3 DEF IsPoll, Idle
<1> HIDE DEF p
<1>9. IsData(d) /\ d.rows = f /\ d.log = DataOf(k).log
  BY <1>3, <1>5, <1>6, <1>7, RowsFit
<1> HIDE DEF d
<1>10. Reads(DataOf(k), d, G)
  BY <1>5, <1>6, <1>7, <1>9 DEF Reads
<1>11. Hands(p, d)
  BY <1>3, <1>7, <1>8, <1>9 DEF Hands, Early, ByRow
<1>12. IsData(disk') /\ tip' = tip /\ live' = live
  BY DEF HistoryRead, Shape
<1>13. Shape'
  BY <1>2, <1>8, <1>9, <1>11, <1>12, WorkKeepsShape
<1>14. /\ OthersStay(k) /\ mem'[k] = (IF poll[k].orphan THEN mem[k] ELSE d)
       /\ poll'[k].new = p.new /\ poll'[k].acts = p.acts /\ poll'[k].moved = p.moved
       /\ poll'[k].orphan = p.orphan
  BY <1>2, <1>8, WorkDoes DEF OthersStay
<1>15. ReadFor(k, G)
  <2>1. ~ poll[k].orphan => Reads(mem[k], mem'[k], G)
    BY <1>10, <1>14 DEF DataOf
  <2> QED
    BY <1>1, <1>4, <1>14, <2>1 DEF ReadFor
<1>16. poll'[k].new = UNION {NewIn(DataOf(k).rows[a], a) : a \in G}
  BY <1>8, <1>14 DEF new
<1>17. poll[k].new = {} /\ poll[k].acts = {}
  BY <1>3 DEF Hands, Early
<1> QED
  BY <1>3, <1>8, <1>13, <1>14, <1>15, <1>16, <1>17

LEMMA RawDoes ==
  ASSUME Shape, NEW k \in Managers, Raw(k)
  PROVE  /\ Shape' /\ OthersStay(k) /\ mem' = mem
         /\ poll[k].at = "raw" /\ poll[k].acts = {} /\ poll'[k].new = {}
         /\ poll'[k].orphan = poll[k].orphan /\ (poll'[k].acts # {} => poll'[k].moved)
         /\ \E kept \in SUBSET poll[k].new :
              /\ poll'[k].acts = {<<Owner[x[1]], x[2]>> : x \in kept}
              /\ lost' = lost \cup IF k = live THEN Known(mem[k], poll[k].new \ kept) ELSE {}
<1>1. PICK gone \in SUBSET {x[2] : x \in poll[k].new} :
       LET dropped == {x \in poll[k].new : x[2] \in gone}
           kept == poll[k].new \ dropped
       IN /\ poll' = [poll EXCEPT ![k] = [@ EXCEPT !.new = {},
               !.at = IF kept = {} THEN "close" ELSE "report",
               !.acts = {<<Owner[x[1]], x[2]>> : x \in kept}, !.moved = (kept # {})]]
          /\ lost' = lost \cup IF k = live THEN Known(mem[k], dropped) ELSE {}
  BY DEF Raw
<1> DEFINE dropped == {x \in poll[k].new : x[2] \in gone}
           kept == poll[k].new \ dropped
           acts == {<<Owner[x[1]], x[2]>> : x \in kept}
           p == [poll[k] EXCEPT !.new = {}, !.at = IF kept = {} THEN "close" ELSE "report",
                                !.acts = acts, !.moved = (kept # {})]
<1>2. poll' = [poll EXCEPT ![k] = p] /\ UNCHANGED <<tip, mem, disk, live>>
  BY <1>1 DEF Raw
<1>3. kept \in SUBSET poll[k].new /\ dropped = poll[k].new \ kept
  OBVIOUS
<1>4. IsPoll(poll[k]) /\ Hands(poll[k], DataOf(k)) /\ poll[k].at = "raw"
  BY DataIsData DEF Raw, At
<1>5. acts # {} <=> kept # {}
  OBVIOUS
<1> HIDE DEF acts, kept, dropped
<1>6. /\ IsPoll(p) /\ p.at \in {"close", "report"} /\ (p.at = "close" => kept = {})
      /\ p.orphan = poll[k].orphan /\ p.data = poll[k].data /\ p.todo = poll[k].todo
      /\ p.sigs = poll[k].sigs /\ p.detail = poll[k].detail
      /\ p.new = {} /\ p.acts = acts /\ p.moved = (kept # {})
  BY <1>4 DEF IsPoll
<1> HIDE DEF p
<1>7. Hands(p, DataOf(k))
  BY <1>4, <1>5, <1>6 DEF Hands, Early, ByRow
<1>8. Shape'
  BY <1>2, <1>6, <1>7, PollKeepsShape DEF Shape
<1>9. poll'[k] = p /\ OthersStay(k)
  BY <1>2 DEF Shape, OthersStay
<1>10. lost' = lost \cup IF k = live THEN Known(mem[k], poll[k].new \ kept) ELSE {}
  BY <1>1, <1>3 DEF dropped
<1>11. poll[k].acts = {}
  BY <1>4 DEF Hands
<1>12. poll'[k].acts = {<<Owner[x[1]], x[2]>> : x \in kept}
  BY <1>6, <1>9 DEF acts
<1> QED
  BY <1>2, <1>3, <1>4, <1>5, <1>6, <1>8, <1>9, <1>10, <1>11, <1>12

LEMMA SummaryDoes ==
  ASSUME Shape, NEW k \in Managers, Summary(k)
  PROVE  /\ Shape' /\ Quiet(k) /\ poll[k].at = "rows"
         /\ poll'[k].orphan = poll[k].orphan /\ poll'[k].moved = poll[k].moved
<1> DEFINE d == DataOf(k)
           q == poll[k]
<1>1. IsData(d) /\ IsPoll(q) /\ Hands(q, d) /\ q.at = "rows" /\ tip \in 0 .. MaxTip
  BY DataIsData DEF Summary, At, Shape
<1>2. PICK a \in q.todo :
       \/ WorkOn(k, With(d, a, [d.rows[a] EXCEPT !.bal = History(a)]), [q EXCEPT !.todo = @ \ {a}])
       \/ /\ poll' = [poll EXCEPT ![k] = [[q EXCEPT !.todo = @ \ {a}] EXCEPT !.at = "txs", !.detail = {a},
                           !.sigs[a] = History(a)]]
          /\ mem' = mem
       \/ poll' = [poll EXCEPT ![k] = [q EXCEPT !.todo = @ \ {a}]] /\ mem' = mem
  BY DEF Summary
<1>3. UNCHANGED <<tip, disk, live>> /\ IsData(disk')
  BY DEF Summary, Shape
<1>4. a \in DOMAIN d.rows /\ a \in Addrs /\ q.todo \ {a} # DOMAIN d.rows
  BY <1>1 DEF Hands, IsData
<1> DEFINE p == [q EXCEPT !.todo = @ \ {a}]
<1>5. /\ IsPoll(p) /\ p.at = "rows" /\ p.todo = q.todo \ {a}
      /\ p.orphan = q.orphan /\ p.data = q.data /\ p.sigs = q.sigs /\ p.detail = q.detail
      /\ p.new = q.new /\ p.acts = q.acts /\ p.moved = q.moved
  BY <1>1 DEF IsPoll
<1>6. Hands(p, d)
  BY <1>1, <1>4, <1>5 DEF Hands, Early, ByRow
<1>7. CASE WorkOn(k, With(d, a, [d.rows[a] EXCEPT !.bal = History(a)]), p)
  <2> DEFINE r == [d.rows[a] EXCEPT !.bal = History(a)]
             e == With(d, a, r)
  <2>1. /\ r \in RowRecs /\ r.base = d.rows[a].base
        /\ r.known = d.rows[a].known /\ r.sig = d.rows[a].sig
    <3>1. d.rows[a] \in RowRecs /\ History(a) \subseteq Txs
      BY <1>1, <1>4, HistoryFits DEF IsData
    <3> QED
      BY <3>1 DEF RowRecs
  <2> HIDE DEF d, p, r
  <2>2. /\ IsData(e) /\ DOMAIN e.rows = DOMAIN d.rows /\ e.log = d.log
        /\ \A b \in DOMAIN d.rows : e.rows[b] = IF b = a THEN r ELSE d.rows[b]
    BY <1>1, <2>1, RowFits
  <2>3. Fades(d, e)
    BY <2>1, <2>2 DEF Fades
  <2>4. WorkOn(k, e, p)
    BY <1>7 DEF r
  <2> HIDE DEF e
  <2>5. Hands(p, e)
    BY <1>6, <2>2 DEF Hands
  <2>6. Shape'
    BY <1>1, <1>3, <1>5, <2>2, <2>4, <2>5, WorkKeepsShape
  <2>7. /\ OthersStay(k) /\ mem'[k] = (IF poll[k].orphan THEN mem[k] ELSE e)
        /\ poll'[k].new = p.new /\ poll'[k].acts = p.acts /\ poll'[k].moved = p.moved
        /\ poll'[k].orphan = p.orphan
    BY <1>5, <2>4, WorkDoes DEF OthersStay
  <2>8. Fades(mem[k], mem'[k])
    BY <2>3, <2>7, FadesFor DEF d
  <2> QED
    BY <1>1, <1>5, <2>6, <2>7, <2>8 DEF Quiet
<1>8. ASSUME NEW w, poll' = [poll EXCEPT ![k] = w], mem' = mem, IsPoll(w), w.at # "idle", Hands(w, d),
             w.orphan = q.orphan, w.data = q.data, w.new = q.new, w.acts = q.acts, w.moved = q.moved
      PROVE  /\ Shape' /\ Quiet(k)
             /\ poll'[k].orphan = poll[k].orphan /\ poll'[k].moved = poll[k].moved
  <2>1. Shape'
    BY <1>3, <1>8, PollKeepsShape
  <2>2. poll'[k] = w /\ OthersStay(k)
    BY <1>8 DEF Shape, OthersStay
  <2> QED
    BY <1>8, <2>1, <2>2 DEF Quiet, Fades
<1>9. CASE poll' = [poll EXCEPT ![k] = p] /\ mem' = mem
  <2> HIDE DEF p
  <2> QED
    BY <1>1, <1>5, <1>6, <1>8, <1>9
<1>10. CASE /\ poll' = [poll EXCEPT ![k] = [p EXCEPT !.at = "txs", !.detail = {a}, !.sigs[a] = History(a)]]
            /\ mem' = mem
  <2> HIDE DEF p, d, q
  <2> DEFINE g == [p.sigs EXCEPT ![a] = History(a)]
             w == [p EXCEPT !.at = "txs", !.detail = {a}, !.sigs = g]
  <2>1. poll' = [poll EXCEPT ![k] = w]
    BY <1>10
  <2>2. DOMAIN g = Addrs /\ \A b \in Addrs : g[b] \subseteq History(b)
    BY <1>6 DEF Hands
  <2> HIDE DEF g
  <2>3. /\ IsPoll(w) /\ w.at = "txs" /\ w.detail = {a} /\ w.sigs = g /\ w.todo = p.todo
        /\ w.orphan = p.orphan /\ w.data = p.data
        /\ w.new = p.new /\ w.acts = p.acts /\ w.moved = p.moved
    BY <1>5 DEF IsPoll
  <2> HIDE DEF w
  <2>4. Hands(w, d)
    BY <1>4, <1>5, <1>6, <2>2, <2>3 DEF Hands, Early, ByRow
  <2>5. /\ Shape' /\ Quiet(k)
        /\ poll'[k].orphan = poll[k].orphan /\ poll'[k].moved = poll[k].moved
    BY <1>5, <1>8, <1>10, <2>1, <2>3, <2>4
  <2> QED
    BY <1>1, <2>5 DEF q
<1> QED
  BY <1>1, <1>2, <1>7, <1>9, <1>10

LEMMA TransactionsDoes ==
  ASSUME Shape, NEW k \in Managers, Transactions(k)
  PROVE  /\ Shape' /\ poll[k].at = "txs" /\ poll[k].new = {} /\ poll'[k].new = {}
         /\ poll'[k].orphan = poll[k].orphan
         /\ \/ /\ Quiet(k) /\ UNCHANGED <<lost, baselined>>
               /\ poll'[k].moved = poll[k].moved
            \/ \E a \in poll[k].detail :
                 LET new == {<<Owner[x[1]], x[2]>> : x \in NewIn(DataOf(k).rows[a], a)}
                 IN /\ ReadFor(k, {a})
                    /\ poll'[k].acts = poll[k].acts \cup new
                    /\ poll'[k].moved = (poll[k].moved \/ new # {})
<1> DEFINE d == DataOf(k)
           q == poll[k]
           p == [q EXCEPT !.at = "rows", !.detail = {}, !.sigs = Idle.sigs]
<1>1. IsData(d) /\ IsPoll(q) /\ Hands(q, d) /\ q.at = "txs" /\ tip \in 0 .. MaxTip
  BY DataIsData DEF Transactions, At, Shape
<1>2. PICK a \in q.detail :
       LET r == d.rows[a]
           new == {<<Owner[x[1]], x[2]>> : x \in NewIn(r, a)}
       IN \/ /\ WorkOn(k, With(d, a, [Read(r, a, q.sigs[a]) EXCEPT !.bal = History(a)]),
                  [p EXCEPT !.acts = @ \cup new, !.moved = @ \/ new # {}])
             /\ lost' = lost \cup IF Current(k) THEN SkippedIn(r, a) ELSE {}
             /\ baselined' = baselined \cup IF Current(k) THEN AbsorbedIn(r, a) ELSE {}
          \/ /\ WorkOn(k, With(d, a, [r EXCEPT !.bal = q.sigs[a]]), p)
             /\ UNCHANGED <<lost, baselined>>
  BY DEF Transactions
<1> DEFINE r == d.rows[a]
           new == {<<Owner[x[1]], x[2]>> : x \in NewIn(r, a)}
<1>3. UNCHANGED <<tip, disk, live>> /\ IsData(disk')
  BY DEF Transactions, Shape
<1>4. a \in DOMAIN d.rows /\ a \in Addrs /\ q.sigs[a] \subseteq History(a)
      /\ q.todo \subseteq DOMAIN d.rows /\ q.todo # DOMAIN d.rows
  BY <1>1 DEF Hands, IsData, ByRow
<1>5. /\ IsPoll(p) /\ p.at = "rows" /\ p.todo = q.todo
      /\ p.orphan = q.orphan /\ p.data = q.data /\ p.sigs = [b \in Addrs |-> {}] /\ p.detail = {}
      /\ p.new = q.new /\ p.acts = q.acts /\ p.moved = q.moved
  BY <1>1 DEF IsPoll, Idle
<1>6. q.new = {}
  BY <1>1 DEF Hands
<1>7. r \in RowRecs /\ History(a) \subseteq Txs
  BY <1>1, <1>4, HistoryFits DEF IsData
<1>8. ASSUME NEW s \in RowRecs, NEW w, IsPoll(w), w.at = "rows", w.todo = q.todo, w.orphan = q.orphan,
             w.sigs = [b \in Addrs |-> {}], w.detail = {}, w.new = {}, WorkOn(k, With(d, a, s), w)
      PROVE  /\ Shape' /\ OthersStay(k) /\ IsData(With(d, a, s))
             /\ mem'[k] = (IF q.orphan THEN mem[k] ELSE With(d, a, s))
             /\ DOMAIN With(d, a, s).rows = DOMAIN d.rows /\ With(d, a, s).log = d.log
             /\ \A b \in DOMAIN d.rows : With(d, a, s).rows[b] = IF b = a THEN s ELSE d.rows[b]
             /\ poll'[k].acts = w.acts /\ poll'[k].new = {} /\ poll'[k].moved = w.moved
             /\ poll'[k].orphan = q.orphan
  <2> DEFINE e == With(d, a, s)
  <2> HIDE DEF p, r
  <2>1. /\ IsData(e) /\ DOMAIN e.rows = DOMAIN d.rows /\ e.log = d.log
        /\ \A b \in DOMAIN d.rows : e.rows[b] = IF b = a THEN s ELSE d.rows[b]
    BY <1>1, <1>8, RowFits
  <2>2. WorkOn(k, e, w)
    BY <1>8
  <2> HIDE DEF e
  <2>3. Hands(w, e)
    BY <1>4, <1>8, <2>1 DEF Hands, Early, ByRow
  <2>4. Shape'
    BY <1>3, <1>8, <2>1, <2>2, <2>3, WorkKeepsShape
  <2>5. /\ OthersStay(k) /\ mem'[k] = (IF poll[k].orphan THEN mem[k] ELSE e)
        /\ poll'[k].new = w.new /\ poll'[k].acts = w.acts /\ poll'[k].moved = w.moved
        /\ poll'[k].orphan = w.orphan
    BY <1>8, <2>2, WorkDoes DEF OthersStay
  <2> QED
    BY <1>8, <2>1, <2>4, <2>5 DEF e
<1>9. CASE /\ WorkOn(k, With(d, a, [r EXCEPT !.bal = q.sigs[a]]), p)
           /\ UNCHANGED <<lost, baselined>>
  <2> DEFINE s == [r EXCEPT !.bal = q.sigs[a]]
  <2>1. s \in RowRecs /\ s.base = r.base /\ s.known = r.known /\ s.sig = r.sig
    BY <1>4, <1>7 DEF RowRecs
  <2>2. WorkOn(k, With(d, a, s), p)
    BY <1>9
  <2> HIDE DEF p, s
  <2>3. /\ Shape' /\ OthersStay(k)
        /\ mem'[k] = (IF q.orphan THEN mem[k] ELSE With(d, a, s))
        /\ DOMAIN With(d, a, s).rows = DOMAIN d.rows /\ With(d, a, s).log = d.log
        /\ \A b \in DOMAIN d.rows : With(d, a, s).rows[b] = IF b = a THEN s ELSE d.rows[b]
        /\ poll'[k].acts = p.acts /\ poll'[k].new = {} /\ poll'[k].moved = p.moved
        /\ poll'[k].orphan = q.orphan
    BY <1>5, <1>6, <1>8, <2>1, <2>2
  <2>4. Fades(d, With(d, a, s))
    BY <2>1, <2>3 DEF Fades
  <2>5. Fades(mem[k], mem'[k])
    BY <2>3, <2>4, FadesFor
  <2> QED
    BY <1>1, <1>5, <1>6, <1>9, <2>3, <2>5 DEF Quiet
<1>10. CASE /\ WorkOn(k, With(d, a, [Read(r, a, q.sigs[a]) EXCEPT !.bal = History(a)]),
                  [p EXCEPT !.acts = @ \cup new, !.moved = @ \/ new # {}])
            /\ lost' = lost \cup IF Current(k) THEN SkippedIn(r, a) ELSE {}
            /\ baselined' = baselined \cup IF Current(k) THEN AbsorbedIn(r, a) ELSE {}
  <2> DEFINE s == [Read(r, a, q.sigs[a]) EXCEPT !.bal = History(a)]
             w == [p EXCEPT !.acts = p.acts \cup new, !.moved = p.moved \/ new # {}]
  <2>1. s \in RowRecs /\ s.base /\ s.known = Latest(a) /\ s.sig = q.sigs[a]
    <3>1. /\ Read(r, a, q.sigs[a]) \in RowRecs /\ Read(r, a, q.sigs[a]).base
          /\ Read(r, a, q.sigs[a]).sig = q.sigs[a] /\ Read(r, a, q.sigs[a]).known = Latest(a)
      BY <1>1, <1>4, <1>7, ReadFits
    <3> HIDE DEF r
    <3> QED
      BY <1>7, <3>1 DEF RowRecs
  <2> HIDE DEF new
  <2>2. WorkOn(k, With(d, a, s), w)
    BY <1>10
  <2> HIDE DEF p, s
  <2>3. /\ IsPoll(w) /\ w.at = "rows" /\ w.todo = p.todo /\ w.orphan = p.orphan
        /\ w.sigs = p.sigs /\ w.detail = {} /\ w.new = p.new
        /\ w.acts = p.acts \cup new /\ w.moved = (p.moved \/ new # {})
    BY <1>5 DEF IsPoll
  <2> HIDE DEF w
  <2>3a. /\ s \in RowRecs /\ IsPoll(w) /\ w.at = "rows" /\ w.todo = q.todo /\ w.orphan = q.orphan
        /\ w.sigs = [b \in Addrs |-> {}] /\ w.detail = {} /\ w.new = {}
    BY <1>5, <1>6, <2>1, <2>3
  <2> HIDE DEF d, q, r
  <2>4. /\ Shape' /\ OthersStay(k)
        /\ mem'[k] = (IF q.orphan THEN mem[k] ELSE With(d, a, s))
        /\ DOMAIN With(d, a, s).rows = DOMAIN d.rows /\ With(d, a, s).log = d.log
        /\ \A b \in DOMAIN d.rows : With(d, a, s).rows[b] = IF b = a THEN s ELSE d.rows[b]
        /\ poll'[k].acts = w.acts /\ poll'[k].new = {} /\ poll'[k].moved = w.moved
        /\ poll'[k].orphan = q.orphan
    BY <1>8, <2>2, <2>3a
  <2> USE DEF d, q, r
  <2>5. Reads(d, With(d, a, s), {a})
    BY <1>4, <2>1, <2>4 DEF Reads
  <2>6. ReadFor(k, {a})
    <3>1. ~ poll[k].orphan => Reads(mem[k], mem'[k], {a})
      BY <2>4, <2>5 DEF DataOf
    <3>2. /\ UNION {SkippedIn(d.rows[b], b) : b \in {a}} = SkippedIn(r, a)
          /\ UNION {AbsorbedIn(d.rows[b], b) : b \in {a}} = AbsorbedIn(r, a)
      OBVIOUS
    <3> QED
      BY <1>4, <1>10, <2>4, <3>1, <3>2 DEF ReadFor
  <2>7. poll'[k].acts = q.acts \cup new /\ poll'[k].moved = (q.moved \/ new # {})
    BY <1>5, <2>3, <2>4
  <2> QED
    BY <1>1, <1>6, <2>4, <2>6, <2>7 DEF new
<1> QED
  BY <1>2, <1>9, <1>10

-----------------------------------------------------------------------------
(* Transactions, edits, reloads and stops.                                  *)

LEMMA BroadcastDoes ==
  ASSUME Shape, Broadcast
  PROVE  /\ Shape' /\ UNCHANGED <<mem, disk, poll, live, ghosts>>
         /\ tip' \in 0 .. MaxTip /\ tip' >= tip
<1>1. /\ UNCHANGED <<mem, disk, poll, live, ghosts>> /\ tip' \in 0 .. MaxTip /\ tip' >= tip
      /\ tip \in 0 .. MaxTip
  BY ChainAssumption DEF Broadcast, Shape
<1>2. ASSUME NEW p, NEW d, Carries(p, d) PROVE Carries(p, d)'
  <2>1. \A a \in Addrs : p.sigs[a] \subseteq History(a)'
    BY <1>1, <1>2, HistoryGrows DEF Carries, Hands
  <2> QED
    BY <1>2, <2>1 DEF Carries, Hands, IsData
<1>3. \A k \in Managers : Carries(poll[k], DataOf(k))'
  <2> TAKE k \in Managers
  <2>1. poll'[k] = poll[k] /\ DataOf(k)' = DataOf(k)
    BY <1>1 DEF DataOf
  <2> QED
    BY <1>2, <2>1 DEF Shape
<1> QED
  BY <1>1, <1>3 DEF Shape

\* The rows that an edit leaves, in the data it builds.
Replaced(d, e, ms) ==
  /\ DOMAIN e.rows = AddrsOf(ms) /\ e.log = Purged(d.log, ms)
  /\ \A a \in AddrsOf(ms) :
        e.rows[a] = IF a \in DOMAIN d.rows THEN d.rows[a] ELSE NewRow

LEMMA ReplaceDoes ==
  ASSUME Shape, Replace
  PROVE  /\ Shape' /\ OthersStay(live) /\ disk' = mem'[live]
         /\ poll'[live].acts = poll[live].acts /\ poll'[live].new = poll[live].new
         /\ (At(live, "idle") => poll'[live] = poll[live])
         /\ \E ms \in SUBSET Monitors :
              /\ Replaced(mem[live], mem'[live], ms)
              /\ lost' = {x \in lost : Owner[x[1]] \in ms}
              /\ baselined' = {x \in baselined : Owner[x[1]] \in ms}
<1> DEFINE d == mem[live]
           q == poll[live]
           p == Orphaned(q, d)
<1>1. PICK ms \in SUBSET Monitors :
       LET fresh == [d EXCEPT !.log = Purged(@, ms),
                      !.rows = [a \in AddrsOf(ms) |-> IF a \in DOMAIN d.rows THEN d.rows[a] ELSE NewRow]]
       IN /\ mem' = [mem EXCEPT ![live] = fresh]
          /\ disk' = fresh
          /\ poll' = [poll EXCEPT ![live] = p]
          /\ lost' = {x \in lost : Owner[x[1]] \in ms}
          /\ baselined' = {x \in baselined : Owner[x[1]] \in ms}
  BY DEF Replace
<1> DEFINE f == [a \in AddrsOf(ms) |-> IF a \in DOMAIN d.rows THEN d.rows[a] ELSE NewRow]
           l == Purged(d.log, ms)
           fresh == [d EXCEPT !.log = l, !.rows = f]
<1>2. /\ IsData(d) /\ IsPoll(q) /\ q.orphan \in BOOLEAN /\ Carries(q, DataOf(live))
      /\ tip' = tip /\ live' = live /\ live \in Managers
  BY DEF Shape, Replace
<1>3. /\ mem' = [mem EXCEPT ![live] = fresh] /\ disk' = fresh /\ poll' = [poll EXCEPT ![live] = p]
  BY <1>1
<1>4. DOMAIN f = AddrsOf(ms) /\ \A a \in AddrsOf(ms) : f[a] = IF a \in DOMAIN d.rows THEN d.rows[a] ELSE NewRow
  OBVIOUS
<1>5. \A a \in AddrsOf(ms) : f[a] \in RowRecs
  BY <1>2, <1>4 DEF IsData, RowRecs, NewRow
<1> HIDE DEF f, l
<1>6. DOMAIN fresh = DOMAIN d /\ fresh.rows = f /\ fresh.log = l
  BY <1>2 DEF IsData
<1> HIDE DEF fresh
<1>7. IsData(fresh)
  BY <1>2, <1>4, <1>5, <1>6 DEF IsData, AddrsOf
<1>8. Replaced(d, fresh, ms)
  BY <1>4, <1>6 DEF Replaced, l
<1>9. /\ IsPoll(p) /\ p.orphan \in BOOLEAN /\ p.acts = q.acts /\ p.new = q.new
      /\ (q.at = "idle" => p = q)
      /\ Carries(p, IF p.orphan THEN p.data ELSE fresh)
  <2>1. CASE q.at # "idle" /\ ~ q.orphan
    <3>1. p = [q EXCEPT !.orphan = TRUE, !.data = d]
      BY <2>1 DEF Orphaned
    <3>2. /\ IsPoll(p) /\ p.orphan = TRUE /\ p.data = d /\ p.at = q.at
          /\ p.sigs = q.sigs /\ p.todo = q.todo /\ p.detail = q.detail
          /\ p.new = q.new /\ p.acts = q.acts
      BY <1>2, <3>1 DEF IsPoll
    <3>3. Hands(q, d)
      BY <1>2, <2>1 DEF Carries, DataOf
    <3> HIDE DEF p
    <3>4. Hands(p, d)
      BY <3>2, <3>3 DEF Hands
    <3> QED
      BY <1>2, <2>1, <3>2, <3>4 DEF Carries
  <2>2. CASE q.orphan
    <3>1. p = q
      BY <2>2 DEF Orphaned
    <3> QED
      BY <1>2, <2>2, <3>1 DEF DataOf
  <2>3. CASE q.at = "idle"
    <3>1. p = q /\ q = Idle
      BY <1>2, <2>3 DEF Orphaned, Carries
    <3> QED
      BY <1>2, <3>1, IdleCarries, IdleIsPoll
  <2> QED
    BY <1>2, <2>1, <2>2, <2>3
<1> HIDE DEF p
<1>10. /\ DOMAIN mem' = Managers /\ mem'[live] = fresh /\ DOMAIN poll' = Managers /\ poll'[live] = p
       /\ \A j \in Managers \ {live} : mem'[j] = mem[j] /\ poll'[j] = poll[j]
  BY <1>3, <1>2 DEF Shape
<1>11. Shape'
  BY <1>2, <1>3, <1>7, <1>9, <1>10, MoveKeepsShape
<1> QED
  BY <1>1, <1>3, <1>8, <1>9, <1>10, <1>11 DEF OthersStay, At

LEMMA SettingsDoes ==
  ASSUME Shape, Settings
  PROVE  Shape' /\ Quiet(live) /\ poll' = poll /\ disk' = mem'[live]
<1> DEFINE d == mem[live]
<1>1. PICK s \in Sources :
       LET new == IF s = d.src THEN d ELSE [d EXCEPT !.src = s, !.streak = 0, !.outage = FALSE]
       IN mem' = [mem EXCEPT ![live] = new] /\ disk' = new
  BY DEF Settings
<1> DEFINE e == IF s = d.src THEN d ELSE [d EXCEPT !.src = s, !.streak = 0, !.outage = FALSE]
<1>2. mem' = [mem EXCEPT ![live] = e] /\ disk' = e /\ UNCHANGED <<tip, poll, live>>
  BY <1>1 DEF Settings
<1>3. /\ IsData(d) /\ live \in Managers /\ IsPoll(poll[live]) /\ poll[live].orphan \in BOOLEAN
      /\ Carries(poll[live], DataOf(live))
  BY DEF Shape
<1>4. DOMAIN e = DOMAIN d /\ e.rows = d.rows /\ e.log = d.log
  BY <1>3 DEF IsData
<1> HIDE DEF e
<1>5. IsData(e) /\ Fades(d, e)
  BY <1>3, <1>4, HealthFits
<1>6. Carries(poll[live], IF poll[live].orphan THEN poll[live].data ELSE e)
  BY <1>3, <1>4 DEF Carries, Hands, DataOf
<1>7. /\ DOMAIN mem' = Managers /\ mem'[live] = e /\ \A j \in Managers \ {live} : mem'[j] = mem[j]
  BY <1>2, <1>3 DEF Shape
<1>8. DOMAIN poll' = Managers /\ poll'[live] = poll[live] /\ \A j \in Managers \ {live} : poll'[j] = poll[j]
  BY <1>2 DEF Shape
<1>9. Shape'
  BY <1>2, <1>3, <1>5, <1>6, <1>7, <1>8, MoveKeepsShape
<1> QED
  BY <1>2, <1>5, <1>7, <1>9 DEF Quiet, OthersStay

LEMMA ReloadDoes ==
  ASSUME Shape, Reload
  PROVE  /\ Shape' /\ poll' = poll /\ disk' = disk /\ live' \in Managers \ {live}
         /\ mem'[live'] = disk /\ poll'[live'] = Idle
         /\ \A k \in Managers \ {live'} : mem'[k] = mem[k]
<1>1. PICK k \in Managers \ {live} : At(k, "idle") /\ live' = k /\ mem' = [mem EXCEPT ![k] = disk]
  BY DEF Reload
<1>2. UNCHANGED <<tip, disk, poll>>
  BY DEF Reload
<1>3. poll[k] = Idle
  BY <1>1 DEF Shape, Carries, At
<1>4. DOMAIN mem' = Managers /\ mem'[k] = disk /\ \A j \in Managers \ {k} : mem'[j] = mem[j]
  BY <1>1 DEF Shape
<1>5. ASSUME NEW j \in Managers PROVE Carries(poll[j], DataOf(j))'
  <2>1. \A p, d : Carries(p, d)' <=> Carries(p, d)
    BY <1>2, HistoryStays DEF Carries, Hands, IsData
  <2>2. CASE j = k
    BY <1>2, <1>3, <2>1, <2>2, IdleCarries
  <2>3. CASE j # k
    <3>1. DataOf(j)' = DataOf(j) /\ poll'[j] = poll[j]
      BY <1>2, <1>4, <2>3 DEF DataOf
    <3> QED
      BY <2>1, <3>1 DEF Shape
  <2> QED
    BY <2>2, <2>3
<1> QED
  BY <1>1, <1>2, <1>3, <1>4, <1>5 DEF Shape

LEMMA RestartDoes ==
  ASSUME Shape, Restart
  PROVE  /\ Shape' /\ disk' = disk /\ live' = live
         /\ \A k \in Managers : mem'[k] = disk /\ poll'[k] = Idle
<1>1. /\ UNCHANGED <<tip, disk, live>>
      /\ mem' = [k \in Managers |-> disk] /\ poll' = [k \in Managers |-> Idle]
  BY DEF Restart
<1>2. \A p, d : Carries(p, d)' <=> Carries(p, d)
  BY <1>1, HistoryStays DEF Carries, Hands, IsData
<1>3. \A k \in Managers : Carries(poll[k], DataOf(k))'
  BY <1>1, <1>2, IdleCarries
<1>4. /\ DOMAIN mem' = Managers /\ DOMAIN poll' = Managers
      /\ \A k \in Managers : mem'[k] = disk /\ poll'[k] = Idle
  BY <1>1
<1> QED
  BY <1>1, <1>3, <1>4, IdleIsPoll DEF Shape

LEMMA InitShape == Init => Shape
<1> SUFFICES ASSUME Init PROVE Shape
  OBVIOUS
<1>1. PICK s \in Sources, b \in Spent :
        /\ disk = [rows |-> [a \in Addrs |-> NewRow], log |-> {}, streak |-> b.streak,
                   outage |-> FALSE, src |-> s]
        /\ tip = b.tip
  BY DEF Init
<1>2. IsData(disk)
  BY <1>1 DEF IsData, RowRecs, NewRow
<1>3. tip \in 0 .. MaxTip
  BY <1>1, ChainAssumption
<1>4. live \in Managers
  BY ChainAssumption DEF Init
<1>5. \A k \in Managers : mem[k] = disk /\ poll[k] = Idle
  BY DEF Init
<1>6. DOMAIN mem = Managers /\ DOMAIN poll = Managers
  BY DEF Init
<1> QED
  BY <1>2, <1>3, <1>4, <1>5, <1>6, IdleCarries, IdleIsPoll DEF Shape

-----------------------------------------------------------------------------
(* What a row counts as seen is accounted for.                              *)

\* What is said of one transaction t of address a.
Accounted(a, t) ==
  \/ <<Owner[a], t>> \in mem[live].log \cup poll[live].acts
  \/ <<a, t>> \in poll[live].new \cup baselined \cup lost

\* A step of another manager's poll, and one that reads nothing.
LEMMA SeenElsewhere ==
  ASSUME Shape, SeenIsAccounted, NEW k \in Managers \ {live}, OthersStay(k), live' = live,
         lost \subseteq lost', baselined \subseteq baselined'
  PROVE  SeenIsAccounted'
BY DEF SeenIsAccounted, SeenBy, OthersStay, Shape

LEMMA SeenQuietly ==
  ASSUME Shape, SeenIsAccounted, NEW k \in Managers, Quiet(k), live' = live,
         lost \subseteq lost', baselined \subseteq baselined'
  PROVE  SeenIsAccounted'
<1>1. CASE k = live
  <2>1. ASSUME NEW a \in DOMAIN mem'[live].rows, mem'[live].rows[a].base, NEW t \in SeenBy(mem'[live].rows[a])
        PROVE  Accounted(a, t)'
    <3>1. a \in DOMAIN mem[live].rows /\ mem[live].rows[a].base /\ t \in SeenBy(mem[live].rows[a])
      BY <1>1, <2>1 DEF Quiet, Fades, SeenBy
    <3>2. Accounted(a, t)
      BY <3>1 DEF SeenIsAccounted, Accounted
    <3> QED
      BY <1>1, <3>2 DEF Accounted, Quiet, Fades
  <2> QED
    BY <2>1 DEF SeenIsAccounted, Accounted, SeenBy
<1>2. CASE k # live
  BY <1>2, SeenElsewhere DEF Quiet
<1> QED
  BY <1>1, <1>2

\* A step that reads the histories of some addresses: the new entries of the
\* rows go to the poll, and the rest is a loss or the baseline's.
LEMMA SeenReading ==
  ASSUME Shape, SeenIsAccounted, NEW k \in Managers, NEW G, ReadFor(k, G), live' = live,
         poll[k].acts \subseteq poll'[k].acts, poll[k].new \subseteq poll'[k].new,
         \A a \in G : \A x \in NewIn(DataOf(k).rows[a], a) :
            x \in poll'[k].new \/ <<Owner[x[1]], x[2]>> \in poll'[k].acts
  PROVE  SeenIsAccounted'
<1>1. lost \subseteq lost' /\ baselined \subseteq baselined' /\ OthersStay(k)
  BY DEF ReadFor
<1>2. CASE k # live
  BY <1>1, <1>2, SeenElsewhere
<1>3. CASE k = live /\ poll[k].orphan
  <2>1. ASSUME NEW a \in DOMAIN mem'[live].rows, mem'[live].rows[a].base, NEW t \in SeenBy(mem'[live].rows[a])
        PROVE  Accounted(a, t)'
    <3>1. Accounted(a, t) /\ mem'[live] = mem[live]
      BY <1>3, <2>1 DEF SeenIsAccounted, Accounted, ReadFor, SeenBy
    <3> QED
      BY <1>1, <1>3, <3>1 DEF Accounted
  <2> QED
    BY <2>1 DEF SeenIsAccounted, Accounted, SeenBy
<1>4. CASE k = live /\ ~ poll[k].orphan
  <2> DEFINE d == mem[live]
             e == mem'[live]
  <2>1. /\ DataOf(k) = d /\ Reads(d, e, G) /\ Current(k) /\ G \subseteq DOMAIN d.rows
        /\ tip \in 0 .. MaxTip
    BY <1>4 DEF DataOf, ReadFor, Current, Shape
  <2>2. /\ \A a \in G : SkippedIn(d.rows[a], a) \subseteq lost'
        /\ \A a \in G : AbsorbedIn(d.rows[a], a) \subseteq baselined'
    BY <2>1 DEF ReadFor
  <2>3. ASSUME NEW a \in DOMAIN e.rows, e.rows[a].base, NEW t \in SeenBy(e.rows[a])
        PROVE  Accounted(a, t)'
    <3>1. a \in DOMAIN d.rows
      BY <2>1, <2>3 DEF Reads
    <3>2. ASSUME d.rows[a].base, t \in SeenBy(d.rows[a]) PROVE Accounted(a, t)'
      <4>1. Accounted(a, t)
        BY <3>1, <3>2 DEF SeenIsAccounted, Accounted
      <4>2. e.log = d.log
        BY <2>1 DEF Reads
      <4> QED
        BY <1>1, <1>4, <4>1, <4>2 DEF Accounted
    <3>3. CASE a \notin G
      <4>1. d.rows[a].base /\ t \in SeenBy(d.rows[a])
        BY <2>1, <2>3, <3>1, <3>3 DEF Reads, SeenBy
      <4> QED
        BY <3>2, <4>1
    <3>4. CASE a \in G
      <4>1. t \in History(a)
        <5>1. e.rows[a].known = Latest(a) /\ e.rows[a].sig \subseteq History(a)
          BY <2>1, <3>4 DEF Reads
        <5> QED
          BY <2>1, <2>3, <5>1, HistoryFits DEF SeenBy
      <4>2. CASE ~ d.rows[a].base
        <5>1. <<a, t>> \in baselined'
          BY <2>2, <3>4, <4>1, <4>2 DEF AbsorbedIn
        <5> QED
          BY <5>1 DEF Accounted
      <4>3. CASE d.rows[a].base /\ t \in SeenBy(d.rows[a])
        BY <3>2, <4>3
      <4>4. CASE d.rows[a].base /\ t \notin SeenBy(d.rows[a]) /\ t \in Latest(a)
        <5>1. <<a, t>> \in NewIn(DataOf(k).rows[a], a)
          BY <2>1, <4>4 DEF NewIn, SeenBy
        <5>2. <<a, t>> \in poll'[k].new \/ <<Owner[<<a, t>>[1]], <<a, t>>[2]>> \in poll'[k].acts
          BY <3>4, <5>1
        <5> QED
          BY <1>4, <5>2 DEF Accounted
      <4>5. CASE d.rows[a].base /\ t \notin SeenBy(d.rows[a]) /\ t \notin Latest(a)
        <5>1. <<a, t>> \in lost'
          BY <2>2, <3>4, <4>1, <4>5 DEF SkippedIn, SeenBy
        <5> QED
          BY <5>1 DEF Accounted
      <4> QED
        BY <4>2, <4>3, <4>4, <4>5
    <3> QED
      BY <3>3, <3>4
  <2> QED
    BY <2>3 DEF SeenIsAccounted, Accounted, SeenBy
<1> QED
  BY <1>2, <1>3, <1>4

LEMMA SeenRaw ==
  ASSUME Shape, SeenIsAccounted, NEW k \in Managers, Raw(k)
  PROVE  SeenIsAccounted'
<1>1. /\ OthersStay(k) /\ mem' = mem /\ poll[k].acts = {} /\ live' = live
      /\ lost \subseteq lost' /\ baselined' = baselined
  BY RawDoes DEF Raw
<1>2. PICK kept \in SUBSET poll[k].new :
        /\ poll'[k].acts = {<<Owner[x[1]], x[2]>> : x \in kept}
        /\ lost' = lost \cup IF k = live THEN Known(mem[k], poll[k].new \ kept) ELSE {}
  BY RawDoes
<1>3. CASE k = live
  <2>1. ASSUME NEW a \in DOMAIN mem[live].rows, mem[live].rows[a].base, NEW t \in SeenBy(mem[live].rows[a])
        PROVE  Accounted(a, t)'
    <3>1. Accounted(a, t)
      BY <2>1 DEF SeenIsAccounted, Accounted
    <3>2. CASE <<a, t>> \in kept
      <4>1. <<Owner[a], t>> \in poll'[k].acts
        BY <1>2, <3>2
      <4> QED
        BY <1>1, <1>3, <4>1 DEF Accounted
    <3>3. CASE <<a, t>> \in poll[k].new \ kept
      <4>1. <<a, t>> \in lost'
        BY <1>2, <1>3, <2>1, <3>3 DEF Known
      <4> QED
        BY <4>1 DEF Accounted
    <3>4. CASE <<a, t>> \notin poll[k].new
      BY <1>1, <1>3, <3>1, <3>4 DEF Accounted
    <3> QED
      BY <3>2, <3>3, <3>4
  <2> QED
    BY <1>1, <2>1 DEF SeenIsAccounted, Accounted, SeenBy
<1>4. CASE k # live
  BY <1>1, <1>4, SeenElsewhere
<1> QED
  BY <1>3, <1>4

LEMMA SeenReport ==
  ASSUME Shape, SeenIsAccounted, NEW k \in Managers, Report(k)
  PROVE  SeenIsAccounted'
<1>1. /\ OthersStay(k) /\ live' = live /\ lost' = lost /\ baselined' = baselined
      /\ mem'[k].rows = mem[k].rows /\ poll[k].new = {}
      /\ \E x \in poll[k].acts : /\ poll'[k].acts = poll[k].acts \ {x}
                                 /\ mem'[k].log = mem[k].log \cup {x}
  BY ReportDoes DEF Report
<1>2. CASE k = live
  <2>1. mem'[k].log \cup poll'[k].acts = mem[k].log \cup poll[k].acts
    BY <1>1
  <2> QED
    BY <1>1, <1>2, <2>1 DEF SeenIsAccounted, SeenBy
<1>3. CASE k # live
  BY <1>1, <1>3, SeenElsewhere
<1> QED
  BY <1>2, <1>3

LEMMA SeenFail ==
  ASSUME Shape, SeenIsAccounted, NEW k \in Managers, Fail(k)
  PROVE  SeenIsAccounted'
<1>1. /\ OthersStay(k) /\ Fades(mem[k], mem'[k]) /\ poll[k].acts = {}
      /\ lost' = lost \cup (IF k = live THEN Known(mem[k], poll[k].new) ELSE {})
      /\ live' = live /\ baselined' = baselined
  BY FailDoes DEF Fail
<1>2. CASE k = live
  <2>1. ASSUME NEW a \in DOMAIN mem'[live].rows, mem'[live].rows[a].base, NEW t \in SeenBy(mem'[live].rows[a])
        PROVE  Accounted(a, t)'
    <3>1. a \in DOMAIN mem[live].rows /\ mem[live].rows[a].base /\ t \in SeenBy(mem[live].rows[a])
      BY <1>1, <1>2, <2>1 DEF Fades, SeenBy
    <3>2. Accounted(a, t)
      BY <3>1 DEF SeenIsAccounted, Accounted
    <3>3. CASE <<a, t>> \in poll[k].new
      <4>1. <<a, t>> \in lost'
        BY <1>1, <1>2, <3>1, <3>3 DEF Known
      <4> QED
        BY <4>1 DEF Accounted
    <3>4. CASE <<a, t>> \notin poll[k].new
      BY <1>1, <1>2, <3>2, <3>4 DEF Accounted, Fades
    <3> QED
      BY <3>3, <3>4
  <2> QED
    BY <1>1, <2>1 DEF SeenIsAccounted, Accounted, SeenBy
<1>3. CASE k # live
  BY <1>1, <1>3, SeenElsewhere
<1> QED
  BY <1>2, <1>3

LEMMA SeenPollStep ==
  ASSUME Shape, SeenIsAccounted, NEW k \in Managers, PollStep(k)
  PROVE  Shape' /\ SeenIsAccounted'
<1>1. CASE Start(k)
  BY <1>1, StartDoes, SeenQuietly DEF Start, ghosts
<1>2. CASE Status(k)
  BY <1>2, StatusDoes, SeenQuietly DEF Status, ghosts
<1>3. CASE Detail(k)
  BY <1>3, DetailDoes, SeenQuietly DEF Detail, ghosts
<1>4. CASE Reconcile(k)
  BY <1>4, ReconcileDoes, SeenQuietly DEF Reconcile, ghosts
<1>5. CASE HistoryRead(k)
  <2>1. PICK G : ReadFor(k, G) /\ poll'[k].new = UNION {NewIn(DataOf(k).rows[a], a) : a \in G}
    BY <1>5, HistoryReadDoes
  <2>2. \A a \in G : \A x \in NewIn(DataOf(k).rows[a], a) : x \in poll'[k].new
    BY <2>1
  <2>3. Shape' /\ poll[k].new = {} /\ poll[k].acts = {} /\ live' = live
    BY <1>5, HistoryReadDoes DEF HistoryRead
  <2> QED
    BY <2>1, <2>2, <2>3, SeenReading
<1>6. CASE Raw(k)
  BY <1>6, RawDoes, SeenRaw
<1>7. CASE Summary(k)
  BY <1>7, SummaryDoes, SeenQuietly DEF Summary, ghosts
<1>8. CASE Transactions(k)
  <2>1. Shape' /\ poll[k].new = {} /\ live' = live
    BY <1>8, TransactionsDoes DEF Transactions
  <2>2. CASE Quiet(k) /\ UNCHANGED <<lost, baselined>>
    BY <2>1, <2>2, SeenQuietly
  <2>3. CASE \E a \in poll[k].detail :
               /\ ReadFor(k, {a})
               /\ poll'[k].acts = poll[k].acts
                     \cup {<<Owner[x[1]], x[2]>> : x \in NewIn(DataOf(k).rows[a], a)}
    BY <2>1, <2>3, SeenReading
  <2> QED
    BY <1>8, <2>1, <2>2, <2>3, TransactionsDoes
<1>9. CASE RowsDone(k)
  BY <1>9, RowsDoneDoes, SeenQuietly DEF RowsDone, ghosts
<1>10. CASE Report(k)
  BY <1>10, ReportDoes, SeenReport
<1>11. CASE Close(k)
  BY <1>11, CloseDoes, SeenQuietly DEF Close
<1>12. CASE Fail(k)
  BY <1>12, FailDoes, SeenFail
<1>13. CASE FailSaved(k)
  BY <1>13, FailSavedDoes, SeenQuietly DEF FailSaved, ghosts
<1> QED
  BY <1>1, <1>2, <1>3, <1>4, <1>5, <1>6, <1>7, <1>8, <1>9, <1>10, <1>11, <1>12, <1>13 DEF PollStep

LEMMA SeenReplace ==
  ASSUME Shape, SeenIsAccounted, Replace
  PROVE  SeenIsAccounted'
<1>1. PICK ms \in SUBSET Monitors :
        /\ Replaced(mem[live], mem'[live], ms)
        /\ lost' = {x \in lost : Owner[x[1]] \in ms}
        /\ baselined' = {x \in baselined : Owner[x[1]] \in ms}
  BY ReplaceDoes
<1>2. live' = live /\ poll'[live].acts = poll[live].acts /\ poll'[live].new = poll[live].new
  BY ReplaceDoes DEF Replace
<1>3. ASSUME NEW a \in DOMAIN mem'[live].rows, mem'[live].rows[a].base, NEW t \in SeenBy(mem'[live].rows[a])
      PROVE  Accounted(a, t)'
  <2>1. Owner[a] \in ms /\ a \in AddrsOf(ms)
    BY <1>1, <1>3 DEF Replaced, AddrsOf
  <2>2. a \in DOMAIN mem[live].rows /\ mem'[live].rows[a] = mem[live].rows[a]
    BY <1>1, <1>3, <2>1 DEF Replaced, NewRow
  <2>3. Accounted(a, t)
    BY <1>3, <2>2 DEF SeenIsAccounted, Accounted
  <2> QED
    BY <1>1, <1>2, <2>1, <2>3 DEF Accounted, Replaced, Purged
<1> QED
  BY <1>2, <1>3 DEF SeenIsAccounted, Accounted, SeenBy

\* What a start reads from the store is in its journal or among the losses.
LEMMA SeenLoaded ==
  ASSUME Shape, mem'[live'] = disk, baselined' = baselined,
         lost' = Known(disk, lost) \cup Forgotten(disk)
  PROVE  SeenIsAccounted'
<1>1. ASSUME NEW a \in DOMAIN disk.rows, NEW t \in SeenBy(disk.rows[a]) PROVE Accounted(a, t)'
  <2>1. a \in Addrs /\ t \in Txs
    BY <1>1 DEF Shape, IsData, RowRecs, SeenBy
  <2>2. <<a, t>> \in Known(disk, {<<a, t>>})
    BY <1>1 DEF Known
  <2>3. <<a, t>> \in Forgotten(disk) \/ <<Owner[a], t>> \in disk.log \/ <<a, t>> \in baselined
    BY <2>1, <2>2 DEF Forgotten
  <2> QED
    BY <2>3 DEF Accounted
<1> QED
  BY <1>1 DEF SeenIsAccounted, Accounted, SeenBy

LEMMA SeenStep ==
  ASSUME SeenInv, [Next]_vars
  PROVE  SeenInv'
<1>1. Shape /\ SeenIsAccounted
  BY DEF SeenInv
<1>2. CASE UNCHANGED vars
  <2>1. UNCHANGED <<tip, mem, disk, poll, live, baselined, lost>>
    BY <1>2 DEF vars, ghosts
  <2>2. \A p, d : Carries(p, d)' <=> Carries(p, d)
    BY <2>1, HistoryStays DEF Carries, Hands, IsData
  <2> QED
    BY <1>1, <2>1, <2>2 DEF SeenInv, Shape, SeenIsAccounted, SeenBy, DataOf
<1>3. CASE Broadcast
  BY <1>1, <1>3, BroadcastDoes DEF SeenInv, SeenIsAccounted, SeenBy, ghosts
<1>4. CASE \E k \in Managers : PollStep(k)
  BY <1>1, <1>4, SeenPollStep DEF SeenInv
<1>5. CASE Replace
  BY <1>1, <1>5, ReplaceDoes, SeenReplace DEF SeenInv
<1>6. CASE Settings
  <2>1. Shape' /\ Quiet(live) /\ live \in Managers
    BY <1>1, <1>6, SettingsDoes DEF Shape
  <2>2. live' = live /\ lost' = lost /\ baselined' = baselined
    BY <1>6 DEF Settings
  <2> QED
    BY <1>1, <2>1, <2>2, SeenQuietly DEF SeenInv
<1>7. CASE Reload
  BY <1>1, <1>7, ReloadDoes, SeenLoaded DEF SeenInv, Reload
<1>8. CASE Restart
  <2>1. Shape' /\ mem'[live'] = disk
    BY <1>1, <1>8, RestartDoes DEF Shape
  <2> QED
    BY <1>1, <1>8, <2>1, SeenLoaded DEF SeenInv, Restart
<1> QED
  BY <1>2, <1>3, <1>4, <1>5, <1>6, <1>7, <1>8 DEF Next

LEMMA SeenInit == Init => SeenInv
<1> SUFFICES ASSUME Init PROVE SeenInv
  OBVIOUS
<1>1. live \in Managers /\ Shape
  BY InitShape DEF Shape
<1>2. \A a \in DOMAIN mem[live].rows : ~ mem[live].rows[a].base
  <2>1. mem[live].rows = [a \in Addrs |-> NewRow]
    BY <1>1 DEF Init
  <2> QED
    BY <2>1 DEF NewRow
<1> QED
  BY <1>1, <1>2 DEF SeenInv, SeenIsAccounted

(* Every entry a row of the live manager counts as seen is in the journal,  *)
(* on its way there in the running poll, absorbed by a baseline, or one of  *)
(* the named losses, whatever edits, refusals, reloads and stops meet the   *)
(* poll (wallet_watch.py:3501, :4709).                                      *)
THEOREM SeenStaysAccounted == Spec => []SeenIsAccounted
<1>1. SeenInv => SeenIsAccounted
  BY DEF SeenInv
<1> QED
  BY SeenInit, SeenStep, <1>1, PTL DEF Spec

-----------------------------------------------------------------------------
(* What may no longer be reported only grows, and a movement that becomes   *)
(* about to be notified leaves what may still be reported.                  *)

LEMMA ClosedIsFinite ==
  ASSUME NEW d, NEW m, NEW t
  PROVE  /\ IsFiniteSet(Moves(m, t)) /\ IsFiniteSet(Closed(d, m, t))
         /\ Cardinality(Closed(d, m, t)) \in Nat
         /\ Cardinality(Closed(d, m, t)) <= Cardinality(Moves(m, t))
         /\ Cardinality(Moves(m, t)) \in Nat
<1>1. IsFiniteSet(Moves(m, t))
  <2>1. Moves(m, t) \subseteq Addrs
    BY DEF Moves, AddrsOf
  <2> QED
    BY <2>1, ChainAssumption, FS_Subset
<1>2. Closed(d, m, t) \subseteq Moves(m, t)
  BY DEF Closed
<1> QED
  BY <1>1, <1>2, FS_Subset, FS_CardinalityType

LEMMA ClosedGrows ==
  ASSUME NEW d, NEW e, NEW m, NEW t, Closed(d, m, t) \subseteq Closed(e, m, t)
  PROVE  /\ Cardinality(Closed(d, m, t)) <= Cardinality(Closed(e, m, t))
         /\ (\E a \in Closed(e, m, t) : a \notin Closed(d, m, t))
               => Cardinality(Closed(d, m, t)) + 1 <= Cardinality(Closed(e, m, t))
<1> DEFINE C == Closed(d, m, t)
           D == Closed(e, m, t)
<1>1. IsFiniteSet(D) /\ Cardinality(C) \in Nat /\ Cardinality(D) \in Nat
  BY ClosedIsFinite
<1> HIDE DEF C, D
<1>2. Cardinality(C) <= Cardinality(D) /\ (Cardinality(D) = Cardinality(C) => D = C)
  <2>1. C \subseteq D
    BY DEF C, D
  <2> QED
    BY <1>1, <2>1, FS_Subset
<1>3. (\E a \in D : a \notin C) => Cardinality(C) + 1 <= Cardinality(D)
  BY <1>1, <1>2
<1> QED
  BY <1>2, <1>3 DEF C, D

LEMMA ClosedLater ==
  ASSUME tip' = tip
  PROVE  /\ \A m, t : Closed(mem[live], m, t)' = Closed(mem'[live'], m, t)
         /\ \A m, t : Closed(disk, m, t)' = Closed(disk', m, t)
BY DEF Closed, Open, Moves, History, Latest

LEMMA FadingCloses ==
  ASSUME NEW d, NEW e, Fades(d, e), NEW m, NEW t
  PROVE  Closed(d, m, t) \subseteq Closed(e, m, t)
BY DEF Fades, Closed, Open

LEMMA ReadingCloses ==
  ASSUME NEW d, NEW e, NEW G, Reads(d, e, G), G \subseteq DOMAIN d.rows, NEW m, NEW t
  PROVE  /\ Closed(d, m, t) \subseteq Closed(e, m, t)
         /\ \A a \in G : <<a, t>> \in NewIn(d.rows[a], a) /\ Owner[a] = m /\ a \in Addrs =>
              a \in Closed(e, m, t) /\ a \notin Closed(d, m, t)
<1>1. ASSUME NEW a \in G PROVE e.rows[a].base /\ e.rows[a].known = Latest(a)
  BY DEF Reads
<1>2. Closed(d, m, t) \subseteq Closed(e, m, t)
  <2> SUFFICES ASSUME NEW a \in Closed(d, m, t) PROVE ~ Open(e, a, t)
    BY DEF Closed
  <2>1. CASE a \in G
    BY <1>1, <2>1 DEF Closed, Open
  <2>2. CASE a \notin G
    BY <2>2 DEF Closed, Open, Reads
  <2> QED
    BY <2>1, <2>2
<1>3. ASSUME NEW a \in G, <<a, t>> \in NewIn(d.rows[a], a), Owner[a] = m, a \in Addrs
      PROVE  a \in Closed(e, m, t) /\ a \notin Closed(d, m, t)
  <2>1. d.rows[a].base /\ t \in Latest(a) \ d.rows[a].known
    BY <1>3 DEF NewIn
  <2>2. t \in History(a) /\ a \in Touches[t]
    BY <2>1 DEF Latest, History
  <2>3. a \in Moves(m, t)
    BY <1>3, <2>2 DEF Moves, AddrsOf
  <2> QED
    BY <1>1, <2>1, <2>2, <2>3 DEF Closed, Open
<1> QED
  BY <1>2, <1>3

-----------------------------------------------------------------------------
(* A movement is notified at most once per address it touches.              *)

LEMMA BoundLater ==
  ASSUME tip' = tip,
         \A m \in Monitors, t \in Txs : Bounded(alerts'[<<m, t>>], poll'[live'], mem'[live'], m, t),
         ~ Reporting(poll'[live']) => \A m \in Monitors, t \in Txs :
            alerts'[<<m, t>>] <= Cardinality(Closed(disk', m, t))
  PROVE  BoundFacts'
<1>1. \A m, t : Bounded(alerts[<<m, t>>], poll[live], mem[live], m, t)'
                 <=> Bounded(alerts'[<<m, t>>], poll'[live'], mem'[live'], m, t)
  BY ClosedLater DEF Bounded, Pending
<1>2. \A m, t : Closed(disk, m, t)' = Closed(disk', m, t)
  BY ClosedLater
<1> QED
  BY <1>1, <1>2 DEF BoundFacts, Reporting

\* Once a report was started again, nothing more is claimed.
LEMMA ToldAgain ==
  ASSUME Shape', AlertShape', redone'
  PROVE  ToldInv'
BY DEF ToldInv

\* A step of one manager's poll, or an edit, that notifies nothing: what is
\* newly about to be notified was open before it.
LEMMA ToldQuietly ==
  ASSUME ToldInv, NEW k \in Managers, k = live \/ ~ At(k, "idle"),
         Shape', OthersStay(k), UNCHANGED <<tip, live, alerts>>, redone => redone',
         poll[k].orphan \/ ~ poll'[k].orphan,
         (poll[k].acts # {} => poll[k].moved) => (poll'[k].acts # {} => poll'[k].moved),
         ~ poll[k].orphan => \A m \in Monitors, t \in Txs :
            /\ Closed(mem[k], m, t) \subseteq Closed(mem'[k], m, t)
            /\ \/ Pending(poll'[k], m, t) => Pending(poll[k], m, t)
               \/ \E a \in Closed(mem'[k], m, t) : a \notin Closed(mem[k], m, t),
         \/ disk' = mem'[k]
         \/ disk' = disk /\ (Reporting(poll[k]) => Reporting(poll'[k]))
  PROVE  ToldInv'
<1>1. AlertShape'
  BY DEF ToldInv, AlertShape
<1>2. CASE redone'
  BY <1>1, <1>2, ToldAgain
<1>3. CASE ~ redone'
  <2>1. AloneFacts /\ BoundFacts /\ AlertShape /\ k = live /\ ~ poll[k].orphan
    BY <1>3 DEF ToldInv, AloneFacts
  <2>2. AloneFacts'
    BY <2>1 DEF AloneFacts, OthersStay, At
  <2>3. ASSUME NEW m \in Monitors, NEW t \in Txs PROVE Bounded(alerts'[<<m, t>>], poll'[k], mem'[k], m, t)
    <3> DEFINE C == Cardinality(Closed(mem[k], m, t))
               D == Cardinality(Closed(mem'[k], m, t))
               Before == Pending(poll[k], m, t)
               After == Pending(poll'[k], m, t)
    <3>1. alerts[<<m, t>>] + (IF Before THEN 1 ELSE 0) <= C /\ alerts[<<m, t>>] \in Nat
      BY <2>1 DEF BoundFacts, Bounded, AlertShape
    <3>2. C \in Nat /\ D \in Nat
      BY ClosedIsFinite
    <3>3. C <= D /\ (After => Before \/ C + 1 <= D)
      <4>1. Closed(mem[k], m, t) \subseteq Closed(mem'[k], m, t)
        BY <2>1
      <4>2. (After => Before) \/ \E a \in Closed(mem'[k], m, t) : a \notin Closed(mem[k], m, t)
        BY <2>1
      <4> QED
        BY <4>1, <4>2, ClosedGrows
    <3> HIDE DEF C, D, Before, After
    <3>4. alerts[<<m, t>>] + (IF After THEN 1 ELSE 0) <= D
      BY <3>1, <3>2, <3>3
    <3> QED
      BY <3>4 DEF D, After, Bounded
  <2>4. ASSUME ~ Reporting(poll'[k]), NEW m \in Monitors, NEW t \in Txs
        PROVE  alerts'[<<m, t>>] <= Cardinality(Closed(disk', m, t))
    <3>1. CASE disk' = mem'[k]
      <4>1. alerts'[<<m, t>>] + (IF Pending(poll'[k], m, t) THEN 1 ELSE 0) <= Cardinality(Closed(mem'[k], m, t))
        BY <2>3 DEF Bounded
      <4>2. alerts'[<<m, t>>] \in Nat /\ Cardinality(Closed(mem'[k], m, t)) \in Nat
        BY <1>1, ClosedIsFinite DEF AlertShape
      <4> QED
        BY <3>1, <4>1, <4>2
    <3>2. CASE disk' = disk /\ (Reporting(poll[k]) => Reporting(poll'[k]))
      BY <2>1, <2>4, <3>2 DEF BoundFacts
    <3> QED
      BY <3>1, <3>2
  <2>5. BoundFacts'
    BY <2>1, <2>3, <2>4, BoundLater
  <2> QED
    BY <1>1, <2>2, <2>5 DEF ToldInv
<1> QED
  BY <1>2, <1>3

\* A step of a poll that reads histories: each new entry was open, and is not
\* any more.
LEMMA ToldReading ==
  ASSUME Shape, NEW k \in Managers, NEW G, ReadFor(k, G), ~ poll[k].orphan,
         NEW m \in Monitors, NEW t \in Txs,
         Pending(poll'[k], m, t) => \/ Pending(poll[k], m, t)
                                   \/ \E a \in G : /\ <<a, t>> \in NewIn(DataOf(k).rows[a], a)
                                                   /\ Owner[a] = m
  PROVE  /\ Closed(mem[k], m, t) \subseteq Closed(mem'[k], m, t)
         /\ \/ Pending(poll'[k], m, t) => Pending(poll[k], m, t)
            \/ \E a \in Closed(mem'[k], m, t) : a \notin Closed(mem[k], m, t)
<1>1. /\ Reads(mem[k], mem'[k], G) /\ DataOf(k) = mem[k] /\ G \subseteq DOMAIN mem[k].rows
      /\ DOMAIN mem[k].rows \subseteq Addrs
  BY DEF ReadFor, DataOf, Shape, IsData
<1>2. /\ Closed(mem[k], m, t) \subseteq Closed(mem'[k], m, t)
      /\ \A a \in G : <<a, t>> \in NewIn(mem[k].rows[a], a) /\ Owner[a] = m /\ a \in Addrs =>
            a \in Closed(mem'[k], m, t) /\ a \notin Closed(mem[k], m, t)
  BY <1>1, ReadingCloses
<1> QED
  BY <1>1, <1>2

LEMMA NewInIsPairs ==
  ASSUME NEW r, NEW a
  PROVE  \A x \in NewIn(r, a) : x = <<a, x[2]>> /\ x[1] = a
BY DEF NewIn

LEMMA ToldHistoryRead ==
  ASSUME ToldInv, NEW k \in Managers, HistoryRead(k)
  PROVE  ToldInv'
<1>1. Shape
  BY DEF ToldInv
<1>2. /\ Shape' /\ poll[k].at = "history" /\ poll[k].acts = {} /\ poll'[k].acts = {}
      /\ poll'[k].orphan = poll[k].orphan /\ poll'[k].moved = poll[k].moved
  BY <1>1, HistoryReadDoes
<1>3. PICK G : ReadFor(k, G) /\ poll'[k].new = UNION {NewIn(DataOf(k).rows[a], a) : a \in G}
  BY <1>1, HistoryReadDoes
<1>4. UNCHANGED <<tip, disk, live, alerts, redone>>
  BY DEF HistoryRead
<1>5. ASSUME NEW m \in Monitors, NEW t \in Txs, Pending(poll'[k], m, t)
      PROVE  \E a \in G : <<a, t>> \in NewIn(DataOf(k).rows[a], a) /\ Owner[a] = m
  <2>1. PICK x \in poll'[k].new : Owner[x[1]] = m /\ x[2] = t
    BY <1>2, <1>5 DEF Pending
  <2>2. PICK a \in G : x \in NewIn(DataOf(k).rows[a], a)
    BY <1>3, <2>1
  <2> QED
    BY <2>1, <2>2, NewInIsPairs
<1>6. ~ poll[k].orphan => \A m \in Monitors, t \in Txs :
            /\ Closed(mem[k], m, t) \subseteq Closed(mem'[k], m, t)
            /\ \/ Pending(poll'[k], m, t) => Pending(poll[k], m, t)
               \/ \E a \in Closed(mem'[k], m, t) : a \notin Closed(mem[k], m, t)
  BY <1>1, <1>3, <1>5, ToldReading
<1>7. OthersStay(k) /\ ~ At(k, "idle") /\ ~ Reporting(poll[k])
  BY <1>2, <1>3 DEF ReadFor, At, Reporting
<1> QED
  BY <1>2, <1>4, <1>6, <1>7, ToldQuietly

LEMMA ToldTransactions ==
  ASSUME ToldInv, NEW k \in Managers, Transactions(k)
  PROVE  ToldInv'
<1>1. Shape
  BY DEF ToldInv
<1>2. /\ Shape' /\ poll[k].at = "txs" /\ poll[k].new = {} /\ poll'[k].new = {}
      /\ poll'[k].orphan = poll[k].orphan
  BY <1>1, TransactionsDoes
<1>3. UNCHANGED <<tip, disk, live, alerts, redone>>
  BY DEF Transactions
<1>4. ~ At(k, "idle") /\ ~ Reporting(poll[k])
  BY <1>2 DEF At, Reporting
<1>5. CASE Quiet(k) /\ poll'[k].moved = poll[k].moved
  <2>1. \A m \in Monitors, t \in Txs : Closed(mem[k], m, t) \subseteq Closed(mem'[k], m, t)
    BY <1>5, FadingCloses DEF Quiet
  <2>2. \A m \in Monitors, t \in Txs : Pending(poll'[k], m, t) => Pending(poll[k], m, t)
    BY <1>5 DEF Quiet, Pending
  <2>3. OthersStay(k) /\ poll'[k].acts = poll[k].acts
    BY <1>5 DEF Quiet
  <2> QED
    BY <1>2, <1>3, <1>4, <1>5, <2>1, <2>2, <2>3, ToldQuietly
<1>6. ASSUME NEW a,
             LET new == {<<Owner[x[1]], x[2]>> : x \in NewIn(DataOf(k).rows[a], a)}
             IN /\ ReadFor(k, {a})
                /\ poll'[k].acts = poll[k].acts \cup new
                /\ poll'[k].moved = (poll[k].moved \/ new # {})
      PROVE  ToldInv'
  <2> DEFINE new == {<<Owner[x[1]], x[2]>> : x \in NewIn(DataOf(k).rows[a], a)}
  <2>1. /\ ReadFor(k, {a}) /\ poll'[k].acts = poll[k].acts \cup new
        /\ poll'[k].moved = (poll[k].moved \/ new # {})
    BY <1>6
  <2>2. ASSUME NEW m \in Monitors, NEW t \in Txs, Pending(poll'[k], m, t), ~ Pending(poll[k], m, t)
        PROVE  <<a, t>> \in NewIn(DataOf(k).rows[a], a) /\ Owner[a] = m
    <3>1. <<m, t>> \in new
      BY <1>2, <2>1, <2>2 DEF Pending
    <3> QED
      BY <3>1, NewInIsPairs
  <2> HIDE DEF new
  <2>3. ~ poll[k].orphan => \A m \in Monitors, t \in Txs :
              /\ Closed(mem[k], m, t) \subseteq Closed(mem'[k], m, t)
              /\ \/ Pending(poll'[k], m, t) => Pending(poll[k], m, t)
                 \/ \E b \in Closed(mem'[k], m, t) : b \notin Closed(mem[k], m, t)
    BY <1>1, <2>1, <2>2, ToldReading
  <2>4. (poll[k].acts # {} => poll[k].moved) => (poll'[k].acts # {} => poll'[k].moved)
    BY <2>1
  <2>5. OthersStay(k)
    BY <2>1 DEF ReadFor
  <2> QED
    BY <1>2, <1>3, <1>4, <2>3, <2>4, <2>5, ToldQuietly
<1> QED
  BY <1>1, <1>5, <1>6, TransactionsDoes

\* A quiet step of a poll that is not at its report or its end.
LEMMA ToldNothing ==
  ASSUME ToldInv, NEW k \in Managers, k = live \/ ~ At(k, "idle"), Shape', Quiet(k),
         UNCHANGED <<tip, live, alerts>>, redone => redone', poll[k].orphan \/ ~ poll'[k].orphan,
         poll'[k].acts = {} \/ poll'[k].moved = poll[k].moved,
         \/ disk' = mem'[k]
         \/ disk' = disk /\ ~ Reporting(poll[k])
  PROVE  ToldInv'
<1>1. \A m \in Monitors, t \in Txs : Closed(mem[k], m, t) \subseteq Closed(mem'[k], m, t)
  BY FadingCloses DEF Quiet
<1>2. \A m \in Monitors, t \in Txs : Pending(poll'[k], m, t) => Pending(poll[k], m, t)
  BY DEF Quiet, Pending
<1>3. OthersStay(k) /\ poll'[k].acts = poll[k].acts
  BY DEF Quiet
<1>4. (poll[k].acts # {} => poll[k].moved) => (poll'[k].acts # {} => poll'[k].moved)
  BY <1>3
<1> QED
  BY <1>1, <1>2, <1>3, <1>4, ToldQuietly

LEMMA ToldRaw ==
  ASSUME ToldInv, NEW k \in Managers, Raw(k)
  PROVE  ToldInv'
<1>1. Shape
  BY DEF ToldInv
<1>2. /\ Shape' /\ OthersStay(k) /\ mem' = mem /\ poll[k].at = "raw" /\ poll'[k].new = {}
      /\ poll'[k].orphan = poll[k].orphan /\ (poll'[k].acts # {} => poll'[k].moved)
  BY <1>1, RawDoes
<1>3. PICK kept \in SUBSET poll[k].new : poll'[k].acts = {<<Owner[x[1]], x[2]>> : x \in kept}
  BY <1>1, RawDoes
<1>4. UNCHANGED <<tip, disk, live, alerts, redone>>
  BY DEF Raw
<1>5. \A m \in Monitors, t \in Txs : Pending(poll'[k], m, t) => Pending(poll[k], m, t)
  BY <1>2, <1>3 DEF Pending
<1>6. ~ At(k, "idle") /\ ~ Reporting(poll[k])
  BY <1>2 DEF At, Reporting
<1> QED
  BY <1>2, <1>4, <1>5, <1>6, ToldQuietly

LEMMA ToldFail ==
  ASSUME ToldInv, NEW k \in Managers, Fail(k)
  PROVE  ToldInv'
<1>1. Shape
  BY DEF ToldInv
<1>2. /\ Shape' /\ OthersStay(k) /\ Fades(mem[k], mem'[k]) /\ poll'[k].acts = {} /\ poll'[k].new = {}
      /\ poll'[k].orphan = poll[k].orphan /\ poll[k].at \notin {"report", "close"}
  BY <1>1, FailDoes
<1>3. UNCHANGED <<tip, disk, live, alerts, redone>>
  BY DEF Fail
<1>4. ~ At(k, "idle") /\ ~ Reporting(poll[k])
  BY <1>2 DEF Fail, At, Reporting
<1>5. \A m \in Monitors, t \in Txs : ~ Pending(poll'[k], m, t)
  BY <1>2 DEF Pending
<1>6. \A m \in Monitors, t \in Txs : Closed(mem[k], m, t) \subseteq Closed(mem'[k], m, t)
  BY <1>2, FadingCloses
<1> QED
  BY <1>2, <1>3, <1>4, <1>5, <1>6, ToldQuietly

LEMMA ToldReport ==
  ASSUME ToldInv, NEW k \in Managers, Report(k)
  PROVE  ToldInv'
<1>1. Shape /\ AlertShape
  BY DEF ToldInv
<1>2. PICK x \in poll[k].acts :
        /\ poll'[k].acts = poll[k].acts \ {x}
        /\ alerts' = [alerts EXCEPT ![x] = IF @ < AlertCap THEN @ + 1 ELSE @]
  BY <1>1, ReportDoes
<1>3. /\ Shape' /\ OthersStay(k) /\ mem'[k].rows = mem[k].rows
      /\ poll[k].new = {} /\ poll'[k].new = {} /\ poll'[k].at \in {"close", "report"}
      /\ poll'[k].orphan = poll[k].orphan /\ poll'[k].moved = poll[k].moved
  BY <1>1, ReportDoes
<1>4. UNCHANGED <<tip, disk, live, redone>> /\ poll[k].at = "report"
  BY DEF Report, At
<1>5. \A y \in Monitors \X Txs :
        /\ alerts[y] \in Nat /\ alerts'[y] \in Nat
        /\ alerts'[y] <= alerts[y] + (IF y = x THEN 1 ELSE 0)
  BY <1>1, <1>2 DEF AlertShape
<1>6. AlertShape'
  BY <1>1, <1>2, <1>5 DEF AlertShape
<1>7. CASE redone'
  BY <1>3, <1>6, <1>7, ToldAgain
<1>8. CASE ~ redone'
  <2>1. AloneFacts /\ BoundFacts /\ k = live
    BY <1>4, <1>8 DEF ToldInv, AloneFacts, At
  <2>2. AloneFacts' /\ poll[k].moved
    BY <1>2, <1>3, <1>4, <2>1 DEF AloneFacts, OthersStay, At
  <2>3. ASSUME NEW m \in Monitors, NEW t \in Txs
        PROVE  Bounded(alerts'[<<m, t>>], poll'[k], mem'[k], m, t)
    <3> DEFINE y == <<m, t>>
               C == Cardinality(Closed(mem[k], m, t))
    <3>1. Closed(mem'[k], m, t) = Closed(mem[k], m, t)
      BY <1>3 DEF Closed, Open
    <3>2. alerts[y] + (IF Pending(poll[k], m, t) THEN 1 ELSE 0) <= C /\ C \in Nat
      BY <2>1, ClosedIsFinite DEF BoundFacts, Bounded
    <3>3. alerts[y] \in Nat /\ alerts'[y] \in Nat /\ alerts'[y] <= alerts[y] + (IF y = x THEN 1 ELSE 0)
      BY <1>5
    <3>4. /\ Pending(poll'[k], m, t) => Pending(poll[k], m, t) /\ y # x
          /\ y = x => Pending(poll[k], m, t)
      BY <1>2, <1>3 DEF Pending
    <3> HIDE DEF C, y
    <3>5. alerts'[y] + (IF Pending(poll'[k], m, t) THEN 1 ELSE 0) <= C
      BY <3>2, <3>3, <3>4
    <3> QED
      BY <3>1, <3>5 DEF Bounded, C, y
  <2>4. Reporting(poll'[k])
    BY <1>3, <2>2 DEF Reporting
  <2>5. BoundFacts'
    BY <1>4, <2>1, <2>3, <2>4, BoundLater
  <2> QED
    BY <1>3, <1>6, <2>2, <2>5 DEF ToldInv
<1> QED
  BY <1>7, <1>8

LEMMA ToldPollStep ==
  ASSUME ToldInv, NEW k \in Managers, PollStep(k)
  PROVE  ToldInv'
<1>1. Shape
  BY DEF ToldInv
<1>2. CASE Start(k)
  <2>1. poll[k] = Idle /\ k = live
    BY <1>1, <1>2 DEF Start, At, Shape, Carries
  <2>2. poll[k].acts = {} /\ ~ Reporting(poll[k])
    BY <2>1 DEF Idle, Reporting
  <2>3. Shape' /\ Quiet(k) /\ ~ poll'[k].orphan /\ poll'[k].acts = {}
    BY <1>1, <1>2, <2>2, StartDoes DEF Quiet
  <2> QED
    BY <1>2, <2>1, <2>2, <2>3, ToldNothing DEF Start, ghosts
<1>3. CASE Status(k)
  <2>1. ~ At(k, "idle") /\ ~ Reporting(poll[k])
    BY <1>3 DEF Status, At, Reporting
  <2> QED
    BY <1>1, <1>3, <2>1, StatusDoes, ToldNothing DEF Status, ghosts
<1>4. CASE Detail(k)
  <2>1. ~ At(k, "idle") /\ ~ Reporting(poll[k])
    BY <1>4 DEF Detail, At, Reporting
  <2> QED
    BY <1>1, <1>4, <2>1, DetailDoes, ToldNothing DEF Detail, ghosts
<1>5. CASE Reconcile(k)
  <2>1. ~ At(k, "idle") /\ ~ Reporting(poll[k])
    BY <1>5 DEF Reconcile, At, Reporting
  <2> QED
    BY <1>1, <1>5, <2>1, ReconcileDoes, ToldNothing DEF Reconcile, ghosts
<1>6. CASE HistoryRead(k)
  BY <1>6, ToldHistoryRead
<1>7. CASE Raw(k)
  BY <1>7, ToldRaw
<1>8. CASE Summary(k)
  <2>1. ~ At(k, "idle") /\ ~ Reporting(poll[k])
    BY <1>8 DEF Summary, At, Reporting
  <2> QED
    BY <1>1, <1>8, <2>1, SummaryDoes, ToldNothing DEF Summary, ghosts
<1>9. CASE Transactions(k)
  BY <1>9, ToldTransactions
<1>10. CASE RowsDone(k)
  <2>1. ~ At(k, "idle") /\ ~ Reporting(poll[k])
    BY <1>10 DEF RowsDone, At, Reporting
  <2> QED
    BY <1>1, <1>10, <2>1, RowsDoneDoes, ToldNothing DEF RowsDone, ghosts
<1>11. CASE Report(k)
  BY <1>11, ToldReport
<1>12. CASE Close(k)
  <2>1. /\ Shape' /\ Quiet(k) /\ poll'[k] = Idle
        /\ disk' = mem'[k] \/ (disk' = disk /\ ~ poll[k].moved)
    BY <1>1, <1>12, CloseDoes
  <2>2. ~ At(k, "idle") /\ ~ poll'[k].orphan /\ poll'[k].acts = {}
    BY <1>12, <2>1 DEF Close, At, Idle
  <2> QED
    BY <1>12, <2>1, <2>2, ToldNothing DEF Close, Reporting
<1>13. CASE Fail(k)
  BY <1>13, ToldFail
<1>14. CASE FailSaved(k)
  <2>1. /\ Shape' /\ Quiet(k) /\ mem' = mem /\ poll'[k] = Idle
        /\ disk' = mem[k] \/ disk' = disk
    BY <1>1, <1>14, FailSavedDoes
  <2>2. ~ At(k, "idle") /\ ~ poll'[k].orphan /\ poll'[k].acts = {} /\ ~ Reporting(poll[k])
    BY <1>14, <2>1 DEF FailSaved, At, Idle, Reporting
  <2> QED
    BY <1>14, <2>1, <2>2, ToldNothing DEF FailSaved, ghosts
<1> QED
  BY <1>2, <1>3, <1>4, <1>5, <1>6, <1>7, <1>8, <1>9, <1>10, <1>11, <1>12, <1>13, <1>14 DEF PollStep

LEMMA ToldBroadcast ==
  ASSUME ToldInv, Broadcast
  PROVE  ToldInv'
<1>1. Shape /\ AlertShape /\ tip \in 0 .. MaxTip
  BY DEF ToldInv, Shape
<1>2. /\ Shape' /\ UNCHANGED <<mem, disk, poll, live, alerts, redone>>
      /\ tip' \in 0 .. MaxTip /\ tip' >= tip
  BY <1>1, BroadcastDoes DEF ghosts
<1>3. AlertShape'
  BY <1>1, <1>2 DEF AlertShape
<1>4. ASSUME NEW m \in Monitors, NEW t \in Txs
      PROVE  /\ Closed(mem[live], m, t) \subseteq Closed(mem[live], m, t)'
             /\ Closed(disk, m, t) \subseteq Closed(disk, m, t)'
  <2>1. \A a : /\ History(a) \subseteq History(a)'
              /\ \A u \in History(a) \ Latest(a) : u \notin Latest(a)'
    BY <1>1, <1>2, HistoryGrows
  <2> QED
    BY <1>2, <2>1 DEF Closed, Open, Moves
<1>5. ASSUME NEW m \in Monitors, NEW t \in Txs
      PROVE  /\ Cardinality(Closed(mem[live], m, t)) <= Cardinality(Closed(mem[live], m, t)')
             /\ Cardinality(Closed(disk, m, t)) <= Cardinality(Closed(disk, m, t)')
             /\ Cardinality(Closed(mem[live], m, t)) \in Nat
             /\ Cardinality(Closed(disk, m, t)) \in Nat
             /\ Cardinality(Closed(mem[live], m, t)') \in Nat
             /\ Cardinality(Closed(disk, m, t)') \in Nat
  <2> DEFINE C == Closed(mem[live], m, t)'
             D == Closed(disk, m, t)'
  <2>1. C \subseteq Moves(m, t) /\ D \subseteq Moves(m, t)
    BY DEF Closed, Moves
  <2>2. IsFiniteSet(C) /\ IsFiniteSet(D)
    <3> HIDE DEF C, D
    <3> QED
      BY <2>1, ClosedIsFinite, FS_Subset
  <2>3. /\ Cardinality(Closed(mem[live], m, t)) <= Cardinality(C)
        /\ Cardinality(Closed(disk, m, t)) <= Cardinality(D)
    <3>1. Closed(mem[live], m, t) \subseteq C /\ Closed(disk, m, t) \subseteq D
      BY <1>4
    <3> HIDE DEF C, D
    <3> QED
      BY <2>2, <3>1, FS_Subset
  <2> QED
    BY <2>2, <2>3, ClosedIsFinite, FS_CardinalityType
<1>6. CASE redone'
  BY <1>2, <1>3, <1>6, ToldAgain
<1>7. CASE ~ redone'
  <2>1. AloneFacts /\ BoundFacts
    BY <1>2, <1>7 DEF ToldInv
  <2>2. AloneFacts'
    BY <1>2, <2>1 DEF AloneFacts, At
  <2>3. ASSUME NEW m \in Monitors, NEW t \in Txs
        PROVE  Bounded(alerts[<<m, t>>], poll[live], mem[live], m, t)'
    <3> DEFINE C == Cardinality(Closed(mem[live], m, t))
               D == Cardinality(Closed(mem[live], m, t)')
    <3>1. /\ alerts[<<m, t>>] + (IF Pending(poll[live], m, t) THEN 1 ELSE 0) <= C
          /\ alerts[<<m, t>>] \in Nat
      BY <1>1, <2>1 DEF BoundFacts, Bounded, AlertShape
    <3>2. C <= D /\ C \in Nat /\ D \in Nat
      BY <1>5
    <3> HIDE DEF C, D
    <3>3. alerts[<<m, t>>] + (IF Pending(poll[live], m, t) THEN 1 ELSE 0) <= D
      BY <3>1, <3>2
    <3> QED
      BY <1>2, <3>3 DEF Bounded, Pending, D
  <2>4. ASSUME ~ Reporting(poll[live]), NEW m \in Monitors, NEW t \in Txs
        PROVE  alerts'[<<m, t>>] <= Cardinality(Closed(disk, m, t)')
    <3>1. alerts[<<m, t>>] <= Cardinality(Closed(disk, m, t)) /\ alerts[<<m, t>>] \in Nat
      BY <1>1, <2>1, <2>4 DEF BoundFacts, AlertShape
    <3> DEFINE D == Cardinality(Closed(disk, m, t)')
               C == Cardinality(Closed(disk, m, t))
    <3>2. C <= D /\ C \in Nat /\ D \in Nat
      BY <1>5
    <3> HIDE DEF C, D
    <3>3. alerts[<<m, t>>] <= D
      BY <3>1, <3>2 DEF C
    <3> QED
      BY <1>2, <3>3 DEF D
  <2>5. BoundFacts'
    BY <1>2, <2>3, <2>4 DEF BoundFacts, Reporting
  <2> QED
    BY <1>2, <1>3, <2>2, <2>5 DEF ToldInv
<1> QED
  BY <1>6, <1>7

LEMMA ToldReplace ==
  ASSUME ToldInv, Replace
  PROVE  ToldInv'
<1>1. Shape /\ AlertShape /\ live \in Managers
  BY DEF ToldInv, Shape
<1>2. /\ Shape' /\ OthersStay(live) /\ disk' = mem'[live]
      /\ (At(live, "idle") => poll'[live] = poll[live])
  BY <1>1, ReplaceDoes
<1>3. UNCHANGED <<tip, live, alerts>> /\ redone' = (redone \/ ~ At(live, "idle"))
  BY DEF Replace
<1>4. AlertShape'
  BY <1>1, <1>3 DEF AlertShape
<1>5. CASE redone'
  BY <1>2, <1>4, <1>5, ToldAgain
<1>6. CASE ~ redone'
  <2>1. poll'[live] = poll[live] /\ (redone => redone')
    BY <1>2, <1>3, <1>6
  <2>2. PICK ms \in SUBSET Monitors : Replaced(mem[live], mem'[live], ms)
    BY <1>1, ReplaceDoes
  <2>3. \A m \in Monitors, t \in Txs : Closed(mem[live], m, t) \subseteq Closed(mem'[live], m, t)
    BY <2>2 DEF Replaced, NewRow, Closed, Open
  <2> QED
    BY <1>1, <1>2, <1>3, <2>1, <2>3, ToldQuietly
<1> QED
  BY <1>5, <1>6

LEMMA ToldSettings ==
  ASSUME ToldInv, Settings
  PROVE  ToldInv'
<1>1. Shape /\ live \in Managers
  BY DEF ToldInv, Shape
<1>2. Shape' /\ Quiet(live) /\ poll' = poll /\ disk' = mem'[live]
  BY <1>1, SettingsDoes
<1>3. UNCHANGED <<tip, live, alerts, redone>>
  BY DEF Settings
<1> QED
  BY <1>1, <1>2, <1>3, ToldNothing

\* A start from the store, when no report was under way.
LEMMA ToldLoaded ==
  ASSUME ToldInv, Shape', UNCHANGED <<tip, disk, alerts>>, redone => redone',
         mem'[live'] = disk, poll'[live'] = Idle,
         ~ redone' => ~ Reporting(poll[live]),
         ~ redone' => \A k \in Managers \ {live'} : poll'[k].at = "idle"
  PROVE  ToldInv'
<1>1. AlertShape'
  BY DEF ToldInv, AlertShape
<1>2. CASE redone'
  BY <1>1, <1>2, ToldAgain
<1>3. CASE ~ redone'
  <2>1. AlertShape /\ BoundFacts
    BY <1>3 DEF ToldInv
  <2>2. /\ poll'[live'].acts = {} /\ poll'[live'].new = {} /\ ~ poll'[live'].orphan
    BY DEF Idle
  <2>3. AloneFacts'
    BY <1>3, <2>2 DEF AloneFacts, At
  <2>4. ASSUME NEW m \in Monitors, NEW t \in Txs
        PROVE  /\ Bounded(alerts'[<<m, t>>], poll'[live'], mem'[live'], m, t)
               /\ alerts'[<<m, t>>] <= Cardinality(Closed(disk', m, t))
    <3>1. alerts[<<m, t>>] <= Cardinality(Closed(disk, m, t)) /\ alerts[<<m, t>>] \in Nat
      BY <1>3, <2>1 DEF BoundFacts, AlertShape
    <3>2. ~ Pending(poll'[live'], m, t)
      BY <2>2 DEF Pending
    <3> QED
      BY <3>1, <3>2 DEF Bounded
  <2>5. BoundFacts'
    BY <2>4, BoundLater
  <2> QED
    BY <1>1, <2>3, <2>5 DEF ToldInv
<1> QED
  BY <1>2, <1>3

LEMMA ToldReload ==
  ASSUME ToldInv, Reload
  PROVE  ToldInv'
<1>1. Shape
  BY DEF ToldInv
<1>2. /\ Shape' /\ poll' = poll /\ disk' = disk /\ live' \in Managers \ {live}
      /\ mem'[live'] = disk /\ poll'[live'] = Idle
  BY <1>1, ReloadDoes
<1>3. UNCHANGED <<tip, alerts>> /\ redone' = (redone \/ ~ At(live, "idle"))
  BY DEF Reload
<1>4. ASSUME ~ redone'
      PROVE  ~ Reporting(poll[live]) /\ \A k \in Managers \ {live'} : poll'[k].at = "idle"
  <2>1. At(live, "idle") /\ AloneFacts
    BY <1>3, <1>4 DEF ToldInv
  <2> QED
    BY <1>2, <2>1 DEF AloneFacts, At, Reporting
<1> QED
  BY <1>2, <1>3, <1>4, ToldLoaded

LEMMA ToldRestart ==
  ASSUME ToldInv, Restart
  PROVE  ToldInv'
<1>1. Shape /\ live \in Managers
  BY DEF ToldInv, Shape
<1>2. /\ Shape' /\ disk' = disk /\ live' = live
      /\ \A k \in Managers : mem'[k] = disk /\ poll'[k] = Idle
  BY <1>1, RestartDoes
<1>3. /\ UNCHANGED <<tip, alerts>>
      /\ redone' = (redone \/ \E k \in Managers : poll[k].at \in {"report", "close"} /\ poll[k].moved)
  BY DEF Restart
<1>4. ~ redone' => ~ Reporting(poll[live])
  BY <1>1, <1>3 DEF Reporting
<1>5. \A k \in Managers \ {live'} : poll'[k].at = "idle"
  BY <1>2 DEF Idle
<1> QED
  BY <1>1, <1>2, <1>3, <1>4, <1>5, ToldLoaded

LEMMA ToldStep ==
  ASSUME ToldInv, [Next]_vars
  PROVE  ToldInv'
<1>1. CASE UNCHANGED vars
  <2>1. UNCHANGED <<tip, mem, disk, poll, live, alerts, redone>>
    BY <1>1 DEF vars, ghosts
  <2>2. \A p, d : Carries(p, d)' <=> Carries(p, d)
    BY <2>1, HistoryStays DEF Carries, Hands, IsData
  <2>3. Shape'
    BY <2>1, <2>2 DEF ToldInv, Shape, DataOf
  <2>4. AlertShape'
    BY <2>1 DEF ToldInv, AlertShape
  <2>5. CASE redone'
    BY <2>3, <2>4, <2>5, ToldAgain
  <2>6. CASE ~ redone'
    <3>1. AloneFacts /\ BoundFacts
      BY <2>1, <2>6 DEF ToldInv
    <3>2. AloneFacts'
      BY <2>1, <3>1 DEF AloneFacts, At
    <3>3. /\ \A m \in Monitors, t \in Txs :
                Bounded(alerts'[<<m, t>>], poll'[live'], mem'[live'], m, t)
          /\ ~ Reporting(poll'[live']) => \A m \in Monitors, t \in Txs :
                alerts'[<<m, t>>] <= Cardinality(Closed(disk', m, t))
      BY <2>1, <3>1 DEF BoundFacts
    <3>4. BoundFacts'
      BY <2>1, <3>3, BoundLater
    <3> QED
      BY <2>3, <2>4, <3>2, <3>4 DEF ToldInv
  <2> QED
    BY <2>5, <2>6
<1>2. CASE Broadcast
  BY <1>2, ToldBroadcast
<1>3. CASE \E k \in Managers : PollStep(k)
  BY <1>3, ToldPollStep
<1>4. CASE Replace
  BY <1>4, ToldReplace
<1>5. CASE Settings
  BY <1>5, ToldSettings
<1>6. CASE Reload
  BY <1>6, ToldReload
<1>7. CASE Restart
  BY <1>7, ToldRestart
<1> QED
  BY <1>1, <1>2, <1>3, <1>4, <1>5, <1>6, <1>7 DEF Next

LEMMA ToldInit == Init => ToldInv
<1> SUFFICES ASSUME Init PROVE ToldInv
  OBVIOUS
<1>1. Shape
  BY InitShape
<1>2. alerts = [x \in Monitors \X Txs |-> 0] /\ \A k \in Managers : poll[k] = Idle
  BY DEF Init
<1>3. AlertShape
  BY <1>2 DEF AlertShape
<1>4. /\ poll[live] = Idle /\ live \in Managers
      /\ poll[live].acts = {} /\ poll[live].new = {} /\ ~ poll[live].orphan
  BY <1>1, <1>2 DEF Shape, Idle
<1>5. AloneFacts
  BY <1>2, <1>4 DEF AloneFacts, At, Idle
<1>6. ASSUME NEW m \in Monitors, NEW t \in Txs
      PROVE  /\ Bounded(alerts[<<m, t>>], poll[live], mem[live], m, t)
             /\ alerts[<<m, t>>] <= Cardinality(Closed(disk, m, t))
  <2>1. alerts[<<m, t>>] = 0 /\ ~ Pending(poll[live], m, t)
    BY <1>2, <1>4 DEF Pending
  <2>2. /\ Cardinality(Closed(mem[live], m, t)) \in Nat
        /\ Cardinality(Closed(disk, m, t)) \in Nat
    BY ClosedIsFinite
  <2> QED
    BY <2>1, <2>2 DEF Bounded
<1> QED
  BY <1>1, <1>3, <1>5, <1>6 DEF ToldInv, BoundFacts

(* A movement is notified at most once per address it touches, unless an    *)
(* edit, a reload or a stop came between its report and the save that       *)
(* closes the poll (wallet_watch.py:4709, :4727).                           *)
THEOREM MovementsToldOnce == Spec => []AlertedOnce
<1>1. ToldInv => AlertedOnce
  <2> SUFFICES ASSUME ToldInv, ~ redone, NEW m \in Monitors, NEW t \in Txs
               PROVE  alerts[<<m, t>>] <= Cardinality(Moves(m, t))
    BY DEF AlertedOnce, Moves
  <2> DEFINE n == Cardinality(Closed(mem[live], m, t))
  <2>1. alerts[<<m, t>>] + (IF Pending(poll[live], m, t) THEN 1 ELSE 0) <= n
        /\ alerts[<<m, t>>] \in Nat
    BY DEF ToldInv, BoundFacts, Bounded, AlertShape
  <2>2. n \in Nat /\ n <= Cardinality(Moves(m, t)) /\ Cardinality(Moves(m, t)) \in Nat
    BY ClosedIsFinite
  <2> HIDE DEF n
  <2> QED
    BY <2>1, <2>2
<1> QED
  BY ToldInit, ToldStep, <1>1, PTL DEF Spec

-----------------------------------------------------------------------------
(* One outage, one notice.  The owner hears of an outage while the live     *)
(* manager knows of none, so it is enough that what the owner was told last *)
(* the live manager knows: over a stop, because it was saved.               *)

\* The streak of refusals, and the outage that its third makes.
Healthy(d) == d.streak \in 0 .. 3 /\ (d.streak = 3 => d.outage)
SameHealth(d, e) == e.streak = d.streak /\ e.outage = d.outage

\* What the owner was told, the live manager knows; while a stop may still come,
\* no poll of another manager is left to save its data over what was saved, and
\* a notice is saved, or will be by the refused poll that gave it.
OutageInv ==
  /\ Healthy(disk) /\ \A k \in Managers : Healthy(mem[k])
  /\ offline => mem[live].outage
  /\ stops < MaxStops =>
       /\ \A k \in Managers \ {live} : At(k, "idle")
       /\ offline /\ (At(live, "failed") => ~ poll[live].moved) => disk.outage

\* A step of a poll that neither begins nor ends it, nor meets a refusal.
Working(k) ==
  /\ \A j \in Managers : SameHealth(mem[j], mem'[j])
  /\ \A j \in Managers \ {k} : poll'[j] = poll[j]
  /\ poll[k].at \notin {"idle", "failed"} /\ poll'[k].at # "failed"
  /\ UNCHANGED <<disk, live, offline, stops>>

LEMMA RowsKeepHealth ==
  ASSUME NEW d, IsData(d), NEW f
  PROVE  SameHealth(d, [d EXCEPT !.rows = f])
BY DEF IsData, SameHealth

LEMMA RowKeepsHealth ==
  ASSUME NEW d, IsData(d), NEW a, NEW r
  PROVE  SameHealth(d, With(d, a, r))
BY DEF IsData, SameHealth, With

LEMMA WorkKeepsHealth ==
  ASSUME Shape, NEW k \in Managers, NEW d, NEW p, WorkOn(k, d, p), IsPoll(p),
         SameHealth(DataOf(k), d)
  PROVE  /\ \A j \in Managers : SameHealth(mem[j], mem'[j])
         /\ \A j \in Managers \ {k} : poll'[j] = poll[j]
         /\ poll'[k].at = p.at
<1>1. /\ \A j \in Managers \ {k} : mem'[j] = mem[j] /\ poll'[j] = poll[j]
      /\ mem'[k] = IF poll[k].orphan THEN mem[k] ELSE d
      /\ poll'[k].at = p.at
  BY WorkDoes
<1>2. SameHealth(mem[k], mem'[k])
  BY <1>1 DEF DataOf, SameHealth
<1> QED
  BY <1>1, <1>2 DEF SameHealth

\* A poll moves on to another await and leaves all data as they are.
LEMMA PollKeepsHealth ==
  ASSUME Shape, NEW k \in Managers, NEW p, poll' = [poll EXCEPT ![k] = p],
         UNCHANGED <<mem, disk, live, offline, stops>>,
         poll[k].at \notin {"idle", "failed"}, p.at # "failed"
  PROVE  Working(k)
BY DEF Shape, Working, SameHealth

LEMMA StatusWorks ==
  ASSUME Shape, NEW k \in Managers, Status(k)
  PROVE  Working(k)
<1> DEFINE rows == DataOf(k).rows
           bare == {a \in poll[k].todo : ~rows[a].base}
           changed == {a \in poll[k].todo \ bare : History(a) # rows[a].sig}
<1>1. PICK batch \in SUBSET bare, due \in SUBSET (poll[k].todo \ (bare \cup changed)) :
        poll' = [poll EXCEPT ![k] = [@ EXCEPT
               !.at = "detail", !.todo = {}, !.sigs = [a \in Addrs |->
                  IF a \in changed \cup batch THEN History(a) ELSE {}],
               !.detail = changed \cup batch, !.recon = due]]
  BY DEF Status
<1> DEFINE D == changed \cup batch
           g == [a \in Addrs |-> IF a \in D THEN History(a) ELSE {}]
           p == [poll[k] EXCEPT !.at = "detail", !.todo = {}, !.sigs = g, !.detail = D, !.recon = due]
<1>2. poll' = [poll EXCEPT ![k] = p]
  BY <1>1
<1> HIDE DEF D, g
<1>3. p.at = "detail" /\ poll[k].at = "status" /\ UNCHANGED <<mem, disk, live, offline, stops>>
  BY DataIsData DEF Status, At, IsPoll, ghosts, counts
<1> HIDE DEF p
<1> QED
  BY <1>2, <1>3, PollKeepsHealth

LEMMA DetailWorks ==
  ASSUME Shape, NEW k \in Managers, Detail(k)
  PROVE  Working(k)
<1>1. PICK D, f :
        WorkOn(k, [DataOf(k) EXCEPT !.rows = f], [poll[k] EXCEPT !.at = "reconcile", !.detail = D])
  BY DEF Detail
<1> DEFINE p == [poll[k] EXCEPT !.at = "reconcile", !.detail = D]
<1>2. IsData(DataOf(k)) /\ IsPoll(poll[k]) /\ poll[k].at = "detail"
  BY DataIsData DEF Detail, At
<1>3. IsPoll(p) /\ p.at = "reconcile"
  BY <1>2 DEF IsPoll
<1>4. SameHealth(DataOf(k), [DataOf(k) EXCEPT !.rows = f])
  BY <1>2, RowsKeepHealth
<1> HIDE DEF p
<1>5. WorkOn(k, [DataOf(k) EXCEPT !.rows = f], p)
  BY <1>1 DEF p
<1>6. UNCHANGED <<disk, live, offline, stops>>
  BY DEF Detail, ghosts
<1> QED
  BY <1>2, <1>3, <1>4, <1>5, <1>6, WorkKeepsHealth DEF Working

LEMMA ReconcileWorks ==
  ASSUME Shape, NEW k \in Managers, Reconcile(k)
  PROVE  Working(k)
<1>1. PICK f :
        WorkOn(k, [DataOf(k) EXCEPT !.rows = f],
               [poll[k] EXCEPT !.recon = {}, !.at = IF poll[k].detail = {} THEN "close" ELSE "history"])
  BY DEF Reconcile
<1> DEFINE p == [poll[k] EXCEPT !.recon = {}, !.at = IF poll[k].detail = {} THEN "close" ELSE "history"]
<1>2. IsData(DataOf(k)) /\ IsPoll(poll[k]) /\ poll[k].at = "reconcile"
  BY DataIsData DEF Reconcile, At
<1>3. IsPoll(p) /\ p.at \in {"close", "history"}
  BY <1>2 DEF IsPoll
<1>4. SameHealth(DataOf(k), [DataOf(k) EXCEPT !.rows = f])
  BY <1>2, RowsKeepHealth
<1> HIDE DEF p
<1>5. WorkOn(k, [DataOf(k) EXCEPT !.rows = f], p)
  BY <1>1 DEF p
<1>6. UNCHANGED <<disk, live, offline, stops>>
  BY DEF Reconcile, ghosts, counts
<1> QED
  BY <1>2, <1>3, <1>4, <1>5, <1>6, WorkKeepsHealth DEF Working

LEMMA HistoryReadWorks ==
  ASSUME Shape, NEW k \in Managers, HistoryRead(k)
  PROVE  Working(k)
<1>1. PICK new, f :
        WorkOn(k, [DataOf(k) EXCEPT !.rows = f],
               [poll[k] EXCEPT !.new = new, !.at = IF new = {} THEN "close" ELSE "raw",
                  !.detail = {}, !.sigs = Idle.sigs])
  BY DEF HistoryRead
<1> DEFINE p == [poll[k] EXCEPT !.new = new, !.at = IF new = {} THEN "close" ELSE "raw",
                    !.detail = {}, !.sigs = Idle.sigs]
<1>2. IsData(DataOf(k)) /\ IsPoll(poll[k]) /\ poll[k].at = "history"
  BY DataIsData DEF HistoryRead, At
<1>3. IsPoll(p) /\ p.at \in {"close", "raw"}
  BY <1>2 DEF IsPoll
<1>4. SameHealth(DataOf(k), [DataOf(k) EXCEPT !.rows = f])
  BY <1>2, RowsKeepHealth
<1> HIDE DEF p
<1>5. WorkOn(k, [DataOf(k) EXCEPT !.rows = f], p)
  BY <1>1 DEF p
<1>6. UNCHANGED <<disk, live, offline, stops>>
  BY DEF HistoryRead
<1> QED
  BY <1>2, <1>3, <1>4, <1>5, <1>6, WorkKeepsHealth DEF Working

LEMMA RawWorks ==
  ASSUME Shape, NEW k \in Managers, Raw(k)
  PROVE  Working(k)
<1>1. PICK kept, acts : poll' = [poll EXCEPT ![k] = [poll[k] EXCEPT !.new = {},
         !.at = IF kept = {} THEN "close" ELSE "report", !.acts = acts, !.moved = (kept # {})]]
  BY DEF Raw
<1> DEFINE p == [poll[k] EXCEPT !.new = {},
              !.at = IF kept = {} THEN "close" ELSE "report", !.acts = acts, !.moved = (kept # {})]
<1>2. /\ p.at \in {"close", "report"} /\ poll[k].at = "raw"
      /\ UNCHANGED <<mem, disk, live, offline, stops>>
  BY DataIsData DEF Raw, At, IsPoll
<1> HIDE DEF p
<1>3. poll' = [poll EXCEPT ![k] = p]
  BY <1>1 DEF p
<1> QED
  BY <1>2, <1>3, PollKeepsHealth

LEMMA RowsDoneWorks ==
  ASSUME Shape, NEW k \in Managers, RowsDone(k)
  PROVE  Working(k)
<1> DEFINE p == [poll[k] EXCEPT !.at = IF poll[k].acts = {} THEN "close" ELSE "report"]
<1>1. /\ p.at \in {"close", "report"} /\ poll[k].at = "rows"
      /\ UNCHANGED <<mem, disk, live, offline, stops>>
  BY DataIsData DEF RowsDone, At, IsPoll, ghosts, counts
<1>2. poll' = [poll EXCEPT ![k] = p]
  BY DEF RowsDone
<1> HIDE DEF p
<1> QED
  BY <1>1, <1>2, PollKeepsHealth

LEMMA SummaryWorks ==
  ASSUME Shape, NEW k \in Managers, Summary(k)
  PROVE  Working(k)
<1> DEFINE q == poll[k]
           p(a) == [q EXCEPT !.todo = @ \ {a}]
<1>1. IsData(DataOf(k)) /\ IsPoll(q) /\ q.at = "rows"
  BY DataIsData DEF Summary, At
<1>2. PICK a, r, g :
       \/ WorkOn(k, With(DataOf(k), a, r), [q EXCEPT !.todo = @ \ {a}])
       \/ /\ poll' = [poll EXCEPT ![k] = [[q EXCEPT !.todo = @ \ {a}] EXCEPT !.at = "txs",
                                            !.detail = {a}, !.sigs = g]]
          /\ mem' = mem
       \/ poll' = [poll EXCEPT ![k] = [q EXCEPT !.todo = @ \ {a}]] /\ mem' = mem
  <2>1. PICK a \in q.todo :
       \/ WorkOn(k, With(DataOf(k), a, [DataOf(k).rows[a] EXCEPT !.bal = History(a)]), [q EXCEPT !.todo = @ \ {a}])
       \/ /\ poll' = [poll EXCEPT ![k] = [[q EXCEPT !.todo = @ \ {a}] EXCEPT !.at = "txs", !.detail = {a},
                           !.sigs[a] = History(a)]]
          /\ mem' = mem
       \/ poll' = [poll EXCEPT ![k] = [q EXCEPT !.todo = @ \ {a}]] /\ mem' = mem
    BY DEF Summary
  <2> DEFINE x == [q EXCEPT !.todo = @ \ {a}]
             g == [x.sigs EXCEPT ![a] = History(a)]
  <2>2. [x EXCEPT !.at = "txs", !.detail = {a}, !.sigs[a] = History(a)]
        = [x EXCEPT !.at = "txs", !.detail = {a}, !.sigs = g]
    BY <1>1 DEF IsPoll
  <2> QED
    BY <2>1, <2>2
<1> DEFINE x == [q EXCEPT !.todo = @ \ {a}]
           w == [x EXCEPT !.at = "txs", !.detail = {a}, !.sigs = g]
<1>3. IsPoll(x) /\ x.at = "rows"
  BY <1>1 DEF IsPoll
<1>4. w.at = "txs"
  BY <1>3 DEF IsPoll
<1>5. UNCHANGED <<disk, live, offline, stops>>
  BY DEF Summary, ghosts
<1>6. SameHealth(DataOf(k), With(DataOf(k), a, r))
  BY <1>1, RowKeepsHealth
<1>7. \/ WorkOn(k, With(DataOf(k), a, r), x)
      \/ poll' = [poll EXCEPT ![k] = w] /\ mem' = mem
      \/ poll' = [poll EXCEPT ![k] = x] /\ mem' = mem
  BY <1>2
<1> HIDE DEF x, w
<1>8. CASE WorkOn(k, With(DataOf(k), a, r), x)
  BY <1>1, <1>3, <1>5, <1>6, <1>8, WorkKeepsHealth DEF Working
<1>9. CASE poll' = [poll EXCEPT ![k] = w] /\ mem' = mem
  BY <1>1, <1>4, <1>5, <1>9, PollKeepsHealth
<1>10. CASE poll' = [poll EXCEPT ![k] = x] /\ mem' = mem
  BY <1>1, <1>3, <1>5, <1>10, PollKeepsHealth
<1> QED
  BY <1>7, <1>8, <1>9, <1>10

LEMMA TransactionsWorks ==
  ASSUME Shape, NEW k \in Managers, Transactions(k)
  PROVE  Working(k)
<1> DEFINE q == poll[k]
           p == [q EXCEPT !.at = "rows", !.detail = {}, !.sigs = Idle.sigs]
<1>1. IsData(DataOf(k)) /\ IsPoll(q) /\ q.at = "txs"
  BY DataIsData DEF Transactions, At
<1>2. PICK a, r, new, moved :
       \/ WorkOn(k, With(DataOf(k), a, r), [p EXCEPT !.acts = new, !.moved = moved])
       \/ WorkOn(k, With(DataOf(k), a, r), p)
  <2>1. PICK a \in q.detail :
       LET r == DataOf(k).rows[a]
           new == {<<Owner[x[1]], x[2]>> : x \in NewIn(r, a)}
       IN \/ WorkOn(k, With(DataOf(k), a, [Read(r, a, q.sigs[a]) EXCEPT !.bal = History(a)]),
                  [p EXCEPT !.acts = @ \cup new, !.moved = @ \/ new # {}])
          \/ WorkOn(k, With(DataOf(k), a, [r EXCEPT !.bal = q.sigs[a]]), p)
    BY DEF Transactions
  <2> DEFINE new == {<<Owner[x[1]], x[2]>> : x \in NewIn(DataOf(k).rows[a], a)}
             acts == p.acts \cup new
             moved == p.moved \/ new # {}
  <2>2. [p EXCEPT !.acts = @ \cup new, !.moved = @ \/ new # {}]
        = [p EXCEPT !.acts = acts, !.moved = moved]
    OBVIOUS
  <2> QED
    BY <2>1, <2>2
<1>3. IsPoll(p) /\ p.at = "rows"
  BY <1>1 DEF IsPoll
<1> HIDE DEF p
<1> DEFINE w == [p EXCEPT !.acts = new, !.moved = moved]
<1>4. IsPoll(w) /\ w.at = "rows"
  BY <1>3 DEF IsPoll
<1>5. UNCHANGED <<disk, live, offline, stops>>
  BY DEF Transactions
<1>6. SameHealth(DataOf(k), With(DataOf(k), a, r))
  BY <1>1, RowKeepsHealth
<1>7. \/ WorkOn(k, With(DataOf(k), a, r), w)
      \/ WorkOn(k, With(DataOf(k), a, r), p)
  BY <1>2
<1> HIDE DEF w
<1>8. CASE WorkOn(k, With(DataOf(k), a, r), w)
  BY <1>1, <1>4, <1>5, <1>6, <1>8, WorkKeepsHealth DEF Working
<1>9. CASE WorkOn(k, With(DataOf(k), a, r), p)
  BY <1>1, <1>3, <1>5, <1>6, <1>9, WorkKeepsHealth DEF Working
<1> QED
  BY <1>7, <1>8, <1>9

LEMMA ReportWorks ==
  ASSUME Shape, NEW k \in Managers, Report(k)
  PROVE  Working(k)
<1>1. PICK x : mem' = [mem EXCEPT ![k] = [mem[k] EXCEPT !.log = mem[k].log \cup {x}]]
  BY DEF Report
<1>2. /\ \A j \in Managers \ {k} : poll'[j] = poll[j]
      /\ poll'[k].at \in {"close", "report"}
  BY ReportDoes DEF OthersStay
<1>3. DOMAIN mem = Managers /\ IsData(mem[k])
  BY DEF Shape
<1>4. SameHealth(mem[k], mem'[k])
  BY <1>1, <1>3 DEF IsData, SameHealth
<1>5. \A j \in Managers : SameHealth(mem[j], mem'[j])
  BY <1>1, <1>3, <1>4 DEF SameHealth
<1>6. poll[k].at = "report" /\ UNCHANGED <<disk, live, offline, stops>>
  BY DEF Report, At
<1> QED
  BY <1>2, <1>5, <1>6 DEF Working

\* Neither the knowledge nor what is saved of it changes.
LEMMA OutageWorking ==
  ASSUME Shape, OutageInv, NEW k \in Managers, Working(k)
  PROVE  OutageInv'
<1>1. live \in Managers /\ live' = live /\ disk' = disk /\ offline' = offline /\ stops' = stops
  BY DEF Shape, Working
<1>2. Healthy(disk') /\ \A j \in Managers : Healthy(mem'[j])
  BY <1>1 DEF OutageInv, Working, Healthy, SameHealth
<1>3. offline' => mem'[live'].outage
  BY <1>1 DEF OutageInv, Working, SameHealth
<1>4. ASSUME stops' < MaxStops
      PROVE  /\ \A j \in Managers \ {live} : At(j, "idle")'
             /\ offline' /\ (At(live, "failed")' => ~ poll'[live].moved) => disk'.outage
  <2>1. \A j \in Managers \ {live} : At(j, "idle")
    BY <1>1, <1>4 DEF OutageInv
  <2>2. k = live
    BY <2>1 DEF Working, At
  <2>3. ~ At(live, "failed")
    BY <2>2 DEF Working, At
  <2> QED
    BY <1>1, <1>4, <2>1, <2>2, <2>3 DEF OutageInv, Working, At
<1> QED
  BY <1>1, <1>2, <1>3, <1>4 DEF OutageInv, At

LEMMA OutageStart ==
  ASSUME Shape, OutageInv, NEW k \in Managers, Start(k)
  PROVE  OutageInv'
<1>1. k = live /\ poll[k].at = "idle" /\ UNCHANGED <<mem, disk, live, offline, stops>>
  BY DEF Start, At, ghosts, counts
<1>2. poll'[k].at # "failed" /\ \A j \in Managers \ {k} : poll'[j] = poll[j]
  <2> DEFINE p == [Idle EXCEPT !.at = IF mem[k].src = "electrum" THEN "status" ELSE "rows",
                               !.todo = DOMAIN mem[k].rows]
  <2>1. p.at # "failed"
    BY DEF Idle
  <2>2. poll' = [poll EXCEPT ![k] = p]
    BY DEF Start
  <2> HIDE DEF p
  <2> QED
    BY <2>1, <2>2 DEF Shape
<1> QED
  BY <1>1, <1>2 DEF OutageInv, At

LEMMA OutageClose ==
  ASSUME Shape, OutageInv, NEW k \in Managers, Close(k)
  PROVE  OutageInv'
<1> DEFINE sound == [DataOf(k) EXCEPT !.streak = 0, !.outage = FALSE]
<1>1. /\ poll[k].at = "close" /\ UNCHANGED <<live, stops>> /\ live \in Managers
      /\ mem' = IF poll[k].orphan THEN mem ELSE [mem EXCEPT ![k] = sound]
      /\ disk' \in {mem'[k], disk}
      /\ offline' = (offline /\ ~(Current(k) /\ DataOf(k).outage))
  BY DEF Close, At, Shape
<1>2. IsData(DataOf(k)) /\ DOMAIN mem = Managers
  BY DataIsData DEF Shape
<1>3. sound.streak = 0 /\ sound.outage = FALSE
  BY <1>2 DEF IsData
<1> HIDE DEF sound
<1>4. poll'[k] = Idle /\ \A j \in Managers \ {k} : poll'[j] = poll[j] /\ mem'[j] = mem[j]
  BY CloseDoes DEF Quiet, OthersStay
<1>5. Healthy(sound)
  BY <1>3 DEF Healthy
<1>6. \A j \in Managers : Healthy(mem'[j])
  BY <1>1, <1>2, <1>5 DEF OutageInv
<1>7. Healthy(disk')
  BY <1>1, <1>6 DEF OutageInv
<1>8. offline' => mem'[live].outage /\ offline
  <2>1. CASE poll[k].orphan
    BY <1>1, <2>1 DEF OutageInv
  <2>2. CASE ~ poll[k].orphan /\ k = live
    BY <1>1, <2>2 DEF OutageInv, Current, DataOf
  <2>3. CASE k # live
    BY <1>1, <1>4, <2>3 DEF OutageInv
  <2> QED
    BY <2>1, <2>2, <2>3
<1>9. ASSUME stops' < MaxStops
      PROVE  /\ \A j \in Managers \ {live} : poll'[j].at = "idle"
             /\ offline' => disk'.outage
  <2>1. \A j \in Managers \ {live} : poll[j].at = "idle"
    BY <1>1, <1>9 DEF OutageInv, At
  <2>2. k = live
    BY <1>1, <2>1
  <2>3. offline => disk.outage
    BY <1>1, <1>9, <2>2 DEF OutageInv, At
  <2> QED
    BY <1>1, <1>4, <1>8, <2>1, <2>2, <2>3
<1> QED
  BY <1>1, <1>6, <1>7, <1>8, <1>9 DEF OutageInv, At

LEMMA OutageFailSaved ==
  ASSUME Shape, OutageInv, NEW k \in Managers, FailSaved(k)
  PROVE  OutageInv'
<1>1. /\ poll[k].at = "failed" /\ UNCHANGED <<mem, live, offline, stops>> /\ live \in Managers
      /\ disk' = mem[k] \/ (disk' = disk /\ ~ poll[k].moved)
  BY DEF FailSaved, At, Shape, ghosts, counts
<1>2. poll'[k] = Idle /\ \A j \in Managers \ {k} : poll'[j] = poll[j]
  BY DEF FailSaved, Shape
<1>3. Idle.at = "idle"
  BY DEF Idle
<1>4. Healthy(disk')
  BY <1>1 DEF OutageInv
<1>5. ASSUME stops' < MaxStops
      PROVE  /\ \A j \in Managers \ {live} : poll'[j].at = "idle"
             /\ offline' => disk'.outage
  <2>1. \A j \in Managers \ {live} : poll[j].at = "idle"
    BY <1>1, <1>5 DEF OutageInv, At
  <2>2. k = live
    BY <1>1, <2>1
  <2> QED
    BY <1>1, <1>2, <1>5, <2>1, <2>2 DEF OutageInv, At
<1> QED
  BY <1>1, <1>4, <1>5 DEF OutageInv, At

LEMMA OutageFail ==
  ASSUME Shape, OutageInv, NEW k \in Managers, Fail(k)
  PROVE  OutageInv'
<1> DEFINE d == DataOf(k)
           p == [Idle EXCEPT !.at = "failed", !.orphan = poll[k].orphan, !.moved = (d.streak \in {0, 2})]
<1>1. /\ WorkOn(k, Refused(d), p) /\ UNCHANGED <<disk, live, stops>> /\ live \in Managers
      /\ offline' = (offline \/ (Current(k) /\ d.streak >= 2 /\ ~ d.outage))
  BY DEF Fail, Shape
<1>2. poll[k].at \notin {"idle", "failed"} /\ IsData(d)
  BY DataIsData DEF Fail, At
<1>3. IsPoll(p) /\ p.moved = (d.streak \in {0, 2}) /\ p.at = "failed"
  BY DEF Idle, IsPoll
<1>4. /\ Refused(d).streak = IF d.streak < 3 THEN d.streak + 1 ELSE 3
      /\ Refused(d).outage = (d.outage \/ d.streak >= 2)
  BY <1>2 DEF Refused, IsData
<1> HIDE DEF p
<1>5. /\ \A j \in Managers \ {k} : mem'[j] = mem[j] /\ poll'[j] = poll[j]
      /\ mem'[k] = IF poll[k].orphan THEN mem[k] ELSE Refused(d)
      /\ poll'[k].moved = (d.streak \in {0, 2}) /\ poll'[k].at = "failed"
  BY <1>1, <1>3, WorkDoes
<1>6. ~ poll[k].orphan => d = mem[k] /\ Healthy(d)
  BY DEF DataOf, OutageInv
<1> HIDE DEF d
<1>7. ASSUME ~ poll[k].orphan PROVE Healthy(Refused(d))
  <2>1. d.streak \in 0 .. 3
    BY <1>6, <1>7 DEF Healthy
  <2>2. Refused(d).streak \in 0 .. 3
    BY <1>4, <2>1
  <2>3. Refused(d).streak = 3 => d.streak >= 2
    BY <1>4, <2>1
  <2> QED
    BY <1>4, <2>2, <2>3 DEF Healthy
<1>8. \A j \in Managers : Healthy(mem'[j])
  BY <1>5, <1>7 DEF OutageInv
<1>9. offline' => mem'[live].outage
  <2>1. CASE k # live \/ poll[k].orphan
    BY <1>1, <1>5, <2>1 DEF OutageInv, Current
  <2>2. CASE k = live /\ ~ poll[k].orphan
    <3>1. mem'[live].outage = (d.outage \/ d.streak >= 2) /\ d = mem[live]
      BY <1>4, <1>5, <1>6, <2>2
    <3> QED
      BY <1>1, <2>2, <3>1 DEF OutageInv
  <2> QED
    BY <2>1, <2>2
<1>10. ASSUME stops' < MaxStops
       PROVE  /\ \A j \in Managers \ {live} : poll'[j].at = "idle"
              /\ offline' /\ (poll'[live].at = "failed" => ~ poll'[live].moved) => disk'.outage
  <2>1. \A j \in Managers \ {live} : poll[j].at = "idle"
    BY <1>1, <1>10 DEF OutageInv, At
  <2>2. k = live
    BY <1>2, <2>1
  <2>3. offline => disk.outage
    BY <1>1, <1>2, <1>10, <2>2 DEF OutageInv, At
  \* The refusal that makes the outage is the third, and is saved.
  <2>4. ASSUME offline', ~ poll'[live].moved PROVE offline
    <3>1. d.streak \notin {0, 2}
      BY <1>5, <2>2, <2>4
    <3>2. CASE poll[k].orphan
      BY <1>1, <2>4, <3>2 DEF Current
    <3>3. CASE ~ poll[k].orphan
      <4>1. d.streak >= 2 => d.outage
        BY <1>6, <3>1, <3>3 DEF Healthy
      <4> QED
        BY <1>1, <2>4, <4>1
    <3> QED
      BY <3>2, <3>3
  <2> QED
    BY <1>1, <1>5, <2>1, <2>2, <2>3, <2>4
<1> QED
  BY <1>1, <1>8, <1>9, <1>10 DEF OutageInv, At

LEMMA OutageReplace ==
  ASSUME Shape, OutageInv, Replace
  PROVE  OutageInv'
<1>1. PICK l, f :
        /\ mem' = [mem EXCEPT ![live] = [mem[live] EXCEPT !.log = l, !.rows = f]]
        /\ disk' = [mem[live] EXCEPT !.log = l, !.rows = f]
        /\ poll' = [poll EXCEPT ![live] = Orphaned(poll[live], mem[live])]
  <2> DEFINE l(ms) == Purged(mem[live].log, ms)
             f(ms) == [a \in AddrsOf(ms) |->
                         IF a \in DOMAIN mem[live].rows THEN mem[live].rows[a] ELSE NewRow]
  <2>1. \E ms \in SUBSET Monitors :
        /\ mem' = [mem EXCEPT ![live] = [mem[live] EXCEPT !.log = l(ms), !.rows = f(ms)]]
        /\ disk' = [mem[live] EXCEPT !.log = l(ms), !.rows = f(ms)]
        /\ poll' = [poll EXCEPT ![live] = Orphaned(poll[live], mem[live])]
    BY DEF Replace
  <2> HIDE DEF l, f
  <2> QED
    BY <2>1
<1>2. UNCHANGED <<live, offline, stops>> /\ live \in Managers /\ IsPoll(poll[live])
  BY DEF Replace, Shape
<1> DEFINE e == [mem[live] EXCEPT !.log = l, !.rows = f]
           p == Orphaned(poll[live], mem[live])
<1>3. SameHealth(mem[live], e)
  BY <1>2 DEF SameHealth, Shape, IsData
<1>4. p.at = poll[live].at /\ p.moved = poll[live].moved
  BY <1>2 DEF Orphaned, IsPoll
<1> HIDE DEF e, p
<1>5. /\ mem' = [mem EXCEPT ![live] = e] /\ disk' = e /\ poll' = [poll EXCEPT ![live] = p]
      /\ DOMAIN mem = Managers /\ DOMAIN poll = Managers
  BY <1>1 DEF e, p, Shape
<1>6. Healthy(e) /\ (offline => e.outage)
  BY <1>2, <1>3 DEF OutageInv, Healthy, SameHealth
<1>7. /\ \A j \in Managers : Healthy(mem'[j])
      /\ mem'[live] = e
      /\ \A j \in Managers \ {live} : poll'[j] = poll[j]
  BY <1>2, <1>5, <1>6 DEF OutageInv
<1> QED
  BY <1>2, <1>5, <1>6, <1>7 DEF OutageInv, At

LEMMA OutageSettings ==
  ASSUME Shape, OutageInv, Settings
  PROVE  OutageInv'
<1> DEFINE d == mem[live]
<1>1. PICK s \in Sources :
       LET new == IF s = d.src THEN d ELSE [d EXCEPT !.src = s, !.streak = 0, !.outage = FALSE]
       IN mem' = [mem EXCEPT ![live] = new] /\ disk' = new /\ offline' = (offline /\ s = d.src)
  BY DEF Settings
<1> DEFINE e == IF s = d.src THEN d ELSE [d EXCEPT !.src = s, !.streak = 0, !.outage = FALSE]
<1>2. UNCHANGED <<live, poll, stops>> /\ live \in Managers /\ IsData(d)
  BY DEF Settings, Shape
<1>3. IF s = d.src THEN e = d ELSE e.streak = 0 /\ e.outage = FALSE
  BY <1>2 DEF IsData
<1> HIDE DEF e
<1>4. /\ mem' = [mem EXCEPT ![live] = e] /\ disk' = e /\ offline' = (offline /\ s = d.src)
      /\ DOMAIN mem = Managers
  BY <1>1 DEF e, Shape
<1>5. Healthy(e) /\ (offline' => e.outage)
  <2>1. CASE s = d.src
    <3>1. Healthy(d) /\ (offline => d.outage)
      BY <1>2 DEF OutageInv
    <3> QED
      BY <1>3, <1>4, <2>1, <3>1
  <2>2. CASE s # d.src
    <3>1. e.streak = 0 /\ ~ offline'
      BY <1>3, <1>4, <2>2
    <3> QED
      BY <3>1 DEF Healthy
  <2> QED
    BY <2>1, <2>2
<1>6. (\A j \in Managers : Healthy(mem'[j])) /\ mem'[live] = e
  BY <1>2, <1>4, <1>5 DEF OutageInv
<1> QED
  BY <1>2, <1>4, <1>5, <1>6 DEF OutageInv, At

\* A poll that a reload leaves running may save over the new manager's outage:
\* no stop comes after that.
OnlyTheLastMeetsAPoll == live' # live => At(live, "idle") \/ ~ (stops' < MaxStops)

LEMMA OutageReload ==
  ASSUME Shape, OutageInv, Reload, OnlyTheLastMeetsAPoll
  PROVE  OutageInv'
<1>1. /\ poll' = poll /\ disk' = disk /\ live' \in Managers \ {live}
      /\ mem'[live'] = disk /\ poll'[live'] = Idle
      /\ \A k \in Managers \ {live'} : mem'[k] = mem[k]
  BY ReloadDoes
<1>2. stops < MaxStops /\ offline' = (offline /\ ~ At(live, "failed")) /\ Idle.at = "idle"
  BY DEF Reload, Idle
<1>3. \A j \in Managers : Healthy(mem'[j])
  BY <1>1 DEF OutageInv
<1>4. offline' => disk.outage
  BY <1>2 DEF OutageInv
<1>5. stops' < MaxStops => \A j \in Managers \ {live'} : At(j, "idle")'
  BY <1>1, <1>2 DEF OutageInv, OnlyTheLastMeetsAPoll, At
<1> QED
  BY <1>1, <1>3, <1>4, <1>5 DEF OutageInv

LEMMA OutageRestart ==
  ASSUME Shape, OutageInv, Restart
  PROVE  OutageInv'
<1>1. disk' = disk /\ live' = live /\ live \in Managers /\ \A k \in Managers : mem'[k] = disk /\ poll'[k] = Idle
  BY RestartDoes DEF Shape
<1>2. stops < MaxStops /\ offline' = (offline /\ ~ At(live, "failed")) /\ Idle.at = "idle"
  BY DEF Restart, Idle
<1>3. offline' => disk.outage
  BY <1>2 DEF OutageInv
<1> QED
  BY <1>1, <1>2, <1>3 DEF OutageInv, At

LEMMA OutageStep ==
  ASSUME Shape, OutageInv, [Next]_vars, [OnlyTheLastMeetsAPoll]_vars
  PROVE  OutageInv'
<1>1. CASE UNCHANGED vars \/ Broadcast
  <2>1. UNCHANGED <<mem, disk, poll, live, offline, stops>>
    BY <1>1 DEF vars, ghosts, counts, Broadcast
  <2> QED
    BY <2>1 DEF OutageInv, At
<1>2. ASSUME NEW k \in Managers, PollStep(k) PROVE OutageInv'
  <2>1. \/ Working(k) \/ Start(k) \/ Close(k) \/ Fail(k) \/ FailSaved(k)
    BY <1>2, StatusWorks, DetailWorks, ReconcileWorks, HistoryReadWorks, RawWorks, SummaryWorks,
       TransactionsWorks, RowsDoneWorks, ReportWorks DEF PollStep
  <2> QED
    BY <2>1, OutageWorking, OutageStart, OutageClose, OutageFail, OutageFailSaved
<1>3. CASE Replace \/ Settings
  BY <1>3, OutageReplace, OutageSettings
<1>4. CASE Reload
  <2>1. live' # live
    BY <1>4, ReloadDoes
  <2>2. OnlyTheLastMeetsAPoll
    BY <2>1 DEF vars
  <2> QED
    BY <1>4, <2>2, OutageReload
<1>5. CASE Restart
  BY <1>5, OutageRestart
<1> QED
  BY <1>1, <1>2, <1>3, <1>4, <1>5 DEF Next

LEMMA OutageInit == Init => OutageInv
<1> SUFFICES ASSUME Init PROVE OutageInv
  OBVIOUS
<1>1. PICK s \in Sources, b \in Spent :
        disk = [rows |-> [a \in Addrs |-> NewRow], log |-> {}, streak |-> b.streak,
                outage |-> FALSE, src |-> s]
  BY DEF Init
<1>2. b.streak \in 0 .. 2
  BY ChainAssumption
<1>3. Healthy(disk)
  BY <1>1, <1>2 DEF Healthy
<1>4. /\ \A k \in Managers : mem[k] = disk /\ poll[k].at = "idle"
      /\ offline = FALSE
  BY DEF Init, Idle
<1> QED
  BY <1>3, <1>4 DEF OutageInv, At

(* The owner is not told "offline" again before the source answered or was  *)
(* changed, over any number of stops, if no reload but the last one meets a *)
(* poll (wallet_watch.py:4556-4560, :2036).                                 *)
THEOREM OutagesToldOnce == Spec /\ [][OnlyTheLastMeetsAPoll]_vars => OutageToldOnce
<1>1. SeenInv => Shape
  BY DEF SeenInv
<1>2. OutageInv => \A k \in Managers :
        (Current(k) /\ At(k, "failed")' /\ mem'[k].outage /\ ~mem[k].outage) => ~offline
  BY DEF OutageInv, Current
<1> QED
  BY SeenInit, SeenStep, OutageInit, OutageStep, <1>1, <1>2, PTL DEF Spec, OutageToldOnce

LEMMA StopsAreCounted ==
  ASSUME stops \in Nat, [Next]_vars
  PROVE  /\ stops' \in Nat /\ stops' >= stops
         /\ live' # live => stops' > 0
<1>1. CASE Reload \/ Restart
  <2>1. stops' = stops + 1
    BY <1>1 DEF Reload, Restart
  <2> QED
    BY <2>1
<1>2. CASE UNCHANGED vars \/ Broadcast \/ Replace \/ Settings
  <2>1. UNCHANGED <<stops, live>>
    BY <1>2 DEF vars, counts, Broadcast, Replace, Settings
  <2> QED
    BY <2>1
<1>3. ASSUME NEW k \in Managers, PollStep(k) PROVE UNCHANGED <<stops, live>>
  BY <1>3 DEF PollStep, counts, Start, Status, Detail, Reconcile, HistoryRead, Raw, Summary,
     Transactions, RowsDone, Report, Close, Fail, FailSaved
<1> QED
  BY <1>1, <1>2, <1>3 DEF Next

(* A single stop, whatever it meets, leaves it so (wallet_watch.py:4556).   *)
COROLLARY OneStopToldOnce ==
  ASSUME MaxStops <= 1
  PROVE  Spec => OutageToldOnce
<1>1. Init => stops \in Nat
  BY ChainAssumption DEF Init
<1>2. stops \in Nat /\ [Next]_vars => (stops \in Nat)' /\ [OnlyTheLastMeetsAPoll]_vars
  BY ChainAssumption, StopsAreCounted DEF OnlyTheLastMeetsAPoll
<1> QED
  BY <1>1, <1>2, OutagesToldOnce, PTL DEF Spec
=============================================================================
