----------------------------- MODULE Snapshots ------------------------------
(***************************************************************************)
(* _daily_fifo_snapshots (history.py): what each depot held, and how much  *)
(* of it long-term, at the end of each day of the chart.  One pass over    *)
(* the ledger keeps the lots, running totals and a queue of maturities,    *)
(* where fifo_result builds the lots anew.  A step is an entry of the      *)
(* ledger or its BTC fee, a maturity, an iteration of the loop over the    *)
(* lots or its end, or the end of a day.                                   *)
(***************************************************************************)
EXTENDS LedgerRows

CONSTANTS
    ChartBooks, \* the ledgers considered: sets of entries
    DayEnds,    \* the days of the chart, sorted: the last instant of each
    Threshold,  \* the holding period
    NoDebt

ASSUME ChartBookAssumption ==
    /\ ChartBooks \subseteq SUBSET Entry
    /\ \A B \in ChartBooks : IsFiniteSet(B) /\ \A a, b \in B : a.id = b.id => a = b

ASSUME DayAssumption ==
    /\ DayEnds \in Seq(Nat)
    /\ \A i, j \in 1 .. Len(DayEnds) : i < j => DayEnds[i] < DayEnds[j]
    /\ Threshold \in Nat \ {0}

ASSUME NoDebtAssumption == NoDebt \notin Row

VARIABLES
    chart,          \* the argument "entries"
    waiting,        \* the entries not yet processed
    chartLots,      \* lots_by_depot
    chartCursor,    \* lot_cursor_by_depot, counted from 1
    due,            \* maturities
    position,       \* maturity_position, counted from 1
    total,          \* depot_total
    longTerm,       \* depot_long
    shortTerm,      \* depot_short
    debt,           \* the disposal consume_lots runs for, or NoDebt
    owed,           \* remaining_out
    fee,            \* the BTC fee to be consumed next, or NoDebt
    asOf,           \* history: the last instant maturities were brought up to
    shots           \* the snapshots of the days so far

chartVars == <<chart, waiting, chartLots, chartCursor, due, position,
               total, longTerm, shortTerm, debt, owed, fee, asOf, shots>>

ChartLot == [at : Nat, left : Nat, long : BOOLEAN]
Maturity == [depot : Depots, lot : Nat \ {0}, at : Nat]
Shot == [Depots -> [total : Nat, long : Nat]]

\* The type of every variable.
ChartTypeOK ==
    /\ chart \subseteq Entry /\ waiting \subseteq chart
    /\ chartLots \in [Depots -> Seq(ChartLot)]
    /\ chartCursor \in [Depots -> Nat \ {0}]
    /\ due \in Seq(Maturity) /\ position \in Nat \ {0}
    /\ total \in [Depots -> Nat]
    /\ longTerm \in [Depots -> Nat] /\ shortTerm \in [Depots -> Nat]
    /\ debt \in Row \cup {NoDebt} /\ fee \in Row \cup {NoDebt}
    /\ owed \in Nat /\ asOf \in Nat
    /\ shots \in Seq(Shot)

ChartInit ==
    /\ chart \in ChartBooks
    /\ waiting = chart
    /\ chartLots = [d \in Depots |-> <<>>]
    /\ chartCursor = [d \in Depots |-> 1]
    /\ due = <<>> /\ position = 1
    /\ total = [d \in Depots |-> 0]
    /\ longTerm = [d \in Depots |-> 0]
    /\ shortTerm = [d \in Depots |-> 0]
    /\ debt = NoDebt /\ owed = 0 /\ fee = NoDebt
    /\ asOf = 0
    /\ shots = <<>>

Day == Len(shots) + 1
Cutoff == DayEnds[Day]

\* Nothing is being disposed of, and the chart is not complete.
Between == debt = NoDebt /\ fee = NoDebt /\ Day <= Len(DayEnds)

\* What the pass comes to next: the first entry, or the end of the day.
Now == Min({Cutoff} \cup {e.at : e \in waiting})

-----------------------------------------------------------------------------
\* Mutant: a lot is short-term still at the instant it matures.
RipeAfter(t) == position <= Len(due) /\ due[position].at < t

\* The maturity at the head of the queue is due at t.
RipeAt(t) == position <= Len(due) /\ due[position].at <= t

\* An iteration of mature_until: what is left of a lot becomes long-term.
Mature ==
    /\ Between /\ RipeAt(Now)
    /\ position' = position + 1
    /\ LET d == due[position].depot
           i == due[position].lot
           moved == IF chartLots[d][i].long THEN 0 ELSE chartLots[d][i].left
       IN /\ chartLots' = [chartLots EXCEPT ![d][i].long = TRUE]
          /\ longTerm' = [longTerm EXCEPT ![d] = @ + moved]
          /\ shortTerm' = [shortTerm EXCEPT ![d] = @ - moved]
    /\ UNCHANGED <<chart, waiting, chartCursor, due, total, debt, owed, fee, asOf, shots>>

\* An acquisition adds a lot, and its maturity to the end of the queue.
AddLot(e) ==
    /\ e.into
    /\ chartLots' = [chartLots EXCEPT ![e.depot] =
                        Append(@, [at |-> e.at, left |-> e.amount, long |-> FALSE])]
    /\ due' = Append(due, [depot |-> e.depot, lot |-> Len(chartLots[e.depot]) + 1,
                           at |-> e.at + Threshold])
    /\ total' = [total EXCEPT ![e.depot] = @ + e.amount]
    /\ shortTerm' = [shortTerm EXCEPT ![e.depot] = @ + e.amount]
    /\ UNCHANGED <<debt, owed>>

\* A disposal calls consume_lots.
StartDisposal(e) ==
    /\ ~ e.into
    /\ debt' = EntryRow(e) /\ owed' = e.amount
    /\ UNCHANGED <<chartLots, due, total, shortTerm>>

\* The first entry of the sorted ledger, when its day has come and the lots that
\* mature by then have.
Process(e) ==
    /\ Between /\ e.at <= Cutoff /\ ~ RipeAt(e.at)
    /\ \A f \in waiting \ {e} : Before(EntryRow(e), EntryRow(f))
    /\ waiting' = waiting \ {e}
    /\ asOf' = e.at
    /\ fee' = IF e.fee > 0 THEN FeeRow(e) ELSE NoDebt
    /\ AddLot(e) \/ StartDisposal(e)
    /\ UNCHANGED <<chart, chartCursor, position, longTerm, shots>>

\* consume_transaction_fee, which calls consume_lots.
StartFee ==
    /\ debt = NoDebt /\ fee # NoDebt
    /\ debt' = fee /\ owed' = fee.amount /\ fee' = NoDebt
    /\ UNCHANGED <<chart, waiting, chartLots, chartCursor, due, position,
                   total, longTerm, shortTerm, asOf, shots>>

\* An iteration of the loop of consume_lots, with the lot at the cursor.
TakeFromLot ==
    LET d == debt.depot
        i == chartCursor[d]
        lot == chartLots[d][i]
        used == Least(lot.left, owed)
    IN /\ debt # NoDebt /\ owed > 0 /\ i <= Len(chartLots[d])
       /\ chartLots' = [chartLots EXCEPT ![d][i].left = @ - used]
       /\ chartCursor' = [chartCursor EXCEPT ![d] = IF lot.left = used THEN i + 1 ELSE i]
       /\ owed' = owed - used
       /\ total' = [total EXCEPT ![d] = @ - used]
       /\ longTerm' = [longTerm EXCEPT ![d] = IF lot.long THEN @ - used ELSE @]
       /\ shortTerm' = [shortTerm EXCEPT ![d] = IF lot.long THEN @ ELSE @ - used]
       /\ UNCHANGED <<chart, waiting, due, position, debt, fee, asOf, shots>>

\* consume_lots returns: what is asked for beyond the lots is not subtracted.
EndDisposal ==
    /\ debt # NoDebt
    /\ owed = 0 \/ chartCursor[debt.depot] > Len(chartLots[debt.depot])
    /\ debt' = NoDebt /\ owed' = 0
    /\ UNCHANGED <<chart, waiting, chartLots, chartCursor, due, position,
                   total, longTerm, shortTerm, fee, asOf, shots>>

\* A day ends when no entry up to its last instant is left, and what matures by
\* then has.
EndDay ==
    /\ Between /\ ~ RipeAt(Cutoff)
    /\ \A e \in waiting : e.at > Cutoff
    /\ asOf' = Cutoff
    /\ shots' = Append(shots,
                   [d \in Depots |-> [total |-> total[d], long |-> longTerm[d]]])
    /\ UNCHANGED <<chart, waiting, chartLots, chartCursor, due, position,
                   total, longTerm, shortTerm, debt, owed, fee>>

ChartNext ==
    \/ Mature
    \/ \E e \in waiting : Process(e)
    \/ StartFee
    \/ TakeFromLot
    \/ EndDisposal
    \/ EndDay

ChartSpec == ChartInit /\ [][ChartNext]_chartVars

-----------------------------------------------------------------------------
(* Properties *)

\* What is left in the lots of a depot that are long-term, and in those that
\* are not.
LeftIn(L, long) == Total([i \in 1 .. Len(L) |-> IF L[i].long = long THEN L[i].left ELSE 0])

\* The running totals, changed by every sale, fee and maturity, stay what
\* summing the lots would give.
TotalsMatchLots ==
    \A d \in Depots :
        /\ longTerm[d] = LeftIn(chartLots[d], TRUE)
        /\ shortTerm[d] = LeftIn(chartLots[d], FALSE)
        /\ total[d] = longTerm[d] + shortTerm[d]

\* A queue without priorities is enough: no lot is long-term later than its
\* holding period has passed, and whenever something is disposed of none is
\* long-term earlier.
MaturedInTime ==
    \A d \in Depots : \A i \in 1 .. Len(chartLots[d]) :
        LET lot == chartLots[d][i]
        IN /\ lot.at + Threshold <= asOf => lot.long
           /\ debt # NoDebt /\ lot.long => lot.at + Threshold <= asOf

\* The entries of the chart up to an instant.
UpTo(t) == {e \in chart : e.at <= t}

\* An acquisition that pays a BTC fee at the instant of another entry of its
\* depot: the only ledgers for which the order of the fees differs.
FeeTie(B, d) ==
    \E e, f \in B : e # f /\ e.into /\ e.fee > 0 /\ e.depot = d /\ f.depot = d /\ e.at = f.at

\* "processes each ledger row and each lot maturity only once while preserving
\* exact chronological FIFO semantics": each day shows for each depot what is
\* still open of the entries up to it, and what of that came in long enough ago,
\* as fifo_result has them (OldestSpent of Fifo). Oversold ledgers included; all
\* but those with a tie of fees up to that day.
ExactWithoutFeeTie ==
    \A day \in 1 .. Len(shots) : \A d \in Depots :
        LET end == DayEnds[day]
        IN FeeTie(UpTo(end), d)
           \/ shots[day][d] = [total |-> StillOpen(UpTo(end), d, end),
                               long |-> StillOpen(UpTo(end), d, end - Threshold)]

\* The one pass is as good as building the lots anew every day: its totals, its
\* maturities and its snapshots are all what the lots give.
SnapshotsExact == TotalsMatchLots /\ MaturedInTime /\ ExactWithoutFeeTie

=============================================================================
