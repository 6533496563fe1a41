-------------------------------- MODULE Fifo --------------------------------
(***************************************************************************)
(* fifo_result (fifo.py): the open lots, the matches of disposals with     *)
(* lots and the oversold amounts of a ledger.  The rows of the ledger are  *)
(* processed in chronological order; a depot's lots are consumed behind a  *)
(* cursor that is never moved back.  A step is an iteration of the loop    *)
(* over the rows or of the loop over the lots.                             *)
(*                                                                         *)
(* Amounts are whole numbers of satoshis; prices, currencies and gains are *)
(* left out, for no amount and no lot depends on them.                     *)
(***************************************************************************)
EXTENDS LedgerRows

CONSTANTS
    Books,      \* the ledgers considered: sets of entries
    NoRow

ASSUME BookAssumption ==
    /\ Books \subseteq SUBSET Entry
    /\ \A B \in Books : IsFiniteSet(B) /\ \A a, b \in B : a.id = b.id => a = b

ASSUME NoRowAssumption == NoRow \notin Row

VARIABLES
    ledger,     \* the argument "entries"
    todo,       \* the rows not yet processed
    row,        \* the disposal the loop over the lots runs for, or NoRow
    rest,       \* remaining_sale or remaining_expense
    lots,       \* lots_by_depot
    cursor,     \* lot_cursor_by_depot, counted from 1
    matches,    \* the matches with a lot, in the order of their discovery
    oversold    \* oversold_btc of the run for each depot

vars == <<ledger, todo, row, rest, lots, cursor, matches, oversold>>

Lot == [at : Nat, original : Nat \ {0}, left : Nat]
Match == [by : Row, lot : Nat \ {0}, at : Nat, amount : Nat \ {0}]

\* The type of every variable.
TypeOK ==
    /\ ledger \subseteq Entry
    /\ todo \subseteq Row
    /\ row \in Row \cup {NoRow}
    /\ rest \in Nat
    /\ lots \in [Depots -> Seq(Lot)]
    /\ cursor \in [Depots -> Nat \ {0}]
    /\ matches \in Seq(Match)
    /\ oversold \in [Depots -> Nat]

Init ==
    /\ ledger \in Books
    /\ todo = Expand(ledger)
    /\ row = NoRow
    /\ rest = 0
    /\ lots = [d \in Depots |-> <<>>]
    /\ cursor = [d \in Depots |-> 1]
    /\ matches = <<>>
    /\ oversold = [d \in Depots |-> 0]

First(r) == \A s \in todo \ {r} : Before(r, s)

-----------------------------------------------------------------------------
\* An incoming row appends a lot to its depot.
Acquire(r) ==
    /\ row = NoRow /\ First(r) /\ ~ r.out
    /\ todo' = todo \ {r}
    /\ lots' = [lots EXCEPT ![r.depot] =
                   Append(@, [at |-> r.at, original |-> r.amount, left |-> r.amount])]
    /\ UNCHANGED <<ledger, row, rest, cursor, matches, oversold>>

\* An outgoing row starts the loop over the lots of its depot.
Dispose(r) ==
    /\ row = NoRow /\ First(r) /\ r.out
    /\ todo' = todo \ {r}
    /\ row' = r /\ rest' = r.amount
    /\ UNCHANGED <<ledger, lots, cursor, matches, oversold>>

\* The lot the loop comes to: empty ones at the cursor are skipped.
NextLot(i) ==
    /\ i \in cursor[row.depot] .. Len(lots[row.depot])
    /\ lots[row.depot][i].left > 0
    /\ \A j \in cursor[row.depot] .. i - 1 : lots[row.depot][j].left = 0

\* Mutant: leaves the cursor at an exhausted lot.
ConsumeLeavesCursor(i) ==
    LET d == row.depot
        used == Least(lots[d][i].left, rest)
    IN /\ lots' = [lots EXCEPT ![d][i].left = @ - used]
       /\ rest' = rest - used
       /\ cursor' = [cursor EXCEPT ![d] = i]
       /\ matches' = Append(matches,
                       [by |-> row, lot |-> i, at |-> lots[d][i].at, amount |-> used])

\* Mutant: takes the whole lot.
ConsumeWholeLot(i) ==
    LET d == row.depot
        used == lots[d][i].left
    IN /\ lots' = [lots EXCEPT ![d][i].left = 0]
       /\ rest' = IF rest > used THEN rest - used ELSE 0
       /\ cursor' = [cursor EXCEPT ![d] = i + 1]
       /\ matches' = Append(matches,
                       [by |-> row, lot |-> i, at |-> lots[d][i].at, amount |-> used])

\* Mutant: leaves a lot behind although something of it is left.
ConsumeSkipsRest(i) ==
    LET d == row.depot
        used == Least(lots[d][i].left, rest)
    IN /\ lots' = [lots EXCEPT ![d][i].left = @ - used]
       /\ rest' = rest - used
       /\ cursor' = [cursor EXCEPT ![d] = i + 1]
       /\ matches' = Append(matches,
                       [by |-> row, lot |-> i, at |-> lots[d][i].at, amount |-> used])

\* An iteration of the loop over the lots, with lot i.
ConsumeLot(i) ==
    LET d == row.depot
        used == Least(lots[d][i].left, rest)
    IN /\ lots' = [lots EXCEPT ![d][i].left = @ - used]
       /\ rest' = rest - used
       /\ cursor' = [cursor EXCEPT ![d] = IF lots[d][i].left = used THEN i + 1 ELSE i]
       /\ matches' = Append(matches,
                       [by |-> row, lot |-> i, at |-> lots[d][i].at, amount |-> used])

Consume ==
    /\ row # NoRow /\ rest > 0
    /\ \E i \in 1 .. Len(lots[row.depot]) : NextLot(i) /\ ConsumeLot(i)
    /\ UNCHANGED <<ledger, todo, row, oversold>>

LotsExhausted ==
    \A i \in cursor[row.depot] .. Len(lots[row.depot]) : lots[row.depot][i].left = 0

\* Mutant: reports the whole disposal as oversold, and not what is left of it.
SettleWhole ==
    /\ row # NoRow /\ (rest = 0 \/ LotsExhausted)
    /\ row' = NoRow /\ rest' = 0
    /\ oversold' = [oversold EXCEPT ![row.depot] =
                       IF rest = 0 THEN @ ELSE @ + row.amount]
    /\ cursor' = IF rest = 0 THEN cursor
                 ELSE [cursor EXCEPT ![row.depot] = Len(lots[row.depot]) + 1]
    /\ UNCHANGED <<ledger, todo, lots, matches>>

\* The loop ends with the disposal paid, or with the lots: the rest is oversold.
Settle ==
    /\ row # NoRow /\ (rest = 0 \/ LotsExhausted)
    /\ row' = NoRow /\ rest' = 0
    /\ oversold' = [oversold EXCEPT ![row.depot] = @ + rest]
    /\ cursor' = IF rest = 0 THEN cursor
                 ELSE [cursor EXCEPT ![row.depot] = Len(lots[row.depot]) + 1]
    /\ UNCHANGED <<ledger, todo, lots, matches>>

Next ==
    \/ \E r \in todo : Acquire(r) \/ Dispose(r)
    \/ Consume
    \/ Settle

Spec == Init /\ [][Next]_vars

-----------------------------------------------------------------------------
(* Properties *)

\* The loops end: the whole ledger is processed.
Done == todo = {} /\ row = NoRow

\* The cursor stands exactly at the first lot of its depot that still holds
\* something: no lot is rescanned, and none is left behind.
CursorExact ==
    \A d \in Depots : \A i \in 1 .. Len(lots[d]) :
        lots[d][i].left = 0 <=> i < cursor[d]

\* First in, first out: the lots of a depot are in chronological order, and
\* when something of a lot is matched nothing is left of the lots before it.
FirstInFirstOut ==
    /\ \A d \in Depots : \A i, j \in 1 .. Len(lots[d]) :
          i < j => lots[d][i].at <= lots[d][j].at
    /\ \A n \in 1 .. Len(matches) : \A i \in 1 .. matches[n].lot - 1 :
          lots[matches[n].by.depot][i].left = 0

\* No disposal is matched with a lot acquired after it, however the entries
\* were entered: such a match would have a holding period below zero.
NoFutureLot ==
    \A n \in 1 .. Len(matches) : matches[n].at <= matches[n].by.at

\* A disposal is reported as oversold only when its depot holds nothing and
\* every entry that had reached the depot by then has been counted.
OversoldIsReal ==
    [][\A d \in Depots : oversold'[d] # oversold[d] =>
          /\ row # NoRow /\ row.depot = d
          /\ \A i \in 1 .. Len(lots[d]) : lots[d][i].left = 0
          /\ \A e \in ledger :
                e.into /\ e.depot = d /\ e.at <= row.at => EntryRow(e) \notin todo]_vars

\* What the run reports as oversold is the worst shortfall of the depot: what is
\* missing once is missing once, and what comes in later does not pay for it.
MatchesDeficit == Done => \A d \in Depots : oversold[d] = Deficit(ledger, d)

Open(d) == Total([i \in 1 .. Len(lots[d]) |-> lots[d][i].left])

MatchesOf(d) == {n \in 1 .. Len(matches) : matches[n].by.depot = d}
Matched(d) == Total([n \in MatchesOf(d) |-> matches[n].amount])

Entries(d, into) == {e \in ledger : e.depot = d /\ e.into = into}

\* At the end every satoshi is accounted for: what came into a depot is open or
\* matched, and what left it, fees included, is matched or oversold.
Conserved ==
    Done => \A d \in Depots :
        /\ Total([e \in Entries(d, TRUE) |-> e.amount]) = Open(d) + Matched(d)
        /\ Total([e \in Entries(d, FALSE) |-> e.amount])
             + Total([e \in {e \in ledger : e.depot = d} |-> e.fee])
           = Matched(d) + oversold[d]

\* What is open in the end came in last: of what had come in by the instant of an
\* entry, just so much is open as everything that left the depot did not use up.
OldestSpent ==
    Done => \A d \in Depots : \A e \in ledger :
        LeftUpTo(lots[d], e.at) = StillOpen(ledger, d, e.at)

\* All sums at once: nothing is lost, nothing is oversold by more than the worst
\* shortfall, and the lots that are open are the right ones.
LotsAddUp == Conserved /\ MatchesDeficit /\ OldestSpent

\* The disposal under way counts as done: what the loop has not yet taken.
Pending(d) == IF row # NoRow THEN IF row.depot = d THEN rest ELSE 0 ELSE 0

\* What a depot holds and lacks when the disposal under way is done.
Held(d) == IF Open(d) > Pending(d) THEN Open(d) - Pending(d) ELSE 0
Missing(d) == oversold[d] + IF Pending(d) > Open(d) THEN Pending(d) - Open(d) ELSE 0

AllHeld == [d \in Depots |-> Held(d)]
AllMissing == [d \in Depots |-> Missing(d)]

SB == INSTANCE StackBalance WITH
          Rows <- Row, balance <- AllHeld, oversold <- AllMissing

\* Lots, cursor and matches implement a balance for each depot that is never
\* below zero.
ImplementsStackBalance == SB!Spec

=============================================================================
