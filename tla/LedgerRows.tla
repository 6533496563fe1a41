----------------------------- MODULE LedgerRows -----------------------------
(***************************************************************************)
(* The entries of the ledger and the rows FIFO accounting makes of them:   *)
(* each entry, and a disposal for each BTC fee that leaves the stack, in   *)
(* the order of _sorted_entries (fifo.py).                                 *)
(***************************************************************************)
EXTENDS Integers, Sequences, Sums

CONSTANTS
    Depots,     \* the depots
    Ids         \* the ids of the entries, ordered as their strings are

ASSUME IdAssumption == Ids \subseteq Nat

\* A ledger entry. "into": it is a purchase, an income or a stack entry, and a
\* sale, an expense or a network fee otherwise. "fee": the BTC fee marked
\* fee_btc_affects_stack, 0 for none.
Entry == [id : Ids, at : Nat, into : BOOLEAN, depot : Depots,
          amount : Nat \ {0}, fee : Nat]

\* What the loop goes over: the entries, and a disposal for each fee, whose id
\* sorts behind the id of its entry. A standalone network fee is a disposal too.
Row == [src : Ids, fee : BOOLEAN, at : Nat, out : BOOLEAN, depot : Depots,
        amount : Nat \ {0}]

EntryRow(e) == [src |-> e.id, fee |-> FALSE, at |-> e.at, out |-> ~ e.into,
                depot |-> e.depot, amount |-> e.amount]

FeeRow(e) == [src |-> e.id, fee |-> TRUE, at |-> e.at, out |-> TRUE,
              depot |-> e.depot, amount |-> e.fee]

\* _entries_with_btc_fee_disposals
Expand(B) == {EntryRow(e) : e \in B} \cup {FeeRow(e) : e \in {b \in B : b.fee > 0}}

\* Mutant: sorts by type before the instant.
BeforeByType(a, b) ==
    \/ ~ a.out /\ b.out
    \/ /\ a.out = b.out
       /\ \/ a.at < b.at
          \/ a.at = b.at /\ a.src < b.src
          \/ a.at = b.at /\ a.src = b.src /\ ~ a.fee /\ b.fee

\* Mutant: sorts by id, as the rows were entered.
BeforeById(a, b) == a.src < b.src \/ (a.src = b.src /\ ~ a.fee /\ b.fee)

\* _sorted_entries: by instant, incoming rows first, then by id.
Before(a, b) ==
    \/ a.at < b.at
    \/ /\ a.at = b.at
       /\ \/ ~ a.out /\ b.out
          \/ a.out = b.out /\ a.src < b.src
          \/ a.out = b.out /\ a.src = b.src /\ ~ a.fee /\ b.fee

-----------------------------------------------------------------------------
Amounts(S) == [s \in S |-> s.amount]
RowsOf(B, d) == {r \in Expand(B) : r.depot = d}

\* What leaves the depot by row r, beyond what has come in by then.
ShortBy(B, d, r) ==
    LET until == {s \in RowsOf(B, d) : s = r \/ Before(s, r)}
    IN Total(Amounts({s \in until : s.out})) - Total(Amounts({s \in until : ~ s.out}))

\* The oversold amount of a depot: the worst shortfall in the course of time.
\* Run by run it is what fifo_result reports (MatchesDeficit of Fifo).
Deficit(B, d) == Max({0} \cup {ShortBy(B, d, r) : r \in RowsOf(B, d)})

\* What came into depot d up to instant t, and what left it.
Received(B, d, t) == Total(Amounts({r \in RowsOf(B, d) : ~ r.out /\ r.at <= t}))
Spent(B, d) == Total(Amounts({r \in RowsOf(B, d) : r.out}))

\* What is still open of what came in up to t. First in, first out: what came in
\* first pays for everything that left and was not oversold.
StillOpen(B, d, t) == Max({0, Received(B, d, t) - (Spent(B, d) - Deficit(B, d))})

-----------------------------------------------------------------------------
Least(a, b) == IF a < b THEN a ELSE b

\* What is left of the lots L that were acquired up to t.
LeftUpTo(L, t) == Total([i \in 1 .. Len(L) |-> IF L[i].at <= t THEN L[i].left ELSE 0])

=============================================================================
