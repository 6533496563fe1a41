---------------------------- MODULE StackBalance ----------------------------
(***************************************************************************)
(* What FIFO accounting promises about quantities (fifo.py): the rows of a *)
(* ledger, taken in order, add to and take from the balance of their       *)
(* depot.  A balance never goes below zero: what a disposal asks beyond it *)
(* is reported as oversold.                                                *)
(***************************************************************************)
EXTENDS Integers

CONSTANTS
    Depots,     \* the depots, each with a stack of its own
    Rows,       \* the rows there can be: records with out, depot and amount
    Before(_, _)    \* the order in which rows are processed

VARIABLES
    todo,       \* the rows not yet processed
    balance,    \* what each depot holds
    oversold    \* what disposals asked of each depot beyond its balance

bvars == <<todo, balance, oversold>>

Init ==
    /\ todo \subseteq Rows
    /\ balance = [d \in Depots |-> 0]
    /\ oversold = [d \in Depots |-> 0]

First(r) == \A s \in todo \ {r} : Before(r, s)

Receive(r) ==
    /\ ~ r.out
    /\ balance' = [balance EXCEPT ![r.depot] = @ + r.amount]
    /\ UNCHANGED oversold

\* A disposal is split: the balance pays what it can, the rest is oversold.
Spend(r) ==
    /\ r.out
    /\ \E paid, missing \in 0 .. r.amount :
          /\ paid + missing = r.amount
          /\ paid <= balance[r.depot]
          /\ missing > 0 => paid = balance[r.depot]
          /\ balance' = [balance EXCEPT ![r.depot] = @ - paid]
          /\ oversold' = [oversold EXCEPT ![r.depot] = @ + missing]

Next ==
    \E r \in todo :
        /\ First(r)
        /\ todo' = todo \ {r}
        /\ Receive(r) \/ Spend(r)

Spec == Init /\ [][Next]_bvars

=============================================================================
