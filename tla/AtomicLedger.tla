---------------------------- MODULE AtomicLedger ----------------------------
(***************************************************************************)
(* What the ledger store promises to all its users together: the stored    *)
(* book changes by one whole operation at a time, each applied to the book *)
(* the one before it left, and none but a restore or deleting everything   *)
(* makes a depot's oversold amount grow.                                   *)
(***************************************************************************)
EXTENDS LedgerRows

CONSTANTS
    Offered,    \* the entries users may write
    Goals,      \* the goals users may set, records with a depot
    Backups,    \* the books users may restore
    Settings,   \* the holding-period settings
    Main, All   \* the default depot, and what a goal for all depots names

VARIABLE book

Grows(b, entries) == \E d \in b.depots : Deficit(entries, d) > Deficit(b.entries, d)

Rewrite(entries) ==
    /\ ~ Grows(book, entries)
    /\ book' = [book EXCEPT !.entries = entries]

Add == \E S \in SUBSET Offered : Rewrite(book.entries \cup S)

Update ==
    \E old \in book.entries, new \in Offered :
        old.id = new.id /\ Rewrite((book.entries \ {old}) \cup {new})

Delete == \E old \in book.entries : Rewrite(book.entries \ {old})

Clear == book' = [book EXCEPT !.entries = {}]

AddDepot == \E d \in Depots \ book.depots : book' = [book EXCEPT !.depots = @ \cup {d}]

DropDepot ==
    \E d \in book.depots \ {Main} :
        /\ \A e \in book.entries : e.depot # d
        /\ book' = [book EXCEPT !.depots = @ \ {d},
                                !.goals = {g \in @ : g.depot # d}]

SetGoals == \E G \in SUBSET Goals : book' = [book EXCEPT !.goals = G]

SetTax == \E t \in Settings : book' = [book EXCEPT !.tax = t]

\* Entries and goals of no depot there is fall to the main depot and to all.
Rehomed(b) ==
    [b EXCEPT
       !.depots = @ \cup {Main},
       !.entries = {IF e.depot \in b.depots THEN e ELSE [e EXCEPT !.depot = Main] : e \in @},
       !.goals = {IF g.depot \in b.depots \cup {Main, All}
                     THEN g ELSE [g EXCEPT !.depot = All] : g \in @}]

\* A restore keeps the settings of this installation.
Restore == \E b \in Backups : book' = Rehomed([b EXCEPT !.tax = book.tax])

Next ==
    \/ Add \/ Update \/ Delete \/ Clear
    \/ AddDepot \/ DropDepot \/ SetGoals \/ SetTax
    \/ Restore \/ book' = Rehomed(book)

Init == Main \in book.depots

Spec == Init /\ [][Next]_book

=============================================================================
