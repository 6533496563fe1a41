---------------------------- MODULE MCLedgerBook ----------------------------
(* A few requests that get into each other's way. *)
EXTENDS LedgerBook, TLC

CONSTANTS main, cold, all

\* Calls are interchangeable.
CallSymmetry == Permutations(Calls)

E(n, at, into, d, amount) ==
    [id |-> n, at |-> at, into |-> into, depot |-> d, amount |-> amount, fee |-> 0]

\* A purchase, one in the other depot, and what draws on them.
Bought == E(1, 1, TRUE, main, 2)
Cold == E(2, 1, TRUE, cold, 1)
Sold == E(3, 2, FALSE, main, 2)
SoldToo == E(4, 3, FALSE, main, 1)
ColdSold == E(5, 2, FALSE, cold, 1)
ColdMore == E(5, 2, FALSE, cold, 3)
Later == E(6, 3, TRUE, main, 1)
Less == [Bought EXCEPT !.amount = 1]
Early == [Sold EXCEPT !.at = 0]

Empty == [entries |-> {}, depots |-> {main}, goals |-> {}, tax |-> 1]
Holding == [Empty EXCEPT !.entries = {Bought}]
TwoDepots == [Holding EXCEPT !.depots = {main, cold},
                             !.goals = {[id |-> 1, depot |-> cold]}]
\* Oversold already, as older versions allowed.
Legacy == [Empty EXCEPT !.entries = {Sold, Less}]
Backup == [Empty EXCEPT !.entries = {E(6, 1, TRUE, main, 1)}, !.tax = 2]

Add(e) == [op |-> "add", entries |-> {e}]
Import(S) == [op |-> "import", entries |-> S]
Update(e) == [op |-> "update", entry |-> e]
Delete(n) == [op |-> "delete", id |-> n]
Clear == [op |-> "clear"]
AddDepot(d) == [op |-> "addDepot", depot |-> d]
DropDepot(d) == [op |-> "dropDepot", depot |-> d]
AddGoal(n, d) == [op |-> "addGoal", goal |-> [id |-> n, depot |-> d]]
SetGoal(n, d) == [op |-> "setGoal", goal |-> [id |-> n, depot |-> d]]
DropGoal(n) == [op |-> "dropGoal", id |-> n]
SetTax(t) == [op |-> "setTax", tax |-> t]
Restore(fails) == [op |-> "restore", book |-> Backup, fails |-> fails]

FewBooks == {Empty, TwoDepots, Legacy}

\* Edits, depots and restores at once.
EditRequests ==
    {Add(Bought), Add(Sold), Add(SoldToo), Add(ColdMore), Import({Cold, ColdSold}), Import({Cold}),
     Update(Less), Update(Early), Delete(1), Delete(2), Clear,
     AddDepot(cold), DropDepot(cold), AddGoal(2, all), DropGoal(1), Restore(FALSE)}

\* One call at a time, with reloads, failing restores and settings.
AloneRequests == EditRequests \cup {SetGoal(1, all), SetTax(2), Restore(TRUE), Add(ColdSold)}

Using(reloads, calls, S, starts, loads) ==
    [reloads |-> reloads, together |-> calls, requests |-> S, starts |-> starts, loads |-> loads]

\* Three edits at once; or one call at a time, and a reload after each.
EveryDay == {Using(FALSE, 3, EditRequests, 3, 1), Using(TRUE, 1, AloneRequests, 4, 4)}

\* A sale waits behind the call that removes its depot.
Orphans == {Using(FALSE, 3, {Add(Later), Add(ColdMore), Import({Cold}), Delete(2), DropDepot(cold)}, 3, 1)}

=============================================================================
