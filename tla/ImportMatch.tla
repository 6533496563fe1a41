------------------------------ MODULE ImportMatch ------------------------------
(***************************************************************************)
(* Duplicate detection of the CSV import (csv_import.py; storage.py        *)
(* 156-278 and 961-1115).  A line of an export stands for a trade; its     *)
(* row carries the hash of the ids the source gives the trade, or none, and *)
(* is complete or lacks what an entry needs.  Trades may agree in instant,  *)
(* depot, amount, price and fees: their fingerprint.  The review flags the  *)
(* rows the ledger has already and the panel sends the chosen others; an    *)
(* automation may send a whole file.                                        *)
(***************************************************************************)
EXTENDS Integers, Sums, SequencesExt

CONSTANTS
    Trades,
    FingerprintOf,  \* FingerprintOf[t]: what the trade's fingerprint is made of
    Exports,        \* files: sequences of lines
    MaxHeld,     \* MAX_LEDGER_ENTRIES
    MaxImports,     \* bound on imports
    NoReview

Lines == [trade : Trades, ids : BOOLEAN, complete : BOOLEAN]
\* The source's ids, hashed, and whether the row can become an entry.
HasReference(line) == line.ids
Complete(line) == line.complete

Fingerprints == {FingerprintOf[t] : t \in Trades}
ASSUME ExportAssumption ==
    /\ MaxHeld \in Nat /\ MaxImports \in Nat
    /\ IsFiniteSet(Trades)
    /\ \A file \in Exports : file \in Seq(Lines)

VARIABLES
    booked,     \* entries of each trade under its reference
    legacy,     \* entries without a reference, of each fingerprint
    review,     \* the open preview: rows, flags, the rows chosen, whether the ledger is as it was
    imports     \* imports so far

importVars == <<booked, legacy, review, imports>>

FingerprintOfLine(line) == FingerprintOf[line.trade]
TradesWith(v) == {t \in Trades : FingerprintOf[t] = v}
Held == Total(booked) + Total(legacy)

\* existing_fingerprints: of the entries with a reference and of those without.
Known(v) == legacy[v] > 0 \/ \E t \in TradesWith(v) : booked[t] > 0

(***************************************************************************)
(* The preview: _import_duplicate_flags over a copy of the entries.  A row  *)
(* that cannot become an entry is never a duplicate.                        *)
(***************************************************************************)
\* Mutant: a legacy entry answers for every row of its values.
FlagKeepsLegacy(seen, line) ==
    LET v == FingerprintOfLine(line)
        again == booked[line.trade] > 0 \/ line.trade \in seen.refs
        old == ~again /\ seen.left[v] > 0
    IN  IF ~Complete(line) THEN [seen EXCEPT !.flags = Append(@, FALSE)]
        ELSE IF HasReference(line)
        THEN [seen EXCEPT !.refs = @ \cup {line.trade},
                          !.prints = IF again \/ old THEN @ ELSE @ \cup {v},
                          !.flags = Append(@, again \/ old)]
        ELSE [seen EXCEPT !.prints = @ \cup {v}, !.flags = Append(@, Known(v) \/ v \in seen.prints)]

Flag(seen, line) ==
    LET v == FingerprintOfLine(line)
        again == booked[line.trade] > 0 \/ line.trade \in seen.refs
        old == ~again /\ seen.left[v] > 0
    IN  IF ~Complete(line) THEN [seen EXCEPT !.flags = Append(@, FALSE)]
        ELSE IF HasReference(line)
        THEN [left |-> IF old THEN [seen.left EXCEPT ![v] = @ - 1] ELSE seen.left,
              refs |-> seen.refs \cup {line.trade},
              prints |-> IF again \/ old THEN seen.prints ELSE seen.prints \cup {v},
              flags |-> Append(seen.flags, again \/ old)]
        ELSE [seen EXCEPT !.prints = @ \cup {v}, !.flags = Append(@, Known(v) \/ v \in seen.prints)]

Flags(file) ==
    FoldLeft(Flag, [left |-> legacy, refs |-> {}, prints |-> {}, flags |-> <<>>], file).flags

(***************************************************************************)
(* The import: async_bulk_import, one critical section over the entries.    *)
(* An incomplete row refuses the whole request.                             *)
(***************************************************************************)
Duplicate(seen, line) ==
    IF HasReference(line) THEN booked[line.trade] > 0 \/ line.trade \in seen.refs
    ELSE Known(FingerprintOfLine(line)) \/ FingerprintOfLine(line) \in seen.prints

\* Rows imported before references were kept: one such entry answers for one row.
Absorbed(seen, line) == HasReference(line) /\ seen.left[FingerprintOfLine(line)] > 0

Take(seen, line) ==
    LET v == FingerprintOfLine(line)
    IN  IF Duplicate(seen, line) THEN [seen EXCEPT !.skipped = Append(@, TRUE)]
        ELSE IF Absorbed(seen, line)
        THEN [seen EXCEPT !.left[v] = @ - 1, !.refs = @ \cup {line.trade}, !.skipped = Append(@, TRUE)]
        ELSE [seen EXCEPT !.refs = IF HasReference(line) THEN @ \cup {line.trade} ELSE @,
                          !.prints = @ \cup {v}, !.skipped = Append(@, FALSE)]

Skips(file) ==
    FoldLeft(Take, [left |-> legacy, refs |-> {}, prints |-> {}, skipped |-> <<>>], file).skipped

Additions(file) == {k \in DOMAIN file : ~Skips(file)[k]}
Accepted(file) ==
    /\ file # <<>>
    /\ \A k \in DOMAIN file : Complete(file[k])
    /\ Held + Cardinality(Additions(file)) <= MaxHeld

ImportRows(file) ==
    /\ imports < MaxImports
    /\ imports' = imports + 1
    /\ Accepted(file)
    /\ booked' = [t \in Trades |->
           booked[t] + Cardinality({k \in Additions(file) : HasReference(file[k]) /\ file[k].trade = t})]
    /\ legacy' = [v \in Fingerprints |->
           legacy[v] + Cardinality({k \in Additions(file) : ~HasReference(file[k]) /\ FingerprintOfLine(file[k]) = v})]

(***************************************************************************)
(* The panel and the services.                                             *)
(***************************************************************************)
ImportInit ==
    /\ booked = [t \in Trades |-> 0]
    /\ legacy = [v \in Fingerprints |-> 0]
    /\ review = NoReview
    /\ imports = 0

Stale == IF review = NoReview THEN NoReview ELSE [review EXCEPT !.fresh = FALSE]

\* An entry made in the panel, of a trade the ledger lacks.
BookByHand(v) ==
    /\ legacy[v] + Total([t \in TradesWith(v) |-> booked[t]]) < Cardinality(TradesWith(v))
    /\ Held < MaxHeld
    /\ legacy' = [legacy EXCEPT ![v] = @ + 1]
    /\ review' = Stale
    /\ UNCHANGED <<booked, imports>>

DeleteBooked(t) ==
    /\ booked[t] > 0
    /\ booked' = [booked EXCEPT ![t] = @ - 1]
    /\ review' = Stale
    /\ UNCHANGED <<legacy, imports>>

DeleteLegacy(v) ==
    /\ legacy[v] > 0
    /\ legacy' = [legacy EXCEPT ![v] = @ - 1]
    /\ review' = Stale
    /\ UNCHANGED <<booked, imports>>

\* The upload is parsed, its rows are flagged; the complete rows are chosen and
\* the duplicates among them dropped.
Preview(file) ==
    /\ review = NoReview /\ file # <<>>
    /\ review' = [rows |-> file, fresh |-> TRUE,
                  chosen |-> {k \in DOMAIN file : Complete(file[k]) /\ ~Flags(file)[k]}]
    /\ UNCHANGED <<booked, legacy, imports>>

Unselect(k) ==
    /\ review # NoReview /\ k \in review.chosen
    /\ review' = [review EXCEPT !.chosen = @ \ {k}]
    /\ UNCHANGED <<booked, legacy, imports>>

Chosen == [k \in 1 .. Cardinality(review.chosen) |->
              review.rows[CHOOSE i \in review.chosen :
                  Cardinality({j \in review.chosen : j <= i}) = k]]

Confirm ==
    /\ review # NoReview
    /\ ImportRows(Chosen)
    /\ review' = NoReview

Discard ==
    /\ review # NoReview /\ review' = NoReview
    /\ UNCHANGED <<booked, legacy, imports>>

BulkImport(file) == ImportRows(file) /\ review' = Stale

ImportNext ==
    \/ \E v \in Fingerprints : BookByHand(v) \/ DeleteLegacy(v)
    \/ \E t \in Trades : DeleteBooked(t)
    \/ \E file \in Exports : Preview(file) \/ BulkImport(file)
    \/ \E k \in 1 .. Cardinality(Trades) : Unselect(k)
    \/ Confirm
    \/ Discard

ImportSpec == ImportInit /\ [][ImportNext]_importVars

(***************************************************************************)
(* Properties.                                                             *)
(***************************************************************************)
\* The flags of a preview are what a whole import of the file would skip
\* (storage.py:242, "This intentionally mirrors async_bulk_import").
FlagsTell(file) == (\A k \in DOMAIN file : Complete(file[k])) => Flags(file) = Skips(file)

\* No way of importing files, again, in parts, with or without references, and of
\* booking by hand what is missing, makes more entries of a fingerprint than there
\* are trades.
NeverOverbooked ==
    \A v \in Fingerprints :
        legacy[v] + Total([t \in TradesWith(v) |-> booked[t]]) <= Cardinality(TradesWith(v))

\* The review tells the truth about its file, whatever the ledger holds by then, and
\* imports never count a trade twice.
ImportExact == NeverOverbooked /\ (review # NoReview => FlagsTell(review.rows))

\* Each row the review shows as new and the user chooses becomes an entry when
\* nothing else touched the ledger in between: a row is never collapsed "merely
\* because timestamp/amount/price are equal" (storage.py:1076-1078).
SelectedIsImported ==
    [][(Confirm /\ review.fresh) => Total(booked') + Total(legacy') = Held + Cardinality(review.chosen)]_importVars
=============================================================================
