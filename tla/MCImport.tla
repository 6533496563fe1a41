------------------------------- MODULE MCImport -------------------------------
(* Three trades, two of them alike: exports of one or both twins and an      *)
(* entry made by hand.                                                       *)
EXTENDS ImportMatch

CONSTANTS twin1, twin2, other

FingerprintsOf == [t \in Trades |-> IF t = other THEN "other" ELSE "twin"]
WithIds == {[k \in DOMAIN s |-> [trade |-> s[k], ids |-> TRUE, complete |-> TRUE]] :
               s \in SetToAllKPermutations(Trades)}
=============================================================================
