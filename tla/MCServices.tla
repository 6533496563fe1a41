------------------------------ MODULE MCServices ------------------------------
(* Three services behind the panel, side by side: which one moves is chosen *)
(* at first, and the others stay where they begin.                          *)
(*   "import"    three trades, two of them alike, and every export of them  *)
(*   "price"     an own node and the public market, two currencies            *)
(*   "rotation"  two callers, every settings to begin with                  *)
EXTENDS ImportMatch, LivePrice, TorRotation

CONSTANTS twin1, twin2, other

\* Two purchases alike, and a third trade.
FingerprintsOf == [t \in Trades |-> IF t = other THEN "other" ELSE "twin"]
Line(t, i, c) == [trade |-> t, ids |-> i, complete |-> c]
\* Every export with references or without, one with an incomplete line, and one
\* whose source gives only some lines an id.
ManyExports ==
    {[k \in DOMAIN s |-> Line(s[k], i, TRUE)] : s \in SetToAllKPermutations(Trades), i \in BOOLEAN}
    \cup {<<Line(twin1, TRUE, FALSE), Line(twin2, TRUE, TRUE)>>,
          <<Line(twin1, FALSE, TRUE), Line(twin2, TRUE, TRUE)>>}

OwnAndMarket == <<[kind |-> "mempool", own |-> TRUE], [kind |-> "market", own |-> FALSE]>>

VARIABLE focus
servicesVars == <<importVars, liveVars, torVars, focus>>

MCInit ==
    /\ ImportInit /\ LiveInit /\ TorInit
    /\ \/ focus \in {"import", "price"} /\ disk.settings = Unset
       \/ focus = "rotation"

ImportMoves == focus = "import" /\ ImportNext /\ UNCHANGED <<liveVars, torVars, focus>>
PriceMoves == focus = "price" /\ LiveNext /\ UNCHANGED <<importVars, torVars, focus>>
RotationMoves == focus = "rotation" /\ TorNext /\ UNCHANGED <<importVars, liveVars, focus>>

MCSpec == MCInit /\ [][ImportMoves \/ PriceMoves \/ RotationMoves]_servicesVars
=============================================================================
