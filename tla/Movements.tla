------------------------------ MODULE Movements ------------------------------
(***************************************************************************)
(* What Sats Sentinel makes of one transaction (wallet_watch.py): the view *)
(* of one watched address, the views of a poll added up for the wallet,    *)
(* the amount that is journaled and notified, and, beside it, the view of  *)
(* the whole transaction the overview shows.                               *)
(*                                                                         *)
(* Rows of one wallet may notice the transaction in different polls: the   *)
(* statuses of a poll are asked one after the other.                       *)
(***************************************************************************)
EXTENDS Integers, SequencesExt, Sums

CONSTANTS
    Own, Others,    \* addresses of the watched wallet, addresses of others
    Values,         \* amounts in satoshi
    MaxIns, MaxOuts,
    Top,            \* counterparties that are kept
    Thresholds      \* the smallest amount the owner wants to hear of

ASSUME TopAssumption == Top \in Nat \ {0}
ASSUME BoundAssumption == MaxIns \in Nat /\ MaxOuts \in Nat
ASSUME AddressAssumption ==
    Own \cap Others = {} /\ "" \notin Own \cup Others /\ Values \subseteq Nat

VARIABLES
    tx,         \* the transaction: its inputs and outputs
    missing,    \* the inputs whose previous transaction was not answered
    threshold,  \* min_notify_sats of the wallet
    unseen,     \* watched addresses whose row has yet to notice it
    merged,     \* the event of this poll so far, NoEvent before the first
    seen,       \* the rows that are part of it
    journal,    \* the records written for the transaction, newest last
    alerted     \* the amounts of the notifications sent

movementVars == <<tx, missing, threshold, unseen, merged, seen, journal, alerted>>

Coin == [addr : Own \cup Others, value : Values]

\* What is at some of the addresses in a list of coins, and what it is worth.
At(coins, addrs) == {i \in DOMAIN coins : coins[i].addr \in addrs}
Flow(coins, addrs) == Total([i \in At(coins, addrs) |-> coins[i].value])
Worth(coins) == Total([i \in DOMAIN coins |-> coins[i].value])

NoEvent == [spent |-> 0, received |-> 0, out |-> FALSE, ins |-> <<>>, outs |-> <<>>]

Touched == {a \in Own : \E c \in ToSet(tx.ins) \cup ToSet(tx.outs) : c.addr = a}

\* The inputs an event can show: the others' previous outputs are not known, and
\* count for nobody and nothing.
NoCoin == [addr |-> "", value |-> 0]
Known == [i \in DOMAIN tx.ins |-> IF i \in missing THEN NoCoin ELSE tx.ins[i]]

\* A transaction that spends a watched coin is outgoing, whatever comes back.
Outgoing(spent, received) == spent > 0

\* _electrum_event_from_parsed, _tx_activity: the view of one address.
RowEvent(a) ==
    LET spent == Flow(Known, {a})
        received == Flow(tx.outs, {a})
    IN [spent |-> spent, received |-> received, out |-> Outgoing(spent, received),
        ins |-> Known, outs |-> tx.outs]

\* Mutant: keeps the direction of the first row.
MergeKeepsDirection(m, e) ==
    [spent |-> m.spent + e.spent, received |-> m.received + e.received,
     out |-> m.out, ins |-> m.ins \o e.ins, outs |-> m.outs \o e.outs]

\* async_poll, aggregation by wallet and transaction: sums, and the candidates
\* of every row one behind the other.
Merge(m, e) ==
    [spent |-> m.spent + e.spent, received |-> m.received + e.received,
     out |-> Outgoing(m.spent + e.spent, m.received + e.received),
     ins |-> m.ins \o e.ins, outs |-> m.outs \o e.outs]

\* _aggregate_counterparties: the others, each with its sum, the Top largest
\* kept; equals keep the order they came in.
Theirs(coins) == {a \in Others : At(coins, {a}) # {}}
First(coins, a) == Min(At(coins, {a}))
Ahead(coins, a) ==
    {b \in Theirs(coins) :
        \/ Flow(coins, {b}) > Flow(coins, {a})
        \/ Flow(coins, {b}) = Flow(coins, {a}) /\ First(coins, b) < First(coins, a)}
Counterparties(coins) ==
    [a \in {b \in Theirs(coins) : Cardinality(Ahead(coins, b)) < Top} |-> Flow(coins, {a})]

\* What reached others, or what a transfer within the wallet cost; or what came.
Amount(e, parties) ==
    IF ~ e.out THEN e.received
    ELSE IF Total(parties) > 0 THEN Total(parties)
    ELSE Max({0, e.spent - e.received})

View(e) ==
    LET parties == Counterparties(IF e.out THEN e.outs ELSE e.ins)
    IN [spent |-> e.spent, received |-> e.received, out |-> e.out,
        parties |-> parties, amount |-> Amount(e, parties)]

\* _monitor_event_from_parsed, _monitor_event_from_esplora: the overview.
WholeEvent == [spent |-> Flow(Known, Own), received |-> Flow(tx.outs, Own),
               out |-> Outgoing(Flow(Known, Own), Flow(tx.outs, Own)),
               ins |-> Known, outs |-> tx.outs]
Whole == View(WholeEvent)
Fee == Worth(tx.ins) - Worth(tx.outs)

-----------------------------------------------------------------------------
MovementInit ==
    /\ \E i \in SeqOf(Coin, MaxIns), o \in SeqOf(Coin, MaxOuts) :
          /\ i # <<>> /\ o # <<>>
          /\ Worth(i) >= Worth(o)
          /\ tx = [ins |-> i, outs |-> o]
    /\ Touched # {}
    /\ missing \in SUBSET DOMAIN tx.ins
    /\ threshold \in Thresholds
    /\ unseen = Touched
    /\ merged = NoEvent /\ seen = {}
    /\ journal = <<>> /\ alerted = <<>>

\* A row of the poll finds the transaction new; it is passed over when nothing
\* of it is the row's own.
Notice(a) ==
    /\ a \in unseen
    /\ unseen' = unseen \ {a}
    /\ LET e == RowEvent(a)
       IN IF e.spent = 0 /\ e.received = 0 THEN UNCHANGED <<merged, seen>>
          ELSE /\ merged' = IF seen = {} THEN e ELSE Merge(merged, e)
               /\ seen' = seen \cup {a}
    /\ UNCHANGED <<tx, missing, threshold, journal, alerted>>

\* _append_activity_log: every movement, whatever is notified of it.
Journaled(view) == Append(journal, [view |-> view, rows |-> seen])
\* _notify_activity: what reaches the smallest amount.
Notified(view) == IF view.amount >= threshold THEN Append(alerted, view.amount) ELSE alerted

\* The end of the poll: journal first, then the notification.
ClosePoll ==
    /\ seen # {}
    /\ journal' = Journaled(View(merged))
    /\ alerted' = Notified(View(merged))
    /\ merged' = NoEvent /\ seen' = {}
    /\ UNCHANGED <<tx, missing, threshold, unseen>>

MovementNext == ClosePoll \/ \E a \in Own : Notice(a)
MovementSpec == MovementInit /\ [][MovementNext]_movementVars

-----------------------------------------------------------------------------
Touching == {a \in Touched : RowEvent(a).spent + RowEvent(a).received > 0}
InOnePoll == \E r \in ToSet(journal) : r.rows = Touching

(* When the rows of a wallet notice a transaction in the same poll, the    *)
(* record says of it what the overview says: the sums, the direction and   *)
(* who was on the other side.                                              *)
MergedIsWhole ==
    InOnePoll =>
        LET v == Last(journal).view
        IN /\ v.spent = Whole.spent /\ v.received = Whole.received /\ v.out = Whole.out
           /\ DOMAIN v.parties = DOMAIN Whole.parties

(* A transaction that touches one watched address is notified with the     *)
(* amount the overview shows for it.                                       *)
OneRowExact ==
    Cardinality(Touched) = 1 => \A i \in DOMAIN alerted : alerted[i] = Whole.amount

(* What the wallet is told left it is what it lost without the fee: of a   *)
(* transaction paid by the wallet alone, amount and fee make up the        *)
(* difference of its coins; the fee alone when nothing went to others.     *)
MoneyAddsUp ==
    (/\ missing = {} /\ \A c \in ToSet(tx.ins) : c.addr \in Own
     /\ Cardinality(Theirs(tx.outs)) <= Top)
    => IF Total(Whole.parties) = 0 THEN Whole.amount = Fee
       ELSE Whole.spent - Whole.received = Whole.amount + Fee

(* What is journaled and notified is what happened, as far as the rows of  *)
(* the wallet noticed it together.                                         *)
ToldAsItIs == MergedIsWhole /\ OneRowExact /\ MoneyAddsUp

(* docs/testing/SATS-SENTINEL-TEST.md:133: "A movement below the alert     *)
(* threshold remains in the local journal but does not send an active      *)
(* alert."                                                                 *)
BelowThresholdSilent ==
    InOnePoll /\ missing = {} /\ Whole.amount < threshold => alerted = <<>>

(* wallet_watch.py:4021: the record may "become more complete on later     *)
(* observations"; one that shows a spend goes on to show it.               *)
SpendStaysShown ==
    \A i, j \in DOMAIN journal : i < j /\ journal[i].view.out => journal[j].view.out
=============================================================================
