---------------------------- MODULE MCAccounting ----------------------------
(* Machines that share nothing, side by side: which one moves is chosen at  *)
(* first, and the others stay where they begin.                             *)
(*   "fifo"       small ledgers: every choice of instants, directions,      *)
(*                depots, amounts and fees for three entries, whose ids     *)
(*                break the ties in every way                               *)
(*   "snapshots"  the same over three days of chart, the first with several *)
(*                instants                                                  *)
(*   "limits"     two keys with different rules, an unlock and another      *)
EXTENDS Fifo, Snapshots, RateLimiter

CONSTANTS main, cold, unlock, export, MaxAmount, MaxFee

VARIABLE focus

EntriesOf(n, last) ==
    [id : {n}, at : 1 .. last, into : BOOLEAN, depot : Depots,
     amount : 1 .. MaxAmount, fee : 0 .. MaxFee]
ThreeEntries(last) ==
    {{a, b, c} : a \in EntriesOf(1, last), b \in EntriesOf(2, last), c \in EntriesOf(3, last)}

TwoInstants == ThreeEntries(2) \cup {{}}
ThreeInstants == ThreeEntries(3) \cup {{}}
ThreeDays == <<1, 3, 4>>

LimitOf == [k \in Keys |-> IF k = unlock THEN 2 ELSE 1]
WindowOf == [k \in Keys |-> IF k = unlock THEN 5 ELSE 4]

fifoVars == <<ledger, todo, row, rest, lots, cursor, matches, oversold>>

MCInit ==
    /\ LimiterInit
    /\ \/ focus = "fifo" /\ chart = {} /\ ChartInit /\ Init
       \/ focus = "snapshots" /\ ledger = {} /\ Init /\ ChartInit
       \/ focus = "limits" /\ chart = {} /\ ledger = {} /\ Init /\ ChartInit

FifoMoves == focus = "fifo" /\ Next /\ UNCHANGED <<chartVars, limiterVars, focus>>
SnapshotsMove == focus = "snapshots" /\ ChartNext /\ UNCHANGED <<fifoVars, limiterVars, focus>>
LimiterMoves == focus = "limits" /\ LimiterNext /\ UNCHANGED <<fifoVars, chartVars, focus>>

MCSpec == MCInit /\ [][FifoMoves \/ SnapshotsMove \/ LimiterMoves]_<<fifoVars, chartVars, limiterVars, focus>>

=============================================================================
