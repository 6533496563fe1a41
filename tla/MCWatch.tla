------------------------------- MODULE MCWatch -------------------------------
(* The parts of Sats Sentinel around its poller, side by side: which one    *)
(* moves is chosen at first, and the others stay where they begin.          *)
(*   "config"     two targets, edits under an open and a closed vault with  *)
(*                a failed save, a stop, locks and a scan in between        *)
(*   "gap"        a branch of six addresses, limits of one and two, a       *)
(*                reserve of two                                            *)
(*   "movement"   every transaction of up to two inputs and outputs between *)
(*                two addresses of the wallet and two others                *)
(*   "overview"   every history of two rows and three transactions          *)
(*   "routing"    two requests over the lists of sources below              *)
EXTENDS SentinelConfig, SentinelGap, Movements, Overview, Routing

CONSTANTS w1, w2, a1, a2, r1, r2

TwoRows == <<a1, a2>>

Source(n, k, own, direct) ==
    [name |-> n, kind |-> k, own |-> own, direct |-> direct, secure |-> n # 3]
\* Orders in which a choice could go wrong: a public source first, one that is
\* not asked over verified HTTPS, a local one nobody marked, a public one marked
\* as the owner's.
SourceLists == {
    <<>>,
    <<Source(1, "public", FALSE, FALSE), Source(2, "lan", TRUE, TRUE)>>,
    <<Source(1, "public", FALSE, FALSE), Source(2, "public", FALSE, FALSE)>>,
    <<Source(3, "public", FALSE, FALSE), Source(2, "public", FALSE, FALSE)>>,
    <<Source(1, "lan", FALSE, FALSE), Source(2, "onion", TRUE, FALSE)>>,
    <<Source(1, "onion", TRUE, FALSE), Source(2, "public", FALSE, FALSE)>>,
    <<Source(1, "onion", FALSE, FALSE), Source(2, "public", FALSE, TRUE)>>}

\* Targets and requests are told apart by nothing but their name.
NameSymmetry == Permutations({w1, w2}) \cup Permutations({r1, r2})

VARIABLE focus
watchVars == <<cfgVars, gapVars, movementVars, overviewVars, routingVars, focus>>

\* A machine out of focus begins in one state.
StillConfig == vault = [mons |-> NoTargets, host |-> None]
StillGap == gap = Least(Gaps) /\ used = {}
StillMovement ==
    /\ tx = [ins |-> <<[addr |-> CHOOSE a \in Own : TRUE, value |-> Least(Values)]>>,
             outs |-> <<[addr |-> CHOOSE a \in Others : TRUE, value |-> Least(Values)]>>]
    /\ missing = {} /\ threshold = Least(Thresholds)
StillOverview ==
    /\ touches = [t \in Txs |-> {}] /\ pool = {} /\ kind = [t \in Txs |-> "in"]
    /\ ask = [source |-> "electrum", limit |-> 0, page |-> 1]
StillRouting == config = [sources |-> <<>>, mode |-> "auto", electrum |-> "none", allowPublic |-> FALSE]

MCInit ==
    /\ \/ focus = "config" /\ StillGap /\ StillMovement /\ StillOverview /\ StillRouting
       \/ focus = "gap" /\ StillConfig /\ StillMovement /\ StillOverview /\ StillRouting
       \/ focus = "movement" /\ StillConfig /\ StillGap /\ StillOverview /\ StillRouting
       \/ focus = "overview" /\ StillConfig /\ StillGap /\ StillMovement /\ StillRouting
       \/ focus = "routing" /\ StillConfig /\ StillGap /\ StillMovement /\ StillOverview
    /\ CfgInit /\ GapInit /\ MovementInit /\ OverviewInit /\ RoutingInit

ConfigMoves == /\ focus = "config" /\ CfgNext
               /\ UNCHANGED <<gapVars, movementVars, overviewVars, routingVars, focus>>
GapMoves == /\ focus = "gap" /\ GapNext
            /\ UNCHANGED <<cfgVars, movementVars, overviewVars, routingVars, focus>>
MovementMoves == /\ focus = "movement" /\ MovementNext
                 /\ UNCHANGED <<cfgVars, gapVars, overviewVars, routingVars, focus>>
OverviewMoves == /\ focus = "overview" /\ OverviewNext
                 /\ UNCHANGED <<cfgVars, gapVars, movementVars, routingVars, focus>>
RoutingMoves == /\ focus = "routing" /\ RoutingNext
                /\ UNCHANGED <<cfgVars, gapVars, movementVars, overviewVars, focus>>

MCSpec == MCInit /\ [][ConfigMoves \/ GapMoves \/ MovementMoves \/ OverviewMoves \/ RoutingMoves]_watchVars

=============================================================================
