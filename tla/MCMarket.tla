------------------------------ MODULE MCMarket ------------------------------
(* The price history and what is calculated from it, side by side: which    *)
(* machine moves is chosen at first, the others stay where they begin.      *)
(*   "assessment"  two viewers, two generations of inputs                   *)
(*   "intraday"    two generations, two buckets, a reload, an edit, and a   *)
(*                 live observation or a failed provider                    *)
(*   "scores"      two viewers and a warm-up, two ranges                    *)
(*   "sync"        two currencies, two own instances that overlap, Kraken,  *)
(*                 three histories to begin with or to restore              *)
(*   "samples"     three tiers, the last of a few buckets                   *)
EXTENDS Assessment, IntradayCache, HistoryScores, HistorySync, PriceSamples

VARIABLE focus
marketVars == <<assessmentVars, intradayVars, scoresVars, syncVars, samplesVars, focus>>

Events(e, f, l) == [edits |-> e, faults |-> f, live |-> l]
\* What is left: an edit and a live observation, or an edit and a failed provider.
Mixes == {Events(0, 1, 0), Events(0, 0, 1)}

DollarsAndEuros == <<"USD", "EUR">>
OwnServes == <<{3}, {3, 4}>>
\* Nothing; complete but for the last day; with a hole, flagged complete.
ThreeHistories == {
    [prices |-> Nothing, boot |-> FALSE],
    [prices |-> [d \in Days |-> IF d < LastDay THEN "kept" ELSE "none"], boot |-> TRUE],
    [prices |-> [Nothing EXCEPT ![1] = "kept", ![3] = "kept"], boot |-> TRUE]}

Tier(a, w) == [age |-> a, width |-> w]
ThreeTiers == <<Tier(1, 1), Tier(4, 3), Tier(8, 6)>>

\* A machine out of focus begins in one state.
FirstSettings == settings = (CHOOSE s \in Settings : TRUE)
StillIntraday == FirstSettings /\ local = {} /\ used = Events(0, 0, 1)
StillSync == \A c \in Listed : ~ boot[c]

MCInit ==
    /\ AssessmentInit /\ IntradayInit /\ ScoresInit /\ SyncInit /\ SamplesInit
    /\ \/ focus \in {"assessment", "scores", "samples"} /\ StillIntraday /\ StillSync
       \/ focus = "intraday" /\ FirstSettings /\ StillSync
       \/ focus = "sync" /\ StillIntraday

AssessmentMoves == /\ focus = "assessment" /\ AssessmentNext
                   /\ UNCHANGED <<intradayVars, scoresVars, syncVars, samplesVars, focus>>
IntradayMoves == /\ focus = "intraday" /\ IntradayNext
                 /\ UNCHANGED <<assessmentVars, scoresVars, syncVars, samplesVars, focus>>
ScoresMove == /\ focus = "scores" /\ ScoresNext
              /\ UNCHANGED <<assessmentVars, intradayVars, syncVars, samplesVars, focus>>
SyncMoves == /\ focus = "sync" /\ SyncNext
             /\ UNCHANGED <<assessmentVars, intradayVars, scoresVars, samplesVars, focus>>
SamplesMove == /\ focus = "samples" /\ SamplesNext
               /\ UNCHANGED <<assessmentVars, intradayVars, scoresVars, syncVars, focus>>

\* The fairness of the machine in focus; the others have nothing to do.
Intraday(A) == focus = "intraday" /\ A /\ UNCHANGED <<assessmentVars, scoresVars, syncVars, samplesVars, focus>>
Sync(A) == focus = "sync" /\ A /\ UNCHANGED <<assessmentVars, intradayVars, scoresVars, samplesVars, focus>>
MarketFairness ==
    /\ WF_marketVars(Intraday(Record)) /\ WF_marketVars(Intraday(DailyArrives))
    /\ WF_marketVars(Intraday(Clear)) /\ WF_marketVars(Intraday(RestartBackfill))
    /\ WF_marketVars(Intraday(Setup))
    /\ \A e \in Epochs : WF_marketVars(Intraday(Work(e)))
    /\ WF_marketVars(Sync(Timer)) /\ WF_marketVars(Sync(SyncStep)) /\ WF_marketVars(Sync(Stale))

MCSpec ==
    /\ MCInit
    /\ [][AssessmentMoves \/ IntradayMoves \/ ScoresMove \/ SyncMoves \/ SamplesMove]_marketVars
    /\ MarketFairness

(* Once edits, failures and reloads end and the workers of earlier runtimes *)
(* have ended, the reconstruction of the current generation is complete:    *)
(* an attempt for other settings, however late it ends, does not pass for   *)
(* it (Settles of IntradayCache).                                           *)
BackfillSettles == focus = "intraday" => Settles

(* Once providers answer, every day of every currency is stored            *)
(* (HistoryFilled of HistorySync).                                          *)
HistoryFills == focus = "sync" => HistoryFilled
=============================================================================
