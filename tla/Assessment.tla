------------------------------ MODULE Assessment ------------------------------
(***************************************************************************)
(* The shared market assessment (market_assessment_runtime.py): a snapshot *)
(* for all clients, calculated in the executor when it is older than its   *)
(* time to live or its inputs changed.  A client that finds a calculation  *)
(* running waits for it and looks again, once.                             *)
(***************************************************************************)
EXTENDS Integers, FiniteSets

CONSTANTS
    Viewers,        \* dashboard, endpoint and sensor
    TTL,            \* MARKET_ASSESSMENT_CACHE_SECONDS, in ticks
    MaxClock, MaxChanges, MaxRequests  \* bounds on the clock, on input changes, on requests

ASSUME TTLAssumption == TTL \in Nat \ {0}

VARIABLES
    clock,      \* the monotonic clock
    current,    \* the generation of settings and price history
    snap,       \* _market_assessment_cache: the inputs it was made of, and when
    running,    \* _market_assessment_task: whose calculation, NoOne for none
    viewer,     \* viewer[c]: what c does, for which inputs, since when
    given,      \* given[c]: the snapshot c got last
    requests

assessmentVars == <<clock, current, snap, running, viewer, given, requests>>

NoOne == "none"
NoSnap == [inputs |-> 0, at |-> -1]
NoRequest == [at |-> "idle", inputs |-> 0, since |-> 0, waits |-> NoOne]

\* Mutant: any snapshot that is young enough will do.
UsableWhileYoung(i) == snap # NoSnap /\ clock - snap.at < TTL
\* The snapshot answers who asks for these inputs.
Usable(i) == snap.inputs = i /\ clock - snap.at < TTL

AssessmentInit ==
    /\ clock = 0 /\ current = 1
    /\ snap = NoSnap /\ running = NoOne
    /\ viewer = [c \in Viewers |-> NoRequest]
    /\ given = [c \in Viewers |-> NoSnap]
    /\ requests = 0

-----------------------------------------------------------------------------
\* The request takes its inputs and keeps them: it is answered from the cache,
\* waits for the calculation that runs, or starts one.
Request(c) ==
    LET Goes(step, waits, answer) ==
        /\ viewer' = [viewer EXCEPT ![c] = [at |-> step, inputs |-> current, since |-> clock, waits |-> waits]]
        /\ given' = [given EXCEPT ![c] = answer]
    IN
    /\ viewer[c].at = "idle" /\ requests < MaxRequests
    /\ requests' = requests + 1
    /\ \/ Usable(current) /\ Goes("idle", NoOne, snap) /\ UNCHANGED running
       \/ ~ Usable(current) /\ running # NoOne /\ Goes("wait", running, NoSnap) /\ UNCHANGED running
       \/ ~ Usable(current) /\ running = NoOne /\ Goes("calculating", NoOne, NoSnap) /\ running' = c
    /\ UNCHANGED <<clock, current, snap>>

\* The calculation it waited for ended, well or not.
LookAgain(c) ==
    /\ viewer[c].at = "again"
    /\ \/ /\ Usable(viewer[c].inputs)
          /\ given' = [given EXCEPT ![c] = snap]
          /\ viewer' = [viewer EXCEPT ![c].at = "idle"]
          /\ UNCHANGED running
       \/ /\ ~ Usable(viewer[c].inputs)
          /\ running' = c
          /\ viewer' = [viewer EXCEPT ![c].at = "calculating"]
          /\ UNCHANGED given
    /\ UNCHANGED <<clock, current, snap, requests>>

\* The executor is done: the snapshot of the inputs c asked with.
Calculated(c) ==
    /\ viewer[c].at = "calculating"
    /\ snap' = [inputs |-> viewer[c].inputs, at |-> clock]
    /\ given' = [given EXCEPT ![c] = snap']
    /\ viewer' = [viewer EXCEPT ![c].at = "recording"]
    /\ UNCHANGED <<clock, current, running, requests>>

\* The task of c is over: those who wait for it wake.
TaskOver(c) ==
    /\ viewer' = [d \in Viewers |->
            IF d = c THEN [viewer[c] EXCEPT !.at = "idle"]
            ELSE IF viewer[d].at = "wait" /\ viewer[d].waits = c
            THEN [viewer[d] EXCEPT !.at = "again", !.waits = NoOne] ELSE viewer[d]]
    /\ running' = IF running = c THEN NoOne ELSE running
    /\ UNCHANGED <<clock, current, snap, given, requests>>

Failed(c) == viewer[c].at = "calculating" /\ TaskOver(c)

\* The intraday sample is recorded, or that failed silently.
Recorded(c) == viewer[c].at = "recording" /\ TaskOver(c)

\* New settings: invalidate_market_assessment_cache; new history leaves the cache.
NewInputs ==
    /\ current < MaxChanges
    /\ current' = current + 1
    /\ snap' \in {snap, NoSnap}
    /\ UNCHANGED <<clock, running, viewer, given, requests>>

ClockTick ==
    /\ clock < MaxClock
    /\ clock' = clock + 1
    /\ UNCHANGED <<current, snap, running, viewer, given, requests>>

ViewerStep(c) == LookAgain(c) \/ Calculated(c) \/ Failed(c) \/ Recorded(c)
AssessmentNext == NewInputs \/ ClockTick \/ \E c \in Viewers : Request(c) \/ ViewerStep(c)
AssessmentSpec == AssessmentInit /\ [][AssessmentNext]_assessmentVars /\ \A c \in Viewers : WF_assessmentVars(ViewerStep(c))

-----------------------------------------------------------------------------
(* Whatever a client waited for and whoever calculated, its answer is made *)
(* of the inputs at the time it asked, less than the time to live before.  *)
AnswerFitsAsk ==
    \A c \in Viewers : given[c] # NoSnap =>
        /\ given[c].inputs = viewer[c].inputs
        /\ given[c].at > viewer[c].since - TTL

(* CHANGELOG.md:86: "concurrent-request coalescing for dashboard, endpoint *)
(* and HA sensor [...]; duplicate clients never multiply the work."        *)
WorkIsShared ==
    \A c, d \in Viewers :
        viewer[c].at = "calculating" /\ viewer[d].at = "calculating"
        /\ viewer[c].inputs = viewer[d].inputs => c = d
=============================================================================
