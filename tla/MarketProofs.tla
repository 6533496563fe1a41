---------------------------- MODULE MarketProofs ----------------------------
(***************************************************************************)
(* Theorems about the caches of scores and the history they are made of:   *)
(* the shared assessment, the daily scores, the price history, the         *)
(* 15-minute scores and the intraday price samples.  Each part needs       *)
(* nothing of the others.                                                  *)
(***************************************************************************)
EXTENDS Assessment, HistoryScores, HistorySync, IntradayCache, PriceSamples, TLAPS,
        WellFoundedInduction

-----------------------------------------------------------------------------
(* Assessment, for any clients, any time to live and any bounds.           *)
(*                                                                         *)
(* A client may wait for another's calculation, so its answer is not made  *)
(* for it.  What carries the proof is that it keeps the inputs and the     *)
(* time it asked with, and that it asked before now: a snapshot that is    *)
(* usable now, or calculated now, is then recent enough for it.            *)

Instants == Nat \cup {-1}
Snaps == [inputs : Nat, at : Instants]
ViewerStates == [at : {"idle", "wait", "again", "calculating", "recording"},
                 inputs : Nat, since : Nat, waits : Viewers \cup {NoOne}]
AssessmentTypes ==
    /\ clock \in Nat /\ current \in Nat
    /\ snap \in Snaps /\ running \in Viewers \cup {NoOne}
    /\ viewer \in [Viewers -> ViewerStates]
    /\ given \in [Viewers -> Snaps]

\* Nobody asked later than now, and nothing was calculated later than now.
NotYet == snap.at <= clock /\ \A c \in Viewers : viewer[c].since <= clock
\* The answer of one client.
FitsAsk(c) == given[c] # NoSnap => /\ given[c].inputs = viewer[c].inputs
                                   /\ given[c].at > viewer[c].since - TTL
AnswersInv == AssessmentTypes /\ NotYet /\ \A c \in Viewers : FitsAsk(c)

LEMMA AssessmentStarts == AssessmentInit => AnswersInv
  BY DEF AssessmentInit, AnswersInv, AssessmentTypes, NotYet, FitsAsk, Snaps, Instants,
         ViewerStates, NoSnap, NoRequest, NoOne

-----------------------------------------------------------------------------
\* A usable snapshot was calculated less than the time to live ago.
LEMMA UsableIsYoung ==
    ASSUME AssessmentTypes, NEW i, Usable(i)
    PROVE  snap.inputs = i /\ snap.at > clock - TTL
  BY TTLAssumption DEF AssessmentTypes, Usable, Snaps, Instants

LEMMA RequestFits ==
    ASSUME AnswersInv, NEW c \in Viewers, Request(c)
    PROVE  AnswersInv'
<1> USE DEF AnswersInv
<1>1. AssessmentTypes'
  BY DEF AssessmentTypes, Request, Snaps, Instants, ViewerStates, NoSnap, NoOne
<1>2. NotYet'
  BY DEF AssessmentTypes, NotYet, Request, Snaps, ViewerStates
<1>3. ASSUME NEW d \in Viewers PROVE FitsAsk(d)'
  <2>1. CASE d # c
    BY <2>1 DEF FitsAsk, Request, AssessmentTypes
  <2>2. CASE d = c /\ Usable(current)
    <3>1. snap.inputs = current /\ snap.at > clock - TTL
      BY <2>2, UsableIsYoung
    <3>2. given'[c] = snap /\ viewer'[c].inputs = current /\ viewer'[c].since = clock
      BY <2>2 DEF Request, AssessmentTypes
    <3> QED
      BY <2>2, <3>1, <3>2 DEF FitsAsk
  <2>3. CASE d = c /\ ~ Usable(current)
    BY <2>3 DEF FitsAsk, Request, AssessmentTypes
  <2> QED
    BY <2>1, <2>2, <2>3
<1> QED
  BY <1>1, <1>2, <1>3

LEMMA LookAgainFits ==
    ASSUME AnswersInv, NEW c \in Viewers, LookAgain(c)
    PROVE  AnswersInv'
<1> USE DEF AnswersInv
<1>1. AssessmentTypes'
  BY DEF AssessmentTypes, LookAgain, Snaps, ViewerStates
<1>2. \A d \in Viewers : viewer'[d].inputs = viewer[d].inputs /\ viewer'[d].since = viewer[d].since
  BY DEF LookAgain, AssessmentTypes, ViewerStates
<1>3. NotYet'
  BY <1>2 DEF NotYet, LookAgain
<1>4. ASSUME NEW d \in Viewers PROVE FitsAsk(d)'
  <2>1. CASE d # c \/ ~ Usable(viewer[c].inputs)
    <3>1. given'[d] = given[d]
      BY <2>1 DEF LookAgain, AssessmentTypes
    <3> QED
      BY <1>2, <3>1 DEF FitsAsk
  <2>2. CASE d = c /\ Usable(viewer[c].inputs)
    <3>1. snap.inputs = viewer[c].inputs /\ snap.at > clock - TTL
      BY <2>2, UsableIsYoung
    <3>2. given'[c] = snap
      BY <2>2 DEF LookAgain, AssessmentTypes
    <3>3. viewer[c].since <= clock /\ viewer[c].since \in Nat /\ clock \in Nat /\ snap.at \in Int
      BY DEF NotYet, AssessmentTypes, ViewerStates, Snaps, Instants
    <3>4. snap.at > viewer[c].since - TTL
      BY <3>1, <3>3, TTLAssumption
    <3> QED
      BY <2>2, <3>1, <3>2, <3>4, <1>2 DEF FitsAsk
  <2> QED
    BY <2>1, <2>2
<1> QED
  BY <1>1, <1>3, <1>4

LEMMA CalculatedFits ==
    ASSUME AnswersInv, NEW c \in Viewers, Calculated(c)
    PROVE  AnswersInv'
<1> USE DEF AnswersInv
<1>1. AssessmentTypes'
  BY DEF AssessmentTypes, Calculated, Snaps, Instants, ViewerStates
<1>2. \A d \in Viewers : viewer'[d].inputs = viewer[d].inputs /\ viewer'[d].since = viewer[d].since
  BY DEF Calculated, AssessmentTypes, ViewerStates
<1>3. NotYet'
  BY <1>2 DEF NotYet, Calculated, AssessmentTypes
<1>4. ASSUME NEW d \in Viewers PROVE FitsAsk(d)'
  <2>1. CASE d # c
    BY <2>1, <1>2 DEF FitsAsk, Calculated, AssessmentTypes
  <2>2. CASE d = c
    <3>1. given'[c].inputs = viewer[c].inputs /\ given'[c].at = clock
      BY DEF Calculated, AssessmentTypes
    <3>2. viewer[c].since <= clock /\ viewer[c].since \in Nat /\ clock \in Nat
      BY DEF NotYet, AssessmentTypes, ViewerStates
    <3>3. clock > viewer[c].since - TTL
      BY <3>2, TTLAssumption
    <3> QED
      BY <2>2, <3>1, <3>3, <1>2 DEF FitsAsk
  <2> QED
    BY <2>1, <2>2
<1> QED
  BY <1>1, <1>3, <1>4

LEMMA TaskOverFits ==
    ASSUME AnswersInv, NEW c \in Viewers, TaskOver(c)
    PROVE  AnswersInv'
<1> USE DEF AnswersInv
<1>1. AssessmentTypes'
  <2>1. viewer \in [Viewers -> ViewerStates] /\ running \in Viewers \cup {NoOne}
    BY DEF AssessmentTypes
  <2>2. \A r \in ViewerStates : /\ [r EXCEPT !.at = "idle"] \in ViewerStates
                                 /\ [r EXCEPT !.at = "again", !.waits = NoOne] \in ViewerStates
    BY DEF ViewerStates
  <2>3. viewer' \in [Viewers -> ViewerStates]
    BY <2>1, <2>2 DEF TaskOver
  <2>4. running' \in Viewers \cup {NoOne}
    BY <2>1 DEF TaskOver
  <2> QED
    BY <2>3, <2>4 DEF AssessmentTypes, TaskOver
<1>2. \A d \in Viewers : viewer'[d].inputs = viewer[d].inputs /\ viewer'[d].since = viewer[d].since
  BY DEF TaskOver, AssessmentTypes, ViewerStates
<1>3. NotYet'
  BY <1>2 DEF NotYet, TaskOver
<1> QED
  BY <1>1, <1>2, <1>3 DEF FitsAsk, TaskOver

LEMMA AroundFits ==
    ASSUME AnswersInv, NewInputs \/ ClockTick
    PROVE  AnswersInv'
<1> USE DEF AnswersInv
<1>1. AssessmentTypes'
  BY DEF AssessmentTypes, NewInputs, ClockTick, Snaps, Instants, NoSnap
<1>2. NotYet'
  <2>1. clock \in Nat /\ snap.at \in Int /\ clock' \in {clock, clock + 1} /\ snap' \in {snap, NoSnap}
    BY DEF NewInputs, ClockTick, AssessmentTypes, Snaps, Instants
  <2>2. viewer' = viewer /\ \A c \in Viewers : viewer[c].since \in Nat
    BY DEF NewInputs, ClockTick, AssessmentTypes, ViewerStates
  <2> QED
    BY <2>1, <2>2 DEF NotYet, NoSnap
<1> QED
  BY <1>1, <1>2 DEF FitsAsk, NewInputs, ClockTick

LEMMA AssessmentSteps == AnswersInv /\ [AssessmentNext]_assessmentVars => AnswersInv'
<1> SUFFICES ASSUME AnswersInv, [AssessmentNext]_assessmentVars PROVE AnswersInv'
  OBVIOUS
<1>1. CASE NewInputs \/ ClockTick
  BY <1>1, AroundFits
<1>2. ASSUME NEW c \in Viewers, Request(c) PROVE AnswersInv'
  BY <1>2, RequestFits
<1>3. ASSUME NEW c \in Viewers, LookAgain(c) PROVE AnswersInv'
  BY <1>3, LookAgainFits
<1>4. ASSUME NEW c \in Viewers, Calculated(c) PROVE AnswersInv'
  BY <1>4, CalculatedFits
<1>5. ASSUME NEW c \in Viewers, Failed(c) \/ Recorded(c) PROVE AnswersInv'
  BY <1>5, TaskOverFits DEF Failed, Recorded
<1>6. CASE UNCHANGED assessmentVars
  BY <1>6 DEF assessmentVars, AnswersInv, AssessmentTypes, NotYet, FitsAsk
<1> QED
  BY <1>1, <1>2, <1>3, <1>4, <1>5, <1>6 DEF AssessmentNext, ViewerStep

(* Whatever the clients, the time to live and the number of changes: an    *)
(* answer of async_market_assessment, from the cache, calculated or waited *)
(* for, is of the inputs asked with and not older than the time to live.   *)
THEOREM AnswersFitTheirAsk == AssessmentSpec => []AnswerFitsAsk
<1>1. AnswersInv => AnswerFitsAsk
  BY DEF AnswersInv, AnswerFitsAsk, FitsAsk
<1> QED
  BY <1>1, AssessmentStarts, AssessmentSteps, PTL DEF AssessmentSpec

-----------------------------------------------------------------------------
(* HistoryScores, for any clients, warm-ups, ranges and bounds.            *)
(*                                                                         *)
(* That an answer fits rests on the join: the task a client waits for is   *)
(* of its generation and range as long as the client waits.  That scores   *)
(* are calculated once rests on the slot: a task that scores holds it, and *)
(* what it scores for is not there yet.                                    *)

Generations == Nat
RangeNames == Ranges \cup {NoRange}
ClientStates == [at : {"idle", "look", "start", "wait"}, sig : Generations,
                 range : RangeNames, on : All \cup {NoRange}]
JobStates == [at : {"none", "queued", "scoring", "ranging"}, sig : Generations, range : RangeNames]
ScoresTypes ==
    /\ inputs \in Generations
    /\ data \in [sig : Generations, scores : BOOLEAN, ranges : SUBSET RangeNames]
    /\ client \in [All -> ClientStates]
    /\ job \in [All -> JobStates]
    /\ slot \in All \cup {NoRange}
    /\ answer \in [All -> [sig : Generations, range : RangeNames]]
    /\ scored \in Nat

\* What c waits for runs, for what c asked; a warm-up waits for its own task.
Waits(c) == client[c].at = "wait" =>
    /\ client[c].on \in All
    /\ job[client[c].on].at # "none"
    /\ job[client[c].on].sig = client[c].sig /\ job[client[c].on].range = client[c].range
    /\ c \notin Clients => client[c].on = c
\* Who looks and starts has no task yet, and no answer until it is idle again.
Asks(c) ==
    /\ client[c].at \in {"look", "start"} => job[c].at = "none"
    /\ client[c].at # "idle" => answer[c] = NoAnswer
    /\ answer[c] # NoAnswer => answer[c] = [sig |-> client[c].sig, range |-> client[c].range]
JoinInv == ScoresTypes /\ (\A c \in All : Waits(c)) /\ (\A c \in All : Asks(c))

\* The slot, and what its holder calculates.
Slotted(c) ==
    /\ job[c].at \in {"scoring", "ranging"} => slot = c
    /\ job[c].at = "scoring" /\ data.sig = job[c].sig => ~ data.scores
SlotInv ==
    /\ ScoresTypes
    /\ \A c \in All : Slotted(c)
    /\ scored = IF data.scores THEN 1 ELSE 0

LEMMA ScoresStart == ScoresInit => JoinInv /\ SlotInv
  BY RangeAssumption DEF ScoresInit, JoinInv, SlotInv, ScoresTypes, Waits, Asks, Slotted,
     NoData, Idle, NoJob, NoAnswer, ClientStates, JobStates, Generations, RangeNames, All

-----------------------------------------------------------------------------
(* Types.                                                                  *)

LEMMA FreedClient ==
    ASSUME NEW s \in ClientStates
    PROVE  [s EXCEPT !.at = "idle", !.on = NoRange] \in ClientStates
<1>1. [s EXCEPT !.at = "idle"] \in ClientStates
  BY DEF ClientStates
<1>2. [s EXCEPT !.at = "idle", !.on = NoRange] = [[s EXCEPT !.at = "idle"] EXCEPT !.on = NoRange]
  BY DEF ClientStates
<1> QED
  BY <1>1, <1>2 DEF ClientStates

LEMMA WaitingClient ==
    ASSUME ScoresTypes, NEW c \in All, NEW d \in All,
           client' = [client EXCEPT ![c].at = "wait", ![c].on = d]
    PROVE  /\ client' \in [All -> ClientStates]
           /\ client'[c].at = "wait" /\ client'[c].on = d
           /\ client'[c].sig = client[c].sig /\ client'[c].range = client[c].range
           /\ \A e \in All \ {c} : client'[e] = client[e]
<1>1. client'[c] = [at |-> "wait", sig |-> client[c].sig, range |-> client[c].range, on |-> d]
  BY DEF ScoresTypes, ClientStates
<1>2. \A e \in All \ {c} : client'[e] = client[e]
  BY DEF ScoresTypes
<1>3. client'[c] \in ClientStates
  BY <1>1 DEF ScoresTypes, ClientStates
<1>4. client' = [e \in All |-> client'[e]]
  BY DEF ScoresTypes
<1> QED
  BY <1>1, <1>2, <1>3, <1>4 DEF ScoresTypes

LEMMA OverTypes ==
    ASSUME ScoresTypes, NEW c \in All, Over(c)
    PROVE  /\ client' \in [All -> ClientStates]
           /\ job' \in [All -> JobStates]
           /\ answer' \in [All -> [sig : Generations, range : RangeNames]]
           /\ slot' \in All \cup {NoRange}
<1> USE DEF ScoresTypes
<1>1. job' \in [All -> JobStates]
  BY DEF Over, NoJob, JobStates, Generations, RangeNames
<1>2. client' \in [All -> ClientStates]
  BY FreedClient DEF Over
<1>3. job[c].sig \in Generations /\ job[c].range \in RangeNames
  BY DEF JobStates
<1>4. answer' \in [All -> [sig : Generations, range : RangeNames]]
  BY <1>3 DEF Over
<1> QED
  BY <1>1, <1>2, <1>4 DEF Over

LEMMA TypesStay == ScoresTypes /\ [ScoresNext]_scoresVars => ScoresTypes'
<1> SUFFICES ASSUME ScoresTypes, [ScoresNext]_scoresVars PROVE ScoresTypes'
  OBVIOUS
<1>1. CASE PricesChange \/ EditScores \/ ClearScores
  <2>1. CASE PricesChange
    BY <2>1 DEF PricesChange, ScoresTypes, Generations
  <2>2. CASE EditScores
    BY <2>2 DEF EditScores, ScoresTypes, Generations, NoJob, Idle, JobStates, ClientStates, RangeNames
  <2>3. CASE ClearScores
    BY <2>3 DEF ClearScores, ScoresTypes, NoData, Generations, RangeNames
  <2> QED
    BY <1>1, <2>1, <2>2, <2>3
<1>2. ASSUME NEW c \in All, NEW r \in Ranges \cup {NoRange}, Ask(c, r) PROVE ScoresTypes'
  BY <1>2 DEF Ask, ScoresTypes, ClientStates, NoAnswer, Generations, RangeNames
<1>3. ASSUME NEW c \in All, Hit(c) PROVE ScoresTypes'
  BY <1>3 DEF Hit, ScoresTypes, ClientStates
<1>4. ASSUME NEW c \in All, Prepare(c) PROVE ScoresTypes'
  <2>1. data' \in [sig : Generations, scores : BOOLEAN, ranges : SUBSET RangeNames]
    BY <1>4 DEF Prepare, ScoresTypes, ClientStates, NoData
  <2>2. client' \in [All -> ClientStates] /\ scored' \in {scored, 0}
    BY <1>4 DEF Prepare, ScoresTypes, ClientStates
  <2> QED
    BY <1>4, <2>1, <2>2 DEF Prepare, ScoresTypes
<1>5. ASSUME NEW c \in All, Start(c) PROVE ScoresTypes'
  <2>1. PICK d \in All : client' = [client EXCEPT ![c].at = "wait", ![c].on = d]
    BY <1>5 DEF Start, Shares, All
  <2>2. client' \in [All -> ClientStates]
    BY <2>1, WaitingClient
  <2>3. job' \in [All -> JobStates]
    BY <1>5 DEF Start, ScoresTypes, ClientStates, JobStates
  <2> QED
    BY <1>5, <2>2, <2>3 DEF Start, ScoresTypes
<1>6. ASSUME NEW c \in All, Acquire(c) PROVE ScoresTypes'
  <2>1. CASE Serves(job[c].sig, job[c].range)
    BY <1>6, <2>1, OverTypes DEF Acquire, ScoresTypes
  <2>2. CASE ~ Serves(job[c].sig, job[c].range)
    BY <1>6, <2>2 DEF Acquire, ScoresTypes, JobStates
  <2> QED
    BY <2>1, <2>2
<1>7. ASSUME NEW c \in All, Scored(c) PROVE ScoresTypes'
  <2>1. data' \in [sig : Generations, scores : BOOLEAN, ranges : SUBSET RangeNames] /\ scored' \in Nat
    <3>1. CASE data.sig = job[c].sig
      <4>1. data' = [data EXCEPT !.scores = TRUE]
        BY <1>7, <3>1 DEF Scored
      <4>2. data' \in [sig : Generations, scores : BOOLEAN, ranges : SUBSET RangeNames]
        BY <4>1 DEF ScoresTypes
      <4>3. scored' = scored + 1 /\ scored \in Nat
        BY <1>7, <3>1 DEF Scored, ScoresTypes
      <4> QED
        BY <4>2, <4>3
    <3>2. CASE data.sig # job[c].sig
      BY <1>7, <3>2 DEF Scored, ScoresTypes
    <3> QED
      BY <3>1, <3>2
  <2>2. CASE c \in Warmups
    BY <1>7, <2>1, <2>2, OverTypes DEF Scored, ScoresTypes
  <2>3. CASE c \notin Warmups
    BY <1>7, <2>1, <2>3 DEF Scored, ScoresTypes, JobStates
  <2> QED
    BY <2>2, <2>3
<1>8. ASSUME NEW c \in All, Ranged(c) PROVE ScoresTypes'
  <2>1. data' \in [sig : Generations, scores : BOOLEAN, ranges : SUBSET RangeNames]
    BY <1>8 DEF Ranged, ScoresTypes, JobStates
  <2> QED
    BY <1>8, <2>1, OverTypes DEF Ranged, ScoresTypes
<1>9. CASE UNCHANGED scoresVars
  BY <1>9 DEF scoresVars, ScoresTypes
<1> QED
  BY <1>1, <1>2, <1>3, <1>4, <1>5, <1>6, <1>7, <1>8, <1>9 DEF ScoresNext

-----------------------------------------------------------------------------
(* The join.                                                               *)

\* The end of a task: who waited for it has what it asked for.
LEMMA OverJoins ==
    ASSUME JoinInv, NEW c \in All, Over(c), job[c].at # "none"
    PROVE  (\A d \in All : Waits(d)') /\ (\A d \in All : Asks(d)')
<1> USE DEF JoinInv
<1>1. /\ \A d \in All : job'[d] = IF d = c THEN NoJob ELSE job[d]
      /\ \A d \in All : ~ (client[d].at = "wait" /\ client[d].on = c)
                        => client'[d] = client[d] /\ answer'[d] = answer[d]
      /\ \A d \in All : client[d].at = "wait" /\ client[d].on = c =>
            /\ client'[d].at = "idle"
            /\ client'[d].sig = client[d].sig /\ client'[d].range = client[d].range
            /\ answer'[d] = [sig |-> job[c].sig, range |-> job[c].range]
  <2>1. job \in [All -> JobStates] /\ client \in [All -> ClientStates]
    BY DEF ScoresTypes
  <2>2. \A d \in All : job'[d] = IF d = c THEN NoJob ELSE job[d]
    BY <2>1 DEF Over
  <2>3. \A d \in All : ~ (client[d].at = "wait" /\ client[d].on = c)
                        => client'[d] = client[d] /\ answer'[d] = answer[d]
    BY DEF Over
  <2>4. \A d \in All : client[d].at = "wait" /\ client[d].on = c =>
            /\ client'[d] = [client[d] EXCEPT !.at = "idle", !.on = NoRange]
            /\ answer'[d] = [sig |-> job[c].sig, range |-> job[c].range]
    BY DEF Over
  <2>5. \A r \in ClientStates :
            /\ [r EXCEPT !.at = "idle", !.on = NoRange].at = "idle"
            /\ [r EXCEPT !.at = "idle", !.on = NoRange].sig = r.sig
            /\ [r EXCEPT !.at = "idle", !.on = NoRange].range = r.range
    BY DEF ClientStates
  <2>6. ASSUME NEW d \in All, client[d].at = "wait" /\ client[d].on = c
        PROVE  /\ client'[d].at = "idle"
               /\ client'[d].sig = client[d].sig /\ client'[d].range = client[d].range
               /\ answer'[d] = [sig |-> job[c].sig, range |-> job[c].range]
    <3>1. client[d] \in ClientStates
      BY <2>1
    <3> QED
      BY <2>4, <2>5, <2>6, <3>1
  <2> QED
    BY <2>2, <2>3, <2>6
<1>2. ASSUME NEW d \in All PROVE Waits(d)'
  <2>1. CASE client[d].at = "wait" /\ client[d].on = c
    BY <1>1, <2>1 DEF Waits
  <2>2. CASE ~ (client[d].at = "wait" /\ client[d].on = c)
    BY <1>1, <2>2 DEF Waits
  <2> QED
    BY <2>1, <2>2
<1>3. ASSUME NEW d \in All PROVE Asks(d)'
  <2>1. CASE client[d].at = "wait" /\ client[d].on = c
    BY <1>1, <2>1 DEF Waits, Asks
  <2>2. CASE ~ (client[d].at = "wait" /\ client[d].on = c)
    BY <1>1, <2>2 DEF Asks, NoJob
  <2> QED
    BY <2>1, <2>2
<1> QED
  BY <1>2, <1>3

\* A step after which every task runs on for what it was created for.
LEMMA TasksGoOn ==
    ASSUME JoinInv, client' = client, answer' = answer,
           \A d \in All : /\ job'[d].sig = job[d].sig /\ job'[d].range = job[d].range
                          /\ job'[d].at = "none" <=> job[d].at = "none"
    PROVE  (\A d \in All : Waits(d)') /\ (\A d \in All : Asks(d)')
  BY DEF JoinInv, Waits, Asks

LEMMA JoinStays == JoinInv /\ [ScoresNext]_scoresVars => JoinInv'
<1> SUFFICES ASSUME JoinInv, [ScoresNext]_scoresVars PROVE JoinInv'
  OBVIOUS
<1> DEFINE Joined == (\A d \in All : Waits(d)') /\ (\A d \in All : Asks(d)')
<1>t. ScoresTypes /\ ScoresTypes'
  BY TypesStay DEF JoinInv
<1>1. CASE PricesChange
  BY <1>1, <1>t DEF PricesChange, JoinInv, Waits, Asks
<1>2. CASE ClearScores
  BY <1>2, <1>t DEF ClearScores, JoinInv, Waits, Asks
<1>3. CASE EditScores
  <2>1. \A d \in All : /\ job'[d] = IF d \in Clients THEN NoJob ELSE job[d]
                       /\ client'[d] = IF client[d].at = "wait" /\ d \in Clients THEN Idle ELSE client[d]
                       /\ answer'[d] = answer[d]
    BY <1>3 DEF EditScores
  <2>2. ASSUME NEW d \in All PROVE Waits(d)'
    BY <2>1 DEF JoinInv, Waits, Idle
  <2>3. ASSUME NEW d \in All PROVE Asks(d)'
    <3>1. CASE client[d].at = "wait" /\ d \in Clients
      <4>1. answer[d] = NoAnswer
        BY <3>1 DEF JoinInv, Asks
      <4>2. client'[d].at = "idle" /\ answer'[d] = NoAnswer
        BY <2>1, <3>1, <4>1 DEF Idle
      <4> QED
        BY <4>2 DEF Asks
    <3>2. CASE ~ (client[d].at = "wait" /\ d \in Clients)
      <4>1. Asks(d) /\ client'[d] = client[d] /\ answer'[d] = answer[d]
        BY <2>1, <3>2 DEF JoinInv
      <4>2. job'[d].at \in {"none", job[d].at}
        BY <2>1 DEF NoJob
      <4> QED
        BY <4>1, <4>2 DEF Asks
    <3> QED
      BY <3>1, <3>2
  <2> QED
    BY <1>t, <2>2, <2>3 DEF JoinInv
<1>4. ASSUME NEW c \in All, NEW r \in Ranges \cup {NoRange}, Ask(c, r) PROVE JoinInv'
  <2>1. /\ \A d \in All \ {c} : client'[d] = client[d] /\ answer'[d] = answer[d]
        /\ client'[c].at = "look" /\ answer'[c] = NoAnswer /\ job' = job /\ job[c].at = "none"
    BY <1>4, <1>t DEF Ask, Running, ScoresTypes, ClientStates
  <2> QED
    BY <1>t, <2>1 DEF JoinInv, Waits, Asks
<1>5. ASSUME NEW c \in All, Hit(c) PROVE JoinInv'
  <2>1. /\ \A d \in All \ {c} : client'[d] = client[d] /\ answer'[d] = answer[d]
        /\ client'[c].at = "idle" /\ job' = job
        /\ answer'[c] = [sig |-> client[c].sig, range |-> client[c].range]
        /\ client'[c].sig = client[c].sig /\ client'[c].range = client[c].range
    BY <1>5, <1>t DEF Hit, ScoresTypes, ClientStates
  <2> QED
    BY <1>t, <2>1 DEF JoinInv, Waits, Asks
<1>6. ASSUME NEW c \in All, Prepare(c) PROVE JoinInv'
  <2>1. /\ \A d \in All \ {c} : client'[d] = client[d]
        /\ client'[c].at = "start" /\ client[c].at = "look" /\ job' = job /\ answer' = answer
        /\ client'[c].sig = client[c].sig /\ client'[c].range = client[c].range
    BY <1>6, <1>t DEF Prepare, ScoresTypes, ClientStates
  <2> QED
    BY <1>t, <2>1 DEF JoinInv, Waits, Asks
<1>7. ASSUME NEW c \in All, Start(c) PROVE JoinInv'
  <2> DEFINE shared == IF c \in Warmups THEN {} ELSE Shares(client[c].sig, client[c].range)
  <2>1. /\ \A d \in All \ {c} : client'[d] = client[d] /\ job'[d] = job[d]
        /\ client[c].at = "start" /\ client'[c].at = "wait" /\ answer' = answer
        /\ client'[c].sig = client[c].sig /\ client'[c].range = client[c].range
    BY <1>7, <1>t DEF Start, ScoresTypes, ClientStates
  <2>2. job[c].at = "none"
    BY <2>1 DEF JoinInv, Asks
  <2>3. CASE shared = {}
    <3>1. /\ client'[c].on = c
          /\ job'[c] = [at |-> "queued", sig |-> client[c].sig, range |-> client[c].range]
      BY <1>7, <1>t, <2>3 DEF Start, ScoresTypes, ClientStates
    <3> QED
      BY <1>t, <2>1, <2>2, <3>1 DEF JoinInv, Waits, Asks
  <2>4. CASE shared # {}
    <3>1. PICK k \in shared : client'[c].on = k /\ job' = job
      BY <1>7, <1>t, <2>4 DEF Start, ScoresTypes, ClientStates
    <3>2. /\ k \in All /\ c \in Clients /\ job[k].at # "none"
          /\ job[k].sig = client[c].sig /\ job[k].range = client[c].range
      BY <2>4 DEF Shares, Running, All
    <3> QED
      BY <1>t, <2>1, <2>2, <3>1, <3>2 DEF JoinInv, Waits, Asks
  <2> QED
    BY <2>3, <2>4
<1>8. ASSUME NEW c \in All, Acquire(c) PROVE JoinInv'
  <2>1. CASE Serves(job[c].sig, job[c].range)
    <3>1. Over(c) /\ job[c].at # "none"
      BY <1>8, <2>1 DEF Acquire
    <3> QED
      BY <1>t, <3>1, OverJoins DEF JoinInv
  <2>2. CASE ~ Serves(job[c].sig, job[c].range)
    <3>1. client' = client /\ answer' = answer /\ job[c].at = "queued"
          /\ \A d \in All : /\ job'[d].sig = job[d].sig /\ job'[d].range = job[d].range
                            /\ job'[d].at = "none" <=> job[d].at = "none"
      BY <1>8, <2>2, <1>t DEF Acquire, ScoresTypes, JobStates
    <3> QED
      BY <1>t, <3>1, TasksGoOn DEF JoinInv
  <2> QED
    BY <2>1, <2>2
<1>9. ASSUME NEW c \in All, Scored(c) PROVE JoinInv'
  <2>1. CASE c \in Warmups
    <3>1. Over(c) /\ job[c].at # "none"
      BY <1>9, <2>1 DEF Scored
    <3> QED
      BY <1>t, <3>1, OverJoins DEF JoinInv
  <2>2. CASE c \notin Warmups
    <3>1. client' = client /\ answer' = answer
          /\ \A d \in All : /\ job'[d].sig = job[d].sig /\ job'[d].range = job[d].range
                            /\ job'[d].at = "none" <=> job[d].at = "none"
      BY <1>9, <2>2, <1>t DEF Scored, ScoresTypes, JobStates
    <3> QED
      BY <1>t, <3>1, TasksGoOn DEF JoinInv
  <2> QED
    BY <2>1, <2>2
<1>10. ASSUME NEW c \in All, Ranged(c) PROVE JoinInv'
  <2>1. Over(c) /\ job[c].at # "none"
    BY <1>10 DEF Ranged
  <2> QED
    BY <1>t, <2>1, OverJoins DEF JoinInv
<1>11. CASE UNCHANGED scoresVars
  BY <1>11, <1>t DEF scoresVars, JoinInv, Waits, Asks
<1> QED
  BY <1>1, <1>2, <1>3, <1>4, <1>5, <1>6, <1>7, <1>8, <1>9, <1>10, <1>11 DEF ScoresNext

(* Whoever asks, whatever is cached, joined, cancelled or cleared in       *)
(* between: the panel's answer is of the generation and the range that     *)
(* were asked for, and a warm-up ends on its own.                          *)
THEOREM AnswersAlwaysFit == ScoresSpec => []AnswersFit
<1>1. JoinInv => AnswersFit
  BY DEF JoinInv, AnswersFit, Asks
<1> QED
  BY <1>1, ScoresStart, JoinStays, PTL DEF ScoresSpec

-----------------------------------------------------------------------------
(* The slot.                                                               *)

\* The end of a task that had the slot, or found it free.
LEMMA OverSlots ==
    ASSUME SlotInv, NEW c \in All, Over(c), slot \in {c, NoRange},
           data'.scores = data.scores, data'.sig = data.sig, scored' = scored
    PROVE  (\A d \in All : Slotted(d)') /\ scored' = IF data'.scores THEN 1 ELSE 0
<1>1. ASSUME NEW d \in All PROVE Slotted(d)'
  <2>1. job'[d] = IF d = c THEN NoJob ELSE job[d]
    BY DEF Over, SlotInv, ScoresTypes
  <2>2. CASE d = c
    BY <2>1, <2>2 DEF Slotted, NoJob
  <2>3. CASE d # c
    <3>1. job[d].at \notin {"scoring", "ranging"}
      BY <2>3, RangeAssumption DEF SlotInv, Slotted, All
    <3> QED
      BY <2>1, <2>3, <3>1 DEF Slotted
  <2> QED
    BY <2>2, <2>3
<1> QED
  BY <1>1 DEF SlotInv

LEMMA SlotStays == SlotInv /\ [ScoresNext]_scoresVars => SlotInv'
<1> SUFFICES ASSUME SlotInv, [ScoresNext]_scoresVars PROVE SlotInv'
  OBVIOUS
<1>t. ScoresTypes /\ ScoresTypes'
  BY TypesStay DEF SlotInv
<1>s. /\ \A d \in All : Slotted(d)
      /\ scored = IF data.scores THEN 1 ELSE 0
  BY DEF SlotInv
<1>1. CASE PricesChange \/ UNCHANGED scoresVars
  BY <1>1, <1>t, <1>s DEF PricesChange, scoresVars, SlotInv, Slotted
<1>2. CASE ClearScores
  BY <1>2, <1>t, <1>s DEF ClearScores, SlotInv, Slotted, NoData
<1>3. CASE EditScores
  <2>1. /\ \A d \in All : job'[d] = IF d \in Clients THEN NoJob ELSE job[d]
        /\ slot' = IF slot \in Clients THEN NoRange ELSE slot
        /\ data' = data /\ scored' = scored
    BY <1>3 DEF EditScores
  <2>2. ASSUME NEW d \in All PROVE Slotted(d)'
    <3>1. CASE d \in Clients
      BY <2>1, <3>1 DEF Slotted, NoJob
    <3>2. CASE d \notin Clients
      BY <2>1, <3>2, <1>s DEF Slotted
    <3> QED
      BY <3>1, <3>2
  <2> QED
    BY <1>t, <1>s, <2>1, <2>2 DEF SlotInv
<1>4. ASSUME NEW c \in All, NEW r \in Ranges \cup {NoRange}, Ask(c, r) PROVE SlotInv'
  BY <1>4, <1>t, <1>s DEF Ask, SlotInv, Slotted
<1>5. ASSUME NEW c \in All, Hit(c) PROVE SlotInv'
  BY <1>5, <1>t, <1>s DEF Hit, SlotInv, Slotted
<1>6. ASSUME NEW c \in All, Prepare(c) PROVE SlotInv'
  <2>1. CASE data.sig = client[c].sig
    BY <1>6, <2>1, <1>t, <1>s DEF Prepare, SlotInv, Slotted
  <2>2. CASE data.sig # client[c].sig
    <3>1. ~ data'.scores /\ scored' = 0 /\ job' = job /\ slot' = slot
      BY <1>6, <2>2 DEF Prepare, NoData
    <3> QED
      BY <3>1, <1>t, <1>s DEF SlotInv, Slotted
  <2> QED
    BY <2>1, <2>2
<1>7. ASSUME NEW c \in All, Start(c) PROVE SlotInv'
  <2>1. /\ data' = data /\ scored' = scored /\ slot' = slot
        /\ \A d \in All : job'[d] = job[d] \/ job'[d].at = "queued"
    BY <1>7, <1>t DEF Start, ScoresTypes
  <2> QED
    BY <2>1, <1>t, <1>s DEF SlotInv, Slotted
<1>8. ASSUME NEW c \in All, Acquire(c) PROVE SlotInv'
  <2>1. CASE Serves(job[c].sig, job[c].range)
    BY <1>8, <2>1, <1>t, OverSlots DEF Acquire, SlotInv
  <2>2. CASE ~ Serves(job[c].sig, job[c].range)
    <3>1. /\ slot = NoRange /\ slot' = c /\ data' = data /\ scored' = scored
          /\ \A d \in All \ {c} : job'[d] = job[d]
          /\ job'[c].at = IF HasScores(job[c].sig) THEN "ranging" ELSE "scoring"
          /\ job'[c].sig = job[c].sig
      BY <1>8, <2>2, <1>t DEF Acquire, ScoresTypes, JobStates
    <3>2. ASSUME NEW d \in All \ {c} PROVE Slotted(d)'
      <4>1. job[d].at \notin {"scoring", "ranging"}
        BY <3>1, <1>s, RangeAssumption DEF Slotted, All
      <4> QED
        BY <3>1, <4>1 DEF Slotted
    <3>3. Slotted(c)'
      BY <3>1 DEF Slotted, HasScores
    <3> QED
      BY <1>t, <1>s, <3>1, <3>2, <3>3 DEF SlotInv
  <2> QED
    BY <2>1, <2>2
<1>9. ASSUME NEW c \in All, Scored(c) PROVE SlotInv'
  <2>1. slot = c /\ \A d \in All \ {c} : job[d].at \notin {"scoring", "ranging"}
    BY <1>9, <1>s DEF Scored, Slotted
  <2>2. scored' = IF data'.scores THEN 1 ELSE 0
    <3>1. CASE data.sig = job[c].sig
      <4>1. ~ data.scores
        BY <1>9, <3>1, <1>s DEF Scored, Slotted
      <4>2. data' = [data EXCEPT !.scores = TRUE] /\ scored' = scored + 1
        BY <1>9, <3>1 DEF Scored
      <4>3. data'.scores = TRUE
        BY <4>2, <1>t DEF ScoresTypes
      <4>4. scored = 0
        BY <4>1, <1>s
      <4> QED
        BY <4>2, <4>3, <4>4
    <3>2. CASE data.sig # job[c].sig
      BY <1>9, <3>2, <1>s DEF Scored
    <3> QED
      BY <3>1, <3>2
  <2>3. ASSUME NEW d \in All PROVE Slotted(d)'
    <3>1. job'[d].at \notin {"scoring", "ranging"} \/ (d = c /\ job'[c].at = "ranging" /\ slot' = slot)
      <4>1. CASE c \in Warmups
        <5>1. job'[d] = IF d = c THEN NoJob ELSE job[d]
          BY <1>9, <4>1, <1>t DEF Scored, Over, ScoresTypes
        <5> QED
          BY <5>1, <2>1 DEF NoJob
      <4>2. CASE c \notin Warmups
        BY <1>9, <2>1, <4>2, <1>t DEF Scored, ScoresTypes, JobStates
      <4> QED
        BY <4>1, <4>2
    <3> QED
      BY <3>1, <2>1 DEF Slotted
  <2> QED
    BY <1>t, <2>2, <2>3 DEF SlotInv
<1>10. ASSUME NEW c \in All, Ranged(c) PROVE SlotInv'
  <2>1. Over(c) /\ slot = c /\ scored' = scored
    BY <1>10, <1>s DEF Ranged, Slotted
  <2>2. data'.scores = data.scores /\ data'.sig = data.sig
    BY <1>10, <1>t DEF Ranged, ScoresTypes
  <2> QED
    BY <2>1, <2>2, <1>t, OverSlots DEF SlotInv
<1> QED
  BY <1>1, <1>2, <1>3, <1>4, <1>5, <1>6, <1>7, <1>8, <1>9, <1>10 DEF ScoresNext

(* However many ranges are opened and warm-ups started at a time: the      *)
(* years of daily scores are calculated at most once while a generation is *)
(* selected, for the slot is given only to what is still missing.          *)
THEOREM ScoresOnlyOnce == ScoresSpec => []ScoredOnce
<1>1. SlotInv => ScoredOnce
  BY DEF SlotInv, ScoredOnce
<1> QED
  BY <1>1, ScoresStart, SlotStays, PTL DEF ScoresSpec

-----------------------------------------------------------------------------
(* HistorySync, for any currencies, days, sources and bounds.              *)
(*                                                                         *)
(* Between two currencies the overlay of the own instances is empty.       *)
(* While a currency is worked on, a day the overlay names has a value of   *)
(* an own instance: what an own instance answers goes into both, and what  *)
(* a later source overwrites, the overlay is put back over.                *)

Steps == {"rest", "own", "configured", "dollars", "public", "recent", "store", "state"}
\* The overlay holds answers of own instances only.
OverlayOwn == \A d \in Days : overlay[d] # "none" => overlay[d] \in OwnNames
\* And so does every day it names.
ValuesOwn == \A d \in Days : overlay[d] # "none" => values[d] \in OwnNames
OwnInv ==
    /\ sync \in [at : Steps, cur : Int, src : Int]
    /\ sync.at = "own" => sync.src \in Nat \ {0}
    /\ OverlayOwn
    /\ sync.at # "rest" => ValuesOwn

LEMMA SyncStarts == SyncInit => OwnInv
  BY DEF SyncInit, OwnInv, OverlayOwn, Nothing, Rest, Steps

\* Putting the overlay back gives the own instances the days they answered.
LEMMA PreferredOwn ==
    ASSUME OverlayOwn, NEW v
    PROVE  \A d \in Days : overlay[d] # "none" => Preferred(v)[d] \in OwnNames
  BY DEF OverlayOwn, Preferred

\* A step to another source or phase that keeps the overlay.
LEMMA StepsOn ==
    ASSUME OwnInv, overlay' = overlay, sync.at # "rest",
           NEW step \in Steps \ {"own"}, To(step),
           values' = values \/ (\E v : values' = Preferred(v))
    PROVE  OwnInv'
<1>1. sync' \in [at : Steps, cur : Int, src : Int] /\ sync'.at # "own"
  <2>1. sync' = [at |-> step, cur |-> sync.cur, src |-> 1]
    BY DEF OwnInv, To
  <2>2. sync.cur \in Int
    BY DEF OwnInv
  <2> QED
    BY <2>1, <2>2
<1>2. OverlayOwn'
  BY DEF OwnInv, OverlayOwn
<1>3. ValuesOwn'
  <2>1. CASE values' = values
    BY <2>1 DEF OwnInv, ValuesOwn
  <2>2. ASSUME NEW v, values' = Preferred(v) PROVE ValuesOwn'
    BY <2>2, PreferredOwn DEF OwnInv, ValuesOwn
  <2> QED
    BY <2>1, <2>2
<1> QED
  BY <1>1, <1>2, <1>3 DEF OwnInv

\* The first step of a currency.
LEMMA TakeStarts ==
    ASSUME OwnInv, NEW k \in Int, NEW prices, Take(k, prices)
    PROVE  OwnInv'
<1>1. \A d \in Days : overlay'[d] = "none"
  BY DEF Take, Nothing
<1>2. OverlayOwn' /\ ValuesOwn'
  BY <1>1 DEF OverlayOwn, ValuesOwn
<1> QED
  BY <1>2 DEF Take, OwnInv, Steps

\* An own instance answers: the day is its own, here and in the overlay.
LEMMA OwnAnswersFirst == ASSUME OwnInv, Own PROVE OwnInv'
<1>1. PICK days \in OwnAnswers :
          /\ values' = Update(values, days, OwnName[sync.src])
          /\ overlay' = FillMissing(overlay, days, OwnName[sync.src])
  BY DEF Own
<1>2. OwnName[sync.src] \in OwnNames
  BY OwnAssumption DEF Own, OwnInv, OwnNames
<1>3. sync' \in [at : Steps, cur : Int, src : Int] /\ sync'.at = "own" /\ sync'.src \in Nat \ {0}
  BY DEF Own, NextSource, OwnInv
<1>4. ASSUME NEW d \in Days, overlay'[d] # "none"
      PROVE  overlay'[d] \in OwnNames /\ values'[d] \in OwnNames
  <2>1. values'[d] = IF d \in days THEN OwnName[sync.src] ELSE values[d]
    BY <1>1 DEF Update
  <2>2. overlay'[d] = IF d \in days /\ overlay[d] = "none" THEN OwnName[sync.src] ELSE overlay[d]
    BY <1>1 DEF Update, FillMissing
  <2>3. overlay[d] # "none" => overlay[d] \in OwnNames /\ values[d] \in OwnNames
    BY DEF Own, OwnInv, OverlayOwn, ValuesOwn
  <2> QED
    BY <1>2, <1>4, <2>1, <2>2, <2>3
<1>5. OverlayOwn' /\ ValuesOwn'
  BY <1>4 DEF OverlayOwn, ValuesOwn
<1> QED
  BY <1>3, <1>5 DEF OwnInv

LEMMA PublicKeepsOwn == ASSUME OwnInv, Public PROVE OwnInv'
<1>1. sync' \in [at : Steps, cur : Int, src : Int] /\ sync'.at = "public"
  BY DEF Public, NextSource, OwnInv
<1>2. OverlayOwn'
  BY DEF Public, OwnInv, OverlayOwn
<1>3. PICK days \in PublicAnswers :
          values' = IF days = {} THEN values
                    ELSE Preferred(FillMissing(values, days, Providers[sync.src]))
  BY DEF Public
<1>4. ValuesOwn'
  <2>1. CASE days = {}
    BY <1>3, <2>1 DEF Public, OwnInv, ValuesOwn
  <2>2. CASE days # {}
    BY <1>3, <2>2, PreferredOwn DEF Public, OwnInv, ValuesOwn
  <2> QED
    BY <2>1, <2>2
<1> QED
  BY <1>1, <1>2, <1>4 DEF OwnInv

LEMMA SyncStays == OwnInv /\ [SyncNext]_syncVars => OwnInv'
<1> SUFFICES ASSUME OwnInv, [SyncNext]_syncVars PROVE OwnInv'
  OBVIOUS
<1>1. CASE Begin
  BY <1>1, TakeStarts DEF Begin
<1>2. CASE Own
  BY <1>2, OwnAnswersFirst
<1>3. CASE OwnDone
  BY <1>3, StepsOn DEF OwnDone, work, Steps
<1>4. CASE Configured
  BY <1>4, StepsOn DEF Configured, Steps
<1>5. CASE Dollars
  BY <1>5, StepsOn DEF Dollars, Steps
<1>6. CASE Public
  BY <1>6, PublicKeepsOwn
<1>7. CASE PublicDone
  BY <1>7, StepsOn DEF PublicDone, work, Steps
<1>8. CASE Refresh
  BY <1>8, StepsOn DEF Refresh, Steps
<1>9. CASE Store
  BY <1>9, StepsOn DEF Store, work, Steps
<1>10. CASE State
  <2>1. CASE sync.cur < Len(Currencies)
    BY <1>10, <2>1, TakeStarts DEF State, OwnInv
  <2>2. CASE ~ (sync.cur < Len(Currencies))
    BY <1>10, <2>2 DEF State, OwnInv, OverlayOwn, Rest, Steps
  <2> QED
    BY <2>1, <2>2
<1>11. CASE Abort \/ Crash
  BY <1>11 DEF Abort, Crash, OwnInv, OverlayOwn, Rest, Steps, work
<1>12. CASE Stale \/ Replace \/ UNCHANGED syncVars
  BY <1>12 DEF Stale, Replace, syncVars, work, OwnInv, OverlayOwn, ValuesOwn
<1> QED
  BY <1>1, <1>2, <1>3, <1>4, <1>5, <1>6, <1>7, <1>8, <1>9, <1>10, <1>11, <1>12 DEF SyncNext, SyncStep

(* However many own instances, whatever each source answers and in which   *)
(* part: what a sync stores for a day an own instance answered came from   *)
(* an own instance.                                                        *)
THEOREM OwnAlwaysBeatsPublic == SyncSpec => []OwnBeatsPublic
<1>1. OwnInv => OwnBeatsPublic
  BY DEF OwnInv, OwnBeatsPublic, ValuesOwn
<1> QED
  BY <1>1, SyncStarts, SyncStays, PTL DEF SyncSpec

-----------------------------------------------------------------------------
(* IntradayCache, for any number of reloads and any settings.              *)
(*                                                                         *)
(* A write of the generation a cache holds starts from its points, and one *)
(* of another generation changes its signature.  Only a setup fills a      *)
(* cache from the file, and that cache held nothing before.                *)
PointStates == [Slots -> {"none", "live", "backfilled"}]
\* A cache holds points of the buckets, and those of a runtime that is still
\* to come hold nothing: a setup fills an empty one.
CachesFit ==
    /\ DOMAIN cache = Epochs
    /\ \A e \in Epochs : /\ DOMAIN cache[e] = {"sig", "points", "pending"}
                         /\ cache[e].points \in PointStates
    /\ file.points \in PointStates
ReloadsFit ==
    /\ epoch \in Epochs /\ (~ loaded => epoch < MaxReloads)
    /\ \A e \in Epochs : e > epoch => worker[e].at = "none" /\ cache[e].sig = None
LiveFits == live # NoLive => live.bucket \in Slots
WorkersFit == DOMAIN worker = Epochs
IntradayInv == CachesFit /\ ReloadsFit /\ LiveFits /\ WorkersFit

\* What a step may not do to a cache.
LiveKept == \A e \in Epochs : cache[e].sig = cache'[e].sig /\ cache[e].sig # None =>
    \A b \in Slots : cache[e].points[b] = "live" => cache'[e].points[b] = "live"

LEMMA IntradayStarts == IntradayInit => IntradayInv
  BY ReloadsAssumption DEF IntradayInit, IntradayInv, CachesFit, ReloadsFit, LiveFits, WorkersFit,
     Epochs, NoCache, NoPoints, NoWorker, PointStates

LEMMA PointsForFit ==
  ASSUME CachesFit, NEW e \in Epochs, NEW s
  PROVE  PointsFor(cache[e], s) \in PointStates
  BY DEF CachesFit, PointsFor, NoPoints, PointStates

LEMMA MergedFit ==
  ASSUME NEW p \in PointStates, NEW b
  PROVE  /\ Merged(p, b) \in PointStates
         /\ \A d \in Slots : p[d] = "live" => Merged(p, b)[d] = "live"
  BY DEF Merged, PointStates

\* A write replaces one cache and perhaps the file.
LEMMA WriteFits ==
  ASSUME IntradayInv, NEW e \in Epochs, NEW s, NEW p \in PointStates, Write(e, s, p)
  PROVE  /\ CachesFit'
         /\ cache'[e].sig = s /\ cache'[e].points = p
         /\ \A f \in Epochs : f # e => cache'[f] = cache[f]
  BY DEF IntradayInv, CachesFit, Write, PointStates

LEMMA ObserveKeeps ==
  ASSUME IntradayInv, NEW b \in Slots, Observe(b)
  PROVE  IntradayInv' /\ LiveKept
  BY DEF Observe, IntradayInv, CachesFit, ReloadsFit, LiveFits, WorkersFit, LiveKept

LEMMA RecordKeeps ==
  ASSUME IntradayInv, Record
  PROVE  IntradayInv' /\ LiveKept
<1> DEFINE points == PointsFor(cache[epoch], live.sig)
           newer == [points EXCEPT ![live.bucket] = "live"]
<1>1. epoch \in Epochs
  BY DEF IntradayInv, ReloadsFit
<1>2. points \in PointStates
  BY <1>1, PointsForFit DEF IntradayInv
<1>3. newer \in PointStates /\ \A b \in Slots : points[b] = "live" => newer[b] = "live"
  BY <1>2 DEF PointStates
<1>4. UNCHANGED <<loaded, epoch, worker>> /\ live' = NoLive
  BY DEF Record
<1>5. (ReloadsFit' /\ LiveFits' /\ WorkersFit') \/ cache' # cache
  BY <1>4 DEF IntradayInv, ReloadsFit, LiveFits, WorkersFit
<1>6. CASE UNCHANGED <<cache, file>>
  <2>1. CachesFit' /\ LiveKept
    BY <1>6 DEF IntradayInv, CachesFit, LiveKept
  <2> QED
    BY <2>1, <1>5, <1>6 DEF IntradayInv
<1>7. CASE Write(epoch, live.sig, newer)
  <2>1. /\ CachesFit'
        /\ cache'[epoch].sig = live.sig /\ cache'[epoch].points = newer
        /\ \A f \in Epochs : f # epoch => cache'[f] = cache[f]
    BY <1>1, <1>3, <1>7, WriteFits
  <2>2. cache[epoch].sig = live.sig => points = cache[epoch].points
    BY DEF PointsFor
  <2>3. LiveKept
    <3>1. ASSUME NEW e \in Epochs, cache[e].sig = cache'[e].sig, NEW b \in Slots,
                 cache[e].points[b] = "live"
          PROVE  cache'[e].points[b] = "live"
      <4>1. CASE e = epoch
        BY <1>3, <2>1, <2>2, <3>1, <4>1
      <4>2. CASE e # epoch
        BY <2>1, <3>1, <4>2
      <4> QED
        BY <4>1, <4>2
    <3> QED
      BY <3>1 DEF LiveKept
  <2>4. ReloadsFit'
    BY <1>4, <2>1, <1>1 DEF IntradayInv, ReloadsFit, Epochs
  <2> QED
    BY <1>4, <2>1, <2>3, <2>4 DEF IntradayInv, LiveFits, WorkersFit
<1> QED
  BY <1>6, <1>7 DEF Record

LEMMA SaveDelayedKeeps ==
  ASSUME IntradayInv, NEW e \in Epochs, SaveDelayed(e)
  PROVE  IntradayInv' /\ LiveKept
  BY DEF SaveDelayed, IntradayInv, CachesFit, ReloadsFit, LiveFits, WorkersFit, LiveKept

LEMMA WakeKeeps ==
  ASSUME IntradayInv, NEW e \in Epochs, Wake(e) \/ Finish(e) \/ Stop(e) \/ Score(e)
  PROVE  IntradayInv' /\ LiveKept
<1>1. /\ worker[e].at \in {"sleep", "score"} /\ UNCHANGED <<cache, file, loaded, epoch, live>>
      /\ DOMAIN worker' = DOMAIN worker
      /\ \A f \in Epochs : f # e => worker'[f] = worker[f]
  BY DEF Wake, Finish, Stop, Score, IntradayInv, WorkersFit
<1>2. ReloadsFit'
  BY <1>1 DEF IntradayInv, ReloadsFit
<1> QED
  BY <1>1, <1>2 DEF IntradayInv, CachesFit, LiveFits, WorkersFit, LiveKept

LEMMA FetchKeeps ==
  ASSUME IntradayInv, NEW e \in Epochs, NEW failed \in BOOLEAN, Fetch(e, failed)
  PROVE  IntradayInv' /\ LiveKept
<1>1. /\ worker[e].at = "fetch" /\ UNCHANGED <<cache, file, loaded, epoch, live>>
      /\ DOMAIN worker' = DOMAIN worker
      /\ \A f \in Epochs : f # e => worker'[f] = worker[f]
  BY DEF Fetch, IntradayInv, WorkersFit
<1>2. ReloadsFit'
  BY <1>1 DEF IntradayInv, ReloadsFit
<1> QED
  BY <1>1, <1>2 DEF IntradayInv, CachesFit, LiveFits, WorkersFit, LiveKept

\* A batch that was scored goes into its own cache, under its own signature.
LEMMA MergeKeeps ==
  ASSUME IntradayInv, NEW e \in Epochs, Merge(e)
  PROVE  IntradayInv' /\ LiveKept
<1> DEFINE s == worker[e].sig
           points == PointsFor(cache[e], s)
           newer == Merged(points, Min(worker[e].todo))
<1>1. points \in PointStates
  BY PointsForFit DEF IntradayInv
<1>2. newer \in PointStates /\ \A d \in Slots : points[d] = "live" => newer[d] = "live"
  BY <1>1, MergedFit
<1>3. /\ worker[e].at = "merge" /\ UNCHANGED <<loaded, epoch, live>>
      /\ DOMAIN worker' = DOMAIN worker
      /\ \A f \in Epochs : f # e => worker'[f] = worker[f]
  BY DEF Merge, IntradayInv, WorkersFit
<1>4. /\ CachesFit'
      /\ cache'[e].sig = s /\ cache'[e].points = newer
      /\ \A f \in Epochs : f # e => cache'[f] = cache[f]
  <2>1. CASE newer = points
    <3>1. UNCHANGED file /\ cache' = [cache EXCEPT ![e].sig = s, ![e].points = points]
      BY <2>1 DEF Merge
    <3> QED
      BY <3>1, <2>1, <1>1 DEF IntradayInv, CachesFit
  <2>2. CASE newer # points
    <3>1. Write(e, s, newer)
      BY <2>2 DEF Merge
    <3> QED
      BY <3>1, <1>2, WriteFits
  <2> QED
    BY <2>1, <2>2
<1>5. cache[e].sig = s => points = cache[e].points
  BY DEF PointsFor
<1>6. LiveKept
  BY <1>2, <1>4, <1>5 DEF LiveKept
<1>7. ReloadsFit'
  BY <1>3, <1>4 DEF IntradayInv, ReloadsFit
<1> QED
  BY <1>3, <1>4, <1>6, <1>7 DEF IntradayInv, LiveFits, WorkersFit

LEMMA SettingsKeep ==
  ASSUME IntradayInv, DailyArrives \/ Unload \/ \E s \in Settings : Edit(s)
  PROVE  IntradayInv' /\ LiveKept
  BY DEF DailyArrives, Unload, Edit, IntradayInv, CachesFit, ReloadsFit, LiveFits, WorkersFit, LiveKept

LEMMA ClearKeeps ==
  ASSUME IntradayInv, Clear
  PROVE  IntradayInv' /\ LiveKept
  BY DEF Clear, NoCache, NoPoints, PointStates, IntradayInv, CachesFit, ReloadsFit, LiveFits,
         WorkersFit, LiveKept

LEMMA RestartBackfillKeeps ==
  ASSUME IntradayInv, RestartBackfill
  PROVE  IntradayInv' /\ LiveKept
<1>1. \A e \in Epochs : e > epoch => e # epoch
  BY DEF IntradayInv, ReloadsFit, Epochs
<1> QED
  BY <1>1 DEF RestartBackfill, IntradayInv, CachesFit, ReloadsFit, LiveFits, WorkersFit, LiveKept

\* The cache a setup fills from the file was empty before.
LEMMA SetupKeeps ==
  ASSUME IntradayInv, Setup
  PROVE  IntradayInv' /\ LiveKept
<1>1. epoch + 1 \in Epochs /\ epoch' = epoch + 1 /\ loaded'
  BY ReloadsAssumption DEF Setup, IntradayInv, ReloadsFit, Epochs
<1>2. /\ cache' = [cache EXCEPT ![epoch + 1] = [sig |-> file.sig, points |-> file.points, pending |-> FALSE]]
      /\ DOMAIN worker' = DOMAIN worker /\ \A e \in Epochs : e # epoch + 1 => worker'[e] = worker[e]
      /\ UNCHANGED <<file, live>>
  BY DEF Setup, IntradayInv, WorkersFit
<1>3. cache[epoch + 1].sig = None
  BY <1>1 DEF IntradayInv, ReloadsFit, Epochs
<1>4. CachesFit'
  BY <1>1, <1>2 DEF IntradayInv, CachesFit
<1>5. LiveKept
  BY <1>1, <1>2, <1>3 DEF IntradayInv, CachesFit, LiveKept
<1>6. \A e \in Epochs : e > epoch + 1 => e # epoch + 1 /\ e > epoch
  BY <1>1 DEF IntradayInv, ReloadsFit, Epochs
<1>7. ReloadsFit'
  BY <1>1, <1>2, <1>6 DEF IntradayInv, ReloadsFit, CachesFit
<1> QED
  BY <1>2, <1>4, <1>5, <1>7 DEF IntradayInv, LiveFits, WorkersFit

LEMMA IntradayStep ==
  ASSUME IntradayInv, [IntradayNext]_intradayVars
  PROVE  IntradayInv' /\ LiveKept
<1>1. CASE UNCHANGED intradayVars
  BY <1>1 DEF intradayVars, IntradayInv, CachesFit, ReloadsFit, LiveFits, WorkersFit, LiveKept
<1>2. CASE IntradayNext
  BY <1>2, ObserveKeeps, RecordKeeps, SaveDelayedKeeps, WakeKeeps, FetchKeeps, MergeKeeps,
     SettingsKeep, ClearKeeps, RestartBackfillKeeps, SetupKeeps DEF IntradayNext, Work
<1> QED
  BY <1>1, <1>2

(* For any number of reloads, workers and settings, and whatever workers   *)
(* of this runtime or an earlier one write: a live observation is never    *)
(* replaced by a reconstructed one and never dropped while the cache keeps *)
(* its generation (async_record, async_merge_points).                      *)
THEOREM LivePointsStay == IntradaySpec => LiveStays
<1>1. IntradaySpec => []IntradayInv
  BY IntradayStarts, IntradayStep, PTL DEF IntradaySpec
<1>2. IntradayInv /\ [IntradayNext]_intradayVars => [LiveKept]_intradayVars
  BY IntradayStep
<1> QED
  BY <1>1, <1>2, PTL DEF IntradaySpec, LiveStays, LiveKept

-----------------------------------------------------------------------------
(* PriceSamples, for any tiers whose buckets are made of whole finer ones. *)
(*                                                                         *)
(* The samples of a quote are moved at every write to the start of a wider *)
(* bucket, and one of several is dropped.  A kept sample carries a price   *)
(* of the bucket it starts, as wide as some tier (Placed); widths divide   *)
(* one another, so moving it again keeps it inside.  A quote's bucket is   *)
(* never emptied, because the sample that stands for it is younger than    *)
(* its start and is thinned in buckets that divide it (CompactCovers).     *)

\* Every inhabited set of naturals has a least element.
LEMMA Least ==
  ASSUME NEW S \in SUBSET Nat, S # {}
  PROVE  Min(S) \in S /\ \A y \in S : Min(S) <= y
<1>1. PICK x \in S : \A y \in S : ~ (<<y, x>> \in OpToRel(<, Nat))
  BY NatLessThanWellFounded, WFMin
<1>2. ASSUME NEW y \in S PROVE ~ (y < x)
  <2>1. <<y, x>> \notin OpToRel(<, Nat)
    BY <1>1
  <2> QED
    BY <2>1, Zenon DEF OpToRel
<1>3. \A y \in S : x <= y
  BY <1>2
<1> QED
  BY <1>3 DEF Min

\* Every inhabited set of numbers up to n has a greatest element.
LEMMA Greatest ==
  ASSUME NEW n \in Nat, NEW S \in SUBSET (0 .. n), S # {}
  PROVE  Max(S) \in S /\ \A y \in S : Max(S) >= y
<1> DEFINE T == {n - y : y \in S}
<1>1. Min(T) \in T /\ \A y \in T : Min(T) <= y
  <2>1. T # {}
    OBVIOUS
  <2>2. ASSUME NEW y \in T PROVE y \in Nat
    OBVIOUS
  <2> HIDE DEF T
  <2> QED
    BY <2>1, <2>2, Least
<1>2. PICK x \in S : Min(T) = n - x
  BY <1>1
<1>3. ASSUME NEW y \in S PROVE x >= y
  <2>1. Min(T) <= n - y
    BY <1>1
  <2>2. n - x <= n - y
    BY <1>2, <2>1, Zenon
  <2>3. x \in Int /\ y \in Int
    OBVIOUS
  <2> HIDE DEF T
  <2> QED
    BY <2>2, <2>3
<1> QED
  BY <1>3 DEF Max

\* The parts of Compact, by name.
Kept(f, at) == {k \in DOMAIN f : InTier(k, at)}
Fellows(f, k, at) == {j \in Kept(f, at) : Bucket(j, at) = Bucket(k, at)}
Met(f, late, k, at) == Min({IF j \in late THEN j + MaxTime + 1 ELSE j : j \in Fellows(f, k, at)})
KeyOf(k, at) == Floor(k, Bucket(k, at)[1])
Chosen(f, at) == {Max(Fellows(f, k, at)) : k \in Kept(f, at)}
Standing(f, late, key, at) == CHOOSE k \in Chosen(f, at) :
            /\ KeyOf(k, at) = key
            /\ \A j \in Chosen(f, at) : KeyOf(j, at) = key => Met(f, late, j, at) <= Met(f, late, k, at)

LEMMA CompactIs ==
  ASSUME NEW f, NEW late, NEW at
  PROVE  Compact(f, late, at) =
            [key \in {KeyOf(k, at) : k \in Chosen(f, at)} |-> f[Standing(f, late, key, at)]]
  BY Zenon DEF Compact, Kept, Fellows, Met, KeyOf, Chosen, Standing

Widths == {t.width : t \in TierSet}
Divides(a, b) == \E q \in Nat : b = q * a

\* A bucket starts at a multiple of its width and holds what it is the start of.
LEMMA FloorBounds ==
  ASSUME NEW m \in Nat, NEW w \in Nat \ {0}
  PROVE  /\ m \div w \in Nat /\ Floor(m, w) = (m \div w) * w
         /\ Floor(m, w) \in Nat /\ Floor(m, w) <= m /\ m < Floor(m, w) + w
  BY DEF Floor

\* No other multiple is the start.
LEMMA FloorUnique ==
  ASSUME NEW m \in Nat, NEW w \in Nat \ {0}, NEW q \in Nat, q * w <= m, m < q * w + w
  PROVE  Floor(m, w) = q * w
<1>1. m \div w = q
  OBVIOUS
<1> QED
  BY <1>1 DEF Floor

LEMMA DividesTransitive ==
  ASSUME NEW a \in Nat, NEW b \in Nat, NEW c \in Nat, Divides(a, b), Divides(b, c)
  PROVE  Divides(a, c)
<1>1. PICK p \in Nat, q \in Nat : b = p * a /\ c = q * b
  BY DEF Divides
<1>2. q * p \in Nat /\ c = (q * p) * a
  BY <1>1
<1> QED
  BY <1>2 DEF Divides

LEMMA FloorDivides ==
  ASSUME NEW m \in Nat, NEW w \in Nat \ {0}
  PROVE  Divides(w, Floor(m, w))
  BY FloorBounds DEF Divides

\* A multiple of w below another one is at least w below it.
LEMMA MultiplesApart ==
  ASSUME NEW w \in Nat \ {0}, NEW a \in Nat, NEW b \in Nat, Divides(w, a), Divides(w, b), a < b
  PROVE  a + w <= b
<1>1. PICK p \in Nat, q \in Nat : a = p * w /\ b = q * w
  BY DEF Divides
<1>2. p + 1 <= q
  BY <1>1
<1>3. (p + 1) * w <= q * w
  BY <1>2
<1> QED
  BY <1>1, <1>3

LEMMA FloorIs ==
  ASSUME NEW m \in Nat, NEW w \in Nat \ {0}, NEW b \in Nat, Divides(w, b), b <= m, m < b + w
  PROVE  Floor(m, w) = b
<1>1. PICK q \in Nat : b = q * w
  BY DEF Divides
<1> QED
  BY <1>1, FloorUnique

\* What starts a finer bucket lies in the same coarser one.
LEMMA FloorCoarser ==
  ASSUME NEW v \in Nat \ {0}, NEW w \in Nat \ {0}, Divides(v, w), NEW m \in Nat
  PROVE  Floor(m, w) = Floor(Floor(m, v), w)
<1> DEFINE b == Floor(Floor(m, v), w)
           a == Floor(m, v)
<1>1. /\ a \in Nat /\ a <= m /\ m < a + v /\ Divides(v, a)
      /\ b \in Nat /\ b <= a /\ a < b + w /\ Divides(w, b)
  BY FloorBounds, FloorDivides
<1> HIDE DEF a, b
<1>2. Divides(v, b) /\ Divides(v, b + w)
  <2>1. PICK p \in Nat, q \in Nat : b = p * w /\ w = q * v
    BY <1>1 DEF Divides
  <2>2. b + w = (p + 1) * w
    BY <2>1
  <2>3. Divides(w, b + w)
    BY <2>2, <2>1 DEF Divides
  <2> QED
    BY <1>1, <2>3, DividesTransitive
<1>3. a + v <= b + w
  BY <1>1, <1>2, MultiplesApart
<1>4. b <= m /\ m < b + w
  BY <1>1, <1>3
<1>5. Floor(m, w) = b
  BY <1>1, <1>4, FloorIs
<1> QED
  BY <1>5 DEF a, b

LEMMA MaxIs ==
  ASSUME NEW S \in SUBSET Int, NEW x \in S, \A y \in S : y <= x
  PROVE  Max(S) = x
<1>1. \A y \in S : x >= y
  OBVIOUS
<1>2. ASSUME NEW y \in S, \A z \in S : y >= z PROVE y = x
  BY <1>2
<1> QED
  BY <1>1, <1>2 DEF Max

\* What is assumed of the tiers, in terms of Divides.
LEMMA TierFacts ==
  /\ Len(Tiers) \in Nat \ {0} /\ DOMAIN Tiers = 1 .. Len(Tiers)
  /\ \A i \in DOMAIN Tiers : Tiers[i].age \in Nat /\ Tiers[i].width \in Nat \ {0}
  /\ \A i, j \in DOMAIN Tiers : i < j =>
        Tiers[i].age < Tiers[j].age /\ Divides(Tiers[i].width, Tiers[j].width)
  /\ Tiers[1].width = 1
<1>1. /\ Len(Tiers) \in Nat \ {0} /\ DOMAIN Tiers = 1 .. Len(Tiers)
      /\ \A i \in DOMAIN Tiers : Tiers[i].age \in Nat /\ Tiers[i].width \in Nat \ {0}
  <2> DEFINE T == [age : Nat, width : Nat \ {0}]
  <2>1. Tiers \in Seq(T) /\ Tiers # <<>>
    BY TiersAssumption
  <2>2. \A t \in T : t.age \in Nat /\ t.width \in Nat \ {0}
    OBVIOUS
  <2> HIDE DEF T
  <2>3. Len(Tiers) \in Nat \ {0} /\ DOMAIN Tiers = 1 .. Len(Tiers)
    BY <2>1
  <2>4. \A i \in DOMAIN Tiers : Tiers[i] \in T
    BY <2>1
  <2> QED
    BY <2>2, <2>3, <2>4
<1>2. ASSUME NEW i \in DOMAIN Tiers, NEW j \in DOMAIN Tiers, i < j
      PROVE  Divides(Tiers[i].width, Tiers[j].width)
  <2> DEFINE v == Tiers[i].width
             w == Tiers[j].width
  <2>1. v \in Nat \ {0} /\ w \in Nat \ {0} /\ w % v = 0
    BY <1>1, <1>2, TiersAssumption
  <2> HIDE DEF v, w
  <2>2. w \div v \in Nat /\ w = (w \div v) * v
    BY <2>1
  <2>3. Divides(v, w)
    BY <2>2 DEF Divides
  <2> QED
    BY <2>3 DEF v, w
<1> QED
  BY <1>1, <1>2, TiersAssumption

LEMMA DividesSmaller ==
  ASSUME NEW v \in Nat \ {0}, NEW w \in Nat \ {0}, Divides(v, w)
  PROVE  v <= w
<1>1. PICK q \in Nat : w = q * v
  BY DEF Divides
<1>2. 1 <= q
  BY <1>1
<1>3. 1 * v <= q * v
  BY <1>2
<1> QED
  BY <1>1, <1>3

LEMMA DividesItself ==
  ASSUME NEW v \in Nat PROVE Divides(v, v) /\ Divides(1, v)
<1>1. v = 1 * v /\ v = v * 1
  OBVIOUS
<1> QED
  BY <1>1 DEF Divides

\* Of two widths the smaller divides the greater.
LEMMA WidthsDivide ==
  ASSUME NEW v \in Widths, NEW w \in Widths, v <= w
  PROVE  Divides(v, w)
<1>1. PICK i \in DOMAIN Tiers, j \in DOMAIN Tiers : v = Tiers[i].width /\ w = Tiers[j].width
  BY DEF Widths, TierSet
<1>2. i \in Nat /\ j \in Nat /\ v \in Nat \ {0} /\ w \in Nat \ {0}
  BY <1>1, TierFacts
<1>3. CASE i < j
  BY <1>1, <1>3, TierFacts
<1>4. CASE i = j
  BY <1>1, <1>2, <1>4, DividesItself
<1>5. CASE j < i
  <2>1. Divides(w, v)
    BY <1>1, <1>5, TierFacts
  <2>2. v = w
    BY <1>2, <2>1, DividesSmaller
  <2> QED
    BY <1>2, <2>2, DividesItself
<1> QED
  BY <1>2, <1>3, <1>4, <1>5

\* The horizon and the widest bucket are those of the last tier.
LEMMA WidthNumbers ==
  /\ Widths \subseteq Nat \ {0} /\ 1 \in Widths
  /\ Horizon \in Nat /\ Widest \in Widths /\ \A w \in Widths : w <= Widest
  /\ \E t \in TierSet : t.age = Horizon
  /\ \A t \in TierSet : t.age \in Nat /\ t.width \in Widths
<1> DEFINE n == Len(Tiers)
<1>1. n \in Nat \ {0} /\ 1 \in DOMAIN Tiers /\ n \in DOMAIN Tiers /\ DOMAIN Tiers = 1 .. n
  BY TierFacts
<1>2. \A i \in DOMAIN Tiers : Tiers[i].age <= Tiers[n].age /\ Tiers[i].width <= Tiers[n].width
  <2>1. SUFFICES ASSUME NEW i \in DOMAIN Tiers, i < n
                PROVE Tiers[i].age <= Tiers[n].age /\ Tiers[i].width <= Tiers[n].width
    BY <1>1, TierFacts
  <2>2. Divides(Tiers[i].width, Tiers[n].width) /\ Tiers[i].age < Tiers[n].age
    BY <1>1, <2>1, TierFacts
  <2>3. Tiers[i].width <= Tiers[n].width
    BY <1>1, <2>2, TierFacts, DividesSmaller
  <2> QED
    BY <1>1, <2>2, <2>3, TierFacts
<1> HIDE DEF n
<1>3. Horizon = Tiers[n].age
  <2>1. {t.age : t \in TierSet} \in SUBSET Int
    BY TierFacts DEF TierSet
  <2>2. Tiers[n].age \in {t.age : t \in TierSet}
    BY <1>1 DEF TierSet
  <2>3. \A a \in {t.age : t \in TierSet} : a <= Tiers[n].age
    BY <1>2 DEF TierSet
  <2> QED
    BY <2>1, <2>2, <2>3, MaxIs DEF Horizon
<1>4. Widest = Tiers[n].width
  <2>1. {t.width : t \in TierSet} \in SUBSET Int
    BY TierFacts DEF TierSet
  <2>2. Tiers[n].width \in {t.width : t \in TierSet}
    BY <1>1 DEF TierSet
  <2>3. \A a \in {t.width : t \in TierSet} : a <= Tiers[n].width
    BY <1>2 DEF TierSet
  <2> QED
    BY <2>1, <2>2, <2>3, MaxIs DEF Widest
<1>5. Widths \subseteq Nat \ {0} /\ 1 \in Widths
  BY <1>1, TierFacts DEF Widths, TierSet
<1>6. Horizon \in Nat /\ Widest \in Widths
  BY <1>1, <1>3, <1>4, TierFacts DEF Widths, TierSet
<1>7. \A w \in Widths : w <= Widest
  BY <1>2, <1>4 DEF Widths, TierSet
<1>8. \E t \in TierSet : t.age = Horizon
  BY <1>1, <1>3 DEF TierSet
<1>9. \A t \in TierSet : t.age \in Nat /\ t.width \in Widths
  BY TierFacts DEF TierSet, Widths
<1> QED
  BY <1>5, <1>6, <1>7, <1>8, <1>9

\* The width an age gets is one of the widths, and grows with the age.
LEMMA WidthIs ==
  ASSUME NEW age \in Nat, age <= Horizon
  PROVE  /\ Width(age) \in Widths
         /\ \A t \in TierSet : age <= t.age => Width(age) <= t.width
         /\ \E t \in TierSet : age <= t.age /\ Width(age) = t.width
<1> DEFINE S == {t.width : t \in {u \in TierSet : age <= u.age}}
<1>1. S # {}
  BY WidthNumbers
<1>2. \A w \in S : w \in Nat
  BY WidthNumbers
<1>3. Width(age) = Min(S)
  BY DEF Width
<1>4. Min(S) \in S /\ \A w \in S : Min(S) <= w
  <2> HIDE DEF S
  <2> QED
    BY <1>1, <1>2, Least
<1>5. \E t \in TierSet : age <= t.age /\ Width(age) = t.width
  BY <1>3, <1>4
<1>6. \A t \in TierSet : age <= t.age => Width(age) <= t.width
  BY <1>3, <1>4
<1> QED
  BY <1>5, <1>6, WidthNumbers

\* Older samples get buckets made of whole younger ones.
LEMMA WidthGrows ==
  ASSUME NEW a \in Nat, NEW b \in Nat, a <= b, b <= Horizon
  PROVE  /\ Width(a) \in Widths /\ Width(b) \in Widths
         /\ Width(a) <= Width(b) /\ Divides(Width(a), Width(b))
<1>1. PICK t \in TierSet : b <= t.age /\ Width(b) = t.width
  BY WidthIs
<1>2. a <= t.age /\ a <= Horizon
  BY <1>1, WidthNumbers
<1>3. Width(a) \in Widths /\ Width(b) \in Widths /\ Width(a) <= t.width
  BY <1>2, WidthIs, WidthNumbers
<1> QED
  BY <1>1, <1>3, WidthsDivide

LEMMA FinestWidth ==
  ASSUME NEW a \in Nat, a <= Tiers[1].age
  PROVE  a <= Horizon /\ Width(a) = 1
<1>1. Tiers[1] \in TierSet /\ Tiers[1].width = 1 /\ Tiers[1].age \in Nat
  BY TierFacts DEF TierSet
<1>2. Tiers[1].age <= Horizon
  <2>1. {t.age : t \in TierSet} \in SUBSET Int
    BY WidthNumbers
  <2>2. PICK u \in TierSet : u.age = Horizon
    BY WidthNumbers
  <2>3. PICK i \in DOMAIN Tiers : u = Tiers[i]
    BY DEF TierSet
  <2> QED
    BY <2>2, <2>3, TierFacts
<1>3. a <= Horizon
  BY <1>1, <1>2, WidthNumbers
<1>4. Width(a) \in Widths /\ Width(a) <= 1
  BY <1>1, <1>3, WidthIs
<1>5. Width(a) \in Nat \ {0}
  BY <1>4, WidthNumbers
<1> QED
  BY <1>3, <1>4, <1>5

\* Later moments are younger, and all grow older.
LEMMA AgeFacts ==
  ASSUME NEW k \in Nat, NEW at \in Nat
  PROVE  /\ AgeOf(k, at) \in Nat
         /\ \A j \in Nat : j <= k => AgeOf(k, at) <= AgeOf(j, at)
         /\ \A b \in Nat : at <= b => AgeOf(k, at) <= AgeOf(k, b)
  BY DEF AgeOf

\* The bucket of a sample that is kept.
LEMMA BucketIs ==
  ASSUME NEW k \in Nat, NEW at \in Nat, InTier(k, at)
  PROVE  /\ AgeOf(k, at) \in Nat /\ AgeOf(k, at) <= Horizon
         /\ Width(AgeOf(k, at)) \in Widths /\ Width(AgeOf(k, at)) \in Nat \ {0}
         /\ Bucket(k, at) = <<Width(AgeOf(k, at)), k \div Width(AgeOf(k, at))>>
         /\ KeyOf(k, at) = Floor(k, Width(AgeOf(k, at)))
         /\ KeyOf(k, at) \in Nat /\ KeyOf(k, at) <= k
<1> DEFINE w == Width(AgeOf(k, at))
<1>1. AgeOf(k, at) \in Nat /\ AgeOf(k, at) <= Horizon
  BY AgeFacts DEF InTier
<1>2. w \in Widths /\ w \in Nat \ {0}
  BY <1>1, WidthIs, WidthNumbers
<1>3. Bucket(k, at) = <<w, k \div w>>
  BY DEF Bucket
<1> HIDE DEF w
<1>4. KeyOf(k, at) = Floor(k, w)
  BY <1>3 DEF KeyOf
<1>5. KeyOf(k, at) \in Nat /\ KeyOf(k, at) <= k
  BY <1>2, <1>4, FloorBounds
<1> QED
  BY <1>1, <1>2, <1>3, <1>4, <1>5 DEF w

LEMMA PairsAreEqual ==
  ASSUME NEW a, NEW b, NEW c, NEW d, <<a, b>> = <<c, d>>
  PROVE  a = c /\ b = d
  OBVIOUS

\* Samples of one bucket are of one tier and get one key.
LEMMA FellowsAlike ==
  ASSUME NEW j \in Nat, NEW k \in Nat, NEW at \in Nat, InTier(j, at), InTier(k, at),
         Bucket(j, at) = Bucket(k, at)
  PROVE  /\ Width(AgeOf(j, at)) = Width(AgeOf(k, at))
         /\ KeyOf(j, at) = KeyOf(k, at)
<1> DEFINE v == Width(AgeOf(j, at))
           w == Width(AgeOf(k, at))
<1>1. /\ Bucket(j, at) = <<v, j \div v>> /\ KeyOf(j, at) = Floor(j, v)
      /\ Bucket(k, at) = <<w, k \div w>> /\ KeyOf(k, at) = Floor(k, w)
  BY BucketIs
<1> HIDE DEF v, w
<1>2. v = w /\ j \div v = k \div w
  <2>1. <<v, j \div v>> = <<w, k \div w>>
    BY <1>1, Zenon
  <2> QED
    BY <2>1, PairsAreEqual, Zenon
<1>3. KeyOf(j, at) = KeyOf(k, at)
  BY <1>1, <1>2 DEF Floor
<1> QED
  BY <1>2, <1>3 DEF v, w

\* The latest sample of a bucket exists and stands for it.
LEMMA LatestFellow ==
  ASSUME NEW f, NEW n \in Nat, DOMAIN f \subseteq 0 .. n, NEW at \in Nat,
         NEW k \in Kept(f, at)
  PROVE  /\ Max(Fellows(f, k, at)) \in Fellows(f, k, at)
         /\ k <= Max(Fellows(f, k, at))
         /\ Fellows(f, k, at) \subseteq Kept(f, at) /\ k \in Fellows(f, k, at)
<1>1. k \in Fellows(f, k, at) /\ Fellows(f, k, at) \subseteq Kept(f, at)
  BY DEF Fellows
<1>2. Fellows(f, k, at) \in SUBSET (0 .. n)
  BY <1>1 DEF Kept
<1>3. Max(Fellows(f, k, at)) \in Fellows(f, k, at) /\ Max(Fellows(f, k, at)) >= k
  BY <1>1, <1>2, Greatest
<1>4. Max(Fellows(f, k, at)) \in 0 .. n /\ k \in 0 .. n
  BY <1>1, <1>2, <1>3
<1> QED
  BY <1>1, <1>3, <1>4

LEMMA ChosenAreKept ==
  ASSUME NEW f, NEW n \in Nat, DOMAIN f \subseteq 0 .. n, NEW at \in Nat
  PROVE  Chosen(f, at) \subseteq Kept(f, at)
<1> SUFFICES ASSUME NEW k \in Kept(f, at) PROVE Max(Fellows(f, k, at)) \in Kept(f, at)
  BY DEF Chosen
<1> QED
  BY LatestFellow

LEMMA MetIs ==
  ASSUME NEW f, NEW late, NEW n \in Nat, DOMAIN f \subseteq 0 .. n, NEW at \in Nat,
         NEW k \in Kept(f, at)
  PROVE  Met(f, late, k, at) \in 0 .. (n + MaxTime + 1)
<1> DEFINE S == {IF j \in late THEN j + MaxTime + 1 ELSE j : j \in Fellows(f, k, at)}
<1>1. \A j \in Fellows(f, k, at) : j \in 0 .. n
  BY LatestFellow DEF Kept
<1>2. S # {} /\ \A y \in S : y \in 0 .. (n + MaxTime + 1)
  BY <1>1, LatestFellow, TimeAssumption
<1>3. Met(f, late, k, at) = Min(S)
  BY DEF Met
<1> HIDE DEF S
<1>4. S \in SUBSET Nat
  BY <1>2
<1>5. Min(S) \in S
  BY <1>2, <1>4, Least
<1> QED
  BY <1>2, <1>3, <1>5

\* Of several samples with one key one stands.
LEMMA OneStands ==
  ASSUME NEW f, NEW late, NEW n \in Nat, DOMAIN f \subseteq 0 .. n, NEW at \in Nat,
         NEW c \in Chosen(f, at)
  PROVE  LET key == KeyOf(c, at) IN
         Standing(f, late, key, at) \in Chosen(f, at)
         /\ KeyOf(Standing(f, late, key, at), at) = key
<1> DEFINE key == KeyOf(c, at)
           Rivals == {k \in Chosen(f, at) : KeyOf(k, at) = key}
           M(k) == Met(f, late, k, at)
           S == {M(k) : k \in Rivals}
<1>1. \A k \in Rivals : k \in Kept(f, at)
  BY ChosenAreKept
<1>2. \A k \in Rivals : M(k) \in 0 .. (n + MaxTime + 1)
  BY <1>1, MetIs
<1>3. S # {} /\ \A y \in S : y \in 0 .. (n + MaxTime + 1)
  BY <1>2
<1>4. Max(S) \in S /\ \A y \in S : Max(S) >= y
  <2> HIDE DEF S
  <2>1. n + MaxTime + 1 \in Nat /\ S \in SUBSET (0 .. (n + MaxTime + 1))
    BY <1>3, TimeAssumption
  <2> QED
    BY <1>3, <2>1, Greatest
<1>5. PICK k \in Rivals : Max(S) = M(k)
  BY <1>4
<1>6. ASSUME NEW j \in Rivals PROVE M(j) <= M(k)
  <2>1. M(k) >= M(j)
    BY <1>4, <1>5
  <2>2. M(k) \in Int /\ M(j) \in Int
    BY <1>2
  <2> HIDE DEF M
  <2> QED
    BY <2>1, <2>2
<1>7. k \in Chosen(f, at) /\ KeyOf(k, at) = key
      /\ \A j \in Chosen(f, at) : KeyOf(j, at) = key => Met(f, late, j, at) <= Met(f, late, k, at)
  BY <1>6
<1> HIDE DEF key
<1>8. /\ Standing(f, late, key, at) \in Chosen(f, at)
      /\ KeyOf(Standing(f, late, key, at), at) = key
  BY <1>7 DEF Standing
<1> QED
  BY <1>8 DEF key

\* What a compaction returns: under each key the price of a kept sample moved
\* there, and for each kept sample the key of a later one of its bucket.
LEMMA CompactFacts ==
  ASSUME NEW f, NEW late, NEW n \in Nat, DOMAIN f \subseteq 0 .. n, NEW at \in Nat
  PROVE  /\ \A key \in DOMAIN Compact(f, late, at) : \E k \in Kept(f, at) :
                KeyOf(k, at) = key /\ Compact(f, late, at)[key] = f[k]
         /\ \A k \in Kept(f, at) : \E j \in Kept(f, at) :
                k <= j /\ Bucket(j, at) = Bucket(k, at) /\ KeyOf(j, at) \in DOMAIN Compact(f, late, at)
<1> DEFINE C == Compact(f, late, at)
           Keys == {KeyOf(k, at) : k \in Chosen(f, at)}
<1>1. /\ DOMAIN C = Keys
      /\ \A key \in Keys : C[key] = f[Standing(f, late, key, at)]
  BY CompactIs
<1> HIDE DEF C
<1>2. ASSUME NEW key \in DOMAIN C
      PROVE  \E k \in Kept(f, at) : KeyOf(k, at) = key /\ C[key] = f[k]
  <2>1. PICK c \in Chosen(f, at) : key = KeyOf(c, at)
    BY <1>1, <1>2
  <2>2. /\ Standing(f, late, key, at) \in Chosen(f, at)
        /\ KeyOf(Standing(f, late, key, at), at) = key
    BY <2>1, OneStands
  <2>3. Standing(f, late, key, at) \in Kept(f, at)
    BY <2>2, ChosenAreKept
  <2> QED
    BY <1>1, <1>2, <2>2, <2>3
<1>3. ASSUME NEW k \in Kept(f, at)
      PROVE  \E j \in Kept(f, at) :
                k <= j /\ Bucket(j, at) = Bucket(k, at) /\ KeyOf(j, at) \in DOMAIN C
  <2> DEFINE j == Max(Fellows(f, k, at))
  <2>1. j \in Fellows(f, k, at) /\ k <= j /\ j \in Chosen(f, at)
    BY <1>3, LatestFellow DEF Chosen
  <2> HIDE DEF j
  <2> QED
    BY <1>1, <2>1 DEF Fellows
<1> QED
  BY <1>2, <1>3 DEF C

-----------------------------------------------------------------------------

\* The sample at k is marked with a price of its own bucket, as wide as some
\* tier, at most the one its age gives it now.
Placed(k, v, at) ==
    /\ v \in Int
    /\ \E w \in Widths :
          /\ Divides(w, k) /\ QuotedAt(v) \in k .. (k + w - 1)
          /\ InTier(k, at) => w <= Width(AgeOf(k, at))

SamplesShape == /\ time \in 0 .. MaxTime
                /\ DOMAIN samples \subseteq 0 .. time /\ quoted \subseteq 0 .. time
AllPlaced == \A k \in DOMAIN samples : Placed(k, samples[k], time)
SamplesInv == SamplesShape /\ LiveFirst /\ NoHole /\ AllPlaced

\* A sample that is moved to the start of its bucket is older there.
LEMMA InTierKey ==
  ASSUME NEW k \in Nat, NEW at \in Nat, InTier(k, at), InTier(KeyOf(k, at), at)
  PROVE  Width(AgeOf(k, at)) <= Width(AgeOf(KeyOf(k, at), at))
<1> DEFINE key == KeyOf(k, at)
<1>1. key \in Nat /\ key <= k
  BY BucketIs
<1> HIDE DEF key
<1>2. AgeOf(k, at) \in Nat /\ AgeOf(key, at) \in Nat /\ AgeOf(k, at) <= AgeOf(key, at)
  BY <1>1, AgeFacts
<1>3. InTier(key, at)
  BY DEF key
<1>4. AgeOf(key, at) <= Horizon
  BY <1>3 DEF InTier
<1>5. Width(AgeOf(k, at)) <= Width(AgeOf(key, at))
  BY <1>2, <1>4, WidthGrows
<1> QED
  BY <1>5 DEF key

\* A price of a finer bucket is one of the coarser bucket it is moved to.
LEMMA MovedIsPlaced ==
  ASSUME NEW k \in Nat, NEW at \in Nat, InTier(k, at), NEW v, Placed(k, v, at)
  PROVE  Placed(KeyOf(k, at), v, at)
<1> DEFINE W == Width(AgeOf(k, at))
           key == KeyOf(k, at)
<1>1. PICK w \in Widths : Divides(w, k) /\ QuotedAt(v) \in k .. (k + w - 1) /\ w <= W
  BY DEF Placed
<1>2. W \in Widths /\ W \in Nat \ {0} /\ w \in Nat \ {0} /\ key = Floor(k, W)
  BY BucketIs, WidthNumbers
<1>3. v \in Int
  BY DEF Placed
<1>4. InTier(key, at) => W <= Width(AgeOf(key, at))
  BY InTierKey
<1> HIDE DEF W, key
<1>5. key \in Nat /\ key <= k /\ k < key + W /\ Divides(W, key)
  BY <1>2, FloorBounds, FloorDivides
<1>6. Divides(w, W)
  BY <1>1, <1>2, WidthsDivide
<1>7. Divides(w, key + W)
  <2>1. PICK p \in Nat : key = p * W
    BY <1>5 DEF Divides
  <2>2. key + W = (p + 1) * W
    BY <1>2, <2>1
  <2>3. Divides(W, key + W)
    BY <2>2 DEF Divides
  <2> QED
    BY <1>2, <1>5, <1>6, <2>3, DividesTransitive
<1>8. k + w <= key + W
  BY <1>1, <1>2, <1>5, <1>7, MultiplesApart
<1>9. QuotedAt(v) \in key .. (key + W - 1)
  <2>1. QuotedAt(v) \in Int
    BY <1>3, TimeAssumption DEF QuotedAt
  <2> HIDE DEF QuotedAt
  <2> QED
    BY <1>1, <1>2, <1>5, <1>8, <2>1
<1>10. Placed(key, v, at)
  BY <1>2, <1>3, <1>4, <1>5, <1>9 DEF Placed
<1> QED
  BY <1>10 DEF key

LEMMA CompactPlaces ==
  ASSUME NEW f, NEW late, NEW at \in Nat, DOMAIN f \subseteq 0 .. at,
         \A k \in DOMAIN f : Placed(k, f[k], at)
  PROVE  \A key \in DOMAIN Compact(f, late, at) :
            key \in 0 .. at /\ Placed(key, Compact(f, late, at)[key], at)
<1> SUFFICES ASSUME NEW key \in DOMAIN Compact(f, late, at)
             PROVE  key \in 0 .. at /\ Placed(key, Compact(f, late, at)[key], at)
  OBVIOUS
<1>1. PICK k \in Kept(f, at) : KeyOf(k, at) = key /\ Compact(f, late, at)[key] = f[k]
  BY CompactFacts
<1>2. k \in 0 .. at /\ InTier(k, at) /\ Placed(k, f[k], at)
  BY DEF Kept
<1>3. Placed(key, f[k], at)
  BY <1>1, <1>2, MovedIsPlaced
<1>4. key \in Nat /\ key <= k
  BY <1>1, <1>2, BucketIs
<1> QED
  BY <1>1, <1>2, <1>3, <1>4

\* A recent sample is alone in its bucket and keeps its key.
LEMMA CompactKeepsRecent ==
  ASSUME NEW f, NEW late, NEW at \in Nat, DOMAIN f \subseteq 0 .. at,
         NEW m \in DOMAIN f, AgeOf(m, at) <= Tiers[1].age
  PROVE  m \in DOMAIN Compact(f, late, at) /\ Compact(f, late, at)[m] = f[m]
<1> m \in Nat
  OBVIOUS
<1>1. ASSUME NEW j \in Nat, m <= j PROVE InTier(j, at) /\ Width(AgeOf(j, at)) = 1 /\ KeyOf(j, at) = j
  <2>0. AgeOf(j, at) \in Nat /\ AgeOf(m, at) \in Nat /\ AgeOf(j, at) <= AgeOf(m, at)
    BY <1>1, AgeFacts
  <2>1. AgeOf(j, at) \in Nat /\ AgeOf(j, at) <= Tiers[1].age
    BY <2>0, TierFacts
  <2>2. InTier(j, at) /\ Width(AgeOf(j, at)) = 1
    BY <2>1, FinestWidth DEF InTier
  <2>3. Floor(j, 1) = j
    BY <1>1, FloorIs, DividesItself
  <2> QED
    BY <2>2, <2>3, BucketIs
<1>2. PICK j \in Kept(f, at) :
        m <= j /\ Bucket(j, at) = Bucket(m, at) /\ KeyOf(j, at) \in DOMAIN Compact(f, late, at)
  <2>1. m \in Kept(f, at)
    BY <1>1 DEF Kept
  <2> QED
    BY <2>1, CompactFacts
<1>3. j \in Nat /\ InTier(j, at) /\ j = m
  BY <1>1, <1>2, FellowsAlike DEF Kept
<1>4. m \in DOMAIN Compact(f, late, at)
  BY <1>1, <1>2, <1>3
<1>5. PICK k \in Kept(f, at) : KeyOf(k, at) = m /\ Compact(f, late, at)[m] = f[k]
  BY <1>4, CompactFacts
<1>6. k = m
  <2>1. k \in Nat /\ m <= k
    BY <1>5, BucketIs DEF Kept
  <2> QED
    BY <1>1, <1>5, <2>1
<1> QED
  BY <1>4, <1>5, <1>6

\* A moment that a sample stands for, in the bucket of its age, keeps one.
Covers(D, m, w) == \E k \in D : Floor(k, w) = Floor(m, w)

LEMMA CompactCovers ==
  ASSUME NEW f, NEW late, NEW at \in Nat, DOMAIN f \subseteq 0 .. at, NEW m \in Nat,
         AgeOf(Floor(m, Widest), at) < Horizon,
         Covers(DOMAIN f, m, Width(AgeOf(Floor(m, Widest), at)))
  PROVE  Covers(DOMAIN Compact(f, late, at), m, Width(AgeOf(Floor(m, Widest), at)))
<1> DEFINE start == Floor(m, Widest)
           W == Width(AgeOf(start, at))
<1>1. start \in Nat
  BY FloorBounds, WidthNumbers
<1>2. AgeOf(start, at) \in Nat /\ AgeOf(start, at) <= Horizon
  <2>1. AgeOf(start, at) < Horizon
    OBVIOUS
  <2> HIDE DEF start
  <2> QED
    BY <1>1, <2>1, AgeFacts, WidthNumbers
<1>3. W \in Widths /\ W \in Nat \ {0}
  BY <1>2, WidthIs, WidthNumbers
<1>4. PICK k \in DOMAIN f : Floor(k, W) = Floor(m, W)
  BY DEF Covers
<1>5. \A j \in Nat : Floor(j, W) = Floor(m, W) =>
         /\ start <= j /\ InTier(j, at)
         /\ Width(AgeOf(j, at)) \in Widths /\ Width(AgeOf(j, at)) <= W
  <2> SUFFICES ASSUME NEW j \in Nat, Floor(j, W) = Floor(m, W)
               PROVE  /\ start <= j /\ InTier(j, at)
                      /\ Width(AgeOf(j, at)) \in Widths /\ Width(AgeOf(j, at)) <= W
    OBVIOUS
  <2> Widest \in Nat \ {0} /\ Divides(W, Widest)
    BY <1>3, WidthNumbers, WidthsDivide
  <2> HIDE DEF W
  <2>1. start = Floor(Floor(m, W), Widest)
    BY <1>3, FloorCoarser
  <2>2. Floor(m, W) \in Nat /\ Floor(m, W) <= j
    BY <1>3, FloorBounds
  <2>3. start <= Floor(m, W)
    BY <2>1, <2>2, FloorBounds
  <2>4. start <= j
    BY <1>1, <2>2, <2>3
  <2> HIDE DEF start
  <2>5. AgeOf(j, at) \in Nat /\ AgeOf(j, at) <= AgeOf(start, at)
    BY <1>1, <2>4, AgeFacts
  <2>6. InTier(j, at)
    BY <1>2, <2>5, WidthNumbers DEF InTier
  <2>7. Width(AgeOf(j, at)) \in Widths /\ Width(AgeOf(j, at)) <= Width(AgeOf(start, at))
    BY <1>2, <2>5, WidthGrows
  <2> QED
    BY <2>4, <2>6, <2>7 DEF W
<1> HIDE DEF start, W
<1>6. k \in Nat /\ k \in Kept(f, at)
  BY <1>4, <1>5 DEF Kept
<1>7. PICK j \in Kept(f, at) :
        Bucket(j, at) = Bucket(k, at) /\ KeyOf(j, at) \in DOMAIN Compact(f, late, at)
  BY <1>6, CompactFacts
<1>8. j \in Nat /\ InTier(j, at) /\ InTier(k, at) /\ KeyOf(j, at) = KeyOf(k, at)
  BY <1>6, <1>7, FellowsAlike DEF Kept
<1>9. Floor(KeyOf(k, at), W) = Floor(k, W)
  <2> DEFINE w == Width(AgeOf(k, at))
  <2>1. w \in Nat \ {0} /\ w \in Widths /\ w <= W /\ KeyOf(k, at) = Floor(k, w)
    BY <1>4, <1>5, <1>6, <1>8, BucketIs
  <2> HIDE DEF w
  <2> QED
    BY <1>3, <1>6, <2>1, WidthsDivide, FloorCoarser
<1>10. Covers(DOMAIN Compact(f, late, at), m, W)
  BY <1>4, <1>7, <1>8, <1>9 DEF Covers
<1> QED
  BY <1>10 DEF W, start

\* LiveFirst and NoHole of other samples and another time.
LiveOf(f, at) == \A m \in quoted : AgeOf(m, at) <= Tiers[1].age => m \in DOMAIN f /\ f[m] = m
HoleFree(f, at) == \A m \in quoted :
    LET age == AgeOf(Floor(m, Widest), at) IN
    age < Horizon => Covers(DOMAIN f, m, Width(age))

LEMMA SamplesStarts == SamplesInit => SamplesInv
  BY TimeAssumption DEF SamplesInit, SamplesInv, SamplesShape, LiveFirst, NoHole, AllPlaced

\* A write keeps what holds of the samples it is given.
LEMMA WriteKeeps ==
  ASSUME SamplesShape, NEW f, NEW late, DOMAIN f \subseteq 0 .. time,
         \A k \in DOMAIN f : Placed(k, f[k], time),
         quoted' \subseteq DOMAIN f \cup quoted, quoted' \subseteq 0 .. time,
         \A m \in quoted' : AgeOf(m, time) <= Tiers[1].age => m \in DOMAIN f /\ f[m] = m,
         \A m \in quoted' : AgeOf(Floor(m, Widest), time) < Horizon =>
            Covers(DOMAIN f, m, Width(AgeOf(Floor(m, Widest), time))),
         samples' = Compact(f, late, time), time' = time
  PROVE  SamplesInv'
<1> time \in Nat
  BY DEF SamplesShape
<1>1. SamplesShape' /\ AllPlaced'
  BY CompactPlaces DEF SamplesShape, AllPlaced
<1>2. LiveFirst'
  <2> SUFFICES ASSUME NEW m \in quoted', AgeOf(m, time) <= Tiers[1].age
               PROVE  m \in DOMAIN samples' /\ samples'[m] = m
    BY DEF LiveFirst
  <2> QED
    BY CompactKeepsRecent
<1>3. NoHole'
  <2> SUFFICES ASSUME NEW m \in quoted', AgeOf(Floor(m, Widest), time) < Horizon
               PROVE  Covers(DOMAIN samples', m, Width(AgeOf(Floor(m, Widest), time)))
    BY DEF NoHole, Covers
  <2>1. m \in Nat
    OBVIOUS
  <2> QED
    BY <2>1, CompactCovers
<1> QED
  BY <1>1, <1>2, <1>3 DEF SamplesInv

\* A new quote or seed is in the finest bucket.
LEMMA FreshIsPlaced ==
  ASSUME NEW k \in Nat, NEW at \in Nat, NEW v \in Int, QuotedAt(v) = k
  PROVE  Placed(k, v, at)
<1>1. 1 \in Widths /\ Divides(1, k)
  BY WidthNumbers, DividesItself
<1>2. InTier(k, at) => 1 <= Width(AgeOf(k, at))
  BY BucketIs
<1>3. QuotedAt(v) \in k .. (k + 1 - 1)
  OBVIOUS
<1> QED
  BY <1>1, <1>2, <1>3 DEF Placed

\* A live quote, a merge of seeds and the clock.
LEMMA AddKeeps == SamplesInv /\ Add => SamplesInv'
<1> SUFFICES ASSUME SamplesInv, Add PROVE SamplesInv'
  OBVIOUS
<1> DEFINE f == [k \in DOMAIN samples \cup {time} |-> IF k = time THEN time ELSE samples[k]]
<1> time \in Nat /\ SamplesShape
  BY DEF SamplesInv, SamplesShape
<1>1. /\ DOMAIN f = DOMAIN samples \cup {time} /\ DOMAIN f \subseteq 0 .. time
      /\ f[time] = time /\ \A k \in DOMAIN samples : f[k] = samples[k]
  BY DEF Add, SamplesShape
<1>2. samples' = Compact(f, {time}, time) /\ quoted' = quoted \cup {time} /\ time' = time
  BY DEF Add
<1> HIDE DEF f
<1>3. \A k \in DOMAIN f : Placed(k, f[k], time)
  <2>1. QuotedAt(time) = time
    BY DEF QuotedAt
  <2>2. Placed(time, time, time)
    BY <2>1, FreshIsPlaced
  <2> QED
    BY <1>1, <2>2 DEF SamplesInv, AllPlaced
<1>4. \A m \in quoted' : AgeOf(m, time) <= Tiers[1].age => m \in DOMAIN f /\ f[m] = m
  BY <1>1, <1>2 DEF SamplesInv, LiveFirst
<1>5. \A m \in quoted' : AgeOf(Floor(m, Widest), time) < Horizon =>
            Covers(DOMAIN f, m, Width(AgeOf(Floor(m, Widest), time)))
  BY <1>1, <1>2 DEF SamplesInv, NoHole, Covers
<1>6. quoted' \subseteq DOMAIN f \cup quoted /\ quoted' \subseteq 0 .. time
  BY <1>1, <1>2 DEF SamplesShape
<1> QED
  BY <1>1, <1>2, <1>3, <1>4, <1>5, <1>6, WriteKeeps

LEMMA MergeSeedsKeeps ==
  ASSUME SamplesInv, NEW a \in 0 .. time, NEW b \in 0 .. time, MergeSeeds({a, b})
  PROVE  SamplesInv'
<1> DEFINE f == Seeded({a, b})
<1> time \in Nat /\ SamplesShape
  BY DEF SamplesInv, SamplesShape
<1>1. /\ DOMAIN f = DOMAIN samples \cup {a, b} /\ DOMAIN f \subseteq 0 .. time
      /\ \A k \in DOMAIN f : f[k] = IF k \in DOMAIN samples THEN samples[k] ELSE Seed(k)
  BY DEF Seeded, SamplesShape
<1>2. samples' = Compact(f, {a, b} \ DOMAIN samples, time) /\ quoted' = quoted /\ time' = time
  BY DEF MergeSeeds
<1> HIDE DEF f
<1>3. \A k \in DOMAIN f : Placed(k, f[k], time)
  <2>1. ASSUME NEW k \in DOMAIN f \ DOMAIN samples PROVE Placed(k, Seed(k), time)
    <3>1. k \in Nat /\ Seed(k) \in Int /\ QuotedAt(Seed(k)) = k
      BY <1>1, TimeAssumption DEF Seed, QuotedAt, SamplesShape
    <3> QED
      BY <3>1, FreshIsPlaced
  <2> QED
    BY <1>1, <2>1 DEF SamplesInv, AllPlaced
<1>4. \A m \in quoted' : AgeOf(m, time) <= Tiers[1].age => m \in DOMAIN f /\ f[m] = m
  BY <1>1, <1>2 DEF SamplesInv, LiveFirst
<1>5. \A m \in quoted' : AgeOf(Floor(m, Widest), time) < Horizon =>
            Covers(DOMAIN f, m, Width(AgeOf(Floor(m, Widest), time)))
  BY <1>1, <1>2 DEF SamplesInv, NoHole, Covers
<1>6. quoted' \subseteq DOMAIN f \cup quoted /\ quoted' \subseteq 0 .. time
  BY <1>1, <1>2 DEF SamplesShape
<1> QED
  BY <1>1, <1>2, <1>3, <1>4, <1>5, <1>6, WriteKeeps

LEMMA TimeKeeps == SamplesInv /\ NextMoment => SamplesInv'
<1> SUFFICES ASSUME SamplesInv, NextMoment PROVE SamplesInv'
  OBVIOUS
<1>1. time \in Nat /\ time' = time + 1 /\ UNCHANGED <<samples, quoted>> /\ SamplesShape'
  BY TimeAssumption DEF NextMoment, SamplesInv, SamplesShape
<1>2. ASSUME NEW k \in Nat
      PROVE  /\ AgeOf(k, time) \in Nat /\ AgeOf(k, time') \in Nat
             /\ AgeOf(k, time) <= AgeOf(k, time')
  BY <1>1, AgeFacts
<1>3. LiveFirst'
  <2> SUFFICES ASSUME NEW m \in quoted, AgeOf(m, time') <= Tiers[1].age
               PROVE  m \in DOMAIN samples /\ samples[m] = m
    BY <1>1 DEF LiveFirst
  <2>1. m \in Nat /\ Tiers[1].age \in Nat
    BY TierFacts DEF SamplesInv, SamplesShape
  <2>2. AgeOf(m, time) <= Tiers[1].age
    BY <1>2, <2>1
  <2> QED
    BY <2>2 DEF SamplesInv, LiveFirst
<1>4. NoHole'
  <2> SUFFICES ASSUME NEW m \in quoted, AgeOf(Floor(m, Widest), time') < Horizon
               PROVE  Covers(DOMAIN samples, m, Width(AgeOf(Floor(m, Widest), time')))
    BY <1>1 DEF NoHole, Covers
  <2> DEFINE start == Floor(m, Widest)
             v == Width(AgeOf(start, time))
             w == Width(AgeOf(start, time'))
  <2>1. m \in Nat /\ start \in Nat /\ Horizon \in Nat
    BY FloorBounds, WidthNumbers DEF SamplesInv, SamplesShape
  <2>2. AgeOf(start, time') < Horizon
    OBVIOUS
  <2>3. NoHole
    BY DEF SamplesInv
  <2>4. AgeOf(start, time) < Horizon => Covers(DOMAIN samples, m, v)
    BY <2>3 DEF NoHole, Covers
  <2> HIDE DEF start
  <2>5. AgeOf(start, time) < Horizon /\ AgeOf(start, time') <= Horizon
    BY <1>2, <2>1, <2>2
  <2>6. v \in Nat \ {0} /\ w \in Nat \ {0} /\ Divides(v, w)
    BY <1>2, <2>1, <2>5, WidthGrows, WidthNumbers
  <2> HIDE DEF v, w
  <2>7. PICK k \in DOMAIN samples : Floor(k, v) = Floor(m, v)
    BY <2>4, <2>5 DEF Covers
  <2>8. k \in Nat
    BY DEF SamplesInv, SamplesShape
  <2>9. Floor(k, w) = Floor(m, w)
    BY <2>1, <2>6, <2>7, <2>8, FloorCoarser
  <2>10. Covers(DOMAIN samples, m, w)
    BY <2>9 DEF Covers
  <2> QED
    BY <2>10 DEF w, start
<1>5. AllPlaced'
  <2> SUFFICES ASSUME NEW k \in DOMAIN samples PROVE Placed(k, samples[k], time')
    BY <1>1 DEF AllPlaced
  <2>1. k \in Nat /\ Placed(k, samples[k], time)
    BY DEF SamplesInv, SamplesShape, AllPlaced
  <2>2. PICK w \in Widths : /\ Divides(w, k) /\ QuotedAt(samples[k]) \in k .. (k + w - 1)
                            /\ InTier(k, time) => w <= Width(AgeOf(k, time))
    BY <2>1 DEF Placed
  <2>3. InTier(k, time') => w <= Width(AgeOf(k, time'))
    <3> SUFFICES ASSUME AgeOf(k, time') <= Horizon PROVE w <= Width(AgeOf(k, time'))
      BY DEF InTier
    <3>1. InTier(k, time) /\ Width(AgeOf(k, time)) <= Width(AgeOf(k, time'))
      BY <1>2, <2>1, WidthGrows, WidthNumbers DEF InTier
    <3>2. {w, Width(AgeOf(k, time)), Width(AgeOf(k, time'))} \subseteq Nat
      BY <1>2, <2>1, <3>1, WidthGrows, WidthNumbers
    <3> QED
      BY <2>2, <3>1, <3>2
  <2> QED
    BY <2>1, <2>2, <2>3 DEF Placed
<1> QED
  BY <1>1, <1>3, <1>4, <1>5 DEF SamplesInv

\* A sample lies in the widest bucket that starts at its key.
LEMMA PlacedIsInBucket == SamplesInv => InItsBucket
<1> SUFFICES ASSUME SamplesInv, NEW k \in DOMAIN samples
             PROVE  QuotedAt(samples[k]) \in k .. (k + Widest - 1)
  BY DEF InItsBucket
<1>1. PICK w \in Widths : QuotedAt(samples[k]) \in k .. (k + w - 1)
  BY DEF SamplesInv, AllPlaced, Placed
<1>2. k \in Nat /\ w \in Nat /\ Widest \in Nat /\ w <= Widest
  BY WidthNumbers DEF SamplesInv, SamplesShape
<1> QED
  BY <1>1, <1>2

\* However often samples are thinned and whatever tiers they cross, no live quote
\* within the finest age is replaced, no bucket of a quote within the horizon is
\* emptied and no price is drawn outside its bucket (_compact_price_samples,
\* async_add_price_samples, async_merge_price_samples).
THEOREM SamplesAlwaysStand == SamplesSpec => []SamplesStand
<1>1. SamplesInv /\ [SamplesNext]_samplesVars => SamplesInv'
  <2> SUFFICES ASSUME SamplesInv, [SamplesNext]_samplesVars PROVE SamplesInv'
    OBVIOUS
  <2>1. CASE UNCHANGED samplesVars
    BY <2>1 DEF samplesVars, SamplesInv, SamplesShape, LiveFirst, NoHole, AllPlaced
  <2> QED
    BY <2>1, AddKeeps, TimeKeeps, MergeSeedsKeeps DEF SamplesNext
<1>2. SamplesInv => SamplesStand
  BY PlacedIsInBucket DEF SamplesInv, SamplesStand
<1> QED
  BY SamplesStarts, <1>1, <1>2, PTL DEF SamplesSpec

=============================================================================
