----------------------------- MODULE HistoryScores -----------------------------
(***************************************************************************)
(* The daily score history of the market assessment: the persistent cache  *)
(* of one generation (market_assessment_history_cache.py), the requests of *)
(* the panel and the warm-up after a synchronisation (__init__.py), which  *)
(* share one slot for the expensive calculation.                           *)
(***************************************************************************)
EXTENDS Integers, FiniteSets

CONSTANTS
    Clients,        \* panel requests
    Warmups,        \* warm-ups after a synchronisation
    Ranges,         \* chart ranges
    NoRange,
    MaxInputs,      \* bound on the generations of prices and settings
    MaxAsks         \* bound on what clients and warm-ups start

ASSUME RangeAssumption == NoRange \notin Clients \cup Warmups

VARIABLES
    inputs,         \* the generation of the stored prices and the settings
    data,           \* the cache: signature, whether scores are there, ranges
    client,         \* client[c]: what c does, for which generation and range
    job,            \* job[c]: the task c created
    slot,           \* who holds _market_assessment_history_compute_lock
    cancelling,       \* the settings handler has cancelled and not yet cleared
    answer,         \* answer[c]: the generation and range of the last answer
    scored,         \* score calculations finished since the generation was selected
    asks

scoresVars == <<inputs, data, client, job, slot, cancelling, answer, scored, asks>>

All == Clients \cup Warmups
NoData == [sig |-> 0, scores |-> FALSE, ranges |-> {}]
Idle == [at |-> "idle", sig |-> 0, range |-> NoRange, on |-> NoRange]
NoJob == [at |-> "none", sig |-> 0, range |-> NoRange]
NoAnswer == [sig |-> 0, range |-> NoRange]

ScoresInit ==
    /\ inputs = 1 /\ data = NoData
    /\ client = [c \in All |-> Idle] /\ job = [c \in All |-> NoJob]
    /\ slot = NoRange /\ cancelling = FALSE
    /\ answer = [c \in All |-> NoAnswer] /\ scored = 0 /\ asks = 0

-----------------------------------------------------------------------------
HasRange(s, r) == data.sig = s /\ r \in data.ranges
HasScores(s) == data.sig = s /\ data.scores
\* What serves the one who asked: a range, or the scores for a warm-up.
Serves(s, r) == IF r = NoRange THEN HasScores(s) ELSE HasRange(s, r)

Running(c) == job[c].at # "none"
\* Mutant: a running task is found by its range.
SharesByRange(s, r) == {d \in Clients : Running(d) /\ job[d].range = r}
\* The running tasks a request joins: its generation and its range.
Shares(s, r) == {d \in Clients : Running(d) /\ job[d].sig = s /\ job[d].range = r}

\* The request signs the inputs of now and keeps them.
Ask(c, r) ==
    /\ client[c].at = "idle" /\ ~ Running(c) /\ asks < MaxAsks
    /\ (r = NoRange) = (c \in Warmups)
    /\ asks' = asks + 1
    /\ client' = [client EXCEPT ![c] = [at |-> "look", sig |-> inputs, range |-> r, on |-> NoRange]]
    /\ answer' = [answer EXCEPT ![c] = NoAnswer]
    /\ UNCHANGED <<inputs, data, job, slot, cancelling, scored>>

Hit(c) ==
    /\ client[c].at = "look" /\ Serves(client[c].sig, client[c].range)
    /\ answer' = [answer EXCEPT ![c] = [sig |-> client[c].sig, range |-> client[c].range]]
    /\ client' = [client EXCEPT ![c].at = "idle"]
    /\ UNCHANGED <<inputs, data, job, slot, cancelling, scored, asks>>

\* async_prepare: the cache is given to this generation.
Prepare(c) ==
    /\ client[c].at = "look" /\ ~ Serves(client[c].sig, client[c].range)
    /\ IF data.sig = client[c].sig THEN UNCHANGED <<data, scored>>
       ELSE data' = [NoData EXCEPT !.sig = client[c].sig] /\ scored' = 0
    /\ client' = [client EXCEPT ![c].at = "start"]
    /\ UNCHANGED <<inputs, job, slot, cancelling, answer, asks>>

\* Join the running task of this range and generation, or start it.
Start(c) ==
    LET shared == IF c \in Warmups THEN {} ELSE Shares(client[c].sig, client[c].range) IN
    /\ client[c].at = "start"
    /\ IF shared = {}
       THEN /\ job' = [job EXCEPT ![c] = [at |-> "queued", sig |-> client[c].sig, range |-> client[c].range]]
            /\ client' = [client EXCEPT ![c].at = "wait", ![c].on = c]
       ELSE \E d \in shared : client' = [client EXCEPT ![c].at = "wait", ![c].on = d] /\ UNCHANGED job
    /\ UNCHANGED <<inputs, data, slot, cancelling, answer, scored, asks>>

\* The task is over: whoever waits for it has its payload.
Over(c) ==
    /\ job' = [job EXCEPT ![c] = NoJob]
    /\ client' = [d \in All |-> IF client[d].at = "wait" /\ client[d].on = c
                               THEN [client[d] EXCEPT !.at = "idle", !.on = NoRange] ELSE client[d]]
    /\ answer' = [d \in All |-> IF client[d].at = "wait" /\ client[d].on = c
                               THEN [sig |-> job[c].sig, range |-> job[c].range] ELSE answer[d]]
    /\ slot' = NoRange

\* Mutant: what was scored while the task waited for the slot is not looked up.
AcquireBlindly(c) ==
    /\ job[c].at = "queued" /\ slot = NoRange
    /\ slot' = c /\ job' = [job EXCEPT ![c].at = "scoring"]
    /\ UNCHANGED <<inputs, data, client, cancelling, answer, scored, asks>>
\* The slot is free: what is there by now is not calculated again.
Acquire(c) ==
    /\ job[c].at = "queued" /\ slot = NoRange
    /\ IF Serves(job[c].sig, job[c].range) THEN Over(c)
       ELSE /\ slot' = c
            /\ job' = [job EXCEPT ![c].at = IF HasScores(job[c].sig) THEN "ranging" ELSE "scoring"]
            /\ UNCHANGED <<client, answer>>
    /\ UNCHANGED <<inputs, data, cancelling, scored, asks>>

\* async_put_scores: only into the cache of its generation.
Scored(c) ==
    /\ job[c].at = "scoring"
    /\ IF data.sig = job[c].sig
       THEN data' = [data EXCEPT !.scores = TRUE] /\ scored' = scored + 1
       ELSE UNCHANGED <<data, scored>>
    /\ IF c \in Warmups THEN Over(c)
       ELSE job' = [job EXCEPT ![c].at = "ranging"] /\ UNCHANGED <<client, answer, slot>>
    /\ UNCHANGED <<inputs, cancelling, asks>>

\* async_put: the range is filtered from the scores.
Ranged(c) ==
    /\ job[c].at = "ranging"
    /\ data' = IF data.sig = job[c].sig THEN [data EXCEPT !.ranges = @ \cup {job[c].range}] ELSE data
    /\ Over(c)
    /\ UNCHANGED <<inputs, cancelling, scored, asks>>

-----------------------------------------------------------------------------
\* A synchronisation stored other prices.
PricesChange ==
    /\ inputs < MaxInputs /\ inputs' = inputs + 1
    /\ UNCHANGED <<data, client, job, slot, cancelling, answer, scored, asks>>

\* The settings handler cancels the panel's tasks, with those who wait for them,
\* and then clears the cache; a warm-up goes on.
EditScores ==
    /\ inputs < MaxInputs /\ ~ cancelling
    /\ inputs' = inputs + 1 /\ cancelling' = TRUE
    /\ job' = [c \in All |-> IF c \in Clients THEN NoJob ELSE job[c]]
    /\ client' = [c \in All |-> IF client[c].at = "wait" /\ c \in Clients THEN Idle ELSE client[c]]
    /\ slot' = IF slot \in Clients THEN NoRange ELSE slot
    /\ UNCHANGED <<data, answer, scored, asks>>

ClearScores ==
    /\ cancelling /\ cancelling' = FALSE
    /\ data' = NoData /\ scored' = 0
    /\ UNCHANGED <<inputs, client, job, slot, answer, asks>>

ScoresNext ==
    \/ PricesChange \/ EditScores \/ ClearScores
    \/ \E c \in All : \/ \E r \in Ranges \cup {NoRange} : Ask(c, r)
                      \/ Hit(c) \/ Prepare(c) \/ Start(c) \/ Acquire(c) \/ Scored(c) \/ Ranged(c)
ScoresSpec == ScoresInit /\ [][ScoresNext]_scoresVars

-----------------------------------------------------------------------------
(* Whether from the cache, an own task or one it joined, the answer is of  *)
(* the generation and the range that were asked for.                       *)
AnswersFit == \A c \in All :
    answer[c] # NoAnswer => answer[c] = [sig |-> client[c].sig, range |-> client[c].range]

(* The years of daily scores are calculated at most once while a           *)
(* generation is selected, by however many ranges and warm-ups at a time.  *)
ScoredOnce == scored <= 1

(* market_assessment_history_cache.py:128: "A slower calculation for an    *)
(* older source/settings generation must never evict a newer cache that    *)
(* finished first."                                                        *)
NewerStays == [][data.scores => data'.sig = 0 \/ data'.sig >= data.sig]_scoresVars
=============================================================================
