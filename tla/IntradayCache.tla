----------------------------- MODULE IntradayCache -----------------------------
(***************************************************************************)
(* The 15-minute market assessments (market_assessment_intraday_cache.py)  *)
(* and the worker that reconstructs the last 90 days of them               *)
(* (market_assessment_backfill.py).  One cache holds one generation of     *)
(* scores, named by its signature; live observations and reconstructed     *)
(* points meet in its buckets.  The worker is detached: an unload does not *)
(* cancel it, it ends when it wakes and finds no runtime.                  *)
(***************************************************************************)
EXTENDS Integers, FiniteSets, FiniteSetsExt

CONSTANTS
    Settings,       \* signatures of the score's settings
    Slots,          \* the buckets of the 90 days, integers
    None,
    MaxEdits, MaxReloads, MaxFaults, MaxLive,   \* bounds
    Begun           \* the events already used up when a behaviour begins, a set

ASSUME ReloadsAssumption == MaxReloads \in Nat

VARIABLES
    settings,       \* the signature of entry.options
    loaded, epoch,  \* whether a runtime exists, and the number of the latest
    cache,          \* cache[e]: signature, points by bucket, whether a save is scheduled
    file,           \* what the Store holds: signature and points
    status,         \* market_assessment_backfill_status of the runtime
    worker,         \* worker[e]: the worker the setup of e started
    live,           \* a live calculation: the signature it will record under, and its bucket
    clearing,       \* the settings handler: 0, or the steps it still has to take
    daily,          \* whether a year of daily prices is stored
    local,          \* buckets the chart candles on disk cover
    used            \* the bounded events so far

intradayVars == <<settings, loaded, epoch, cache, file, status, worker, live, clearing, daily, local, used>>

Epochs == 0 .. MaxReloads
NoPoints == [b \in Slots |-> "none"]
NoCache == [sig |-> None, points |-> NoPoints, pending |-> FALSE]
NoStatus == [complete |-> FALSE, sig |-> None]
NoWorker == [at |-> "none", sig |-> None, todo |-> {}, found |-> {}, failed |-> FALSE]
NoLive == [sig |-> None, bucket |-> None]

IntradayInit ==
    /\ settings \in Settings
    /\ loaded = TRUE /\ epoch = 0
    /\ cache = [e \in Epochs |-> NoCache]
    /\ file = [sig |-> None, points |-> NoPoints]
    /\ status = NoStatus
    /\ worker = [e \in Epochs |-> IF e = 0 THEN [NoWorker EXCEPT !.at = "sleep"] ELSE NoWorker]
    /\ live = NoLive /\ clearing = 0 /\ daily = FALSE
    /\ local \in SUBSET Slots
    /\ used \in Begun

-----------------------------------------------------------------------------
\* The points a write of generation s starts from: another generation's are dropped.
PointsFor(c, s) == IF c.sig = s THEN c.points ELSE NoPoints

\* Mutant: the reconstruction fills every bucket it scored.
MergedOver(points, b) == [points EXCEPT ![b] = "backfilled"]
\* async_merge_points keeps whatever a bucket holds.
Merged(points, b) == IF points[b] = "none" THEN [points EXCEPT ![b] = "backfilled"] ELSE points

\* The cache of e takes new points of generation s: saved at once when the
\* generation changed, with an hour's delay otherwise.
Write(e, s, points) ==
    /\ cache' = [cache EXCEPT ![e] = [sig |-> s, points |-> points, pending |-> cache[e].sig = s]]
    /\ file' = IF cache[e].sig = s THEN file ELSE [sig |-> s, points |-> points]

\* async_record: once per bucket, over a reconstructed point, never over a live one.
Record ==
    /\ live # NoLive
    /\ LET points == PointsFor(cache[epoch], live.sig) IN
       IF points[live.bucket] = "live" /\ cache[epoch].sig = live.sig
       THEN UNCHANGED <<cache, file>>
       ELSE Write(epoch, live.sig, [points EXCEPT ![live.bucket] = "live"])
    /\ live' = NoLive
    /\ UNCHANGED <<settings, loaded, epoch, status, worker, clearing, daily, local, used>>

\* A live assessment starts with the settings of now, for the bucket of its end.
Observe(b) ==
    /\ loaded /\ live = NoLive /\ used.live < MaxLive
    /\ live' = [sig |-> settings, bucket |-> b]
    /\ used' = [used EXCEPT !.live = @ + 1]
    /\ UNCHANGED <<settings, loaded, epoch, cache, file, status, worker, clearing, daily, local>>

SaveDelayed(e) ==
    /\ cache[e].pending
    /\ file' = [sig |-> cache[e].sig, points |-> cache[e].points]
    /\ cache' = [cache EXCEPT ![e].pending = FALSE]
    /\ UNCHANGED <<settings, loaded, epoch, status, worker, live, clearing, daily, local, used>>

-----------------------------------------------------------------------------
\* _set_status writes to the runtime there is, whoever writes.
Report(complete, s) == status' = IF loaded THEN [complete |-> complete, sig |-> s] ELSE status

Stop(e) ==
    /\ ~ loaded /\ worker[e].at \in {"sleep", "score"}
    /\ worker' = [worker EXCEPT ![e] = NoWorker]
    /\ UNCHANGED <<settings, loaded, epoch, cache, file, status, live, clearing, daily, local, used>>

\* Mutant: a complete reconstruction is complete for good.
DoneForGood == status.complete
\* The reconstruction of the current generation is complete.
Done == status.complete /\ status.sig = settings

\* _background_worker wakes after its pause and finds work; the pause after an
\* edit (five minutes) outlasts a live calculation of the settings before.
Wake(e) ==
    /\ loaded /\ worker[e].at = "sleep" /\ ~ Done /\ daily
    /\ live # NoLive => live.sig = settings
    /\ worker' = [worker EXCEPT ![e] = [NoWorker EXCEPT !.at = "fetch", !.sig = settings]]
    /\ Report(FALSE, settings)
    /\ UNCHANGED <<settings, loaded, epoch, cache, file, live, clearing, daily, local, used>>

\* The candles on disk, with those of the providers when they do not cover the
\* 90 days: Coinbase, or Bitstamp after it.
Found(failed) == IF failed THEN local ELSE Slots
\* The buckets its own cache holds for a generation.
Held(e, s) == {b \in Slots : PointsFor(cache[e], s)[b] # "none"}

Fetch(e, failed) ==
    /\ worker[e].at = "fetch"
    /\ failed => local # Slots /\ used.faults < MaxFaults
    /\ used' = IF failed THEN [used EXCEPT !.faults = @ + 1] ELSE used
    /\ worker' = [worker EXCEPT ![e] =
            IF Found(failed) = {} THEN [NoWorker EXCEPT !.at = "sleep"]
            ELSE [@ EXCEPT !.at = "score", !.todo = Found(failed) \ Held(e, worker[e].sig),
                           !.found = Found(failed), !.failed = failed]]
    /\ Report(FALSE, worker[e].sig)
    /\ UNCHANGED <<settings, loaded, epoch, cache, file, live, clearing, daily, local>>

\* Before each batch: another generation ends this attempt.
Score(e) ==
    /\ loaded /\ worker[e].at = "score" /\ worker[e].todo # {}
    /\ IF settings # worker[e].sig
       THEN worker' = [worker EXCEPT ![e] = [NoWorker EXCEPT !.at = "sleep"]] /\ Report(FALSE, settings)
       ELSE worker' = [worker EXCEPT ![e].at = "merge"] /\ UNCHANGED status
    /\ UNCHANGED <<settings, loaded, epoch, cache, file, live, clearing, daily, local, used>>

\* The executor scored the oldest missing bucket under the settings it was given.
Merge(e) ==
    /\ worker[e].at = "merge"
    /\ LET b == Min(worker[e].todo)
           points == PointsFor(cache[e], worker[e].sig) IN
       /\ IF Merged(points, b) = points
          THEN UNCHANGED file /\ cache' = [cache EXCEPT ![e].sig = worker[e].sig, ![e].points = points]
          ELSE Write(e, worker[e].sig, Merged(points, b))
       /\ worker' = [worker EXCEPT ![e].at = "score", ![e].todo = @ \ {b}]
    /\ Report(FALSE, worker[e].sig)
    /\ UNCHANGED <<settings, loaded, epoch, live, clearing, daily, local, used>>

\* All that was found is scored: complete when it covers the 90 days.
Finish(e) ==
    /\ worker[e].at = "score" /\ worker[e].todo = {}
    /\ Report(worker[e].found = Slots /\ ~ worker[e].failed, worker[e].sig)
    /\ worker' = [worker EXCEPT ![e] = [NoWorker EXCEPT !.at = "sleep"]]
    /\ UNCHANGED <<settings, loaded, epoch, cache, file, live, clearing, daily, local, used>>

DailyArrives ==
    /\ ~ daily /\ daily' = TRUE
    /\ UNCHANGED <<settings, loaded, epoch, cache, file, status, worker, live, clearing, local, used>>

-----------------------------------------------------------------------------
\* The settings handler: the options, then the cache, then the worker's status.
Edit(s) ==
    /\ loaded /\ clearing = 0 /\ s # settings /\ used.edits < MaxEdits
    /\ settings' = s /\ clearing' = 2
    /\ used' = [used EXCEPT !.edits = @ + 1]
    /\ UNCHANGED <<loaded, epoch, cache, file, status, worker, live, daily, local>>

Clear ==
    /\ loaded /\ clearing = 2 /\ clearing' = 1
    /\ cache' = [cache EXCEPT ![epoch] = NoCache]
    /\ file' = [sig |-> None, points |-> NoPoints]
    /\ UNCHANGED <<settings, loaded, epoch, status, worker, live, daily, local, used>>

\* The loop starts no second worker while this runtime's worker runs.
RestartBackfill ==
    /\ loaded /\ clearing = 1 /\ clearing' = 0
    /\ status' = [NoStatus EXCEPT !.sig = status.sig]
    /\ worker' = IF worker[epoch].at = "none" THEN [worker EXCEPT ![epoch].at = "sleep"] ELSE worker
    /\ UNCHANGED <<settings, loaded, epoch, cache, file, live, daily, local, used>>

\* async_unload_entry cancels the starter of the worker, which is over, and a live task.
Unload ==
    /\ loaded /\ clearing = 0 /\ epoch < MaxReloads
    /\ loaded' = FALSE /\ live' = NoLive /\ status' = NoStatus
    /\ UNCHANGED <<settings, epoch, cache, file, worker, clearing, daily, local, used>>

Setup ==
    /\ ~ loaded
    /\ loaded' = TRUE /\ epoch' = epoch + 1
    /\ cache' = [cache EXCEPT ![epoch + 1] = [sig |-> file.sig, points |-> file.points, pending |-> FALSE]]
    /\ worker' = [worker EXCEPT ![epoch + 1] = [NoWorker EXCEPT !.at = "sleep"]]
    /\ UNCHANGED <<settings, file, status, live, clearing, daily, local, used>>

Work(e) == Wake(e) \/ (\E failed \in BOOLEAN : Fetch(e, failed)) \/ Score(e) \/ Merge(e) \/ Finish(e) \/ Stop(e)
IntradayNext ==
    \/ \E b \in Slots : Observe(b)
    \/ Record \/ DailyArrives \/ Clear \/ RestartBackfill \/ Unload \/ Setup
    \/ \E s \in Settings : Edit(s)
    \/ \E e \in Epochs : SaveDelayed(e) \/ Work(e)
IntradayFairness ==
    /\ WF_intradayVars(Record) /\ WF_intradayVars(DailyArrives)
    /\ WF_intradayVars(Clear) /\ WF_intradayVars(RestartBackfill) /\ WF_intradayVars(Setup)
    /\ \A e \in Epochs : WF_intradayVars(Work(e))
IntradaySpec == IntradayInit /\ [][IntradayNext]_intradayVars /\ IntradayFairness

-----------------------------------------------------------------------------
(* A live observation is never replaced by a reconstructed one and never   *)
(* dropped while the cache keeps its generation, whatever workers of this  *)
(* runtime or an earlier one write.                                        *)
LiveStays == [][\A e \in Epochs : cache[e].sig = cache'[e].sig /\ cache[e].sig # None =>
    \A b \in Slots : cache[e].points[b] = "live" => cache'[e].points[b] = "live"]_intradayVars

(* Once edits, failures and reloads end, and the workers of earlier        *)
(* runtimes have ended with them, the reconstruction is complete for the   *)
(* settings there are: an attempt for other settings, however late it      *)
(* ends, does not pass for it.                                             *)
EarlierEnded == \A e \in Epochs : e # epoch => worker[e].at = "none"
Settles == <>[]EarlierEnded => <>[](loaded => status = [complete |-> TRUE, sig |-> settings])

(* market_assessment_backfill.py: a reconstruction reported complete has   *)
(* every bucket of the 90 days scored.                                     *)
EveryBucket == loaded /\ clearing = 0 /\ status = [complete |-> TRUE, sig |-> settings]
    => cache[epoch].sig = settings /\ \A b \in Slots : cache[epoch].points[b] # "none"

(* CHANGELOG.md:45: "reconstruction now has one detached background        *)
(* worker".                                                                *)
OneWorker == \A e, f \in Epochs :
    worker[e].at \in {"fetch", "score", "merge"} /\ worker[f].at \in {"fetch", "score", "merge"} => e = f

(* market_assessment_intraday_cache.py:6: reconstructed points "never      *)
(* overwrite an actually observed live snapshot".                          *)
ObservedStays == [][\A b \in Slots :
    cache[epoch].sig = settings /\ cache[epoch].points[b] = "live" /\ settings' = settings /\ epoch' = epoch
    /\ clearing' = clearing
    => cache'[epoch].points[b] = "live"]_intradayVars
=============================================================================
