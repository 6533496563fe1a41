------------------------------ MODULE HistorySync ------------------------------
(***************************************************************************)
(* Synchronisation of the daily price history (history.py 1684-2127): one  *)
(* sync at a time asks the owner's mempool instances, then the other       *)
(* configured sources, the cached dollar series, and the public providers, *)
(* each for what is still missing.  A price is modelled by where it came   *)
(* from; the answers of a source by the days it serves.                    *)
(***************************************************************************)
EXTENDS Integers, Sequences, FiniteSets

CONSTANTS
    Currencies,     \* configured currencies, a sequence
    LastDay,        \* yesterday; the days are 1 .. LastDay
    OwnDays,        \* OwnDays[i]: the days own mempool instance i serves
    KrakenDays,     \* the days of Kraken's 720 candles
    Backups,        \* histories a backup may restore: prices and bootstrap flags
    MaxOutages, MaxRestores, MaxCrashes      \* bounds

ASSUME OwnAssumption == OwnDays \in Seq(SUBSET Int)

Days == 1 .. LastDay
Listed == {Currencies[i] : i \in 1 .. Len(Currencies)}
Providers == <<"blockchain", "coinmetrics", "coingecko">>
OwnName == <<"own 1", "own 2", "own 3">>
OwnNames == {OwnName[i] : i \in 1 .. Len(OwnDays)}
Nothing == [d \in Days |-> "none"]

VARIABLES
    stored,     \* stored[c][d]: where the stored price of the day came from
    boot,       \* bootstrap_complete
    fresh,      \* the last completed sync is less than 20 hours old
    sync,       \* the running sync: its step, the currency and source it is at
    initial,    \* the prices it read when it began
    values,     \* the prices of the currency it works on
    overlay,    \* preferred_overlay: what the own instances answered
    full,       \* whether the currency needs the full backfill
    events        \* the bounded events so far

syncVars == <<stored, boot, fresh, sync, initial, values, overlay, full, events>>
work == <<initial, values, overlay, full>>

Rest == [at |-> "rest", cur |-> 0, src |-> 0]

-----------------------------------------------------------------------------
First(v) == CHOOSE d \in Days : v[d] # "none" /\ \A e \in 1 .. d - 1 : v[e] = "none"
Update(v, S, o) == [d \in Days |-> IF d \in S THEN o ELSE v[d]]
\* _merge_older_prefix: only days before the oldest one.
Older(v, S, o) == IF v = Nothing THEN Update(v, S, o) ELSE Update(v, {d \in S : d < First(v)}, o)
\* _fill_missing_days
FillMissing(v, S, o) == Update(v, {d \in S : v[d] = "none"}, o)
\* Mutant: the answers of the own instances are not put back.
LastAnswer(v) == v
\* values.update(preferred_overlay)
Preferred(v) == [d \in Days |-> IF overlay[d] # "none" THEN overlay[d] ELSE v[d]]
Recent(v) == v[LastDay] # "none"
\* Mutant: the ends are there, so is what lies between.
IsFullByEnds(v) == v[1] # "none" /\ v[LastDay - 1] # "none"
\* _is_full_market_history: dense from the start, with some lag at the end.
IsFull(v) == \A d \in 1 .. LastDay - 1 : v[d] # "none"

SyncInit ==
    /\ \E b \in Backups : stored = [c \in Listed |-> b.prices] /\ boot = [c \in Listed |-> b.boot]
    /\ fresh = FALSE /\ sync = Rest
    /\ initial = [c \in Listed |-> Nothing] /\ values = Nothing /\ overlay = Nothing /\ full = FALSE
    /\ events = [faults |-> 0, restores |-> 0, crashes |-> 0]

-----------------------------------------------------------------------------
Code == Currencies[sync.cur]
To(step) == sync' = [sync EXCEPT !.at = step, !.src = 1]
NextSource == sync' = [sync EXCEPT !.src = @ + 1]

\* A source serves what it has, a part of it (a sampled series), or nothing.
OwnAnswers == SUBSET OwnDays[sync.src]
KrakenAnswers == SUBSET KrakenDays
PublicAnswers == SUBSET Days
RecentAnswers == SUBSET {LastDay - 1, LastDay}
\* The rates of the ECB cover the whole range or none of it is converted.
DollarAnswers(S) == {{}, S}
Charge(S, answer) ==
    /\ answer = S \/ events.faults < MaxOutages
    /\ events' = IF answer = S THEN events ELSE [events EXCEPT !.faults = @ + 1]

\* The next currency, with the prices stored when the sync began.
Take(k, prices) ==
    /\ sync' = [at |-> "own", cur |-> k, src |-> 1]
    /\ values' = prices[Currencies[k]]
    /\ overlay' = Nothing
    /\ full' = (~ boot[Currencies[k]] \/ ~ IsFull(prices[Currencies[k]]))

\* By hand at any time; by the timer when incomplete or not synced for 20 hours.
Begin ==
    /\ sync.at = "rest"
    /\ initial' = stored
    /\ Take(1, stored)
    /\ UNCHANGED <<stored, boot, fresh, events>>
Due == (\E c \in Listed : ~ boot[c]) \/ ~ fresh
Timer == Due /\ Begin

\* 1) Each own instance in turn overwrites what there is and is remembered.
Own ==
    /\ sync.at = "own" /\ sync.src <= Len(OwnDays)
    /\ \E answer \in OwnAnswers :
        /\ Charge(OwnDays[sync.src], answer)
        /\ values' = Update(values, answer, OwnName[sync.src])
        /\ overlay' = FillMissing(overlay, answer, OwnName[sync.src])
    /\ NextSource
    /\ UNCHANGED <<stored, boot, fresh, initial, full>>
OwnDone ==
    /\ sync.at = "own" /\ sync.src > Len(OwnDays)
    /\ To("configured")
    /\ UNCHANGED <<stored, boot, fresh, work, events>>

\* 2) Kraken, unless its candles cannot help.
KrakenHelps ==
    /\ full \/ ~ Recent(values)
    /\ ~ (full /\ \E d \in Days : values[d] # "none" /\ \A k \in KrakenDays : d <= k)
Configured ==
    /\ sync.at = "configured"
    /\ IF KrakenHelps
       THEN \E answer \in KrakenAnswers :
            /\ Charge(KrakenDays, answer)
            /\ values' = IF answer = {} THEN values
                         ELSE Preferred(IF full THEN Older(values, answer, "kraken") ELSE Update(values, answer, "kraken"))
       ELSE UNCHANGED <<values, events>>
    /\ To("dollars")
    /\ UNCHANGED <<stored, boot, fresh, initial, overlay, full>>

\* 3) The stored dollar series, converted with the rates of the ECB.
Dollars ==
    /\ sync.at = "dollars"
    /\ LET S == IF full /\ Code # "USD" /\ "USD" \in Listed
                THEN {d \in Days : initial["USD"][d] # "none"} ELSE {} IN
       IF S = {} THEN UNCHANGED <<values, events>>
       ELSE \E answer \in DollarAnswers(S) : /\ Charge(S, answer)
                                    /\ values' = IF answer = {} THEN values ELSE Preferred(FillMissing(values, S, "usd"))
    /\ To("public")
    /\ UNCHANGED <<stored, boot, fresh, initial, overlay, full>>

\* 4) The public providers, until the series is dense.
Public ==
    /\ sync.at = "public" /\ full /\ sync.src <= Len(Providers) /\ ~ IsFull(values)
    /\ \E answer \in PublicAnswers :
        /\ Charge(Days, answer)
        /\ values' = IF answer = {} THEN values ELSE Preferred(FillMissing(values, answer, Providers[sync.src]))
    /\ NextSource
    /\ UNCHANGED <<stored, boot, fresh, initial, overlay, full>>
PublicDone ==
    /\ sync.at = "public" /\ (~ full \/ sync.src > Len(Providers) \/ IsFull(values))
    /\ To("recent")
    /\ UNCHANGED <<stored, boot, fresh, work, events>>

\* 5) The daily refresh: one public fallback for the last days.
Refresh ==
    /\ sync.at = "recent"
    /\ IF full \/ Recent(values) THEN UNCHANGED <<values, events>>
       ELSE \E answer \in RecentAnswers :
            /\ Charge({LastDay - 1, LastDay}, answer)
            /\ values' = IF answer = {} THEN values ELSE Preferred(Update(values, answer, "coingecko"))
    /\ To("store")
    /\ UNCHANGED <<stored, boot, fresh, initial, overlay, full>>

\* async_merge_prices: the values are merged into what is stored by now.
Store ==
    /\ sync.at = "store" /\ values # Nothing
    /\ stored' = [stored EXCEPT ![Code] = [d \in Days |-> IF values[d] # "none" THEN values[d] ELSE @[d]]]
    /\ To("state")
    /\ UNCHANGED <<boot, fresh, work, events>>

\* Without a single value the report of the reason fails (an undefined name),
\* and the sync with it: the currencies after this one are not reached.
Abort ==
    /\ sync.at = "store" /\ values = Nothing
    /\ sync' = Rest
    /\ UNCHANGED <<stored, boot, fresh, work, events>>

\* async_set_source_state, then the next currency or the end of the sync.
State ==
    /\ sync.at = "state"
    /\ boot' = [boot EXCEPT ![Code] = IsFull(values)]
    /\ IF sync.cur < Len(Currencies)
       THEN Take(sync.cur + 1, initial) /\ UNCHANGED fresh
       ELSE sync' = Rest /\ fresh' = TRUE /\ UNCHANGED <<values, overlay, full>>
    /\ UNCHANGED <<stored, initial, events>>

-----------------------------------------------------------------------------
Stale ==
    /\ fresh /\ fresh' = FALSE /\ sync.at = "rest"
    /\ \E c \in Listed : ~ IsFull(stored[c]) \/ ~ Recent(stored[c])
    /\ UNCHANGED <<stored, boot, sync, work, events>>

\* A backup is restored, also in the middle of a sync.
Replace ==
    /\ events.restores < MaxRestores
    /\ \E b \in Backups : stored' = [c \in Listed |-> b.prices] /\ boot' = [c \in Listed |-> b.boot]
    /\ fresh' \in BOOLEAN
    /\ events' = [events EXCEPT !.restores = @ + 1]
    /\ UNCHANGED <<sync, work>>

Crash ==
    /\ sync.at # "rest" /\ events.crashes < MaxCrashes
    /\ sync' = Rest
    /\ events' = [events EXCEPT !.crashes = @ + 1]
    /\ UNCHANGED <<stored, boot, fresh, work>>

SyncStep == Own \/ OwnDone \/ Configured \/ Dollars \/ Public \/ PublicDone \/ Refresh \/ Store \/ Abort \/ State
SyncNext == Begin \/ SyncStep \/ Stale \/ Replace \/ Crash
SyncFairness == WF_syncVars(Timer) /\ WF_syncVars(SyncStep) /\ WF_syncVars(Stale)
SyncSpec == SyncInit /\ [][SyncNext]_syncVars /\ SyncFairness

-----------------------------------------------------------------------------
(* What a sync is about to store for a day an own instance answered came   *)
(* from an own instance, whatever was asked after it.                      *)
OwnBeatsPublic == sync.at = "store" => \A d \in Days : overlay[d] # "none" => values[d] \in OwnNames

(* Once providers answer, every day of every currency is stored: a sampled *)
(* series, a backup, a crash or a currency without any value delays the    *)
(* others and loses none of them.                                          *)
HistoryFilled == \A c \in Listed : <>[](\A d \in Days : stored[c][d] # "none")

(* history.py:1840: "remains authoritative; the first configured own       *)
(* instance wins."                                                         *)
FirstOwnWins == sync.at = "store" => \A d \in Days : overlay[d] # "none" => values[d] = overlay[d]
=============================================================================
