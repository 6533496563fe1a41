------------------------------- MODULE LivePrice -------------------------------
(***************************************************************************)
(* The live price (coordinator.py).  Every source is asked at its own pace *)
(* in cycles that ask one source after the other; each keeps its last      *)
(* answer.  A cycle shows, for each currency, the answer of the first      *)
(* source that has a fresh one, public sources first, and stores it as a   *)
(* sample.  A market price is the consensus of several providers, of which *)
(* some are unreachable and one may be wildly wrong.                       *)
(*                                                                         *)
(* Times are ages, in units of one request's timeout.                       *)
(***************************************************************************)
EXTENDS Integers, Sequences, FiniteSets, FiniteSetsExt, SequencesExt

CONSTANTS
    Sources,        \* the configured sources, in order
    Currencies,
    LocalInterval, PublicInterval,
    Grace,          \* 90 seconds
    Providers,
    Fair, Wild,     \* prices honest providers quote, and the wrong ones
    Outages,        \* bound on unreachable providers while one is wrong
    NoPrice

Index == DOMAIN Sources
ASSUME LiveAssumption ==
    /\ Sources \in Seq([kind : {"entity", "mempool", "market"}, own : BOOLEAN])
    /\ {LocalInterval, PublicInterval, Grace} \subseteq Nat \ {0}
    /\ IsFiniteSet(Currencies)
    /\ NoPrice \notin [from : Index, age : Nat, sound : BOOLEAN]
    /\ \A some \in SUBSET Index : NoPrice # some

IsPublic(s) == \/ Sources[s].kind = "market"
               \/ Sources[s].kind = "mempool" /\ ~Sources[s].own
Interval(s) == IF IsPublic(s) THEN PublicInterval ELSE LocalInterval
Cycle == Min({Interval(s) : s \in Index} \cup {LocalInterval})
MaxAge(s) == Max({Grace, 3 * Interval(s)})
Oldest == Max({MaxAge(s) : s \in Index})

\* The requests a source is asked with, one after the other: an entity is read
\* without any, the market is asked for each currency.
Requests(s) == IF Sources[s].kind = "market" THEN Cardinality(Currencies)
               ELSE IF Sources[s].kind = "mempool" THEN 1 ELSE 0
AllRequests == UNION {{s} \X (1 .. Requests(s)) : s \in Index}
Longest == Cycle + 2 * Cardinality(AllRequests)

(***************************************************************************)
(* The consensus of the providers' quotes.                                 *)
(***************************************************************************)
Abs(x) == IF x < 0 THEN -x ELSE x
Valid(quotes) == {p \in Providers : quotes[p] # NoPrice}
TwiceMedian(quotes) ==
    LET sorted == SetToSortSeq(Valid(quotes), LAMBDA p, q : quotes[p] <= quotes[q])
        n == Len(sorted)
    IN  quotes[sorted[(n + 1) \div 2]] + quotes[sorted[n \div 2 + 1]]

WithinFivePercent(quotes, p) ==
    20 * Abs(2 * quotes[p] - TwiceMedian(quotes)) <= TwiceMedian(quotes)

\* Mutant: quotes far above the median are kept.
AveragedAbove(quotes) ==
    LET close == {p \in Valid(quotes) : 2 * quotes[p] > TwiceMedian(quotes) \/ WithinFivePercent(quotes, p)}
    IN  IF Cardinality(Valid(quotes)) >= 3 /\ Cardinality(close) >= 2 THEN close ELSE Valid(quotes)

Averaged(quotes) ==
    LET close == {p \in Valid(quotes) : WithinFivePercent(quotes, p)}
    IN  IF Cardinality(Valid(quotes)) >= 3 /\ Cardinality(close) >= 2 THEN close ELSE Valid(quotes)

Mean(quotes) ==
    MapThenSumSet(LAMBDA p : quotes[p], Averaged(quotes)) \div Cardinality(Averaged(quotes))

\* What providers may answer: honest quotes, or one wild quote among at least
\* three while at most Outages are unreachable.
Quotes == {quotes \in [Providers -> Fair \cup Wild \cup {NoPrice}] :
              LET wild == {p \in Providers : quotes[p] \in Wild}
              IN  wild # {} => /\ Cardinality(wild) = 1
                               /\ Cardinality(Providers \ Valid(quotes)) <= Outages}

\* A price is sound when it is within five percent of what the honest quote.
Plausible(price) == 100 * price >= 95 * Min(Fair) /\ 100 * price <= 105 * Max(Fair)
PublicPrices == {Plausible(Mean(quotes)) : quotes \in {q \in Quotes : Valid(q) # {}}}

(***************************************************************************)
(* The coordinator.                                                        *)
(***************************************************************************)
VARIABLES
    cache,      \* the last answer of each source: its age, and the currencies it had
    asked,      \* time since the last attempt, from the start of its cycle
    due,        \* sources this cycle has still to ask; NoPrice between cycles
    elapsed,    \* time since the cycle began, or until the next
    shown,      \* for each currency: the source, the age of its answer and whether it is sound
    persisted,  \* the source whose last answer is the last sample's time
    failed      \* attempts of each source that failed since its last answer, at most two

liveVars == <<cache, asked, due, elapsed, shown, persisted, failed>>

Aged(age, last) == Min({age + 1, last + 1})
NoAnswer == [age |-> Oldest + 1, has |-> [c \in Currencies |-> NoPrice]]

LiveInit ==
    /\ cache = [s \in Index |-> NoAnswer]
    /\ asked = [s \in Index |-> 0]
    /\ due = NoPrice /\ elapsed = Cycle
    /\ shown = [c \in Currencies |-> NoPrice]
    /\ persisted = NoPrice
    /\ failed = [s \in Index |-> 2]

IsDue(s) == cache[s] = NoAnswer \/ asked[s] >= Interval(s)

\* The attempts of a cycle count from its start.
BeginCycle ==
    /\ due = NoPrice /\ elapsed >= Cycle
    /\ due' = {s \in Index : IsDue(s)}
    /\ elapsed' = 0
    /\ asked' = [s \in Index |-> IF IsDue(s) THEN 0 ELSE asked[s]]
    /\ UNCHANGED <<cache, shown, persisted, failed>>

Answered(s, has) ==
    /\ cache' = [cache EXCEPT ![s] = [age |-> 0, has |-> has]]
    /\ persisted' = IF persisted = s THEN NoPrice ELSE persisted
    /\ failed' = [failed EXCEPT ![s] = 0]

Prices(s) == IF Sources[s].kind = "market" THEN PublicPrices ELSE {TRUE}

\* An answer has some of the currencies; one without any is a failure.
Answer(s) ==
    \E has \in [Currencies -> Prices(s) \cup {NoPrice}] :
        (\E c \in Currencies : has[c] # NoPrice) /\ Answered(s, has)

\* A failure leaves the last answer.
Fail(s) ==
    /\ failed' = [failed EXCEPT ![s] = Min({@ + 1, 2})]
    /\ UNCHANGED <<cache, persisted>>

\* Sources are asked in order.
Asked == Min(due)
Ask ==
    /\ due \notin {NoPrice, {}}
    /\ Answer(Asked) \/ Fail(Asked)
    /\ due' = due \ {Asked}
    /\ UNCHANGED <<asked, elapsed, shown>>

\* Freshness is judged at the time the cycle began.
\* Mutant: a public answer is shown for as long as there is none newer.
StillFreshWhilePublic(s) == cache[s] # NoAnswer /\ (IsPublic(s) \/ cache[s].age - elapsed <= MaxAge(s))

StillFresh(s) == cache[s] # NoAnswer /\ cache[s].age - elapsed <= MaxAge(s)

ComesBefore(s, r) == IF IsPublic(s) = IsPublic(r) THEN s < r ELSE IsPublic(s)
Selected(c) == {s \in Index : /\ StillFresh(s) /\ cache[s].has[c] # NoPrice
                              /\ \A r \in Index : ComesBefore(r, s) => ~(StillFresh(r) /\ cache[r].has[c] # NoPrice)}
Newest == LET all == UNION {Selected(c) : c \in Currencies}
          IN  {s \in all : \A r \in all : cache[s].age <= cache[r].age}

\* Storing the sample may fail, which leaves it for the next cycle.
EndCycle ==
    /\ due = {}
    /\ due' = NoPrice /\ elapsed' = 0
    /\ shown' = [c \in Currencies |->
           IF Selected(c) = {} THEN NoPrice
           ELSE LET s == CHOOSE s \in Selected(c) : TRUE
                IN  [from |-> s, age |-> cache[s].age, sound |-> cache[s].has[c]]]
    /\ \/ persisted' = persisted
       \/ persisted' \in Newest
    /\ UNCHANGED <<cache, asked, failed>>

\* A request that is not answered by its timeout has failed.
TimePasses ==
    /\ due = NoPrice => elapsed < Cycle
    /\ due # NoPrice => /\ due # {} /\ Requests(Asked) > 0
                       /\ elapsed < Cardinality({r \in AllRequests : asked[r[1]] = elapsed
                                                                  /\ r[1] \notin due \ {Asked}})
    /\ elapsed' = elapsed + 1
    /\ cache' = [s \in Index |-> [cache[s] EXCEPT !.age = Aged(@, Oldest + Longest)]]
    /\ asked' = [s \in Index |-> asked[s] + 1]
    /\ shown' = [c \in Currencies |->
           IF shown[c] = NoPrice THEN NoPrice ELSE [shown[c] EXCEPT !.age = Aged(@, Oldest + Longest)]]
    /\ UNCHANGED <<due, persisted, failed>>

\* New settings load the entry anew.
Reload ==
    /\ cache' = [s \in Index |-> NoAnswer]
    /\ asked' = [s \in Index |-> 0]
    /\ due' = NoPrice /\ elapsed' = Cycle
    /\ shown' = [c \in Currencies |-> NoPrice]
    /\ persisted' = NoPrice
    /\ failed' = [s \in Index |-> 2]

LiveNext == BeginCycle \/ Ask \/ EndCycle \/ TimePasses \/ Reload
LiveSpec == LiveInit /\ [][LiveNext]_liveVars

(***************************************************************************)
(* Properties.                                                             *)
(***************************************************************************)
\* A price the dashboard shows is sound whichever provider is wrong and whichever
\* are out, was answered at most three intervals, a pause and two cycles' requests
\* ago, and does not vanish for one failed attempt of the source that has it.
ShownIsRecent == \A c \in Currencies :
    shown[c] # NoPrice => shown[c].age <= MaxAge(shown[c].from) + Longest
ShownIsSound == \A c \in Currencies : shown[c] # NoPrice => shown[c].sound
OneFailureIsHidden == \A c \in Currencies :
    (due = NoPrice /\ \E s \in Index : failed[s] <= 1 /\ cache[s].has[c] # NoPrice) => shown[c] # NoPrice
LivePriceRight == ShownIsRecent /\ ShownIsSound /\ OneFailureIsHidden
=============================================================================
