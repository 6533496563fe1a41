------------------------------- MODULE Overview -------------------------------
(***************************************************************************)
(* The transaction overview of a watched wallet (wallet_watch.py,          *)
(* async_monitor_transactions): a page of its history, read on request     *)
(* from an Electrum server, which answers whole histories, or from a       *)
(* mempool instance, which answers them in pages of one address.           *)
(***************************************************************************)
EXTENDS Integers, FiniteSetsExt, SequencesExt

CONSTANTS
    Addrs,          \* the rows of the wallet, in their order
    N,              \* transactions 1 .. N, mined in this order
    PerPage,        \* confirmed transactions a mempool instance answers at once
    PageSize,       \* transactions on a page of the overview
    Limits,         \* how many are asked for, 0 for page by page
    MaxPage,
    MaxSilent       \* answers that do not come

ASSUME PageAssumption ==
    /\ PerPage \in Nat \ {0} /\ PageSize \in Nat \ {0}
    /\ N \in Nat /\ Limits \subseteq Nat /\ MaxPage \in Nat

VARIABLES
    touches,    \* touches[t]: the rows of which transaction t moves coins
    pool,       \* the transactions not mined yet
    kind,       \* kind[t]: what t does to the wallet
    ask,        \* the request: its source, limit and page
    at,         \* how far it is
    loaded,     \* transactions read so far
    cursors,    \* cursors[a]: the oldest transaction read of a, where more may follow
    todo,       \* rows this round has still to ask
    pageIsList, \* the variable `page` holds the last answer, not the page number
    raws,       \* transactions whose bytes were answered
    warned,     \* the answer carries a warning
    answer,     \* what is shown
    faults

overviewVars == <<touches, pool, kind, ask, at, loaded, cursors, todo, pageIsList, raws,
          warned, answer, faults>>
world == <<touches, pool, kind, ask>>

Txs == 1 .. N

\* "in" pays the wallet, "out" spends its coins, "wide" spends its coins and pays
\* it, from more inputs than the overview looks up.
TxKinds == {"in", "out", "wide"}

\* Newest first: what is not mined yet comes before what is.
Newer(t, u) == \/ t \in pool /\ u \notin pool
               \/ (t \in pool) = (u \in pool) /\ t > u
Rank(S, t) == Cardinality({u \in S : Newer(u, t)})
Slice(S, from, to) == {t \in S : Rank(S, t) >= from /\ Rank(S, t) < to}

Mine == {t \in Txs : touches[t] # {}}
History(a) == {t \in Txs : a \in touches[t]}
Mined(S) == S \ pool
NoCursors == [a \in {} |-> 0]
NoAnswer == [shown |-> {}, outgoing |-> {}, more |-> FALSE, error |-> FALSE]

Unlimited == ask.limit = 0

\* The transactions of S the request is about.
Wanted(S) ==
    IF Unlimited THEN Slice(S, (ask.page - 1) * PageSize, ask.page * PageSize)
    ELSE Slice(S, 0, ask.limit)

MoreThanPages(S) == ask.page * PageSize < Cardinality(S)

Target == IF Unlimited THEN ask.page * PageSize ELSE ask.limit

\* At most one more answer is missing; a missing one leaves a warning.
Fails(asked, failing) ==
    /\ failing \subseteq asked
    /\ faults + Cardinality(failing) <= MaxSilent
    /\ faults' = faults + Cardinality(failing)
    /\ warned' = (warned \/ failing # {})

OverviewInit ==
    /\ touches \in [Txs -> SUBSET Range(Addrs)]
    /\ pool \in {S \in SUBSET Txs : Cardinality(S) <= 1}
    /\ kind \in [Txs -> TxKinds]
    /\ ask \in [source : {"electrum", "mempool"}, limit : Limits, page : 1 .. MaxPage]
    /\ (ask.limit # 0 => ask.page = 1)
    /\ (ask.source = "mempool" => kind = [t \in Txs |-> "in"])
    /\ at = "ask" /\ loaded = {} /\ cursors = NoCursors /\ todo = <<>>
    /\ pageIsList = FALSE /\ raws = {} /\ warned = FALSE /\ answer = NoAnswer
    /\ faults = 0

-----------------------------------------------------------------------------
(* _monitor_overview_electrum *)

Histories ==
    /\ at = "ask" /\ ask.source = "electrum"
    /\ \E silent \in SUBSET Range(Addrs) :
          /\ Fails(Range(Addrs), silent)
          /\ loaded' = UNION {History(a) : a \in Range(Addrs) \ silent}
    /\ at' = "raw"
    /\ UNCHANGED <<world, cursors, todo, pageIsList, raws, answer>>

Raws ==
    /\ at = "raw"
    /\ \E silent \in SUBSET Wanted(loaded) :
          /\ Fails(Wanted(loaded), silent)
          /\ raws' = Wanted(loaded) \ silent
    /\ at' = "prevouts"
    /\ UNCHANGED <<world, loaded, cursors, todo, pageIsList, answer>>

\* Mutant: a lookup that is skipped is not worth a warning.
SkipSilently(wide) == warned' = warned
\* The previous transactions of a payment to the wallet with too many inputs are
\* not looked up.
Skip(wide) == warned' = (warned \/ wide # {})

Prevouts ==
    /\ at = "prevouts"
    /\ LET wide == {t \in raws : kind[t] = "wide"}
           spends == {t \in raws : kind[t] = "out"}
       IN \E silent \in SUBSET spends :
            /\ faults + Cardinality(silent) <= MaxSilent
            /\ faults' = faults + Cardinality(silent)
            /\ IF silent # {} THEN warned' = TRUE ELSE Skip(wide)
            /\ answer' = [shown |-> raws \ silent,
                          outgoing |-> spends \ silent,
                          more |-> Unlimited /\ MoreThanPages(loaded),
                          error |-> FALSE]
    /\ at' = "done"
    /\ UNCHANGED <<world, loaded, cursors, todo, pageIsList, raws>>

-----------------------------------------------------------------------------
(* _monitor_overview_mempool *)

\* The newest mined transactions of a below the cursor, a page of them.
Older(a, cursor) ==
    LET mined == {t \in Mined(History(a)) : t < cursor}
    IN Slice(mined, 0, PerPage)
Full(page) == Cardinality(page) >= PerPage

FirstPages ==
    /\ at = "ask" /\ ask.source = "mempool"
    /\ \E silent \in SUBSET Range(Addrs) :
          LET heard == Range(Addrs) \ silent
              First(a) == (History(a) \cap pool) \cup Older(a, N + 1)
          IN /\ Fails(Range(Addrs), silent)
             /\ loaded' = UNION {First(a) : a \in heard}
             /\ cursors' = IF Cardinality(loaded') >= Target THEN NoCursors
                           ELSE [a \in {b \in heard : Full(Older(b, N + 1))} |->
                                   Min(Older(a, N + 1))]
             /\ todo' = SelectSeq(Addrs, LAMBDA a : a \in DOMAIN cursors')
             /\ at' = IF DOMAIN cursors' = {} THEN "finish" ELSE "round"
    /\ UNCHANGED <<world, pageIsList, raws, answer>>

\* One row of a round. The answer is kept in `page`, the name of the page number.
NextPage ==
    /\ at = "round"
    /\ LET a == Head(todo)
           page == Older(a, cursors[a])
       IN \/ /\ Fails({a}, {a})
             /\ cursors' = [b \in DOMAIN cursors \ {a} |-> cursors[b]]
             /\ UNCHANGED <<loaded, pageIsList>>
          \/ /\ pageIsList' = TRUE
             /\ loaded' = loaded \cup page
             /\ cursors' = [b \in (IF Full(page) THEN DOMAIN cursors ELSE DOMAIN cursors \ {a}) |->
                              IF b = a THEN Min(page) ELSE cursors[b]]
             /\ UNCHANGED <<warned, faults>>
    /\ LET enough == Cardinality(loaded') >= Target
           rest == IF Len(todo) > 1 THEN Tail(todo)
                   ELSE SelectSeq(Addrs, LAMBDA b : b \in DOMAIN cursors')
       IN /\ todo' = IF enough THEN <<>> ELSE rest
          /\ at' = IF enough \/ rest = <<>> THEN "finish" ELSE "round"
    /\ UNCHANGED <<world, raws, answer>>

Finish ==
    /\ at = "finish"
    /\ answer' = IF pageIsList THEN [NoAnswer EXCEPT !.error = TRUE]
                 ELSE [shown |-> Wanted(loaded), outgoing |-> {},
                       more |-> Unlimited /\ (DOMAIN cursors # {} \/ MoreThanPages(loaded)),
                       error |-> FALSE]
    /\ at' = "done"
    /\ UNCHANGED <<world, loaded, cursors, todo, pageIsList, raws, warned, faults>>

OverviewNext == Histories \/ Raws \/ Prevouts \/ FirstPages \/ NextPage \/ Finish
OverviewSpec == OverviewInit /\ [][OverviewNext]_overviewVars

-----------------------------------------------------------------------------
Answered == at = "done" /\ ~ answer.error

(* What is missing from a page, or shown as what it is not, is warned      *)
(* about: a page without a warning is the page of the wallet's whole       *)
(* history, and what it shows as incoming spends no coin of the wallet.    *)
(* Of a mempool instance this holds as far as one answer of it reaches.    *)
PageExact ==
    Answered /\ ~ warned /\ (ask.source = "electrum" \/ Target <= PerPage) =>
        /\ answer.shown = Wanted(Mine)
        /\ ask.source = "electrum" =>
              answer.outgoing = {t \in answer.shown : kind[t] # "in"}

(* Reading on as long as there is more ends behind the last transaction.   *)
MoreIsHonest ==
    Answered /\ ~ warned /\ Unlimited /\ ask.source = "electrum" =>
        answer.more = (\E t \in Mine : Rank(Mine, t) >= ask.page * PageSize)

(* A page is what it claims to be, and so is the promise of another.       *)
OverviewExact == PageExact /\ MoreIsHonest

(* wallet_watch.py:3888: "A single heavily reused address can need Esplora *)
(* chain pagination. In unlimited mode we only walk far enough to fill the *)
(* requested page": a request is answered.                                 *)
OverviewServed == ~ answer.error
=============================================================================
