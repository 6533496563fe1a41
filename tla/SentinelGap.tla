----------------------------- MODULE SentinelGap -----------------------------
(***************************************************************************)
(* The address gap of one branch of an HD watch target (wallet_watch.py).  *)
(* A background discovery derives addresses 0, 1, 2, ... and asks the node *)
(* about each until enough unused ones follow the last used one; the next  *)
(* few are kept in reserve, and every poll extends the watched range from  *)
(* that reserve, which needs no derivation and so no open vault.           *)
(***************************************************************************)
EXTENDS Integers, FiniteSets

CONSTANTS
  Gaps,       \* gap limits the owner may configure (receive_count)
  Bootstrap,  \* HD_DISCOVERY_BOOTSTRAP_ADDRESSES
  Limit,      \* MAX_GAP_DISCOVERY_ADDRESSES_PER_BRANCH
  Standby,    \* GAP_STANDBY_ADDRESSES_PER_BRANCH
  MaxGapFaults, MaxGapEdits     \* bounds on failed probes and on edits

ASSUME SizesAssumption == Bootstrap \in Nat /\ Limit \in Nat /\ Standby \in Nat
\* MAX_DERIVED_PER_BRANCH, the largest limit, is no larger than the reserve:
\* were it larger by two, raising the limit could leave a hole (see NoHole).
ASSUME GapAssumption == Gaps \subseteq 1 .. Standby + 1

VARIABLES
  used,     \* indices with history, on the chain
  gap,      \* the configured gap limit
  rows,     \* runtime rows by index: active or reserve, and the last answer
  search,     \* the background discovery
  ext,      \* the extension at the end of a poll
  synced,   \* a discovery ended since the limit was configured
  polled,   \* nothing happened on the chain since the last complete poll
  spent,    \* the last extension ran out of reserve
  warning,  \* last_warning
  gapFaults, gapEdits

gapVars == <<used, gap, rows, search, ext, synced, polled, spent, warning, gapFaults, gapEdits>>

Index == 0 .. Limit + Standby
Active == {i \in DOMAIN rows : rows[i].active}
Reserve == DOMAIN rows \ Active
Least(S) == CHOOSE i \in S : \A j \in S : i <= j
Greatest(S) == CHOOSE i \in S : \A j \in S : i >= j

NoSearch == [at |-> "off", try |-> 0, next |-> 0, run |-> 0, hit |-> FALSE, acc |-> [i \in {} |-> FALSE]]
FirstSearch == [NoSearch EXCEPT !.at = "wait"]
NoExt == [at |-> "off", run |-> 0, left |-> FALSE, mine |-> TRUE]

(* runtime_cache_from_config: the first addresses, as many as the limit.   *)
Seed(g) == [i \in 0 .. g - 1 |-> [active |-> TRUE, answer |-> "none", limit |-> g]]

GapInit ==
  /\ used \in SUBSET {0, 2}
  /\ gap \in Gaps
  /\ rows = Seed(gap)
  /\ search = FirstSearch /\ ext = NoExt
  /\ synced = FALSE /\ polled = FALSE /\ spent = FALSE
  /\ warning = "none"
  /\ gapFaults = 0 /\ gapEdits = 0

AnswerOf(i) == IF i \in used THEN "used" ELSE "unused"

(* A transaction reaches an address of the branch.                         *)
Use(i) ==
  /\ i \in 0 .. Limit - 1 /\ i \notin used
  /\ used' = used \cup {i}
  /\ polled' = FALSE
  /\ UNCHANGED <<gap, rows, search, ext, synced, spent, warning, gapFaults, gapEdits>>

-----------------------------------------------------------------------------
(* Discovery: _discover_gap_addresses, run by schedule_background_refresh  *)
(* under the lock the polls take, up to three times.                       *)

SearchStart ==
  /\ search.at = "wait" /\ ext.at = "off"
  /\ search' = [NoSearch EXCEPT !.at = "probe", !.try = search.try]
  /\ UNCHANGED <<used, gap, rows, ext, synced, polled, spent, warning, gapFaults, gapEdits>>

Floor == IF gap > Bootstrap THEN gap ELSE Bootstrap

(* A probe and what follows from its answer: the branch ends when the      *)
(* limit is reached behind a used address, or when nothing was used in the *)
(* first addresses at all, of which only the limit stay active.            *)
SearchProbe ==
  /\ search.at = "probe" /\ search.next < Limit
  /\ LET i == search.next
         hit == search.hit \/ i \in used
         run == IF i \in used THEN 0 ELSE search.run + 1
         acc == [j \in 0 .. i |-> IF j = i THEN AnswerOf(i) ELSE search.acc[j]]
         next == [search EXCEPT !.next = i + 1, !.hit = hit, !.run = run, !.acc = acc]
     IN search' = IF hit /\ run >= gap THEN [next EXCEPT !.at = "done"]
                ELSE IF ~hit /\ i + 1 >= Floor
                THEN [next EXCEPT !.at = "done", !.acc = [j \in 0 .. gap - 1 |-> acc[j]]]
                ELSE next
  /\ UNCHANGED <<used, gap, rows, ext, synced, polled, spent, warning, gapFaults, gapEdits>>

(* The rows found and the reserve behind them replace the branch.          *)
SearchDone ==
  /\ search.at = "done"
  /\ LET last == Greatest(DOMAIN search.acc)
     IN rows' = [i \in 0 .. last + Standby |->
          [active |-> i <= last, limit |-> gap,
           answer |-> IF i <= last THEN search.acc[i] ELSE "none"]]
  /\ search' = NoSearch /\ synced' = TRUE /\ warning' = "none" /\ spent' = FALSE
  /\ polled' = FALSE
  /\ UNCHANGED <<used, gap, ext, gapFaults, gapEdits>>

(* Two unanswered probes end an attempt, three attempts the discovery; so  *)
(* does a branch that never shows the gap.  The rows stay as they were.    *)
SearchFail ==
  /\ search.at = "probe"
  /\ \/ /\ search.next < Limit /\ gapFaults < MaxGapFaults
        /\ gapFaults' = gapFaults + 1
        /\ search' = IF search.try < 2 THEN [FirstSearch EXCEPT !.try = search.try + 1] ELSE NoSearch
     \/ /\ search.next = Limit
        /\ search' = NoSearch
        /\ gapFaults' = gapFaults
  /\ warning' = IF search' = NoSearch THEN "discovery" ELSE warning
  /\ UNCHANGED <<used, gap, rows, ext, synced, polled, spent, gapEdits>>

-----------------------------------------------------------------------------
(* A poll that reached its node: the answers of the watched addresses,     *)
(* then _maintain_gap_from_standby.                                        *)

Trailing == LET seen == {i \in Active : rows[i].answer # "unused"}
            IN Cardinality({i \in Active : \A j \in seen : i > j})

Poll ==
  /\ ext.at = "off" /\ search.at \in {"off", "wait"}
  /\ rows' = [i \in DOMAIN rows |->
       IF rows[i].active THEN [rows[i] EXCEPT !.answer = AnswerOf(i)] ELSE rows[i]]
  /\ ext' = [NoExt EXCEPT !.at = "begin"]
  /\ polled' = TRUE
  /\ UNCHANGED <<used, gap, search, synced, spent, warning, gapFaults, gapEdits>>

(* A branch that kept its reserve of unused addresses needs no call.       *)
Extend ==
  /\ ext.at = "begin"
  /\ LET limit == rows[Greatest(Active)].limit
     IN ext' = IF Trailing >= limit THEN [ext EXCEPT !.at = "close"]
               ELSE IF Reserve = {} THEN [ext EXCEPT !.at = "close", !.left = TRUE]
               ELSE [ext EXCEPT !.at = "probe", !.run = Trailing]
  /\ warning' = IF ext'.left THEN "reserve" ELSE warning
  /\ UNCHANGED <<used, gap, rows, search, synced, polled, spent, gapFaults, gapEdits>>

\* Mutant: a used address does not start the count anew.
ExtendProbeCounting ==
  /\ ext.at = "probe"
  /\ IF ext.run >= rows[Greatest(Active)].limit \/ Reserve = {}
     THEN ext' = [ext EXCEPT !.at = "close", !.left = (Reserve = {})] /\ UNCHANGED rows
     ELSE LET i == Least(Reserve)
          IN /\ rows' = [rows EXCEPT ![i].active = TRUE, ![i].answer = AnswerOf(i)]
             /\ ext' = [ext EXCEPT !.run = @ + 1]
  /\ UNCHANGED <<used, gap, search, synced, polled, spent, warning, gapFaults, gapEdits>>

(* The next reserve address becomes active, and counts by its answer.  An  *)
(* edit meanwhile has left this loop the old rows.                         *)
ExtendProbe ==
  /\ ext.at = "probe"
  /\ IF ~ext.mine
     THEN ext' = [ext EXCEPT !.at = "close"] /\ UNCHANGED <<rows, warning>>
     ELSE LET limit == rows[Greatest(Active)].limit
          IN IF ext.run >= limit
             THEN ext' = [ext EXCEPT !.at = "close"] /\ UNCHANGED <<rows, warning>>
             ELSE IF Reserve = {}
             THEN /\ ext' = [ext EXCEPT !.at = "close", !.left = TRUE]
                  /\ warning' = "reserve" /\ UNCHANGED rows
             ELSE LET i == Least(Reserve)
                  IN /\ rows' = [rows EXCEPT ![i].active = TRUE, ![i].answer = AnswerOf(i)]
                     /\ ext' = [ext EXCEPT !.run = IF i \in used THEN 0 ELSE @ + 1]
                     /\ UNCHANGED warning
  /\ UNCHANGED <<used, gap, search, synced, polled, spent, gapFaults, gapEdits>>

(* An error of the extension is a partial failure of the poll.             *)
ExtendFail ==
  /\ ext.at = "probe" /\ gapFaults < MaxGapFaults
  /\ gapFaults' = gapFaults + 1
  /\ ext' = NoExt /\ polled' = FALSE /\ warning' = "partial"
  /\ UNCHANGED <<used, gap, rows, search, synced, spent, gapEdits>>

(* The end of the poll: a poll without partial failures clears the warning *)
(* whoever wrote it (async_poll:4721).                                     *)
PollClose ==
  /\ ext.at = "close"
  /\ ext' = NoExt
  /\ spent' = ext.left
  /\ warning' = "none"
  /\ UNCHANGED <<used, gap, rows, search, synced, polled, gapFaults, gapEdits>>

-----------------------------------------------------------------------------
(* The watch target is saved with another limit: the scan is cancelled,    *)
(* the rows are rebuilt, and a new scan is queued.  Rows the seed names    *)
(* keep their old limit as well as their state; the others take the new.   *)
Reconfigure ==
  /\ gapEdits < MaxGapEdits
  /\ gapEdits' = gapEdits + 1
  /\ \E g \in Gaps \ {gap} :
       /\ gap' = g
       /\ rows' = [i \in DOMAIN rows \cup DOMAIN Seed(g) |->
            IF i \notin DOMAIN rows THEN Seed(g)[i]
            ELSE IF i \in DOMAIN Seed(g) THEN rows[i]
            ELSE [rows[i] EXCEPT !.limit = g]]
  /\ search' = FirstSearch
  /\ ext' = [ext EXCEPT !.mine = (ext.at = "off")]
  /\ synced' = FALSE /\ polled' = FALSE
  /\ UNCHANGED <<used, spent, warning, gapFaults>>

GapNext ==
  \/ \E i \in Index : Use(i)
  \/ SearchStart \/ SearchProbe \/ SearchDone \/ SearchFail
  \/ Poll \/ Extend \/ ExtendProbe \/ ExtendFail \/ PollClose
  \/ Reconfigure

GapSpec == GapInit /\ [][GapNext]_gapVars

-----------------------------------------------------------------------------
(* The promise of the gap limit: an address is watched as soon as it is    *)
(* used, if no run of as many unused addresses as the limit lies before    *)
(* it.  It holds whenever a discovery and then a poll ended and the chain  *)
(* has not moved since, unless the reserve ran out: the extension counts   *)
(* from answers that are as old as the last poll (wallet_watch.py:2643).   *)
Promised(i) == \A j \in 0 .. i - gap : \E u \in used : j <= u /\ u < j + gap
UsedIsWatched ==
  (synced /\ polled /\ ext.at = "off" /\ search.at = "off" /\ ~spent) =>
    \A i \in used : Promised(i) => i \in Active

(* The watched range has no hole: the extension takes the reserve in order *)
(* and an edit of the limit keeps it, whatever scan or poll it meets.      *)
NoHole == \A i \in Active : \A j \in 0 .. i : j \in Active

(* The watched range reaches where the owner was promised, unbroken.       *)
WatchedRange == UsedIsWatched /\ NoHole

(* "Sats Sentinel gap standby exhausted ... Unlock the vault once to       *)
(* replenish pre-derived addresses." (wallet_watch.py:2654)                *)
ExhaustedIsShown == (spent /\ ext.at = "off" /\ polled /\ gapEdits = 0) => warning = "reserve"
=============================================================================
