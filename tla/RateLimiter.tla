---------------------------- MODULE RateLimiter ----------------------------
(***************************************************************************)
(* OperationRateLimiter (rate_limit.py): a sliding window of the admitted  *)
(* calls of every portfolio, user and operation, asked by the service and  *)
(* panel handlers before anything expensive, and cleared when an unlock    *)
(* succeeds.  It lives in RAM and outlasts reloads of the portfolio.       *)
(*                                                                         *)
(* monotonic() is counted in ticks, Second of them in a second, because    *)
(* the answer "try again in n seconds" rounds.                             *)
(***************************************************************************)
EXTENDS Integers, Sequences

CONSTANTS
    Keys,       \* (portfolio, user, operation)
    Unlocks,    \* the keys whose operation is unlock_vault
    Limit,      \* calls admitted per window, for each key
    Window,     \* length of the window in ticks, for each key
    Second,     \* ticks in a second
    None,
    MaxTime     \* bound on the clock

ASSUME RuleAssumption ==
    /\ Unlocks \subseteq Keys
    /\ Limit \in [Keys -> Nat \ {0}]
    /\ Window \in [Keys -> Nat \ {0}]
ASSUME ClockAssumption == Second \in Nat \ {0} /\ MaxTime \in Nat
ASSUME NoneAssumption == None \notin Int

VARIABLES
    now,      \* monotonic()
    events,   \* _events: the times of admitted calls not yet dropped
    granted,  \* history: all admitted calls since the key was cleared
    notice    \* when the last refused caller was told to come back

limiterVars == <<now, events, granted, notice>>

\* The type of every variable.
LimiterTypeOK ==
    /\ now \in Nat
    /\ events \in [Keys -> Seq(Nat)]
    /\ granted \in [Keys -> Seq(Nat)]
    /\ notice \in [Keys -> Nat \cup {None}]

LimiterInit ==
    /\ now = 0
    /\ events = [k \in Keys |-> <<>>]
    /\ granted = [k \in Keys |-> <<>>]
    /\ notice = [k \in Keys |-> None]

-----------------------------------------------------------------------------
\* The "while" loop of check drops the n oldest events of the key.
Drops(k, n) ==
    /\ n \in 0 .. Len(events[k])
    /\ \A i \in 1 .. n : events[k][i] <= now - Window[k]
    /\ n < Len(events[k]) => events[k][n + 1] > now - Window[k]

Kept(k, n) == SubSeq(events[k], n + 1, Len(events[k]))

\* Mutant: compares with ">" where the limit is already reached.
FullTooLate(k, n) == Len(events[k]) - n > Limit[k]

Full(k, n) == Len(events[k]) - n >= Limit[k]

\* Mutant: forgets that int() rounds down.
RetryAfterRoundedDown(k, oldest) ==
    LET seconds == (Window[k] - (now - oldest)) \div Second
    IN IF seconds > 1 THEN seconds ELSE 1

\* max(1, int(window_seconds - (now - events[0])) + 1)
RetryAfter(k, oldest) ==
    LET seconds == (Window[k] - (now - oldest)) \div Second + 1
    IN IF seconds > 1 THEN seconds ELSE 1

\* check that answers allowed=True
Admit(k) ==
    \E n \in 0 .. Len(events[k]) :
        /\ Drops(k, n) /\ ~ Full(k, n)
        /\ events' = [events EXCEPT ![k] = Append(Kept(k, n), now)]
        /\ granted' = [granted EXCEPT ![k] = Append(@, now)]
        /\ notice' = [notice EXCEPT ![k] = None]
        /\ UNCHANGED now

\* check that answers allowed=False with retry_after
Refuse(k) ==
    \E n \in 0 .. Len(events[k]) :
        /\ Drops(k, n) /\ Full(k, n)
        /\ events' = [events EXCEPT ![k] = Kept(k, n)]
        /\ notice' = [notice EXCEPT ![k] =
                         now + Second * RetryAfter(k, events[k][n + 1])]
        /\ UNCHANGED <<now, granted>>

\* clear_user after an unlock has succeeded; other attempts may be in flight
ClearUser(k) ==
    /\ events' = [events EXCEPT ![k] = <<>>]
    /\ granted' = [granted EXCEPT ![k] = <<>>]
    /\ notice' = [notice EXCEPT ![k] = None]
    /\ UNCHANGED now

\* "State is intentionally volatile and resets with Home Assistant."
Restart ==
    /\ events' = [k \in Keys |-> <<>>]
    /\ granted' = [k \in Keys |-> <<>>]
    /\ notice' = [k \in Keys |-> None]
    /\ UNCHANGED now

Tick ==
    /\ now < MaxTime
    /\ now' = now + 1
    /\ UNCHANGED <<events, granted, notice>>

LimiterNext ==
    \/ \E k \in Keys : Admit(k) \/ Refuse(k)
    \/ \E k \in Unlocks : ClearUser(k)
    \/ Restart
    \/ Tick

LimiterSpec == LimiterInit /\ [][LimiterNext]_limiterVars

-----------------------------------------------------------------------------
(* Properties *)

\* In no window of time are more calls admitted than the rule of the operation
\* allows, although check remembers only the events it has not dropped: a call
\* and the call Limit places later are at least a window apart.
WindowRespected ==
    \A k \in Keys : \A i \in 1 .. Len(granted[k]) :
        i > Limit[k] => granted[k][i] - granted[k][i - Limit[k]] >= Window[k]

WouldRefuse(k) == \E n \in 0 .. Len(events[k]) : Drops(k, n) /\ Full(k, n)

\* A refused caller that waits the seconds it was told is admitted, unless
\* another call was admitted under the same key in the meantime.
RetryHonest ==
    \A k \in Keys : notice[k] # None /\ now >= notice[k] => ~ WouldRefuse(k)

\* And it is told to wait at most a second longer than it has to.
RetryTight ==
    \A k \in Keys : notice[k] # None =>
        /\ Len(events[k]) = Limit[k]
        /\ notice[k] <= events[k][1] + Window[k] + Second

\* The rounded answer is right: late enough, and by at most a second too late.
RetryRight == RetryHonest /\ RetryTight

=============================================================================
