----------------------------- MODULE WatchProofs -----------------------------
(***************************************************************************)
(* Theorems about five modules of Sats Sentinel that share no state: the   *)
(* routing guard of the node (Routing), the address gap of a branch        *)
(* (SentinelGap), the places where the watch targets and the node are kept *)
(* (SentinelConfig), the transaction overview (Overview), and what is made *)
(* of one transaction (Movements).  Each part defines the inductive        *)
(* invariant of its module, proves that every action keeps it, one lemma   *)
(* per action or kind of step, and reads the checked invariant off it.     *)
(* Nothing is assumed of the bounds but that they are numbers, of how many *)
(* requests, addresses or targets there are, or of which faults happen.    *)
(***************************************************************************)
EXTENDS SentinelConfig, SentinelGap, Routing, Overview, Movements, SumProofs,
        SequenceTheorems, FiniteSetTheorems, TLAPS

-----------------------------------------------------------------------------
(* Routing.                                                                *)
(*                                                                         *)
(* The counters are right because every way out of a session closes what   *)
(* its way in has opened; one node is told because the source is chosen by *)
(* the configuration alone, which a session cannot change.  The invariant  *)
(* says so session by session.                                             *)

Stations == {"idle", "gateway", "connect", "open", "again"}
SessionRecs == [at : Stations, host : {NoHost, Selected},
                route : Routes \cup {"none", "direct", "socks"}, retried : BOOLEAN,
                peer : {"none", "unknown", "private"}]

RoutingTypes ==
    /\ session \in [Requests -> SessionRecs]
    /\ tor \in [begun : Int, done : Int, failed : Int]

\* What a session knows of its way in: nothing at rest; an Electrum connection
\* is outside the guard; every other one has a guarded route, and its far end
\* is private once it is open.
RecordFacts(x) ==
    /\ x.at = "gateway" => x.route = "tor"
    /\ x.at \in {"connect", "again"} => x.route \in Routes
    /\ x.at # "idle" => x.host = Selected
    /\ x.at = "open" =>
          \/ IsElectrum(x.host) /\ x.route \notin Routes
          \/ ~ IsElectrum(x.host) /\ x.route \in Routes /\ x.peer = "private"
    /\ x.at \in {"gateway", "connect", "again"} => ~ IsElectrum(x.host)
SessionFacts == \A r \in Requests : RecordFacts(session[r])

ToldOne == asked \subseteq {Selected.name}

RoutingInv == RoutingTypes /\ SessionFacts /\ ToldOne /\ ActiveIsOpen

OpenOn(k) == {r \in Requests : Counted(r) /\ Key(session[r]) = k}
ThroughTor == {r \in Requests : Counted(r) /\ session[r].route = "tor"}
LEMMA SelectedStays == UNCHANGED config => Selected' = Selected
  BY DEF Selected, Electrum, OwnOnes, PublicOnes, Allowed

\* What max(0, n) of the counters is.
LEMMA MaxZero == ASSUME NEW n \in Int PROVE Max({0, n}) = IF n < 0 THEN 0 ELSE n
<1> DEFINE m == IF n < 0 THEN 0 ELSE n
<1>1. m \in {0, n} /\ \A y \in {0, n} : m >= y
  OBVIOUS
<1>2. \A x \in {0, n} : (\A y \in {0, n} : x >= y) => x = m
  OBVIOUS
<1> QED
  BY <1>1, <1>2 DEF Max

\* Adding or taking one request to or from some of them.
LEMMA OneMore ==
  ASSUME NEW S \in SUBSET Requests, NEW r \in Requests
  PROVE  /\ r \notin S => Cardinality(S \cup {r}) = Cardinality(S) + 1
         /\ r \in S => Cardinality(S \ {r}) = Cardinality(S) - 1
         /\ r \in S => Cardinality(S) # 0
<1>1. IsFiniteSet(S)
  BY RequestsAssumption, FS_Subset
<1> QED
  BY <1>1, FS_AddElement, FS_RemoveElement, FS_EmptySet, FS_CardinalityType

LEMMA SomeAreCounted == ASSUME NEW S \in SUBSET Requests PROVE Cardinality(S) \in Nat
  BY RequestsAssumption, FS_Subset, FS_CardinalityType

\* The counter that is looked up, a missing one included.
LEMMA CountIsOpen ==
  ASSUME ActiveIsOpen, NEW k
  PROVE  CountOf(k) = Cardinality(OpenOn(k)) /\ CountOf(k) \in Nat
<1>1. OpenOn(k) \in SUBSET Requests
  BY DEF OpenOn
<1>2. CASE k \in DOMAIN active
  BY <1>1, <1>2, SomeAreCounted DEF CountOf, ActiveIsOpen, OpenOn
<1>3. CASE k \notin DOMAIN active
  <2>1. OpenOn(k) = {}
    BY <1>3 DEF OpenOn, ActiveIsOpen
  <2> QED
    BY <1>3, <2>1, FS_EmptySet DEF CountOf
<1> QED
  BY <1>2, <1>3

\* A session comes to be counted, and the counter of its key goes up.
LEMMA Opening1 ==
  ASSUME ActiveIsOpen, NEW r \in Requests, NEW k, ~ Counted(r), Counted(r)',
         Key(session'[r]) = k, \A q \in Requests \ {r} : session'[q] = session[q],
         active' = Count(k, CountOf(k) + 1)
  PROVE  /\ \A j \in DOMAIN active' : active'[j] = Cardinality(OpenOn(j)')
         /\ \A q \in Requests : Counted(q)' => Key(session'[q]) \in DOMAIN active'
<1>1. \A j : OpenOn(j)' = IF j = k THEN OpenOn(j) \cup {r} ELSE OpenOn(j)
  BY DEF OpenOn, Counted
<1>2. \A j : r \notin OpenOn(j) /\ OpenOn(j) \in SUBSET Requests
  BY DEF OpenOn
<1>3. Cardinality(OpenOn(k)') = Cardinality(OpenOn(k)) + 1
  <2>1. OpenOn(k)' = OpenOn(k) \cup {r}
    BY <1>1
  <2> QED
    BY <1>2, <2>1, OneMore
<1>4. CountOf(k) = Cardinality(OpenOn(k))
  BY CountIsOpen
<1>5. /\ DOMAIN active' = DOMAIN active \cup {k}
      /\ active'[k] = CountOf(k) + 1
      /\ \A j \in DOMAIN active \ {k} : active'[j] = active[j]
  BY DEF Count
<1>6. ASSUME NEW j \in DOMAIN active' PROVE active'[j] = Cardinality(OpenOn(j)')
  <2>1. CASE j = k
    BY <1>3, <1>4, <1>5, <2>1
  <2>2. CASE j # k
    <3>1. OpenOn(j)' = OpenOn(j) /\ j \in DOMAIN active
      BY <1>1, <1>5, <1>6, <2>2
    <3> QED
      BY <1>5, <2>2, <3>1 DEF ActiveIsOpen, OpenOn
  <2> QED
    BY <2>1, <2>2
<1>7. ASSUME NEW q \in Requests, Counted(q)' PROVE Key(session'[q]) \in DOMAIN active'
  <2>1. CASE q = r
    BY <1>5, <2>1
  <2>2. CASE q # r
    BY <1>5, <1>7, <2>2 DEF Counted, ActiveIsOpen
  <2> QED
    BY <2>1, <2>2
<1> QED
  BY <1>6, <1>7

\* A session ends, and the counter of its key goes down.
LEMMA Closing1 ==
  ASSUME ActiveIsOpen, NEW r \in Requests, NEW k, Counted(r), ~ Counted(r)',
         Key(session[r]) = k, \A q \in Requests \ {r} : session'[q] = session[q],
         active' = Count(k, Max({0, CountOf(k) - 1}))
  PROVE  /\ \A j \in DOMAIN active' : active'[j] = Cardinality(OpenOn(j)')
         /\ \A q \in Requests : Counted(q)' => Key(session'[q]) \in DOMAIN active'
<1>1. \A j : OpenOn(j)' = IF j = k THEN OpenOn(j) \ {r} ELSE OpenOn(j)
  BY DEF OpenOn, Counted
<1>2. r \in OpenOn(k) /\ \A j : OpenOn(j) \in SUBSET Requests
  BY DEF OpenOn
<1>3. /\ Cardinality(OpenOn(k)') = Cardinality(OpenOn(k)) - 1
      /\ Cardinality(OpenOn(k)) # 0
  <2>1. OpenOn(k)' = OpenOn(k) \ {r}
    BY <1>1
  <2> QED
    BY <1>2, <2>1, OneMore
<1>4. CountOf(k) = Cardinality(OpenOn(k)) /\ CountOf(k) \in Nat
  BY CountIsOpen
<1>5. Max({0, CountOf(k) - 1}) = CountOf(k) - 1
  BY <1>3, <1>4, MaxZero
<1>6. /\ DOMAIN active' = DOMAIN active \cup {k}
      /\ active'[k] = CountOf(k) - 1
      /\ \A j \in DOMAIN active \ {k} : active'[j] = active[j]
  BY <1>5 DEF Count
<1>7. ASSUME NEW j \in DOMAIN active' PROVE active'[j] = Cardinality(OpenOn(j)')
  <2>1. CASE j = k
    BY <1>3, <1>4, <1>6, <2>1
  <2>2. CASE j # k
    <3>1. OpenOn(j)' = OpenOn(j) /\ j \in DOMAIN active
      BY <1>1, <1>6, <1>7, <2>2
    <3> QED
      BY <1>6, <2>2, <3>1 DEF ActiveIsOpen, OpenOn
  <2> QED
    BY <2>1, <2>2
<1>8. ASSUME NEW q \in Requests, Counted(q)' PROVE Key(session'[q]) \in DOMAIN active'
  <2>1. q # r
    BY <1>8
  <2> QED
    BY <1>6, <1>8, <2>1 DEF Counted, ActiveIsOpen
<1> QED
  BY <1>7, <1>8

\* The first two parts of ActiveIsOpen in the words of the lemmas above.
LEMMA ActiveParts ==
  ActiveIsOpen <=>
    /\ \A j \in DOMAIN active : active[j] = Cardinality(OpenOn(j))
    /\ \A q \in Requests : Counted(q) => Key(session[q]) \in DOMAIN active
    /\ tor.begun = tor.done + tor.failed + Cardinality(ThroughTor)
  BY DEF ActiveIsOpen, OpenOn, ThroughTor

LEMMA ActivePartsNext ==
  ActiveIsOpen' <=>
    /\ \A j \in DOMAIN active' : active'[j] = Cardinality(OpenOn(j)')
    /\ \A q \in Requests : Counted(q)' => Key(session'[q]) \in DOMAIN active'
    /\ tor'.begun = tor'.done + tor'.failed + Cardinality(ThroughTor')
  BY DEF ActiveIsOpen, OpenOn, ThroughTor

\* The sessions through Tor that are under way after one comes or goes.
LEMMA TorSessions ==
  ASSUME NEW r \in Requests, \A q \in Requests \ {r} : session'[q] = session[q]
  PROVE  /\ ThroughTor \in SUBSET Requests
         /\ ~ Counted(r) /\ Counted(r)' /\ session'[r].route = "tor" =>
               Cardinality(ThroughTor') = Cardinality(ThroughTor) + 1
         /\ Counted(r) /\ session[r].route = "tor" /\ ~ Counted(r)' =>
               Cardinality(ThroughTor') = Cardinality(ThroughTor) - 1
         /\ (Counted(r) /\ session[r].route = "tor" <=> Counted(r)' /\ session'[r].route = "tor")
               => ThroughTor' = ThroughTor
<1>1. ThroughTor \in SUBSET Requests
  BY DEF ThroughTor
<1>2. ASSUME ~ Counted(r), Counted(r)', session'[r].route = "tor"
      PROVE  Cardinality(ThroughTor') = Cardinality(ThroughTor) + 1
  <2>1. ThroughTor' = ThroughTor \cup {r} /\ r \notin ThroughTor
    BY <1>2 DEF ThroughTor, Counted
  <2> QED
    BY <1>1, <2>1, OneMore
<1>3. ASSUME Counted(r), session[r].route = "tor", ~ Counted(r)'
      PROVE  Cardinality(ThroughTor') = Cardinality(ThroughTor) - 1
  <2>1. ThroughTor' = ThroughTor \ {r} /\ r \in ThroughTor
    BY <1>3 DEF ThroughTor, Counted
  <2> QED
    BY <1>1, <2>1, OneMore
<1>4. ASSUME Counted(r) /\ session[r].route = "tor" <=> Counted(r)' /\ session'[r].route = "tor"
      PROVE  ThroughTor' = ThroughTor
  BY <1>4 DEF ThroughTor, Counted
<1> QED
  BY <1>1, <1>2, <1>3, <1>4
-----------------------------------------------------------------------------
LEMMA RoutingStart == RoutingInit => RoutingInv
<1> SUFFICES ASSUME RoutingInit PROVE RoutingInv
  OBVIOUS
<1>1. \A r \in Requests : session[r] = Closed
  BY DEF RoutingInit
<1>2. RoutingTypes
  <2>1. Closed \in SessionRecs
    BY DEF Closed, SessionRecs, Stations, Routes
  <2> QED
    BY <2>1 DEF RoutingInit, RoutingTypes
<1>3. SessionFacts
  BY <1>1 DEF SessionFacts, RecordFacts, Closed
<1>4. ToldOne
  BY DEF RoutingInit, ToldOne
<1>5. ActiveIsOpen
  <2>1. \A r \in Requests : ~ Counted(r)
    BY <1>1 DEF Counted, Closed
  <2>2. ThroughTor = {}
    BY <2>1 DEF ThroughTor
  <2>3. Cardinality(ThroughTor) = 0
    BY <2>2, FS_EmptySet
  <2> QED
    BY <2>1, <2>3, ActiveParts DEF RoutingInit
<1> QED
  BY <1>2, <1>3, <1>4, <1>5 DEF RoutingInv

\* What a step of request r has to show: the record it leaves, and that it
\* opened and closed what it should.
LEMMA RoutingStep ==
  ASSUME RoutingInv, NEW r \in Requests, UNCHANGED config,
         \A q \in Requests \ {r} : session'[q] = session[q],
         DOMAIN session' = Requests, session' = [q \in Requests |-> session'[q]],
         session'[r] \in SessionRecs, RecordFacts(session'[r]),
         asked' \subseteq asked \cup {Selected.name},
         tor' \in [begun : Int, done : Int, failed : Int], ActiveIsOpen'
  PROVE  RoutingInv'
<1>1. Selected' = Selected
  BY SelectedStays
<1>2. SessionRecs' = SessionRecs
  BY <1>1 DEF SessionRecs
<1>3. RoutingTypes'
  BY <1>2 DEF RoutingTypes, RoutingInv
<1>4. SessionFacts'
  BY <1>1 DEF SessionFacts, RecordFacts, RoutingInv
<1>5. ToldOne'
  BY <1>1 DEF ToldOne, RoutingInv
<1> QED
  BY <1>3, <1>4, <1>5 DEF RoutingInv

\* A step at whose two ends the session is counted alike moves no counter.
LEMMA NothingOpened ==
  ASSUME ActiveIsOpen, NEW r \in Requests,
         \A q \in Requests \ {r} : session'[q] = session[q],
         Counted(r)' <=> Counted(r),
         \/ ~ Counted(r)
         \/ session'[r].route = session[r].route /\ session'[r].host = session[r].host,
         active' = active, tor' = tor
  PROVE  ActiveIsOpen'
<1>1. \A j : OpenOn(j)' = OpenOn(j)
  BY DEF OpenOn, Counted, Key
<1>2. ThroughTor' = ThroughTor
  BY DEF ThroughTor, Counted
<1>3. \A q \in Requests : Counted(q)' => Key(session'[q]) \in DOMAIN active'
  BY ActiveParts DEF Counted, Key
<1> QED
  BY <1>1, <1>2, <1>3, ActiveParts, ActivePartsNext

LEMMA SessionOpened ==
  ASSUME RoutingInv, NEW r \in Requests, ~ Counted(r), Counted(r)',
         \A q \in Requests \ {r} : session'[q] = session[q],
         active' = Count(Key(session'[r]), CountOf(Key(session'[r])) + 1),
         tor' = IF session'[r].route = "tor" THEN [tor EXCEPT !.begun = @ + 1] ELSE tor
  PROVE  ActiveIsOpen' /\ tor' \in [begun : Int, done : Int, failed : Int]
<1>1. ActiveIsOpen /\ tor \in [begun : Int, done : Int, failed : Int]
  BY DEF RoutingInv, RoutingTypes
<1>2. /\ \A j \in DOMAIN active' : active'[j] = Cardinality(OpenOn(j)')
      /\ \A q \in Requests : Counted(q)' => Key(session'[q]) \in DOMAIN active'
  BY <1>1, Opening1
<1>3. tor'.begun = tor'.done + tor'.failed + Cardinality(ThroughTor')
  <2>1. Cardinality(ThroughTor) \in Nat
    BY SomeAreCounted DEF ThroughTor
  <2>2. tor.begun = tor.done + tor.failed + Cardinality(ThroughTor)
    BY <1>1, ActiveParts
  <2>3. CASE session'[r].route = "tor"
    <3>1. Cardinality(ThroughTor') = Cardinality(ThroughTor) + 1
      BY <2>3, TorSessions
    <3> QED
      BY <1>1, <2>1, <2>2, <2>3, <3>1
  <2>4. CASE session'[r].route # "tor"
    <3>1. ThroughTor' = ThroughTor
      BY <2>4, TorSessions
    <3> QED
      BY <2>2, <2>4, <3>1
  <2> QED
    BY <2>3, <2>4
<1>4. ActiveIsOpen'
  BY <1>2, <1>3, ActivePartsNext
<1> QED
  BY <1>1, <1>4

LEMMA SessionClosed ==
  ASSUME RoutingInv, NEW r \in Requests, NEW failed \in BOOLEAN, Counted(r), ~ Counted(r)',
         \A q \in Requests \ {r} : session'[q] = session[q], CloseSession(r, failed)
  PROVE  ActiveIsOpen' /\ tor' \in [begun : Int, done : Int, failed : Int]
<1>1. ActiveIsOpen /\ tor \in [begun : Int, done : Int, failed : Int]
  BY DEF RoutingInv, RoutingTypes
<1>2. /\ \A j \in DOMAIN active' : active'[j] = Cardinality(OpenOn(j)')
      /\ \A q \in Requests : Counted(q)' => Key(session'[q]) \in DOMAIN active'
  BY <1>1, Closing1 DEF CloseSession
<1>3. tor'.begun = tor'.done + tor'.failed + Cardinality(ThroughTor')
  <2>1. Cardinality(ThroughTor) \in Nat
    BY SomeAreCounted DEF ThroughTor
  <2>2. tor.begun = tor.done + tor.failed + Cardinality(ThroughTor)
    BY <1>1, ActiveParts
  <2>3. CASE session[r].route = "tor"
    <3>1. Cardinality(ThroughTor') = Cardinality(ThroughTor) - 1
      BY <2>3, TorSessions
    <3>2. /\ tor'.begun = tor.begun
          /\ tor'.done + tor'.failed = tor.done + tor.failed + 1
          /\ tor'.done \in Int /\ tor'.failed \in Int
      BY <1>1, <2>3 DEF CloseSession
    <3> QED
      BY <1>1, <2>1, <2>2, <3>1, <3>2
  <2>4. CASE session[r].route # "tor"
    <3>1. ThroughTor' = ThroughTor
      BY <2>4, TorSessions
    <3> QED
      BY <2>2, <2>4, <3>1 DEF CloseSession
  <2> QED
    BY <2>3, <2>4
<1>4. ActiveIsOpen'
  BY <1>2, <1>3, ActivePartsNext
<1>5. tor' \in [begun : Int, done : Int, failed : Int]
  BY <1>1 DEF CloseSession
<1> QED
  BY <1>4, <1>5
LEMMA RoutingPreserved == RoutingInv /\ [RoutingNext]_routingVars => RoutingInv'
<1> SUFFICES ASSUME RoutingInv, [RoutingNext]_routingVars PROVE RoutingInv'
  OBVIOUS
<1> /\ session \in [Requests -> SessionRecs]
    /\ tor \in [begun : Int, done : Int, failed : Int]
    /\ ActiveIsOpen
  BY DEF RoutingInv, RoutingTypes
<1>0. CASE UNCHANGED routingVars
  <2>1. Selected' = Selected
    BY <1>0, SelectedStays DEF routingVars
  <2>2. RoutingTypes' /\ SessionFacts' /\ ToldOne'
    BY <1>0, <2>1 DEF RoutingInv, RoutingTypes, SessionRecs, SessionFacts, RecordFacts,
       ToldOne, routingVars
  <2>3. ActiveIsOpen'
    BY <1>0 DEF ActiveIsOpen, Counted, Key, routingVars
  <2> QED
    BY <2>2, <2>3 DEF RoutingInv
<1>1. ASSUME NEW r \in Requests,
             \/ Begin(r) \/ BeginElectrum(r) \/ EndElectrum(r) \/ Gateway(r)
             \/ Connect(r) \/ Respond(r) \/ NotFound(r) \/ Again(r)
      PROVE  RoutingInv'
  <2> DEFINE x == session[r]  y == session'[r]
  <2>f. x \in SessionRecs /\ RecordFacts(x)
    BY DEF RoutingInv, SessionFacts
  <2>c. Closed \in SessionRecs /\ RecordFacts(Closed) /\ Closed.at = "idle" /\ Selected.name \in {Selected.name}
    BY DEF Closed, SessionRecs, Stations, Routes, RecordFacts
  <2>s. /\ UNCHANGED config
        /\ \A q \in Requests \ {r} : session'[q] = session[q]
        /\ DOMAIN session' = Requests /\ session' = [q \in Requests |-> session'[q]]
    BY <1>1 DEF Begin, BeginElectrum, EndElectrum, Gateway, Connect, Respond, NotFound, Again
  <2>t. asked' \subseteq asked \cup {Selected.name}
    BY <1>1, <2>f DEF Begin, BeginElectrum, EndElectrum, Gateway, Connect, Respond,
       NotFound, Again, RecordFacts
  <2>1. CASE Begin(r)
    <3>1. x.at = "idle" /\ ~ IsElectrum(Selected) /\ tor' = tor
      BY <2>1 DEF Begin
    <3>2. CASE Direct(Selected)
      <4>1. y = [[Closed EXCEPT !.host = Selected] EXCEPT !.at = "connect", !.route = "local-direct"]
        BY <2>1, <3>2 DEF Begin
      <4>2. y = [at |-> "connect", host |-> Selected, route |-> "local-direct",
                 retried |-> FALSE, peer |-> "none"]
        BY <4>1 DEF Closed
      <4>3. y \in SessionRecs /\ RecordFacts(y)
        BY <3>1, <4>2 DEF SessionRecs, Stations, Routes, RecordFacts
      <4>4. Key(y) = <<"local-direct", Selected.name>> /\ Counted(r)' /\ ~ Counted(r)
        BY <3>1, <4>2 DEF Key, Counted, Routes
      <4>5. active' = Count(Key(y), CountOf(Key(y)) + 1)
        BY <2>1, <3>2, <4>4 DEF Begin
      <4>6. y.route # "tor"
        BY <4>2
      <4>7. ActiveIsOpen' /\ tor' \in [begun : Int, done : Int, failed : Int]
        BY <2>s, <3>1, <4>4, <4>5, <4>6, SessionOpened
      <4> QED
        BY <2>s, <2>t, <4>3, <4>7, RoutingStep
    <3>3. CASE ~ Direct(Selected)
      <4>1. y = [[Closed EXCEPT !.host = Selected] EXCEPT !.at = "gateway", !.route = "tor"]
        BY <2>1, <3>3 DEF Begin
      <4>2. y = [at |-> "gateway", host |-> Selected, route |-> "tor",
                 retried |-> FALSE, peer |-> "none"]
        BY <4>1 DEF Closed
      <4>3. y \in SessionRecs /\ RecordFacts(y)
        BY <3>1, <4>2 DEF SessionRecs, Stations, Routes, RecordFacts
      <4>4. ~ Counted(r)' /\ ~ Counted(r) /\ active' = active
        BY <2>1, <3>1, <3>3, <4>2 DEF Begin, Counted
      <4>5. ActiveIsOpen'
        BY <2>s, <3>1, <4>4, NothingOpened
      <4> QED
        BY <2>s, <2>t, <3>1, <4>3, <4>5, RoutingStep
    <3> QED
      BY <3>2, <3>3
  <2>2. CASE BeginElectrum(r)
    <3>1. x.at = "idle" /\ IsElectrum(Selected) /\ tor' = tor /\ active' = active
      BY <2>2 DEF BeginElectrum
    <3>2. CASE y = x
      <4>1. ActiveIsOpen'
        BY <2>s, <3>1, <3>2, NothingOpened DEF Counted
      <4> QED
        BY <2>f, <2>s, <2>t, <3>1, <3>2, <4>1, RoutingStep
    <3>3. CASE y # x
      <4>1. y = [Closed EXCEPT !.at = "open", !.host = Selected,
                   !.route = IF Direct(Selected) THEN "direct" ELSE "socks",
                   !.peer = IF Direct(Selected) THEN "unknown" ELSE "private"]
        BY <2>2, <3>3 DEF BeginElectrum
      <4>2. y = [at |-> "open", host |-> Selected,
                 route |-> IF Direct(Selected) THEN "direct" ELSE "socks", retried |-> FALSE,
                 peer |-> IF Direct(Selected) THEN "unknown" ELSE "private"]
        BY <4>1 DEF Closed
      <4>3. y \in SessionRecs /\ RecordFacts(y)
        BY <3>1, <4>2 DEF SessionRecs, Stations, Routes, RecordFacts
      <4>4. ~ Counted(r)' /\ ~ Counted(r)
        BY <3>1, <4>2 DEF Counted, Routes
      <4>5. ActiveIsOpen'
        BY <2>s, <3>1, <4>4, NothingOpened
      <4> QED
        BY <2>s, <2>t, <3>1, <4>3, <4>5, RoutingStep
    <3> QED
      BY <3>2, <3>3
  <2>3. CASE EndElectrum(r)
    <3>1. x.at = "open" /\ IsElectrum(x.host) /\ y = Closed /\ tor' = tor /\ active' = active
      BY <2>3 DEF EndElectrum
    <3>2. ~ Counted(r)' /\ ~ Counted(r)
      BY <2>c, <2>f, <3>1 DEF Counted, RecordFacts
    <3>3. ActiveIsOpen'
      BY <2>s, <3>1, <3>2, NothingOpened
    <3> QED
      BY <2>c, <2>s, <2>t, <3>1, <3>3, RoutingStep
  <2>4. CASE Gateway(r)
    <3>1. x.at = "gateway" /\ ~ Counted(r) /\ x.route = "tor" /\ ~ IsElectrum(x.host)
      BY <2>4, <2>f DEF Gateway, Counted, RecordFacts
    <3>2. CASE session' = [session EXCEPT ![r].at = "connect"]
      <4>1. /\ active' = Count(Key(x), CountOf(Key(x)) + 1)
            /\ tor' = [tor EXCEPT !.begun = @ + 1]
        <5>1. Closed.at # "connect" /\ (session' = [session EXCEPT ![r] = Closed] => y = Closed)
          BY <2>c
        <5>2. y.at = "connect"
          BY <3>2 DEF SessionRecs
        <5> QED
          BY <2>4, <5>1, <5>2 DEF Gateway
      <4>2. y = [x EXCEPT !.at = "connect"]
        BY <3>2
      <4>3. /\ y.at = "connect" /\ y.host = x.host /\ y.route = x.route
            /\ y.peer = x.peer /\ y \in SessionRecs
        BY <2>f, <4>2 DEF SessionRecs, Stations
      <4>4. Key(y) = Key(x) /\ Counted(r)' /\ RecordFacts(y)
        BY <2>f, <3>1, <4>3 DEF Key, Counted, RecordFacts, Routes
      <4>5. ActiveIsOpen' /\ tor' \in [begun : Int, done : Int, failed : Int]
        BY <2>s, <3>1, <4>1, <4>3, <4>4, SessionOpened
      <4> QED
        BY <2>s, <2>t, <4>3, <4>4, <4>5, RoutingStep
    <3>3. CASE session' = [session EXCEPT ![r] = Closed] /\ UNCHANGED <<active, tor>>
      <4>1. y = Closed
        BY <3>3
      <4>2. ActiveIsOpen'
        BY <2>c, <2>s, <3>1, <3>3, <4>1, NothingOpened DEF Counted
      <4> QED
        BY <2>c, <2>s, <2>t, <3>3, <4>1, <4>2, RoutingStep
    <3> QED
      BY <2>4, <3>2, <3>3 DEF Gateway
  <2>5. CASE Connect(r)
    <3>1. x.at = "connect" /\ x.route \in Routes /\ Counted(r) /\ ~ IsElectrum(x.host)
      BY <2>5, <2>f DEF Connect, Counted, RecordFacts
    <3>2. CASE session' = [session EXCEPT ![r] = Closed] /\ CloseSession(r, TRUE)
      <4>1. y = Closed
        BY <3>2
      <4>2. ActiveIsOpen' /\ tor' \in [begun : Int, done : Int, failed : Int]
        BY <2>c, <2>s, <3>1, <3>2, <4>1, SessionClosed DEF Counted
      <4> QED
        BY <2>c, <2>s, <2>t, <4>1, <4>2, RoutingStep
    <3>3. CASE session' = [session EXCEPT ![r].at = "open", ![r].peer = "private"]
               /\ UNCHANGED <<active, tor>>
      <4>1. y = [x EXCEPT !.at = "open", !.peer = "private"]
        BY <3>3
      <4>2. /\ y.at = "open" /\ y.host = x.host /\ y.route = x.route
            /\ y.peer = "private" /\ y \in SessionRecs
        BY <2>f, <4>1 DEF SessionRecs, Stations
      <4>3. Counted(r)' /\ RecordFacts(y)
        BY <2>f, <3>1, <4>2 DEF Counted, RecordFacts
      <4>4. ActiveIsOpen'
        BY <2>s, <3>1, <3>3, <4>2, <4>3, NothingOpened
      <4> QED
        BY <2>s, <2>t, <3>3, <4>2, <4>3, <4>4, RoutingStep
    <3> QED
      BY <2>5, <3>2, <3>3 DEF Connect, AcceptsAll
  <2>6. CASE Respond(r)
    <3>1. PICK failed \in BOOLEAN : CloseSession(r, failed)
      BY <2>6 DEF Respond
    <3>2. x.at = "open" /\ y = Closed /\ Counted(r)
      BY <2>6, <2>f DEF Respond, Counted, RecordFacts
    <3>3. ActiveIsOpen' /\ tor' \in [begun : Int, done : Int, failed : Int]
      BY <2>c, <2>s, <3>1, <3>2, SessionClosed DEF Counted
    <3> QED
      BY <2>c, <2>s, <2>t, <3>2, <3>3, RoutingStep
  <2>7. CASE NotFound(r)
    <3>1. x.at = "open" /\ Counted(r) /\ CloseSession(r, TRUE) /\ x.route \in Routes
          /\ ~ IsElectrum(x.host)
      BY <2>7, <2>f DEF NotFound, Counted, RecordFacts
    <3>2. y = [x EXCEPT !.at = "again", !.retried = TRUE, !.peer = "none"]
      BY <2>7 DEF NotFound
    <3>3. y.at = "again" /\ y.host = x.host /\ y.route = x.route /\ y \in SessionRecs
      BY <2>f, <3>2 DEF SessionRecs, Stations
    <3>4. ~ Counted(r)' /\ RecordFacts(y)
      BY <2>f, <3>1, <3>3 DEF Counted, RecordFacts
    <3>5. ActiveIsOpen' /\ tor' \in [begun : Int, done : Int, failed : Int]
      BY <2>s, <3>1, <3>4, SessionClosed
    <3> QED
      BY <2>s, <2>t, <3>3, <3>4, <3>5, RoutingStep
  <2>8. CASE Again(r)
    <3>1. x.at = "again" /\ x.route \in Routes /\ ~ Counted(r) /\ tor' = tor
          /\ ~ IsElectrum(x.host)
      BY <2>8, <2>f DEF Again, Counted, RecordFacts
    <3>2. CASE x.route = "tor"
      <4>1. y = [x EXCEPT !.at = "gateway"] /\ active' = active
        BY <2>8, <3>2 DEF Again
      <4>2. y.at = "gateway" /\ y.host = x.host /\ y.route = x.route /\ y \in SessionRecs
        BY <2>f, <4>1 DEF SessionRecs, Stations
      <4>3. ~ Counted(r)' /\ RecordFacts(y)
        BY <2>f, <3>1, <3>2, <4>2 DEF Counted, RecordFacts
      <4>4. ActiveIsOpen'
        BY <2>s, <3>1, <4>1, <4>3, NothingOpened
      <4> QED
        BY <2>s, <2>t, <3>1, <4>2, <4>3, <4>4, RoutingStep
    <3>3. CASE x.route # "tor"
      <4>1. /\ y = [x EXCEPT !.at = "connect"]
            /\ active' = Count(Key(x), CountOf(Key(x)) + 1)
        BY <2>8, <3>3 DEF Again
      <4>2. y.at = "connect" /\ y.host = x.host /\ y.route = x.route /\ y \in SessionRecs
        BY <2>f, <4>1 DEF SessionRecs, Stations
      <4>3. Key(y) = Key(x) /\ Counted(r)' /\ RecordFacts(y)
        BY <2>f, <3>1, <4>2 DEF Key, Counted, RecordFacts
      <4>4. ActiveIsOpen' /\ tor' \in [begun : Int, done : Int, failed : Int]
        BY <2>s, <3>1, <3>3, <4>1, <4>2, <4>3, SessionOpened
      <4> QED
        BY <2>s, <2>t, <4>2, <4>3, <4>4, RoutingStep
    <3> QED
      BY <3>2, <3>3
  <2> QED
    BY <1>1, <2>1, <2>2, <2>3, <2>4, <2>5, <2>6, <2>7, <2>8
<1> QED
  BY <1>0, <1>1 DEF RoutingNext

\* The invariant says what the run checks: at most one node is told.
LEMMA RoutingInvSays == RoutingInv => RoutesRight
<1> SUFFICES ASSUME RoutingInv PROVE RoutesRight
  OBVIOUS
<1>1. \A r \in Requests : Counted(r) /\ session[r].at = "open" => session[r].peer = "private"
  BY DEF RoutingInv, SessionFacts, RecordFacts, Counted
<1>2. Cardinality(asked) <= 1
  <2>1. asked \in SUBSET {Selected.name}
    BY DEF RoutingInv, ToldOne
  <2>2. IsFiniteSet({Selected.name}) /\ Cardinality({Selected.name}) = 1
    BY FS_Singleton
  <2> QED
    BY <2>1, <2>2, FS_Subset
<1> QED
  BY <1>1, <1>2 DEF RoutingInv, RoutesRight, OneNodePrivately

\* The counters of the panel show the connections there are, every session
\* through Tor ends as one success or one failure, guarded sessions end at a
\* private address, and at most one node is ever told of a watched address
\* (network.py async_routed_session, _LocalOnlyResolver, the connection
\* records; wallet_watch.py _select_watch_source, _address_api_json).
THEOREM GuardKeepsItsPromise == RoutingSpec => []RoutesRight
<1>1. RoutingSpec => []RoutingInv
  BY RoutingStart, RoutingPreserved, PTL DEF RoutingSpec
<1> QED
  BY <1>1, RoutingInvSays, PTL

-----------------------------------------------------------------------------
(* The address gap.                                                        *)
(*                                                                         *)
(* The promise holds at the end of a poll because the last "gap" watched   *)
(* addresses are unused then: whatever is used beyond them lies behind a   *)
(* run of that many unused ones.  The invariant follows that run through   *)
(* the extension, and the shape of the rows (watched ones first, then the  *)
(* reserve) through scans, polls and edits.                                *)

RowRecs == [active : BOOLEAN, answer : {"none", "used", "unused"}, limit : Gaps]

\* The rows 0 .. d, of which 0 .. a are watched.
RowsAre(a, d) ==
    /\ a \in Nat /\ d \in Nat /\ a <= d /\ (a = d \/ Standby <= d)
    /\ DOMAIN rows = 0 .. d /\ rows \in [0 .. d -> RowRecs]
    /\ \A i \in 0 .. d : rows[i].active <=> i <= a

\* The last n of the watched addresses a .. 0 answered that they are unused.
Unbroken(a, n) ==
    /\ n <= a + 1
    /\ \A k \in 0 .. a : a < k + n => rows[k].answer = "unused"

SearchFacts ==
    /\ search.at \in {"off", "wait", "probe", "done"}
    /\ search.next \in Nat
    /\ search.at = "probe" => DOMAIN search.acc = 0 .. search.next - 1
    /\ search.at = "done" => \E m \in Nat : DOMAIN search.acc = 0 .. m
    /\ \A j \in DOMAIN search.acc : search.acc[j] \in {"used", "unused"}
    /\ search.at # "off" => ~ synced
    /\ DOMAIN search = {"at", "try", "next", "run", "hit", "acc"}

ExtRecs ==
    [at : {"off", "begin", "probe", "close"}, run : Nat, left : BOOLEAN, mine : BOOLEAN]
ExtFacts ==
    /\ ext \in ExtRecs
    /\ ext.at # "off" => search.at \in {"off", "wait"}
    /\ ~ ext.mine => ext.at # "off" /\ ~ synced

AnswerFacts ==
    /\ synced => \A i \in DOMAIN rows : rows[i].limit = gap
    /\ polled => \A i \in Active : rows[i].answer = AnswerOf(i)

\* How far the run of unused addresses is known, step by step.
RunFacts(a) ==
    synced =>
      /\ ext.at = "probe" => Unbroken(a, ext.run)
      /\ ext.at = "close" /\ ~ ext.left => Unbroken(a, gap)
      /\ ext.at = "off" /\ polled /\ ~ spent => Unbroken(a, gap)

GapInv ==
    /\ used \subseteq Nat /\ gap \in Gaps
    /\ synced \in BOOLEAN /\ polled \in BOOLEAN /\ spent \in BOOLEAN
    /\ SearchFacts /\ ExtFacts /\ AnswerFacts
    /\ \E a, d \in Nat : RowsAre(a, d) /\ RunFacts(a)
LEMMA GapsAreNat == \A g \in Gaps : g \in Nat /\ 1 <= g /\ g <= Standby + 1
  BY SizesAssumption, GapAssumption

\* The shape of the rows tells which are watched, where they end and where the
\* reserve begins.
LEMMA RowShape ==
  ASSUME NEW a \in Nat, NEW d \in Nat, RowsAre(a, d)
  PROVE  /\ Active = 0 .. a /\ Reserve = (a + 1) .. d
         /\ Greatest(Active) = a
         /\ a < d => Reserve # {} /\ Least(Reserve) = a + 1
         /\ a = d => Reserve = {}
<1>1. a <= d /\ DOMAIN rows = 0 .. d /\ \A i \in 0 .. d : rows[i].active <=> i <= a
  BY DEF RowsAre
<1>2. Active = 0 .. a
  BY <1>1 DEF Active
<1>3. Reserve = (a + 1) .. d
  BY <1>1, <1>2 DEF Reserve
<1>4. Greatest(Active) = a
  <2>1. a \in Active /\ \A j \in Active : a >= j
    BY <1>2
  <2>2. \A i \in Active : (\A j \in Active : i >= j) => i = a
    BY <1>2
  <2> QED BY <2>1, <2>2 DEF Greatest
<1>5. ASSUME a < d PROVE Reserve # {} /\ Least(Reserve) = a + 1
  <2>1. a + 1 \in Reserve /\ \A j \in Reserve : a + 1 <= j
    BY <1>3, <1>5
  <2>2. \A i \in Reserve : (\A j \in Reserve : i <= j) => i = a + 1
    BY <1>3, <1>5
  <2> QED BY <2>1, <2>2 DEF Least
<1>6. a = d => Reserve = {}
  BY <1>3
<1> QED BY <1>2, <1>3, <1>4, <1>5, <1>6

\* What the extension counts is a run of unused addresses at the end.
LEMMA TrailingRun ==
  ASSUME NEW a \in Nat, NEW d \in Nat, RowsAre(a, d)
  PROVE  Trailing \in Nat /\ Unbroken(a, Trailing)
<1> DEFINE replied == {i \in Active : rows[i].answer # "unused"}
           T == {i \in Active : \A j \in replied : i > j}
<1>1. Active = 0 .. a
  BY RowShape
<1>2. Trailing = Cardinality(T)
  BY DEF Trailing
<1>3. IsFiniteSet(0 .. a) /\ Cardinality(0 .. a) = a + 1
  BY FS_Interval
<1>4. IsFiniteSet(T) /\ Cardinality(T) \in Nat /\ Cardinality(T) <= a + 1
  <2>1. T \subseteq 0 .. a
    BY <1>1
  <2>2. IsFiniteSet(T) /\ Cardinality(T) <= Cardinality(0 .. a)
    BY <2>1, <1>3, FS_Subset
  <2>3. Cardinality(T) \in Nat
    BY <2>2, FS_CardinalityType
  <2> QED BY <2>2, <2>3, <1>3
<1>5. ASSUME NEW k \in 0 .. a, rows[k].answer # "unused" PROVE ~ (a < k + Cardinality(T))
  <2>1. k \in replied
    BY <1>1, <1>5
  <2>2. T \subseteq (k + 1) .. a
    BY <2>1, <1>1
  <2>3. IsFiniteSet((k + 1) .. a) /\ Cardinality((k + 1) .. a) = IF k + 1 > a THEN 0 ELSE a - (k + 1) + 1
    BY FS_Interval
  <2>4. Cardinality(T) <= Cardinality((k + 1) .. a)
    BY <2>2, <2>3, FS_Subset
  <2>5. Cardinality((k + 1) .. a) = a - k
    BY <2>3
  <2> HIDE DEF T
  <2> QED BY <2>4, <2>5, <1>4
<1> HIDE DEF T
<1> QED BY <1>2, <1>4, <1>5 DEF Unbroken

\* A step that leaves the rows and the configured limit alone.
LEMMA ShapeKept ==
  ASSUME UNCHANGED rows
  PROVE  /\ Active' = Active
         /\ \A a, d \in Nat : RowsAre(a, d) => RowsAre(a, d)'
         /\ \A a, n \in Nat : Unbroken(a, n) => Unbroken(a, n)'
  BY DEF Active, RowsAre, Unbroken, RowRecs

LEMMA GapStart == GapInit => GapInv
<1> SUFFICES ASSUME GapInit PROVE GapInv
  OBVIOUS
<1>1. gap \in Gaps /\ gap \in Nat /\ gap >= 1
  BY GapsAreNat DEF GapInit
<1>2. used \subseteq Nat
  BY DEF GapInit
<1>3. SearchFacts
  BY DEF GapInit, SearchFacts, FirstSearch, NoSearch
<1>4. ExtFacts
  BY DEF GapInit, ExtFacts, ExtRecs, NoExt
<1>5. AnswerFacts /\ synced \in BOOLEAN /\ polled \in BOOLEAN /\ spent \in BOOLEAN
  BY DEF GapInit, AnswerFacts
<1>6. RowsAre(gap - 1, gap - 1)
  <2>1. rows = [i \in 0 .. gap - 1 |-> [active |-> TRUE, answer |-> "none", limit |-> gap]]
    BY DEF GapInit, Seed
  <2> QED BY <2>1, <1>1 DEF RowsAre, RowRecs
<1>7. RunFacts(gap - 1)
  BY DEF GapInit, RunFacts
<1> QED BY <1>1, <1>2, <1>3, <1>4, <1>5, <1>6, <1>7 DEF GapInv
\* Steps of the discovery: the facts about the search, and nothing else moves.
LEMMA SearchKept ==
  ASSUME GapInv, UNCHANGED <<used, gap, rows, ext, synced, polled, spent>>, SearchFacts',
         ext.at = "off"
  PROVE  GapInv'
<1>1. PICK a \in Nat, d \in Nat : RowsAre(a, d) /\ RunFacts(a)
  BY DEF GapInv
<1>2. RowsAre(a, d)' /\ Active' = Active
  BY <1>1, ShapeKept
<1>3. RunFacts(a)'
  BY <1>1, ShapeKept DEF GapInv, RunFacts, Unbroken
<1>4. ExtFacts'
  BY DEF GapInv, ExtFacts, ExtRecs
<1>5. AnswerFacts'
  BY <1>2 DEF GapInv, AnswerFacts, AnswerOf
<1> QED BY <1>2, <1>3, <1>4, <1>5 DEF GapInv

LEMMA SearchStartKeeps == GapInv /\ SearchStart => GapInv'
<1> SUFFICES ASSUME GapInv, SearchStart PROVE GapInv'
  OBVIOUS
<1>1. SearchFacts'
  <2>1. search'.at = "probe" /\ search'.next = 0 /\ DOMAIN search'.acc = {}
    BY DEF SearchStart, NoSearch
  <2>2. DOMAIN search' = {"at", "try", "next", "run", "hit", "acc"}
    BY DEF SearchStart, NoSearch
  <2>3. ~ synced'
    BY DEF GapInv, SearchFacts, SearchStart
  <2>4. 0 .. 0 - 1 = {}
    OBVIOUS
  <2> QED BY <2>1, <2>2, <2>3, <2>4 DEF SearchFacts
<1> QED BY <1>1, SearchKept DEF SearchStart

LEMMA SearchProbeKeeps == GapInv /\ SearchProbe => GapInv'
<1> SUFFICES ASSUME GapInv, SearchProbe PROVE GapInv'
  OBVIOUS
<1> DEFINE i == search.next
           hit == search.hit \/ i \in used
           run == IF i \in used THEN 0 ELSE search.run + 1
           acc == [j \in 0 .. i |-> IF j = i THEN AnswerOf(i) ELSE search.acc[j]]
           next == [search EXCEPT !.next = i + 1, !.hit = hit, !.run = run, !.acc = acc]
           short == [j \in 0 .. gap - 1 |-> acc[j]]
<1>1. i \in Nat /\ search.at = "probe" /\ DOMAIN search = {"at", "try", "next", "run", "hit", "acc"}
      /\ DOMAIN search.acc = 0 .. i - 1 /\ ~ synced
      /\ \A j \in DOMAIN search.acc : search.acc[j] \in {"used", "unused"}
  BY DEF SearchProbe, GapInv, SearchFacts
<1>2. DOMAIN acc = 0 .. i /\ \A j \in 0 .. i : acc[j] \in {"used", "unused"}
  BY <1>1 DEF AnswerOf
<1>3. search' = IF hit /\ run >= gap THEN [next EXCEPT !.at = "done"]
                ELSE IF ~hit /\ i + 1 >= Floor THEN [next EXCEPT !.at = "done", !.acc = short]
                ELSE next
  BY DEF SearchProbe
<1>4. /\ DOMAIN next = {"at", "try", "next", "run", "hit", "acc"}
      /\ next.at = "probe" /\ next.next = i + 1 /\ next.acc = acc
  BY <1>1
<1>5. gap \in Nat /\ 1 <= gap /\ Floor \in Nat /\ gap <= Floor
  BY GapsAreNat, SizesAssumption DEF GapInv, Floor
<1>6. UNCHANGED <<used, gap, rows, ext, synced, polled, spent>> /\ ext.at = "off"
  BY <1>1 DEF SearchProbe, GapInv, ExtFacts, ExtRecs
<1> HIDE DEF acc, next, hit, run
<1>7. CASE search' = [next EXCEPT !.at = "done"]
  <2>1. search'.at = "done" /\ search'.next = i + 1 /\ search'.acc = acc
        /\ DOMAIN search' = {"at", "try", "next", "run", "hit", "acc"}
    BY <1>4, <1>7
  <2>2. SearchFacts'
    BY <2>1, <1>1, <1>2, <1>6 DEF SearchFacts
  <2> QED BY <2>2, <1>6, SearchKept
<1>8. CASE search' = [next EXCEPT !.at = "done", !.acc = short] /\ i + 1 >= Floor
  <2>1. search'.at = "done" /\ search'.next = i + 1 /\ search'.acc = short
        /\ DOMAIN search' = {"at", "try", "next", "run", "hit", "acc"}
    BY <1>4, <1>8
  <2>2. DOMAIN short = 0 .. gap - 1 /\ \A j \in 0 .. gap - 1 : short[j] \in {"used", "unused"}
    BY <1>1, <1>2, <1>5, <1>8
  <2>3. gap - 1 \in Nat
    BY <1>5
  <2>4. SearchFacts'
    BY <2>1, <2>2, <2>3, <1>1, <1>6 DEF SearchFacts
  <2> QED BY <2>4, <1>6, SearchKept
<1>9. CASE search' = next
  <2>1. SearchFacts'
    <3>1. search'.at = "probe" /\ search'.next = i + 1 /\ search'.acc = acc
          /\ DOMAIN search' = {"at", "try", "next", "run", "hit", "acc"}
      BY <1>4, <1>9
    <3>2. i + 1 - 1 = i /\ i + 1 \in Nat
      BY <1>1
    <3> QED BY <3>1, <3>2, <1>1, <1>2, <1>6 DEF SearchFacts
  <2> QED BY <2>1, <1>6, SearchKept
<1> QED BY <1>3, <1>7, <1>8, <1>9

LEMMA SearchFailKeeps == GapInv /\ SearchFail => GapInv'
<1> SUFFICES ASSUME GapInv, SearchFail PROVE GapInv'
  OBVIOUS
<1>1. search' = [FirstSearch EXCEPT !.try = search.try + 1] \/ search' = NoSearch
  BY DEF SearchFail
<1>2. ~ synced /\ ~ synced' /\ ext.at = "off"
  BY DEF SearchFail, GapInv, SearchFacts, ExtFacts, ExtRecs
<1>3. SearchFacts'
  <2>1. CASE search' = NoSearch
    BY <2>1, <1>2 DEF SearchFacts, NoSearch
  <2>2. CASE search' = [FirstSearch EXCEPT !.try = search.try + 1]
    <3>0. /\ DOMAIN FirstSearch = {"at", "try", "next", "run", "hit", "acc"}
          /\ FirstSearch.at = "wait" /\ FirstSearch.next = 0 /\ DOMAIN FirstSearch.acc = {}
      BY DEF FirstSearch, NoSearch
    <3>1. search'.at = "wait" /\ search'.next = 0 /\ DOMAIN search'.acc = {}
          /\ DOMAIN search' = {"at", "try", "next", "run", "hit", "acc"}
      BY <2>2, <3>0
    <3> QED BY <3>1, <1>2 DEF SearchFacts
  <2> QED BY <1>1, <2>1, <2>2
<1> QED BY <1>2, <1>3, SearchKept DEF SearchFail

\* The discovery lays the rows anew: the found ones, then the whole reserve.
LEMMA SearchDoneKeeps == GapInv /\ SearchDone => GapInv'
<1> SUFFICES ASSUME GapInv, SearchDone PROVE GapInv'
  OBVIOUS
<1>1. PICK m \in Nat : DOMAIN search.acc = 0 .. m
  BY DEF GapInv, SearchFacts, SearchDone
<1>2. Greatest(DOMAIN search.acc) = m
  <2>1. m \in 0 .. m /\ \A j \in 0 .. m : m >= j
    OBVIOUS
  <2>2. \A i \in 0 .. m : (\A j \in 0 .. m : i >= j) => i = m
    OBVIOUS
  <2> QED BY <1>1, <2>1, <2>2 DEF Greatest
<1>3. rows' = [i \in 0 .. m + Standby |->
          [active |-> i <= m, limit |-> gap, answer |-> IF i <= m THEN search.acc[i] ELSE "none"]]
  BY <1>2 DEF SearchDone
<1>4. gap \in Gaps /\ gap' = gap /\ used' = used /\ used \subseteq Nat /\ ext' = ext
  BY DEF SearchDone, GapInv
<1>5. \A i \in 0 .. m : search.acc[i] \in {"used", "unused"}
  BY <1>1 DEF GapInv, SearchFacts
<1>6. RowsAre(m, m + Standby)'
  <2>1. ASSUME NEW i \in 0 .. m + Standby
        PROVE  rows'[i] \in RowRecs /\ (rows'[i].active <=> i <= m)
    <3>1. CASE i <= m
      <4>1. rows'[i] = [active |-> TRUE, limit |-> gap, answer |-> search.acc[i]]
        BY <1>3, <3>1
      <4>2. search.acc[i] \in {"used", "unused"}
        BY <1>5, <3>1, SizesAssumption
      <4>3. rows'[i].active = TRUE
        BY <4>1
      <4>4. rows'[i] \in RowRecs
        BY <4>1, <4>2, <1>4 DEF RowRecs
      <4> QED BY <4>3, <4>4, <3>1
    <3>2. CASE ~ (i <= m)
      <4>0. (i <= m) = FALSE
        BY <3>2
      <4>1. rows'[i] = [active |-> FALSE, limit |-> gap, answer |-> "none"]
        BY <1>3, <3>2, <4>0
      <4>2. rows'[i].active = FALSE
        BY <4>1
      <4>3. rows'[i] \in RowRecs
        BY <4>1, <1>4 DEF RowRecs
      <4> QED BY <4>2, <4>3, <3>2
    <3> QED BY <3>1, <3>2
  <2>2. DOMAIN rows' = 0 .. m + Standby /\ rows' \in [0 .. m + Standby -> RowRecs]
    BY <2>1, <1>3
  <2>3. m <= m + Standby /\ m + Standby \in Nat /\ Standby <= m + Standby
    BY SizesAssumption
  <2> QED BY <2>1, <2>2, <2>3 DEF RowsAre, RowRecs
<1>7. SearchFacts'
  BY DEF SearchDone, SearchFacts, NoSearch
<1>8. ext.at = "off" /\ ext.mine
  BY DEF SearchDone, GapInv, ExtFacts, ExtRecs, SearchFacts
<1>9. ExtFacts'
  BY <1>4, <1>8 DEF GapInv, ExtFacts, ExtRecs
<1>10. AnswerFacts'
  BY <1>3, <1>4 DEF SearchDone, AnswerFacts
<1>11. RunFacts(m)'
  BY <1>4, <1>8 DEF SearchDone, RunFacts
<1>12. m + Standby \in Nat
  BY SizesAssumption
<1>13. synced' \in BOOLEAN /\ polled' \in BOOLEAN /\ spent' \in BOOLEAN
  BY DEF SearchDone
<1> QED BY <1>4, <1>6, <1>7, <1>9, <1>10, <1>11, <1>12, <1>13 DEF GapInv
-----------------------------------------------------------------------------
\* The poll.
LEMMA UseKeeps == ASSUME NEW i \in Index PROVE GapInv /\ Use(i) => GapInv'
<1> SUFFICES ASSUME GapInv, Use(i) PROVE GapInv'
  OBVIOUS
<1>1. PICK a \in Nat, d \in Nat : RowsAre(a, d) /\ RunFacts(a)
  BY DEF GapInv
<1>2. RowsAre(a, d)'
  BY <1>1, ShapeKept DEF Use
<1>3. RunFacts(a)'
  BY <1>1 DEF Use, RunFacts, Unbroken
<1>4. ExtFacts' /\ SearchFacts'
  BY DEF Use, GapInv, ExtFacts, ExtRecs, SearchFacts
<1>5. AnswerFacts'
  BY DEF Use, GapInv, AnswerFacts
<1>6. used' \subseteq Nat
  BY SizesAssumption DEF Use, GapInv
<1> QED BY <1>2, <1>3, <1>4, <1>5, <1>6 DEF GapInv, Use

LEMMA PollKeeps == GapInv /\ Poll => GapInv'
<1> SUFFICES ASSUME GapInv, Poll PROVE GapInv'
  OBVIOUS
<1>1. PICK a \in Nat, d \in Nat : RowsAre(a, d) /\ RunFacts(a)
  BY DEF GapInv
<1>2. /\ DOMAIN rows = 0 .. d /\ rows \in [0 .. d -> RowRecs]
      /\ \A i \in 0 .. d : rows[i].active <=> i <= a
  BY <1>1 DEF RowsAre
<1>3. DOMAIN rows' = 0 .. d
  BY <1>2 DEF Poll
<1>4. ASSUME NEW i \in 0 .. d
      PROVE  /\ rows'[i] \in RowRecs /\ (rows'[i].active <=> i <= a) /\ rows'[i].limit = rows[i].limit
             /\ i <= a => rows'[i].answer = AnswerOf(i)
  <2>1. rows'[i] = IF rows[i].active THEN [rows[i] EXCEPT !.answer = AnswerOf(i)] ELSE rows[i]
    BY <1>2 DEF Poll
  <2>2. rows[i] \in RowRecs /\ (rows[i].active <=> i <= a)
    BY <1>2
  <2>3. AnswerOf(i) \in {"used", "unused"}
    BY DEF AnswerOf
  <2>4. CASE rows[i].active
    <3>1. rows'[i] = [rows[i] EXCEPT !.answer = AnswerOf(i)]
      BY <2>1, <2>4
    <3>2. rows'[i] \in RowRecs /\ rows'[i].active = rows[i].active /\ rows'[i].limit = rows[i].limit
          /\ rows'[i].answer = AnswerOf(i)
      BY <3>1, <2>2, <2>3 DEF RowRecs
    <3> QED BY <3>2, <2>2
  <2>5. CASE ~ rows[i].active
    BY <2>1, <2>2, <2>5
  <2> QED BY <2>4, <2>5
<1>5. rows' \in [0 .. d -> RowRecs]
  BY <1>3, <1>4 DEF Poll
<1>6. RowsAre(a, d)'
  BY <1>1, <1>3, <1>4, <1>5 DEF RowsAre, RowRecs
<1>7. ext' = [at |-> "begin", run |-> 0, left |-> FALSE, mine |-> TRUE] /\ search.at \in {"off", "wait"}
  BY DEF Poll, NoExt
<1>8. UNCHANGED <<used, gap, search, synced, spent>> /\ polled' = TRUE
  BY DEF Poll
<1>9. RunFacts(a)'
  BY <1>7 DEF RunFacts
<1>10. SearchFacts'
  BY <1>8 DEF GapInv, SearchFacts
<1>11. ExtFacts'
  BY <1>7, <1>8 DEF ExtFacts, ExtRecs
<1>12. AnswerFacts'
  <2>1. Active' \subseteq {i \in 0 .. d : i <= a}
    BY <1>3, <1>4 DEF Active
  <2>2. \A i \in Active' : rows'[i].answer = AnswerOf(i)'
    BY <2>1, <1>4, <1>8 DEF AnswerOf
  <2>3. synced => \A i \in 0 .. d : rows'[i].limit = gap
    BY <1>2, <1>4 DEF GapInv, AnswerFacts
  <2> QED BY <2>2, <2>3, <1>3, <1>8 DEF AnswerFacts
<1> QED BY <1>6, <1>8, <1>9, <1>10, <1>11, <1>12 DEF GapInv

\* Steps of the extension that leave the rows alone.
LEMMA ExtKept ==
  ASSUME GapInv, UNCHANGED <<used, gap, rows, search, synced>>, ExtFacts',
         polled' \in BOOLEAN, spent' \in BOOLEAN, polled' => polled,
         NEW a \in Nat, NEW d \in Nat, RowsAre(a, d), RunFacts(a)'
  PROVE  GapInv'
<1>1. RowsAre(a, d)' /\ Active' = Active
  BY ShapeKept
<1>2. SearchFacts'
  BY DEF GapInv, SearchFacts
<1>3. AnswerFacts'
  BY <1>1 DEF GapInv, AnswerFacts, AnswerOf
<1> QED BY <1>1, <1>2, <1>3 DEF GapInv

\* Every row has the limit the branch was scanned with.
LEMMA LimitIsGap ==
  ASSUME GapInv, NEW a \in Nat, NEW d \in Nat, RowsAre(a, d)
  PROVE  /\ rows[Greatest(Active)].limit \in Nat
         /\ synced => rows[Greatest(Active)].limit = gap
<1>1. Greatest(Active) = a /\ a \in DOMAIN rows
  BY RowShape DEF RowsAre
<1>2. rows[a].limit \in Gaps
  BY DEF RowsAre, RowRecs
<1> QED BY <1>1, <1>2, GapsAreNat DEF GapInv, AnswerFacts

LEMMA ExtendKeeps == GapInv /\ Extend => GapInv'
<1> SUFFICES ASSUME GapInv, Extend PROVE GapInv'
  OBVIOUS
<1>1. PICK a \in Nat, d \in Nat : RowsAre(a, d) /\ RunFacts(a)
  BY DEF GapInv
<1> DEFINE limit == rows[Greatest(Active)].limit
<1>2. limit \in Nat /\ (synced => limit = gap)
  BY <1>1, LimitIsGap
<1>3. Trailing \in Nat /\ Unbroken(a, Trailing)
  BY <1>1, TrailingRun
<1>4. ext' = IF Trailing >= limit THEN [ext EXCEPT !.at = "close"]
             ELSE IF Reserve = {} THEN [ext EXCEPT !.at = "close", !.left = TRUE]
             ELSE [ext EXCEPT !.at = "probe", !.run = Trailing]
  BY DEF Extend
<1>5. UNCHANGED <<used, gap, rows, search, synced, polled, spent>>
  BY DEF Extend
<1>6. ext \in ExtRecs
      /\ search.at \in {"off", "wait"} /\ (~ ext.mine => ~ synced)
      /\ polled \in BOOLEAN /\ spent \in BOOLEAN
  BY DEF GapInv, ExtFacts, ExtRecs, Extend
<1> HIDE DEF limit
<1>7. CASE Trailing >= limit /\ ext' = [ext EXCEPT !.at = "close"]
  <2>1. ext' \in ExtRecs
        /\ ext'.at = "close" /\ ext'.mine = ext.mine
    BY <1>6, <1>7 DEF ExtRecs
  <2>2. ExtFacts'
    BY <2>1, <1>5, <1>6 DEF ExtFacts, ExtRecs
  <2>3. synced => Unbroken(a, gap)
    BY <1>2, <1>3, <1>7, GapsAreNat DEF Unbroken, GapInv
  <2>4. RunFacts(a)'
    BY <2>1, <2>3, <1>5 DEF RunFacts, Unbroken
  <2> QED BY <2>2, <2>4, <1>1, <1>5, <1>6, ExtKept
<1>8. CASE ext' = [ext EXCEPT !.at = "close", !.left = TRUE]
  <2>1. ext' \in ExtRecs
        /\ ext'.at = "close" /\ ext'.mine = ext.mine /\ ext'.left = TRUE
    BY <1>6, <1>8 DEF ExtRecs
  <2>2. ExtFacts'
    BY <2>1, <1>5, <1>6 DEF ExtFacts, ExtRecs
  <2>4. RunFacts(a)'
    BY <2>1 DEF RunFacts
  <2> QED BY <2>2, <2>4, <1>1, <1>5, <1>6, ExtKept
<1>9. CASE ext' = [ext EXCEPT !.at = "probe", !.run = Trailing]
  <2>1. ext' \in ExtRecs
        /\ ext'.at = "probe" /\ ext'.mine = ext.mine /\ ext'.run = Trailing
    BY <1>6, <1>9, <1>3 DEF ExtRecs
  <2>2. ExtFacts'
    BY <2>1, <1>5, <1>6 DEF ExtFacts, ExtRecs
  <2>4. RunFacts(a)'
    BY <2>1, <1>3, <1>5 DEF RunFacts, Unbroken
  <2> QED BY <2>2, <2>4, <1>1, <1>5, <1>6, ExtKept
<1> QED BY <1>4, <1>7, <1>8, <1>9
\* The next reserve row joins the watched ones, and with it the run it ends.
LEMMA NextRow ==
  ASSUME GapInv, NEW a \in Nat, NEW d \in Nat, RowsAre(a, d), a < d,
         rows' = [rows EXCEPT ![a + 1].active = TRUE, ![a + 1].answer = AnswerOf(a + 1)]
  PROVE  /\ RowsAre(a + 1, d)'
         /\ Active' = Active \cup {a + 1}
         /\ DOMAIN rows' = DOMAIN rows
         /\ \A i \in DOMAIN rows : rows'[i].limit = rows[i].limit
         /\ \A i \in DOMAIN rows \ {a + 1} : rows'[i] = rows[i]
         /\ rows'[a + 1].answer = AnswerOf(a + 1)
<1>1. /\ DOMAIN rows = 0 .. d /\ rows \in [0 .. d -> RowRecs]
      /\ \A i \in 0 .. d : rows[i].active <=> i <= a
  BY DEF RowsAre
<1>2. a + 1 \in 0 .. d /\ rows[a + 1] \in RowRecs
  BY <1>1
<1>3. AnswerOf(a + 1) \in {"used", "unused"}
  BY DEF AnswerOf
<1>4. rows' = [rows EXCEPT ![a + 1] =
        [active |-> TRUE, answer |-> AnswerOf(a + 1), limit |-> rows[a + 1].limit]]
  <2> DEFINE first == [rows EXCEPT ![a + 1].active = TRUE]
  <2>1. rows' = [first EXCEPT ![a + 1].answer = AnswerOf(a + 1)]
    OBVIOUS
  <2>2. /\ DOMAIN first = 0 .. d
        /\ first[a + 1] = [active |-> TRUE, answer |-> rows[a + 1].answer, limit |-> rows[a + 1].limit]
        /\ \A i \in 0 .. d \ {a + 1} : first[i] = rows[i]
    BY <1>1, <1>2 DEF RowRecs
  <2> HIDE DEF first
  <2>3. rows'[a + 1] = [active |-> TRUE, answer |-> AnswerOf(a + 1), limit |-> rows[a + 1].limit]
    BY <1>2, <2>1, <2>2
  <2> QED BY <1>1, <1>2, <2>1, <2>2, <2>3
<1>5. /\ DOMAIN rows' = 0 .. d
      /\ rows'[a + 1] = [active |-> TRUE, answer |-> AnswerOf(a + 1), limit |-> rows[a + 1].limit]
      /\ \A i \in 0 .. d \ {a + 1} : rows'[i] = rows[i]
  BY <1>1, <1>2, <1>4
<1>6. rows'[a + 1] \in RowRecs
  BY <1>2, <1>3, <1>5 DEF RowRecs
<1>7. rows' \in [0 .. d -> RowRecs]
  BY <1>1, <1>4, <1>6, <1>5
<1>8. \A i \in 0 .. d : rows'[i].active <=> i <= a + 1
  <2> SUFFICES ASSUME NEW i \in 0 .. d PROVE rows'[i].active <=> i <= a + 1
    OBVIOUS
  <2>1. CASE i = a + 1
    BY <2>1, <1>5
  <2>2. CASE i # a + 1
    <3>1. rows'[i] = rows[i] /\ (rows[i].active <=> i <= a)
      BY <1>1, <1>5, <2>2
    <3> QED BY <3>1, <2>2
  <2> QED BY <2>1, <2>2
<1>9. RowsAre(a + 1, d)'
  BY <1>2, <1>5, <1>7, <1>8 DEF RowsAre, RowRecs
<1>10. Active' = Active \cup {a + 1}
  BY <1>1, <1>2, <1>5, <1>8 DEF Active
<1> QED BY <1>1, <1>5, <1>9, <1>10

LEMMA ExtendProbeKeeps == GapInv /\ ExtendProbe => GapInv'
<1> SUFFICES ASSUME GapInv, ExtendProbe PROVE GapInv'
  OBVIOUS
<1>1. PICK a \in Nat, d \in Nat : RowsAre(a, d) /\ RunFacts(a)
  BY DEF GapInv
<1> DEFINE limit == rows[Greatest(Active)].limit
<1>2. limit \in Nat /\ (synced => limit = gap)
  BY <1>1, LimitIsGap
<1>3. UNCHANGED <<used, gap, search, synced, polled, spent>> /\ ext.at = "probe"
  BY DEF ExtendProbe
<1>4. ext \in ExtRecs /\ ext.run \in Nat /\ search.at \in {"off", "wait"} /\ (~ ext.mine => ~ synced)
      /\ polled \in BOOLEAN /\ spent \in BOOLEAN /\ (synced => Unbroken(a, ext.run))
  BY <1>1, <1>3 DEF GapInv, ExtFacts, ExtRecs, RunFacts
<1> HIDE DEF limit
<1>5. CASE ~ ext.mine /\ ext' = [ext EXCEPT !.at = "close"] /\ UNCHANGED rows
  <2>1. ext' \in ExtRecs /\ ext'.at = "close" /\ ext'.mine = ext.mine
    BY <1>4, <1>5 DEF ExtRecs
  <2>2. ExtFacts'
    BY <2>1, <1>3, <1>4 DEF ExtFacts, ExtRecs
  <2>3. RunFacts(a)'
    BY <1>3, <1>4, <1>5 DEF RunFacts
  <2> QED BY <2>2, <2>3, <1>1, <1>3, <1>4, <1>5, ExtKept
<1>6. CASE ext.run >= limit /\ ext' = [ext EXCEPT !.at = "close"] /\ UNCHANGED rows
  <2>1. ext' \in ExtRecs /\ ext'.at = "close" /\ ext'.mine = ext.mine
    BY <1>4, <1>6 DEF ExtRecs
  <2>2. ExtFacts'
    BY <2>1, <1>3, <1>4 DEF ExtFacts, ExtRecs
  <2>3. synced => Unbroken(a, gap)
    BY <1>2, <1>4, <1>6, GapsAreNat DEF Unbroken, GapInv
  <2>4. RunFacts(a)'
    BY <2>1, <2>3, <1>3, <1>6 DEF RunFacts, Unbroken
  <2> QED BY <2>2, <2>4, <1>1, <1>3, <1>4, <1>6, ExtKept
<1>7. CASE ext' = [ext EXCEPT !.at = "close", !.left = TRUE] /\ UNCHANGED rows
  <2>1. ext' \in ExtRecs /\ ext'.at = "close" /\ ext'.mine = ext.mine /\ ext'.left = TRUE
    BY <1>4, <1>7 DEF ExtRecs
  <2>2. ExtFacts'
    BY <2>1, <1>3, <1>4 DEF ExtFacts, ExtRecs
  <2>3. RunFacts(a)'
    BY <2>1 DEF RunFacts
  <2> QED BY <2>2, <2>3, <1>1, <1>3, <1>4, <1>7, ExtKept
<1>8. ASSUME Reserve # {},
             rows' = [rows EXCEPT ![Least(Reserve)].active = TRUE,
                                  ![Least(Reserve)].answer = AnswerOf(Least(Reserve))],
             ext' = [ext EXCEPT !.run = IF Least(Reserve) \in used THEN 0 ELSE @ + 1]
      PROVE  GapInv'
  <2>1. a < d /\ Least(Reserve) = a + 1
    BY <1>1, <1>8, RowShape DEF RowsAre
  <2>2. /\ RowsAre(a + 1, d)'
        /\ Active' = Active \cup {a + 1}
        /\ DOMAIN rows' = DOMAIN rows
        /\ \A i \in DOMAIN rows : rows'[i].limit = rows[i].limit
        /\ \A i \in DOMAIN rows \ {a + 1} : rows'[i] = rows[i]
        /\ rows'[a + 1].answer = AnswerOf(a + 1)
    BY <1>1, <1>8, <2>1, NextRow
  <2>3. /\ ext'.run = IF a + 1 \in used THEN 0 ELSE ext.run + 1
        /\ ext' \in ExtRecs /\ ext'.at = "probe" /\ ext'.mine = ext.mine
    BY <1>3, <1>4, <1>8, <2>1 DEF ExtRecs
  <2>4. ExtFacts'
    BY <2>3, <1>3, <1>4 DEF ExtFacts, ExtRecs
  <2>5. synced => Unbroken(a + 1, ext.run)'
    <3> SUFFICES ASSUME synced PROVE Unbroken(a + 1, ext.run)'
      OBVIOUS
    <3>1. ext.run <= a + 1 /\ \A k \in 0 .. a : a < k + ext.run => rows[k].answer = "unused"
      BY <1>4 DEF Unbroken
    <3>2. \A k \in 0 .. a : rows'[k] = rows[k]
      BY <1>1, <2>1, <2>2 DEF RowsAre
    <3>3. CASE a + 1 \in used
      BY <3>3, <2>3 DEF Unbroken
    <3>4. CASE a + 1 \notin used
      <4>1. ext'.run = ext.run + 1 /\ ext.run \in Nat
        BY <3>4, <2>3, <1>4
      <4>2. rows'[a + 1].answer = "unused"
        BY <3>4, <2>2 DEF AnswerOf
      <4>3. \A k \in 0 .. a + 1 : a + 1 < k + (ext.run + 1) => rows'[k].answer = "unused"
        BY <4>1, <4>2, <3>1, <3>2
      <4> QED BY <4>1, <4>3, <3>1 DEF Unbroken
    <3> QED BY <3>3, <3>4
  <2>6. RunFacts(a + 1)'
    BY <2>3, <2>5, <1>3 DEF RunFacts, Unbroken
  <2>7. SearchFacts'
    BY <1>3 DEF GapInv, SearchFacts
  <2>8. AnswerFacts'
    <3>0. Active = 0 .. a
      BY <1>1, RowShape
    <3>1. a + 1 \notin Active /\ Active \subseteq DOMAIN rows
      BY <3>0, <1>1 DEF RowsAre
    <3>2. polled => \A i \in Active' : rows'[i].answer = AnswerOf(i)
      BY <2>2, <3>1 DEF GapInv, AnswerFacts
    <3> QED BY <3>2, <2>2, <1>3 DEF GapInv, AnswerFacts, AnswerOf
  <2> QED BY <2>2, <2>4, <2>6, <2>7, <2>8, <1>3 DEF GapInv
<1> QED BY <1>5, <1>6, <1>7, <1>8 DEF ExtendProbe, limit

LEMMA ExtendFailKeeps == GapInv /\ ExtendFail => GapInv'
<1> SUFFICES ASSUME GapInv, ExtendFail PROVE GapInv'
  OBVIOUS
<1>1. PICK a \in Nat, d \in Nat : RowsAre(a, d) /\ RunFacts(a)
  BY DEF GapInv
<1>2. UNCHANGED <<used, gap, rows, search, synced, spent>> /\ polled' = FALSE
      /\ ext' = [at |-> "off", run |-> 0, left |-> FALSE, mine |-> TRUE]
  BY DEF ExtendFail, NoExt
<1>3. ExtFacts'
  BY <1>2 DEF ExtFacts, ExtRecs
<1>4. RunFacts(a)'
  BY <1>2 DEF RunFacts
<1> QED BY <1>1, <1>2, <1>3, <1>4, ExtKept DEF GapInv

LEMMA PollCloseKeeps == GapInv /\ PollClose => GapInv'
<1> SUFFICES ASSUME GapInv, PollClose PROVE GapInv'
  OBVIOUS
<1>1. PICK a \in Nat, d \in Nat : RowsAre(a, d) /\ RunFacts(a)
  BY DEF GapInv
<1>2. UNCHANGED <<used, gap, rows, search, synced, polled>> /\ spent' = ext.left /\ ext.at = "close"
      /\ ext' = [at |-> "off", run |-> 0, left |-> FALSE, mine |-> TRUE]
  BY DEF PollClose, NoExt
<1>3. ext.left \in BOOLEAN
  BY DEF GapInv, ExtFacts, ExtRecs
<1>4. ExtFacts'
  BY <1>2 DEF ExtFacts, ExtRecs
<1>5. RunFacts(a)'
  BY <1>1, <1>2 DEF RunFacts, Unbroken
<1> QED BY <1>1, <1>2, <1>3, <1>4, <1>5, ExtKept DEF GapInv
\* An edit keeps the rows it finds.  It adds rows of its own only where the
\* branch has fewer than the limit, and such a branch has no reserve.
LEMMA ReconfigureKeeps == GapInv /\ Reconfigure => GapInv'
<1> SUFFICES ASSUME GapInv, Reconfigure PROVE GapInv'
  OBVIOUS
<1>1. PICK a \in Nat, d \in Nat : RowsAre(a, d) /\ RunFacts(a)
  BY DEF GapInv
<1>2. PICK g \in Gaps \ {gap} :
        /\ gap' = g
        /\ rows' = [i \in DOMAIN rows \cup DOMAIN Seed(g) |->
             IF i \notin DOMAIN rows THEN Seed(g)[i]
             ELSE IF i \in DOMAIN Seed(g) THEN rows[i]
             ELSE [rows[i] EXCEPT !.limit = g]]
  BY DEF Reconfigure
<1>3. g \in Gaps /\ g \in Nat /\ 1 <= g /\ g <= Standby + 1
  BY GapsAreNat
<1>4. a <= d /\ (a = d \/ Standby <= d) /\ DOMAIN rows = 0 .. d /\ rows \in [0 .. d -> RowRecs]
      /\ \A i \in 0 .. d : rows[i].active <=> i <= a
  BY <1>1 DEF RowsAre
<1>5. DOMAIN Seed(g) = 0 .. g - 1 /\ \A i \in 0 .. g - 1 :
        Seed(g)[i] = [active |-> TRUE, answer |-> "none", limit |-> g]
  BY DEF Seed
<1>6. DOMAIN rows' = 0 .. d \cup 0 .. g - 1
  BY <1>2, <1>4, <1>5
<1>7. ASSUME NEW i \in 0 .. d PROVE rows'[i] \in RowRecs /\ rows'[i].active = rows[i].active
  <2>1. rows'[i] = IF i \in 0 .. g - 1 THEN rows[i] ELSE [rows[i] EXCEPT !.limit = g]
    BY <1>2, <1>4, <1>5
  <2>2. rows[i] \in RowRecs
    BY <1>4
  <2> QED BY <2>1, <2>2, <1>3 DEF RowRecs
<1>8. ASSUME NEW i \in 0 .. g - 1, i \notin 0 .. d
      PROVE  rows'[i] \in RowRecs /\ rows'[i].active = TRUE
  <2>1. rows'[i] = [active |-> TRUE, answer |-> "none", limit |-> g]
    BY <1>2, <1>4, <1>5, <1>8
  <2> QED BY <2>1, <1>3 DEF RowRecs
<1>9. PICK b \in Nat, e \in Nat : RowsAre(b, e)'
  <2>1. CASE g - 1 <= d
    <3>1. DOMAIN rows' = 0 .. d
      BY <2>1, <1>3, <1>6
    <3>2. rows' \in [0 .. d -> RowRecs]
      BY <3>1, <1>2, <1>7
    <3>3. \A i \in 0 .. d : rows'[i].active <=> i <= a
      BY <1>4, <1>7
    <3>4. RowsAre(a, d)'
      BY <3>1, <3>2, <3>3, <1>4 DEF RowsAre, RowRecs
    <3> QED BY <3>4
  <2>2. CASE ~ (g - 1 <= d)
    <3>1. a = d
      BY <2>2, <1>3, <1>4, SizesAssumption
    <3>2. DOMAIN rows' = 0 .. g - 1 /\ g - 1 \in Nat
      BY <2>2, <1>3, <1>6
    <3>3. \A i \in 0 .. g - 1 : rows'[i] \in RowRecs /\ rows'[i].active
      <4>1. \A i \in 0 .. d : rows[i].active
        BY <3>1, <1>4
      <4> QED BY <4>1, <1>7, <1>8
    <3>4. rows' \in [0 .. g - 1 -> RowRecs]
      BY <3>2, <3>3, <1>2
    <3>5. RowsAre(g - 1, g - 1)'
      BY <3>2, <3>3, <3>4 DEF RowsAre, RowRecs
    <3> QED BY <3>2, <3>5
  <2> QED BY <2>1, <2>2
<1>10. synced' = FALSE /\ polled' = FALSE /\ UNCHANGED <<used, spent>>
       /\ search' = FirstSearch /\ ext' = [ext EXCEPT !.mine = (ext.at = "off")]
  BY DEF Reconfigure
<1>11. SearchFacts'
  BY <1>10 DEF SearchFacts, FirstSearch, NoSearch
<1>12. ExtFacts'
  <2>1. ext \in ExtRecs
    BY DEF GapInv, ExtFacts, ExtRecs
  <2>2. search'.at = "wait"
    BY <1>10 DEF FirstSearch, NoSearch
  <2>3. CASE ext.at = "off"
    <3>1. (ext.at = "off") = TRUE
      BY <2>3
    <3>2. ext' = [ext EXCEPT !.mine = TRUE]
      BY <1>10, <3>1
    <3> QED BY <3>2, <2>1, <2>2, <2>3, <1>10 DEF ExtFacts, ExtRecs
  <2>4. CASE ext.at # "off"
    <3>1. (ext.at = "off") = FALSE
      BY <2>4
    <3>2. ext' = [ext EXCEPT !.mine = FALSE]
      BY <1>10, <3>1
    <3> QED BY <3>2, <2>1, <2>2, <2>4, <1>10 DEF ExtFacts, ExtRecs
  <2> QED BY <2>3, <2>4
<1>13. AnswerFacts' /\ RunFacts(b)'
  BY <1>10 DEF AnswerFacts, RunFacts
<1> QED BY <1>2, <1>9, <1>10, <1>11, <1>12, <1>13 DEF GapInv

LEMMA GapPreserved == GapInv /\ [GapNext]_gapVars => GapInv'
<1> SUFFICES ASSUME GapInv, [GapNext]_gapVars PROVE GapInv'
  OBVIOUS
<1>1. ASSUME NEW i \in Index, Use(i) PROVE GapInv'
  BY <1>1, UseKeeps
<1>2. CASE SearchStart
  BY <1>2, SearchStartKeeps
<1>3. CASE SearchProbe
  BY <1>3, SearchProbeKeeps
<1>4. CASE SearchDone
  BY <1>4, SearchDoneKeeps
<1>5. CASE SearchFail
  BY <1>5, SearchFailKeeps
<1>6. CASE Poll
  BY <1>6, PollKeeps
<1>7. CASE Extend
  BY <1>7, ExtendKeeps
<1>8. CASE ExtendProbe
  BY <1>8, ExtendProbeKeeps
<1>9. CASE ExtendFail
  BY <1>9, ExtendFailKeeps
<1>10. CASE PollClose
  BY <1>10, PollCloseKeeps
<1>11. CASE Reconfigure
  BY <1>11, ReconfigureKeeps
<1>12. CASE UNCHANGED gapVars
  <2>1. UNCHANGED <<used, gap, rows, search, ext, synced, polled, spent>>
    BY <1>12 DEF gapVars
  <2>2. PICK a \in Nat, d \in Nat : RowsAre(a, d) /\ RunFacts(a)
    BY DEF GapInv
  <2>3. ExtFacts'
    BY <2>1 DEF GapInv, ExtFacts, ExtRecs
  <2>4. RunFacts(a)'
    BY <2>1, <2>2 DEF RunFacts, Unbroken
  <2> QED BY <2>1, <2>2, <2>3, <2>4, ExtKept DEF GapInv
<1> QED BY <1>1, <1>2, <1>3, <1>4, <1>5, <1>6, <1>7, <1>8, <1>9, <1>10, <1>11, <1>12 DEF GapNext

\* Whatever is used behind the last watched addresses lies behind a run of
\* unused ones as long as the limit, so it was not promised.
LEMMA GapInvSays == GapInv => WatchedRange
<1> SUFFICES ASSUME GapInv PROVE WatchedRange
  OBVIOUS
<1>1. PICK a \in Nat, d \in Nat : RowsAre(a, d) /\ RunFacts(a)
  BY DEF GapInv
<1>2. Active = 0 .. a
  BY <1>1, RowShape
<1>3. NoHole
  BY <1>2 DEF NoHole
<1>4. ASSUME synced /\ polled /\ ext.at = "off" /\ search.at = "off" /\ ~spent,
             NEW i \in used, Promised(i), i \notin Active
      PROVE  FALSE
  <2>1. i \in Nat /\ a < i /\ used \subseteq Nat
    BY <1>2, <1>4 DEF GapInv
  <2>2. gap \in Nat /\ 1 <= gap /\ Unbroken(a, gap)
    BY <1>1, <1>4, GapsAreNat DEF GapInv, RunFacts
  <2>3. gap <= a + 1 /\ \A k \in 0 .. a : a < k + gap => rows[k].answer = "unused"
    BY <2>2 DEF Unbroken
  <2>4. a + 1 - gap \in 0 .. i - gap
    BY <2>1, <2>2, <2>3
  <2>5. PICK u \in used : a + 1 - gap <= u /\ u < a + 1 - gap + gap
    BY <2>4, <1>4 DEF Promised
  <2>6. u \in 0 .. a /\ a < u + gap
    BY <2>1, <2>2, <2>5
  <2>7. rows[u].answer = "unused"
    BY <2>3, <2>6
  <2>8. rows[u].answer = AnswerOf(u)
    BY <2>6, <1>2, <1>4 DEF GapInv, AnswerFacts
  <2>9. AnswerOf(u) = "used"
    BY <2>5 DEF AnswerOf
  <2> QED BY <2>7, <2>8, <2>9
<1>5. UsedIsWatched
  BY <1>4 DEF UsedIsWatched
<1> QED BY <1>3, <1>5 DEF WatchedRange

\* The watched addresses reach as far as the gap limit promises, without a
\* hole (_discover_gap_addresses, _maintain_gap_from_standby).
THEOREM GapLimitIsKept == GapSpec => []WatchedRange
<1>1. GapInit => GapInv
  BY GapStart
<1>2. GapInv /\ [GapNext]_gapVars => GapInv'
  BY GapPreserved
<1>3. GapInv => WatchedRange
  BY GapInvSays
<1> QED BY <1>1, <1>2, <1>3, PTL DEF GapSpec

-----------------------------------------------------------------------------
(* Where the watch targets are kept.                                       *)
(*                                                                         *)
(* Every copy of the targets (in the vault, in the runtime store and on    *)
(* its disk, in a request that may be undone, in a recovery, in a scan)    *)
(* holds each target as it was last acknowledged, but for the one that a   *)
(* request is changing; the runtime store owes the vault something, or the *)
(* vault holds the same.  It is said for as long as no request met a       *)
(* recovery.                                                               *)

\* The copy f holds every target outside X as it was acknowledged.
Kept(f, X) == \A m \in Targets \ X :
    /\ m \in DOMAIN f <=> want[m] # None
    /\ m \in DOMAIN f => f[m] = want[m]

Stored(r, X) == Kept(r.cat, X) /\ Kept(r.rows, X \cup revived)
NotEmptied(r) == (r.pending /\ r.cat = NoTargets) => excused = Targets
Owes(r, X) == r.pending \/ Kept(vault.mons, X)
Settles(r) == ~ r.pending \/ excused = Targets

Edits == req.op \in {"save", "remove"} /\ req.at \in {"vault", "disk", "rollback", "undo"}
Halfway == req.at \in {"disk", "rollback", "undo"}
Marks == req.at \in {"mark", "owe"}
Setting == req.op = "settings"

IsStore(r) == DOMAIN r = {"cat", "rows", "host", "pending"} /\ r.pending \in BOOLEAN
IsVault(v) == DOMAIN v = {"mons", "host"}
IsTask(t) == DOMAIN t = {"at", "op", "m", "cfg", "old", "back"}

CfgShape ==
    /\ open \in BOOLEAN /\ crossed \in BOOLEAN /\ crashes \in Nat
    /\ excused \subseteq Targets /\ DOMAIN want = Targets
    /\ IsVault(vault) /\ IsStore(rt) /\ IsStore(rtDisk) /\ IsTask(req) /\ IsTask(rec)
    /\ DOMAIN scan = {"at", "mons", "only", "rows"}
    /\ scan.at = "off" \/ scan.at \in {"wait", "probe"}
    /\ req # NoTask => \/ Edits /\ IsVault(req.cfg) /\ IsVault(req.old) /\ IsStore(req.back)
                       \/ req.op \in {"save", "remove"} /\ Marks
                       \/ /\ Setting /\ req.at \in {"heal", "vault", "place", "endpoint"}
                          /\ IsVault(req.cfg) /\ IsVault(req.old)
    /\ Edits \/ Marks => req.m \in Targets
    /\ rec # NoTask => IsVault(rec.cfg) /\ rec.at \in {"begin", "vault", "synced"}

-----------------------------------------------------------------------------
\* Nothing is half done: both stores are right, and so is the vault unless it
\* is owed something.
RestFacts == (~ Halfway /\ ~ Marks) => \A r \in {rt, rtDisk} :
    Stored(r, excused) /\ NotEmptied(r) /\ Owes(r, excused)

\* A request of the open vault knows the state of before, and what it changes.
EditFacts == Edits =>
    /\ Stored(req.back, excused) /\ NotEmptied(req.back) /\ Settles(req.back)
    /\ Kept(req.old.mons, excused) /\ Kept(req.cfg.mons, excused \cup {req.m})
    /\ req.at = "vault" => req.old = vault
    /\ req.op = "save" => /\ req.m \in DOMAIN req.cfg.mons /\ req.cfg.mons[req.m] \in Keys
                          /\ scan.at = "off"
    /\ req.op = "remove" => /\ req.m \notin DOMAIN req.cfg.mons
                            /\ scan.at = "off" \/ req.m \in revived
HalfFacts == Halfway =>
    /\ Kept(vault.mons, excused \cup {req.m})
    /\ \A r \in {rt, rtDisk} : Stored(r, excused \cup {req.m}) /\ NotEmptied(r)
    /\ req.at = "disk" => /\ ~ rt.pending /\ rt.cat = req.cfg.mons /\ vault.mons = req.cfg.mons
                          /\ rt.rows = req.cfg.mons \/ req.m \in revived
    /\ req.at = "undo" => \A r \in {rt, rtDisk} : Stored(r, excused) /\ Settles(r)

\* A request under lock: the runtime store alone is right.
MarkFacts == Marks =>
    /\ ~ open /\ scan.at = "off"
    /\ Kept(rt.cat, excused \cup {req.m}) /\ rt.rows = rt.cat
    /\ req.m \in DOMAIN rt.cat => rt.cat[req.m] \in Keys
    /\ req.at = "owe" => rt.pending

SettingFacts == Setting => Kept(req.cfg.mons, excused) /\ Kept(req.old.mons, excused)

RecFacts ==
    /\ rec.at = "begin" => rec.cfg = vault
    /\ rec.at = "vault" => Kept(rec.cfg.mons, excused)
    /\ rec.at = "synced" => rec.cfg = vault /\ Kept(vault.mons, excused) /\ Settles(rt)

\* An open vault that nobody recovers is owed nothing.
OpenFacts == (open /\ rec = NoTask) => Settles(rt)

ScanFacts == scan.at # "off" =>
    /\ Kept(scan.mons, excused \cup revived)
    /\ scan.at = "probe" => Kept(scan.rows, excused \cup revived)

\* The node: never forgotten, and the one that was saved before the first stop.
KnownFacts == wantHost # None =>
    /\ ep # None /\ rt.host # None
    /\ Edits => req.back.host # None
    /\ Setting => req.cfg.host # None
NamedFacts == Setting =>
    /\ req.m # None => req.cfg.host = req.m
    /\ req.at \in {"place", "endpoint"} => rt.host = req.cfg.host
SameFacts == crashes = 0 =>
    /\ ep = wantHost
    /\ ~ (Setting /\ req.at \in {"place", "endpoint"}) => vault.host = wantHost /\ rt.host = wantHost
    /\ Setting => /\ req.old.host = wantHost
                  /\ req.cfg.host = IF req.m = None THEN wantHost ELSE req.m
                  /\ req.at \in {"place", "endpoint"} => vault.host = req.cfg.host
    /\ Edits => req.cfg.host = wantHost /\ req.old.host = wantHost /\ req.back.host = wantHost
    /\ rec # NoTask => rec.cfg.host = wantHost

TargetFacts == /\ RestFacts /\ EditFacts /\ HalfFacts /\ MarkFacts /\ SettingFacts
               /\ RecFacts /\ OpenFacts /\ ScanFacts
HostFacts == KnownFacts /\ NamedFacts /\ SameFacts
CfgFacts == (req = NoTask \/ rec = NoTask) /\ TargetFacts /\ HostFacts
CfgInv == CfgShape /\ (~ crossed => CfgFacts)

LEMMA CfgStart == CfgInit => CfgInv
<1> SUFFICES ASSUME CfgInit PROVE CfgInv
  OBVIOUS
<1>1. PICK host \in Hosts \cup {None}, c \in Keys, ms \in {{}, Targets} :
        vault = [mons |-> [m \in ms |-> c], host |-> host]
  BY DEF CfgInit
<1>2. vault.mons = [m \in ms |-> c] /\ vault.host = host /\ ms \subseteq Targets /\ c # None
  BY <1>1, KeysAssumption
<1>3. /\ rt = [cat |-> vault.mons, rows |-> vault.mons, host |-> vault.host, pending |-> FALSE]
      /\ rtDisk = rt /\ req = NoTask /\ rec = NoTask /\ scan = NoScan /\ open = FALSE
      /\ ep = vault.host /\ wantHost = vault.host /\ excused = {} /\ revived = {}
      /\ crossed = FALSE /\ crashes = 0
      /\ want = [m \in Targets |-> IF m \in DOMAIN vault.mons THEN vault.mons[m] ELSE None]
  BY DEF CfgInit
<1>4. ~ Edits /\ ~ Halfway /\ ~ Marks /\ ~ Setting /\ scan.at = "off" /\ rec.at = "idle"
  BY <1>3 DEF Edits, Halfway, Marks, Setting, NoTask, NoScan
<1>5. CfgShape
  BY <1>1, <1>3, <1>4 DEF CfgShape, IsVault, IsStore, IsTask, NoTask, NoScan
<1>6. Kept(vault.mons, {})
  BY <1>2, <1>3 DEF Kept
<1>7. RestFacts
  BY <1>3, <1>6 DEF RestFacts, Stored, NotEmptied, Owes, Kept
<1>8. EditFacts /\ HalfFacts /\ MarkFacts /\ SettingFacts /\ RecFacts /\ OpenFacts /\ ScanFacts
  BY <1>3, <1>4 DEF EditFacts, HalfFacts, MarkFacts, SettingFacts, RecFacts, OpenFacts, ScanFacts
<1>9. KnownFacts /\ NamedFacts /\ SameFacts
  BY <1>3, <1>4 DEF KnownFacts, NamedFacts, SameFacts
<1> QED BY <1>3, <1>5, <1>7, <1>8, <1>9 DEF CfgInv, CfgFacts, TargetFacts, HostFacts

\* The helpers that make a store or a configuration make one.
LEMMA SettledStore ==
  ASSUME NEW r, IsStore(r) 
  PROVE  /\ IsStore(Settled(r))
         /\ Settled(r).cat = r.cat /\ Settled(r).rows = r.rows /\ Settled(r).host = r.host
  BY DEF IsStore, Settled
LEMMA FreshStore ==
  ASSUME NEW c PROVE IsStore(Fresh(c))
  BY DEF IsStore, Fresh
LEMMA RecoveredVault ==
  ASSUME NEW c, NEW r PROVE IsVault(Recovered(c, r))
  BY DEF IsVault, Recovered

LEMMA SettingsHealShape == ASSUME CfgShape, SettingsHeal PROVE CfgShape'
<1>1. IsStore(rt')
  BY SettledStore DEF SettingsHeal, CfgShape
<1>2. req # NoTask /\ Setting /\ ~ Edits /\ ~ Marks
  BY DEF SettingsHeal, CfgShape, Edits, Marks, NoTask
<1>3. UNCHANGED <<open, rtDisk, rec, scan, want, excused, crossed, crashes>>
  BY DEF SettingsHeal, wishes, bounds
<1>4. CASE vault' = req.old /\ req' = [req EXCEPT !.at = "vault"]
  <2>1. req' # NoTask /\ Setting' /\ ~ Edits' /\ ~ Marks' /\ IsTask(req') /\ req'.at = "vault"
    BY <1>2, <1>4 DEF CfgShape, IsTask, Setting, Edits, Marks, NoTask
  <2> QED BY <1>1, <1>2, <1>3, <1>4, <2>1 DEF CfgShape, IsTask, IsVault, IsStore
<1>5. CASE vault' = vault /\ req' = NoTask
  BY <1>1, <1>3, <1>5 DEF CfgShape, IsTask, IsVault, IsStore, NoTask, Edits, Marks
<1> QED BY <1>4, <1>5 DEF SettingsHeal

LEMMA SettingsVaultShape == ASSUME CfgShape, SettingsVault PROVE CfgShape'
<1>1. IsStore(rt')
  BY DEF SettingsVault, CfgShape, IsStore
<1>2. req # NoTask /\ Setting /\ ~ Edits /\ ~ Marks
  BY DEF SettingsVault, CfgShape, Setting, Edits, Marks, NoTask
<1>3. UNCHANGED <<open, rec, scan, want, excused, crossed, crashes>> /\ rtDisk' = rt
  BY DEF SettingsVault, wishes, bounds
<1>4. ASSUME vault' = req.cfg,
             req' = [req EXCEPT !.at = "place", !.back = (rt.host # req.cfg.host)]
      PROVE  CfgShape'
  <2>1. req' # NoTask /\ Setting' /\ ~ Edits' /\ ~ Marks' /\ IsTask(req') /\ req'.at = "place"
        /\ req'.cfg = req.cfg /\ req'.old = req.old
    BY <1>2, <1>4 DEF CfgShape, IsTask, Setting, Edits, Marks, NoTask
  <2> QED BY <1>1, <1>2, <1>3, <1>4, <2>1 DEF CfgShape, IsTask, IsVault, IsStore
<1>5. CASE vault' = vault /\ req' = NoTask
  BY <1>1, <1>3, <1>5 DEF CfgShape, IsTask, IsVault, IsStore, NoTask, Edits, Marks
<1> QED BY <1>4, <1>5 DEF SettingsVault

LEMMA ReqVaultShape == ASSUME CfgShape, ReqVault PROVE CfgShape'
<1>1. IsStore(rt')
  BY FreshStore DEF ReqVault, CfgShape
<1>2. req # NoTask /\ Edits /\ ~ Marks /\ req.at = "vault"
  BY DEF ReqVault, CfgShape, Setting, Edits, Marks, NoTask
<1>3. UNCHANGED <<open, rtDisk, rec, scan, want, excused, crossed, crashes>>
  BY DEF ReqVault, wishes
<1>4. IsVault(vault')
  BY <1>2 DEF ReqVault, CfgShape, Setting, Edits
<1>5. req' = [req EXCEPT !.at = "disk"] \/ req' = [req EXCEPT !.at = "rollback"]
  BY DEF ReqVault
<1>6. IsTask(req') /\ Edits' /\ ~ Marks'
      /\ req'.cfg = req.cfg /\ req'.old = req.old /\ req'.back = req.back
      /\ req'.m = req.m
  BY <1>2, <1>5 DEF CfgShape, IsTask, Edits, Marks
<1> QED BY <1>1, <1>2, <1>3, <1>4, <1>6 DEF CfgShape, IsTask, IsVault, IsStore, Setting, Edits

LEMMA RecBeginShape == ASSUME CfgShape, RecBegin PROVE CfgShape'
<1>1. IsStore(rt') /\ IsStore(rtDisk')
  BY FreshStore DEF RecBegin, Restore, CfgShape
<1>2. UNCHANGED <<open, vault, req, want, excused, crossed, crashes>>
  BY DEF RecBegin, wishes, bounds
<1>3. IsTask(rec') /\ (rec' # NoTask => IsVault(rec'.cfg) /\ rec'.at = "vault")
  <2>1. CASE rec' = NoTask
    BY <2>1 DEF IsTask, NoTask
  <2>2. CASE rec' = [rec EXCEPT !.at = "vault", !.cfg = Recovered(@, rt)]
    <3>1. rec'.cfg = Recovered(rec.cfg, rt) /\ rec'.at = "vault" /\ IsTask(rec')
      BY <2>2 DEF CfgShape, IsTask
    <3> QED BY <3>1, RecoveredVault
  <2> QED BY <2>1, <2>2 DEF RecBegin
<1>4. DOMAIN scan' = {"at", "mons", "only", "rows"} /\ scan'.at \in {"off", "wait", "probe"}
  BY DEF RecBegin, Restore, ScanOf, NoScan, CfgShape
<1> QED BY <1>1, <1>2, <1>3, <1>4 DEF CfgShape, IsVault, IsTask, IsStore, Edits, Marks, Setting

LEMMA RecVaultShape == ASSUME CfgShape, RecVault PROVE CfgShape'
<1>1. IsStore(rt') /\ IsStore(rtDisk')
  BY SettledStore DEF RecVault, CfgShape
<1>2. UNCHANGED <<open, req, scan, want, excused, crossed, crashes>>
  BY DEF RecVault, wishes, bounds
<1>3. IsVault(vault') /\ IsTask(rec') /\ (rec' # NoTask => IsVault(rec'.cfg) /\ rec'.at = "synced")
  BY DEF RecVault, CfgShape, IsTask, NoTask
<1> QED BY <1>1, <1>2, <1>3 DEF CfgShape, IsVault, IsTask, IsStore, Edits, Marks, Setting

LEMMA RecSyncedShape == ASSUME CfgShape, RecSynced PROVE CfgShape'
<1>1. IsStore(rt') /\ IsStore(rtDisk')
  BY FreshStore DEF RecSynced, Restore, CfgShape
<1>2. UNCHANGED <<open, vault, req, want, excused, crossed, crashes>> /\ rec' = NoTask
  BY DEF RecSynced, wishes, bounds
<1>3. DOMAIN scan' = {"at", "mons", "only", "rows"} /\ scan'.at \in {"off", "wait", "probe"}
  BY DEF RecSynced, Restore, ScanOf, NoScan, CfgShape
<1> QED BY <1>1, <1>2, <1>3
     DEF CfgShape, IsVault, IsTask, IsStore, NoTask, Edits, Marks, Setting

LEMMA RestartShape == ASSUME CfgShape, Restart PROVE CfgShape'
<1>1. IsStore(rt') /\ rtDisk' = rtDisk
  BY DEF Restart, CfgShape, IsStore
<1>2. UNCHANGED <<vault, want, crossed>> /\ req' = NoTask /\ rec' = NoTask /\ scan' = NoScan
      /\ open' = FALSE /\ crashes' = crashes + 1
  BY DEF Restart
<1>3. excused' \subseteq Targets
  <2>1. CASE req.at \in {"mark", "owe"}
    BY <2>1 DEF Restart
  <2>2. CASE req.at \in {"disk", "rollback", "undo"}
    <3>1. req.m \in Targets
      BY <2>2 DEF CfgShape, Edits, Marks, Setting, NoTask
    <3> QED BY <2>2, <3>1 DEF Restart, CfgShape
  <2>3. CASE req.at \notin {"mark", "owe", "disk", "rollback", "undo"}
    BY <2>3 DEF Restart, CfgShape
  <2> QED BY <2>1, <2>2, <2>3
<1>4. IsTask(NoTask) /\ DOMAIN NoScan = {"at", "mons", "only", "rows"} /\ NoScan.at = "off"
  BY DEF IsTask, NoTask, NoScan
<1>5. IsTask(req') /\ IsTask(rec')
  BY <1>2, <1>4
<1>6. ~ Edits' /\ ~ Marks'
  <2>1. req'.at = "idle"
    BY <1>2 DEF NoTask
  <2> QED BY <2>1 DEF Edits, Marks
<1>7. DOMAIN scan' = {"at", "mons", "only", "rows"} /\ scan'.at = "off"
  BY <1>2, <1>4
<1>8. /\ IsVault(vault') /\ IsStore(rtDisk') /\ DOMAIN want' = Targets
      /\ crossed' \in BOOLEAN /\ crashes' \in Nat /\ open' \in BOOLEAN
  <2>1. crashes' \in Nat
    <3>1. crashes \in Nat /\ crashes' = crashes + 1
      BY <1>2 DEF CfgShape
    <3> QED BY <3>1
  <2>2. IsVault(vault') /\ IsStore(rtDisk') /\ DOMAIN want' = Targets
    BY <1>1, <1>2 DEF CfgShape, IsVault, IsStore
  <2>3. crossed' \in BOOLEAN /\ open' \in BOOLEAN
    BY <1>2 DEF CfgShape
  <2> QED BY <2>1, <2>2, <2>3
<1> QED BY <1>1, <1>2, <1>3, <1>5, <1>6, <1>7, <1>8 DEF CfgShape, IsVault, IsTask, IsStore

LEMMA CfgShapeKept == CfgShape /\ [CfgNext]_cfgVars => CfgShape'
<1> SUFFICES ASSUME CfgShape, [CfgNext]_cfgVars PROVE CfgShape'
  OBVIOUS
<1>1. ASSUME NEW m \in Targets, NEW k \in Keys, SaveTarget(m, k) PROVE CfgShape'
  BY <1>1 DEF Edits, IsVault, IsTask, CfgShape, SaveTarget, Ask, Change, NoScan, wishes
<1>2. ASSUME NEW m \in Targets, RemoveTarget(m) PROVE CfgShape'
  BY <1>2 DEF Edits, IsVault, IsTask, CfgShape, RemoveTarget, Ask, Change
<1>3. CASE ReqVault
  BY <1>3, ReqVaultShape
<1>4. CASE ReqDisk
  BY <1>4 DEF Edits, Marks, IsTask, CfgShape, ReqDisk, ScanOf, Acked, NoTask
<1>5. CASE Rollback
  BY <1>5 DEF Edits, Marks, IsTask, CfgShape, Rollback, NoTask, wishes, bounds
<1>6. CASE RollbackVault
  BY <1>6 DEF Edits, Marks, IsTask, CfgShape, RollbackVault, NoTask, bounds
<1>7. ASSUME NEW m \in Targets, NEW k \in Keys, LockedSave(m, k) PROVE CfgShape'
  BY <1>7 DEF Marks, IsStore, IsTask, CfgShape, LockedSave, Ask, ChangeLocked, Fresh,
       NoScan, wishes
<1>8. ASSUME NEW m \in Targets, LockedRemove(m) PROVE CfgShape'
  BY <1>8 DEF Marks, IsStore, IsTask, CfgShape, LockedRemove, Ask, ChangeLocked, Fresh,
       NoScan, wishes
<1>9. CASE LockedMark
  BY <1>9 DEF Edits, Marks, IsStore, IsTask, CfgShape, LockedMark, NoTask, wishes, bounds
<1>10. CASE LockedDone
  BY <1>10 DEF Edits, Marks, IsTask, CfgShape, LockedDone, Acked, ScanOf, NoTask, bounds
<1>11. ASSUME NEW h \in Hosts \cup {None}, Settings(h) PROVE CfgShape'
  BY <1>11 DEF Edits, Marks, Setting, IsVault, IsTask, CfgShape, Settings, Ask, Recovered,
       wishes
<1>12. CASE SettingsHeal
  BY <1>12, SettingsHealShape
<1>13. CASE SettingsVault
  BY <1>13, SettingsVaultShape
<1>14. CASE SettingsPlace
  BY <1>14 DEF Edits, Marks, Setting, IsTask, CfgShape, SettingsPlace, NoTask, wishes,
       bounds
<1>15. CASE SettingsEndpoint
  BY <1>15 DEF Edits, Marks, IsTask, CfgShape, SettingsEndpoint, ScanOf, NoTask, bounds
<1>16. CASE Unlock
  BY <1>16 DEF Edits, Marks, Setting, IsTask, CfgShape, Unlock, wishes
<1>17. CASE ReadSettings
  BY <1>17 DEF Edits, Marks, Setting, IsVault, IsTask, CfgShape, ReadSettings, Recovered,
       wishes
<1>18. CASE Lock
  <2>1. UNCHANGED <<vault, rt, rtDisk, req, rec, scan, want, excused, crossed, crashes>> /\ open' = FALSE
    BY <1>18 DEF Lock, wishes, bounds
  <2>2. /\ Edits' = Edits /\ Marks' = Marks /\ Setting' = Setting
        /\ open' \in BOOLEAN
    BY <2>1 DEF Edits, Marks, Setting
  <2> QED BY <2>1, <2>2 DEF CfgShape, IsStore, IsVault, IsTask
<1>19. CASE RecBegin
  BY <1>19, RecBeginShape
<1>20. CASE RecVault
  BY <1>20, RecVaultShape
<1>21. CASE RecSynced
  BY <1>21, RecSyncedShape
<1>22. CASE ScanStart
  BY <1>22 DEF Edits, Marks, Setting, CfgShape, ScanStart, wishes, bounds
<1>23. CASE ScanDone
  BY <1>23 DEF Edits, Marks, Setting, IsStore, CfgShape, ScanDone, NoScan, wishes, bounds
<1>24. CASE Restart
  BY <1>24, RestartShape
<1>25. CASE UNCHANGED cfgVars
  BY <1>25 DEF cfgVars, CfgShape, Edits, Marks, Setting, IsStore, IsVault, IsTask
<1> QED BY <1>1, <1>2, <1>3, <1>4, <1>5, <1>6, <1>7, <1>8, <1>9, <1>10, <1>11, <1>12, <1>13,
    <1>14, <1>15, <1>16, <1>17, <1>18, <1>19, <1>20, <1>21, <1>22, <1>23, <1>24, <1>25 DEF CfgNext

-----------------------------------------------------------------------------
\* What a recovery would write is what was acknowledged.
LEMMA RecoveredKept ==
  ASSUME Stored(rt, excused), NotEmptied(rt), Owes(rt, excused)
  PROVE  Kept(Recovered(vault, rt).mons, excused)
<1>1. CASE excused = Targets
  BY <1>1 DEF Kept
<1>2. CASE excused # Targets /\ rt.cat # NoTargets /\ (rt.pending \/ vault.mons = NoTargets)
  BY <1>2 DEF Recovered, Stored
<1>3. CASE excused # Targets /\ ~ (rt.cat # NoTargets /\ (rt.pending \/ vault.mons = NoTargets))
  <2>1. Recovered(vault, rt).mons = vault.mons
    BY <1>3 DEF Recovered
  <2>2. ~ rt.pending
    BY <1>3 DEF NotEmptied
  <2> QED BY <2>1, <2>2 DEF Owes
<1> QED BY <1>1, <1>2, <1>3

LEMMA SaveTargetKeeps ==
  ASSUME NEW m \in Targets, NEW k \in Keys,
         CfgShape, CfgShape', ~ crossed, ~ crossed', CfgFacts, SaveTarget(m, k)
  PROVE  CfgFacts'
<1> /\ req = NoTask \/ rec = NoTask
    /\ RestFacts /\ EditFacts /\ HalfFacts /\ MarkFacts /\ SettingFacts /\ RecFacts /\ OpenFacts
    /\ ScanFacts /\ KnownFacts /\ NamedFacts /\ SameFacts
  BY DEF CfgFacts, TargetFacts, HostFacts
<1>1. (req = NoTask \/ rec = NoTask)'
  BY DEF SaveTarget, Ask, NoTask
<1>2. RestFacts' /\ HalfFacts' /\ MarkFacts' /\ SettingFacts' /\ RecFacts'
      /\ OpenFacts' /\ ScanFacts'
  BY DEF RestFacts, Halfway, Marks, Stored, NotEmptied, Owes, Kept, SaveTarget, Ask, Change,
       NoTask, NoScan, wishes, HalfFacts, Settles, MarkFacts, SettingFacts, Setting,
       RecFacts, OpenFacts, ScanFacts
<1>3. EditFacts'
  BY DEF EditFacts, Stored, NotEmptied, Settles, Kept, RestFacts, Halfway, Marks, Owes,
       OpenFacts, CfgShape, IsStore, IsVault, SaveTarget, Ask, Change, Put, NoTask, NoScan,
       wishes
<1>4. KnownFacts' /\ NamedFacts'
  BY DEF KnownFacts, Setting, SaveTarget, Change, wishes, NamedFacts
<1>5. SameFacts'
  BY DEF SameFacts, Setting, CfgShape, IsVault, SaveTarget, Ask, Change, NoTask, wishes
<1> QED BY <1>1, <1>2, <1>3, <1>4, <1>5 DEF CfgFacts, TargetFacts, HostFacts

LEMMA RemoveTargetKeeps ==
  ASSUME NEW m \in Targets,
         CfgShape, CfgShape', ~ crossed, ~ crossed', CfgFacts, RemoveTarget(m)
  PROVE  CfgFacts'
<1> /\ req = NoTask \/ rec = NoTask
    /\ RestFacts /\ EditFacts /\ HalfFacts /\ MarkFacts /\ SettingFacts /\ RecFacts /\ OpenFacts
    /\ ScanFacts /\ KnownFacts /\ NamedFacts /\ SameFacts
  BY DEF CfgFacts, TargetFacts, HostFacts
<1>1. (req = NoTask \/ rec = NoTask)'
  BY DEF RemoveTarget, Ask, NoTask
<1>2. RestFacts' /\ HalfFacts' /\ MarkFacts' /\ SettingFacts' /\ RecFacts'
      /\ OpenFacts' /\ ScanFacts'
  BY DEF RestFacts, Halfway, Marks, Stored, NotEmptied, Owes, Kept, RemoveTarget, Ask,
       Change, NoTask, HalfFacts, Settles, MarkFacts, SettingFacts, Setting, RecFacts,
       OpenFacts, ScanFacts
<1>3. EditFacts'
  BY DEF EditFacts, Stored, NotEmptied, Settles, Kept, RestFacts, Halfway, Marks, Owes,
       OpenFacts, CfgShape, IsStore, IsVault, RemoveTarget, Ask, Change, Drop, Restrict,
       NoTask, NoScan
<1>4. KnownFacts' /\ NamedFacts'
  BY DEF KnownFacts, Setting, RemoveTarget, Change, NamedFacts
<1>5. SameFacts'
  BY DEF SameFacts, Setting, CfgShape, IsVault, RemoveTarget, Ask, Change, NoTask
<1> QED BY <1>1, <1>2, <1>3, <1>4, <1>5 DEF CfgFacts, TargetFacts, HostFacts

LEMMA ReqVaultKeeps ==
  ASSUME CfgShape, CfgShape', ~ crossed, ~ crossed', CfgFacts, ReqVault
  PROVE  CfgFacts'
<1> /\ req = NoTask \/ rec = NoTask
    /\ RestFacts /\ EditFacts /\ HalfFacts /\ MarkFacts /\ SettingFacts /\ RecFacts /\ OpenFacts
    /\ ScanFacts /\ KnownFacts /\ NamedFacts /\ SameFacts
  BY DEF CfgFacts, TargetFacts, HostFacts
<1>1. (req = NoTask \/ rec = NoTask)'
  BY DEF ReqVault, NoTask
<1>2. RestFacts'
  BY DEF RestFacts, Halfway, CfgShape, IsTask, ReqVault
<1>3. EditFacts'
  BY DEF EditFacts, Stored, NotEmptied, Settles, Kept, CfgShape, Marks, Setting, IsTask,
       ReqVault, NoTask, wishes
<1>4. HalfFacts'
  <2>1. req.at = "vault" /\ Edits /\ IsTask(req) /\ rec = NoTask
    BY DEF ReqVault, CfgShape, Setting, NoTask, Marks
  <2>2. Stored(rt, excused) /\ NotEmptied(rt) /\ Stored(rtDisk, excused) /\ NotEmptied(rtDisk)
        /\ Owes(rt, excused)
    BY <2>1 DEF RestFacts, Halfway, Marks
  <2>3. Kept(req.cfg.mons, excused \cup {req.m})
    BY <2>1 DEF EditFacts
  <2>4. UNCHANGED <<rtDisk, want, excused, revived>> /\ req'.m = req.m
    BY <2>1 DEF ReqVault, wishes, IsTask
  <2>5. CASE vault' = req.cfg /\ rt' = Fresh(req.cfg) /\ req' = [req EXCEPT !.at = "disk"]
    <3>1. req'.at = "disk" /\ req'.cfg = req.cfg /\ rt'.cat = req.cfg.mons /\ rt'.rows = req.cfg.mons
          /\ rt'.pending = FALSE
      BY <2>1, <2>5 DEF IsTask, Fresh
    <3>2. Stored(rtDisk, excused \cup {req.m})' /\ NotEmptied(rtDisk)'
      BY <2>2, <2>4 DEF Stored, Kept, NotEmptied
    <3>3. Kept(rt.cat, excused \cup {req.m})' /\ Kept(rt.rows, (excused \cup {req.m}) \cup revived)'
          /\ Kept(vault.mons, excused \cup {req.m})'
      BY <2>3, <2>4, <2>5, <3>1 DEF Kept
    <3> QED BY <3>1, <3>2, <3>3, <2>5 DEF HalfFacts, Stored, NotEmptied
  <2>6. CASE UNCHANGED <<vault, rt>> /\ req' = [req EXCEPT !.at = "rollback"]
    <3>1. req'.at = "rollback"
      BY <2>1, <2>6 DEF IsTask
    <3>2. Kept(vault.mons, excused)
      BY <2>1 DEF EditFacts
    <3> QED BY <3>1, <3>2, <2>2, <2>4, <2>6 DEF HalfFacts, Stored, Kept, NotEmptied
  <2> QED BY <2>5, <2>6 DEF ReqVault
<1>5. MarkFacts'
  BY DEF MarkFacts, Marks, CfgShape, IsTask, ReqVault
<1>6. SettingFacts'
  BY DEF SettingFacts, Setting, CfgShape, IsTask, ReqVault
<1>7. RecFacts' /\ OpenFacts' /\ ScanFacts'
  BY DEF RecFacts, Kept, Settles, ReqVault, Fresh, NoTask, wishes, OpenFacts, ScanFacts
<1>8. KnownFacts'
  BY DEF KnownFacts, Setting, CfgShape, Marks, IsTask, ReqVault, Fresh, HostOf, NoTask,
       wishes
<1>9. NamedFacts'
  BY DEF NamedFacts, Setting, CfgShape, IsTask, ReqVault
<1>10. SameFacts'
  BY DEF SameFacts, Setting, CfgShape, Marks, IsTask, ReqVault, Fresh, HostOf, NoTask,
       wishes
<1> QED BY <1>1, <1>2, <1>3, <1>4, <1>5, <1>6, <1>7, <1>8, <1>9, <1>10
     DEF CfgFacts, TargetFacts, HostFacts

LEMMA ReqDiskKeeps ==
  ASSUME CfgShape, CfgShape', ~ crossed, ~ crossed', CfgFacts, ReqDisk
  PROVE  CfgFacts'
<1> /\ req = NoTask \/ rec = NoTask
    /\ RestFacts /\ EditFacts /\ HalfFacts /\ MarkFacts /\ SettingFacts /\ RecFacts /\ OpenFacts
    /\ ScanFacts /\ KnownFacts /\ NamedFacts /\ SameFacts
  BY DEF CfgFacts, TargetFacts, HostFacts
<1>1. (req = NoTask \/ rec = NoTask)'
  BY DEF ReqDisk, NoTask
<1>2. RestFacts'
  <2>1. req.at = "disk" /\ Halfway /\ Edits /\ IsTask(req)
        /\ req.m \in Targets /\ DOMAIN want = Targets
    BY DEF ReqDisk, CfgShape, Setting, NoTask, Marks, Halfway, Edits
  <2>2. /\ ~ rt.pending /\ rt.cat = req.cfg.mons /\ vault.mons = req.cfg.mons
        /\ rt.rows = req.cfg.mons \/ req.m \in revived
        /\ Kept(rt.cat, excused \cup {req.m}) /\ Kept(rt.rows, (excused \cup {req.m}) \cup revived)
    BY <2>1 DEF HalfFacts, Stored
  <2>3. UNCHANGED <<vault, rt, excused, revived>>
    BY DEF ReqDisk
  <2>4. CASE req' = [req EXCEPT !.at = "rollback"]
    BY <2>1, <2>4 DEF RestFacts, Halfway, IsTask
  <2>5. CASE rtDisk' = rt /\ want' = [want EXCEPT ![req.m] = None] /\ req.op = "remove"
    <3>1. req.m \notin DOMAIN req.cfg.mons
      BY <2>1, <2>5 DEF EditFacts
    <3>2. Kept(rt.cat, excused)' /\ Kept(vault.mons, excused)'
      BY <3>1, <2>1, <2>2, <2>3, <2>5 DEF Kept
    <3>3. Kept(rt.rows, excused \cup revived)'
      BY <3>1, <2>1, <2>2, <2>3, <2>5 DEF Kept
    <3> QED BY <3>2, <3>3, <2>2, <2>3, <2>5 DEF RestFacts, Stored, NotEmptied, Owes
  <2>6. CASE rtDisk' = rt /\ want' = [want EXCEPT ![req.m] = req.cfg.mons[req.m]] /\ req.op = "save"
    <3>1. req.m \in DOMAIN req.cfg.mons /\ req.cfg.mons[req.m] # None
      BY <2>1, <2>6, KeysAssumption DEF EditFacts
    <3>2. Kept(rt.cat, excused)' /\ Kept(vault.mons, excused)'
      BY <3>1, <2>1, <2>2, <2>3, <2>6 DEF Kept
    <3>3. Kept(rt.rows, excused \cup revived)'
      BY <3>1, <2>1, <2>2, <2>3, <2>6 DEF Kept
    <3> QED BY <3>2, <3>3, <2>2, <2>3, <2>6 DEF RestFacts, Stored, NotEmptied, Owes
  <2> QED BY <2>1, <2>4, <2>5, <2>6 DEF ReqDisk, Acked, Edits
<1>3. EditFacts'
  BY DEF EditFacts, Edits, Stored, NotEmptied, Settles, Kept, CfgShape, IsTask, ReqDisk,
       NoTask
<1>4. HalfFacts'
  BY DEF HalfFacts, Halfway, Kept, Stored, NotEmptied, CfgShape, IsTask, ReqDisk, NoTask
<1>5. MarkFacts'
  BY DEF MarkFacts, Marks, CfgShape, IsTask, ReqDisk, NoTask
<1>6. SettingFacts'
  BY DEF SettingFacts, Setting, Kept, CfgShape, IsTask, ReqDisk, NoTask
<1>7. RecFacts' /\ OpenFacts'
  BY DEF RecFacts, Settles, ReqDisk, NoTask, OpenFacts
<1>8. ScanFacts'
  <2>1. Edits /\ IsTask(req)
        /\ req.m \in Targets /\ DOMAIN want = Targets
    BY DEF ReqDisk, CfgShape, Setting, NoTask, Marks
  <2>2. UNCHANGED <<excused, revived>>
    BY DEF ReqDisk
  <2>3. CASE want' = want /\ scan' = scan
    BY <2>2, <2>3 DEF ScanFacts, Kept
  <2>4. CASE scan' = scan /\ want' = [want EXCEPT ![req.m] = None] /\ req.op = "remove"
    <3>1. scan.at = "off" \/ req.m \in revived
      BY <2>1, <2>4 DEF EditFacts
    <3> QED BY <3>1, <2>1, <2>2, <2>4 DEF ScanFacts, Kept
  <2>5. CASE scan' = ScanOf(req.cfg.mons, {req.m})
             /\ want' = [want EXCEPT ![req.m] = req.cfg.mons[req.m]]
             /\ req.op = "save"
    <3>1. req.m \in DOMAIN req.cfg.mons /\ req.cfg.mons[req.m] # None
          /\ Kept(req.cfg.mons, excused \cup {req.m})
      BY <2>1, <2>5, KeysAssumption DEF EditFacts
    <3>2. scan'.at = "wait" /\ scan'.mons = req.cfg.mons
      BY <2>5 DEF ScanOf
    <3>3. \A n \in Targets : want'[n] = IF n = req.m THEN req.cfg.mons[req.m] ELSE want[n]
      BY <2>1, <2>5
    <3> QED BY <3>1, <3>2, <3>3, <2>2 DEF ScanFacts, Kept
  <2> QED BY <2>1, <2>3, <2>4, <2>5 DEF ReqDisk, Acked, Edits
<1>9. KnownFacts'
  BY DEF KnownFacts, Edits, Setting, CfgShape, IsTask, ReqDisk, HostOf, NoTask
<1>10. NamedFacts'
  BY DEF NamedFacts, Setting, CfgShape, IsTask, ReqDisk, NoTask
<1>11. SameFacts'
  BY DEF SameFacts, Edits, Setting, CfgShape, IsTask, ReqDisk, HostOf, NoTask
<1> QED BY <1>1, <1>2, <1>3, <1>4, <1>5, <1>6, <1>7, <1>8, <1>9, <1>10, <1>11
     DEF CfgFacts, TargetFacts, HostFacts

LEMMA RollbackKeeps ==
  ASSUME CfgShape, CfgShape', ~ crossed, ~ crossed', CfgFacts, Rollback
  PROVE  CfgFacts'
<1> /\ req = NoTask \/ rec = NoTask
    /\ RestFacts /\ EditFacts /\ HalfFacts /\ MarkFacts /\ SettingFacts /\ RecFacts /\ OpenFacts
    /\ ScanFacts /\ KnownFacts /\ NamedFacts /\ SameFacts
  BY DEF CfgFacts, TargetFacts, HostFacts
<1>1. (req = NoTask \/ rec = NoTask)'
  BY DEF Rollback, NoTask
<1>2. RestFacts' /\ EditFacts' /\ MarkFacts' /\ SettingFacts' /\ RecFacts'
      /\ ScanFacts'
  BY DEF RestFacts, Halfway, Marks, Stored, NotEmptied, Kept, Rollback, NoTask, wishes,
       EditFacts, Edits, Settles, MarkFacts, SettingFacts, Setting, RecFacts, ScanFacts
<1>3. HalfFacts'
  BY DEF HalfFacts, Halfway, Kept, Stored, NotEmptied, Settles, EditFacts, CfgShape, Marks,
       Rollback, NoTask, wishes
<1>4. OpenFacts'
  BY DEF OpenFacts, Settles, EditFacts, CfgShape, Marks, Rollback, NoTask, wishes
<1>5. KnownFacts'
  BY DEF KnownFacts, Setting, CfgShape, Marks, Rollback, NoTask, wishes
<1>6. NamedFacts'
  BY DEF NamedFacts, Setting, Rollback
<1>7. SameFacts'
  BY DEF SameFacts, Setting, CfgShape, Marks, Rollback, NoTask, wishes, bounds
<1> QED BY <1>1, <1>2, <1>3, <1>4, <1>5, <1>6, <1>7 DEF CfgFacts, TargetFacts, HostFacts

LEMMA RollbackVaultKeeps ==
  ASSUME CfgShape, CfgShape', ~ crossed, ~ crossed', CfgFacts, RollbackVault
  PROVE  CfgFacts'
<1> /\ req = NoTask \/ rec = NoTask
    /\ RestFacts /\ EditFacts /\ HalfFacts /\ MarkFacts /\ SettingFacts /\ RecFacts /\ OpenFacts
    /\ ScanFacts /\ KnownFacts /\ NamedFacts /\ SameFacts
  BY DEF CfgFacts, TargetFacts, HostFacts
<1>1. (req = NoTask \/ rec = NoTask)'
  BY DEF RollbackVault, NoTask
<1>2. RestFacts'
  BY DEF RestFacts, Marks, Stored, NotEmptied, Owes, Kept, EditFacts, HalfFacts, CfgShape,
       RollbackVault, NoTask
<1>3. EditFacts' /\ HalfFacts' /\ MarkFacts' /\ SettingFacts' /\ RecFacts'
      /\ OpenFacts' /\ ScanFacts'
  BY DEF EditFacts, Edits, Settles, Kept, RollbackVault, NoTask, HalfFacts, Halfway,
       MarkFacts, Marks, SettingFacts, Setting, RecFacts, OpenFacts, ScanFacts
<1>4. KnownFacts' /\ NamedFacts'
  BY DEF KnownFacts, Edits, Setting, RollbackVault, NoTask, NamedFacts
<1>5. SameFacts'
  BY DEF SameFacts, Edits, Setting, CfgShape, RollbackVault, NoTask, bounds
<1> QED BY <1>1, <1>2, <1>3, <1>4, <1>5 DEF CfgFacts, TargetFacts, HostFacts

LEMMA LockedSaveKeeps ==
  ASSUME NEW m \in Targets, NEW k \in Keys,
         CfgShape, CfgShape', ~ crossed, ~ crossed', CfgFacts, LockedSave(m, k)
  PROVE  CfgFacts'
<1> /\ req = NoTask \/ rec = NoTask
    /\ RestFacts /\ EditFacts /\ HalfFacts /\ MarkFacts /\ SettingFacts /\ RecFacts /\ OpenFacts
    /\ ScanFacts /\ KnownFacts /\ NamedFacts /\ SameFacts
  BY DEF CfgFacts, TargetFacts, HostFacts
<1>1. (req = NoTask \/ rec = NoTask)'
  BY DEF LockedSave, Ask, NoTask
<1>2. RestFacts' /\ EditFacts' /\ HalfFacts' /\ SettingFacts' /\ RecFacts'
      /\ OpenFacts' /\ ScanFacts'
  BY DEF RestFacts, Halfway, Marks, Kept, LockedSave, ChangeLocked, Fresh, NoScan, wishes,
       EditFacts, Edits, Settles, HalfFacts, SettingFacts, Setting, RecFacts, OpenFacts,
       ScanFacts
<1>3. MarkFacts'
  BY DEF MarkFacts, Marks, Kept, RestFacts, Halfway, Stored, LockedSave, Ask, ChangeLocked,
       Fresh, NoTask, NoScan, wishes
<1>4. KnownFacts' /\ NamedFacts' /\ SameFacts'
  BY DEF KnownFacts, Edits, Setting, LockedSave, Ask, ChangeLocked, Fresh, Managed, HostOf,
       NoTask, wishes, NamedFacts, SameFacts
<1> QED BY <1>1, <1>2, <1>3, <1>4 DEF CfgFacts, TargetFacts, HostFacts

LEMMA LockedRemoveKeeps ==
  ASSUME NEW m \in Targets,
         CfgShape, CfgShape', ~ crossed, ~ crossed', CfgFacts, LockedRemove(m)
  PROVE  CfgFacts'
<1> /\ req = NoTask \/ rec = NoTask
    /\ RestFacts /\ EditFacts /\ HalfFacts /\ MarkFacts /\ SettingFacts /\ RecFacts /\ OpenFacts
    /\ ScanFacts /\ KnownFacts /\ NamedFacts /\ SameFacts
  BY DEF CfgFacts, TargetFacts, HostFacts
<1>1. (req = NoTask \/ rec = NoTask)'
  BY DEF LockedRemove, Ask, NoTask
<1>2. RestFacts' /\ EditFacts' /\ HalfFacts' /\ SettingFacts' /\ RecFacts'
      /\ OpenFacts' /\ ScanFacts'
  BY DEF RestFacts, Halfway, Marks, Kept, LockedRemove, ChangeLocked, Fresh, NoScan, wishes,
       EditFacts, Edits, Settles, HalfFacts, SettingFacts, Setting, RecFacts, OpenFacts,
       ScanFacts
<1>3. MarkFacts'
  BY DEF MarkFacts, Marks, Kept, RestFacts, Halfway, Stored, LockedRemove, Ask,
       ChangeLocked, Fresh, Drop, Restrict, NoTask, NoScan, wishes
<1>4. KnownFacts' /\ NamedFacts' /\ SameFacts'
  BY DEF KnownFacts, Edits, Setting, LockedRemove, Ask, ChangeLocked, Fresh, Managed,
       HostOf, NoTask, wishes, NamedFacts, SameFacts
<1> QED BY <1>1, <1>2, <1>3, <1>4 DEF CfgFacts, TargetFacts, HostFacts

LEMMA LockedMarkKeeps ==
  ASSUME CfgShape, CfgShape', ~ crossed, ~ crossed', CfgFacts, LockedMark
  PROVE  CfgFacts'
<1> /\ req = NoTask \/ rec = NoTask
    /\ RestFacts /\ EditFacts /\ HalfFacts /\ MarkFacts /\ SettingFacts /\ RecFacts /\ OpenFacts
    /\ ScanFacts /\ KnownFacts /\ NamedFacts /\ SameFacts
  BY DEF CfgFacts, TargetFacts, HostFacts
<1>1. (req = NoTask \/ rec = NoTask)'
  BY DEF LockedMark, NoTask
<1>2. RestFacts' /\ EditFacts' /\ HalfFacts' /\ MarkFacts' /\ SettingFacts'
      /\ RecFacts' /\ ScanFacts'
  BY DEF RestFacts, Halfway, Marks, Kept, LockedMark, NoTask, wishes, EditFacts, Edits,
       HalfFacts, MarkFacts, SettingFacts, Setting, RecFacts, ScanFacts
<1>3. OpenFacts'
  BY DEF OpenFacts, MarkFacts, Marks, LockedMark
<1>4. KnownFacts' /\ NamedFacts' /\ SameFacts'
  BY DEF KnownFacts, Edits, Setting, LockedMark, wishes, bounds, NamedFacts, SameFacts
<1> QED BY <1>1, <1>2, <1>3, <1>4 DEF CfgFacts, TargetFacts, HostFacts

LEMMA LockedDoneKeeps ==
  ASSUME CfgShape, CfgShape', ~ crossed, ~ crossed', CfgFacts, LockedDone
  PROVE  CfgFacts'
<1> /\ req = NoTask \/ rec = NoTask
    /\ RestFacts /\ EditFacts /\ HalfFacts /\ MarkFacts /\ SettingFacts /\ RecFacts /\ OpenFacts
    /\ ScanFacts /\ KnownFacts /\ NamedFacts /\ SameFacts
  BY DEF CfgFacts, TargetFacts, HostFacts
<1>1. (req = NoTask \/ rec = NoTask)'
  BY DEF LockedDone, NoTask
<1>2. RestFacts'
  <2>1. Marks /\ req.at = "owe" /\ req.m \in Targets /\ DOMAIN want = Targets
    BY DEF LockedDone, Marks, CfgShape
  <2>2. rt.pending /\ rt.rows = rt.cat /\ Kept(rt.cat, excused \cup {req.m})
        /\ (req.m \in DOMAIN rt.cat => rt.cat[req.m] # None)
    BY <2>1, KeysAssumption DEF MarkFacts
  <2>3. UNCHANGED <<rt, vault, revived>> /\ rtDisk' = rt
        /\ excused' = IF rt.cat = NoTargets THEN Targets ELSE excused
    BY DEF LockedDone
  <2>4. \A n \in Targets : want'[n] = IF n # req.m THEN want[n]
                                    ELSE IF req.m \in DOMAIN rt.cat THEN rt.cat[req.m] ELSE None
    BY <2>1 DEF LockedDone, Acked
  <2>5. Kept(rt.cat, excused)'
    BY <2>2, <2>3, <2>4 DEF Kept
  <2>6. Stored(rt, excused)'
    BY <2>2, <2>3, <2>5 DEF Stored, Kept
  <2> QED BY <2>2, <2>3, <2>6 DEF RestFacts, Stored, NotEmptied, Owes
<1>3. EditFacts' /\ HalfFacts' /\ MarkFacts' /\ SettingFacts' /\ RecFacts'
      /\ OpenFacts'
  BY DEF EditFacts, Edits, LockedDone, NoTask, HalfFacts, Halfway, MarkFacts, Marks,
       SettingFacts, Setting, RecFacts, OpenFacts
<1>4. ScanFacts'
  <2>1. Marks /\ req.m \in Targets /\ DOMAIN want = Targets
    BY DEF LockedDone, Marks, CfgShape
  <2>2. scan.at = "off" /\ Kept(rt.cat, excused \cup {req.m})
        /\ (req.m \in DOMAIN rt.cat => rt.cat[req.m] # None)
    BY <2>1, KeysAssumption DEF MarkFacts
  <2>3. revived' = revived /\ excused \subseteq excused'
    BY DEF LockedDone, CfgShape
  <2>4. \A n \in Targets : want'[n] = IF n # req.m THEN want[n]
                                    ELSE IF req.m \in DOMAIN rt.cat THEN rt.cat[req.m] ELSE None
    BY <2>1 DEF LockedDone, Acked
  <2>5. CASE scan' = scan
    BY <2>2, <2>5 DEF ScanFacts
  <2>6. CASE scan' = ScanOf(rt.cat, {req.m})
    <3>1. scan'.at = "wait" /\ scan'.mons = rt.cat
      BY <2>6 DEF ScanOf
    <3> QED BY <3>1, <2>2, <2>3, <2>4 DEF ScanFacts, Kept
  <2> QED BY <2>5, <2>6 DEF LockedDone
<1>5. KnownFacts' /\ NamedFacts' /\ SameFacts'
  BY DEF KnownFacts, Edits, Setting, LockedDone, NoTask, bounds, NamedFacts, SameFacts
<1> QED BY <1>1, <1>2, <1>3, <1>4, <1>5 DEF CfgFacts, TargetFacts, HostFacts

LEMMA SettingsKeeps ==
  ASSUME NEW h \in Hosts \cup {None},
         CfgShape, CfgShape', ~ crossed, ~ crossed', CfgFacts, Settings(h)
  PROVE  CfgFacts'
<1> /\ req = NoTask \/ rec = NoTask
    /\ RestFacts /\ EditFacts /\ HalfFacts /\ MarkFacts /\ SettingFacts /\ RecFacts /\ OpenFacts
    /\ ScanFacts /\ KnownFacts /\ NamedFacts /\ SameFacts
  BY DEF CfgFacts, TargetFacts, HostFacts
<1>1. (req = NoTask \/ rec = NoTask)'
  BY DEF Settings, Ask, NoTask
<1>2. RestFacts' /\ EditFacts' /\ HalfFacts' /\ MarkFacts' /\ RecFacts'
      /\ OpenFacts' /\ ScanFacts'
  BY DEF RestFacts, Halfway, Marks, Stored, NotEmptied, Owes, Kept, Settings, Ask, NoTask,
       wishes, EditFacts, Edits, Settles, HalfFacts, MarkFacts, RecFacts, OpenFacts,
       ScanFacts
<1>3. SettingFacts'
  BY DEF SettingFacts, Kept, RestFacts, Halfway, Marks, Stored, NotEmptied, Owes, Settings,
       Ask, Recovered, NoTask, wishes
<1>4. KnownFacts' /\ NamedFacts' /\ SameFacts'
  BY DEF KnownFacts, Edits, Settings, Ask, Recovered, NoTask, wishes, NamedFacts, SameFacts
<1> QED BY <1>1, <1>2, <1>3, <1>4 DEF CfgFacts, TargetFacts, HostFacts

LEMMA SettingsHealKeeps ==
  ASSUME CfgShape, CfgShape', ~ crossed, ~ crossed', CfgFacts, SettingsHeal
  PROVE  CfgFacts'
<1> /\ req = NoTask \/ rec = NoTask
    /\ RestFacts /\ EditFacts /\ HalfFacts /\ MarkFacts /\ SettingFacts /\ RecFacts /\ OpenFacts
    /\ ScanFacts /\ KnownFacts /\ NamedFacts /\ SameFacts
  BY DEF CfgFacts, TargetFacts, HostFacts
<1>1. (req = NoTask \/ rec = NoTask)'
  BY DEF SettingsHeal, NoTask
<1>2. RestFacts'
  BY DEF RestFacts, Halfway, Marks, Stored, NotEmptied, Owes, Kept, SettingFacts, CfgShape,
       Edits, IsStore, SettingsHeal, Settled, NoTask, wishes
<1>3. EditFacts'
  BY DEF EditFacts, Edits, CfgShape, Marks, Setting, IsTask, SettingsHeal, NoTask
<1>4. HalfFacts'
  BY DEF HalfFacts, Halfway, CfgShape, IsTask, SettingsHeal, NoTask
<1>5. MarkFacts'
  BY DEF MarkFacts, Marks, CfgShape, IsTask, SettingsHeal, NoTask
<1>6. SettingFacts'
  BY DEF SettingFacts, Setting, Kept, CfgShape, IsTask, SettingsHeal, NoTask, wishes
<1>7. RecFacts' /\ ScanFacts'
  BY DEF RecFacts, Kept, SettingsHeal, NoTask, wishes, ScanFacts
<1>8. OpenFacts'
  BY DEF OpenFacts, Settles, CfgShape, IsStore, SettingsHeal, Settled, wishes
<1>9. KnownFacts'
  BY DEF KnownFacts, Edits, Setting, CfgShape, Marks, IsStore, IsTask, SettingsHeal,
       Settled, NoTask, wishes
<1>10. NamedFacts'
  BY DEF NamedFacts, Setting, CfgShape, IsTask, SettingsHeal, NoTask
<1>11. SameFacts'
  BY DEF SameFacts, Edits, Setting, CfgShape, Marks, IsStore, IsTask, SettingsHeal, Settled,
       NoTask, wishes, bounds
<1> QED BY <1>1, <1>2, <1>3, <1>4, <1>5, <1>6, <1>7, <1>8, <1>9, <1>10, <1>11
     DEF CfgFacts, TargetFacts, HostFacts

LEMMA SettingsVaultKeeps ==
  ASSUME CfgShape, CfgShape', ~ crossed, ~ crossed', CfgFacts, SettingsVault
  PROVE  CfgFacts'
<1> /\ req = NoTask \/ rec = NoTask
    /\ RestFacts /\ EditFacts /\ HalfFacts /\ MarkFacts /\ SettingFacts /\ RecFacts /\ OpenFacts
    /\ ScanFacts /\ KnownFacts /\ NamedFacts /\ SameFacts
  BY DEF CfgFacts, TargetFacts, HostFacts
<1>1. /\ req # NoTask /\ rec = NoTask /\ Setting /\ req.at = "vault" /\ IsTask(req) /\ IsStore(rt)
      /\ rtDisk' = rt
      /\ UNCHANGED <<open, ep, rec, scan, want, wantHost, excused, revived, crashes>>
  BY DEF SettingsVault, Setting, NoTask, CfgShape, wishes, bounds
<1>2. /\ RestFacts' /\ RecFacts'
      /\ OpenFacts' /\ ScanFacts'
  <2>1. RestFacts'
    BY DEF RestFacts, Halfway, Marks, Stored, NotEmptied, Owes, Kept, SettingFacts, Setting,
         CfgShape, IsStore, SettingsVault, wishes
  <2>2. RecFacts' /\ ScanFacts'
    BY DEF RecFacts, Kept, SettingsVault, NoTask, wishes, ScanFacts
  <2>3. OpenFacts'
    BY DEF OpenFacts, Settles, CfgShape, IsStore, SettingsVault, wishes
  <2> QED BY <2>1, <2>2, <2>3
<1>3. CASE vault' = vault /\ rt' = rt /\ req' = NoTask
  <2>1. ~ Edits' /\ ~ Halfway' /\ ~ Marks' /\ ~ Setting'
    BY <1>3 DEF Edits, Halfway, Marks, Setting, NoTask
  <2>2. EditFacts' /\ HalfFacts' /\ MarkFacts' /\ SettingFacts' /\ NamedFacts'
    BY <2>1 DEF EditFacts, HalfFacts, MarkFacts, SettingFacts, NamedFacts
  <2>3. KnownFacts' /\ SameFacts'
    BY <1>1, <1>3, <2>1 DEF KnownFacts, SameFacts
  <2> QED BY <1>1, <1>2, <2>2, <2>3 DEF CfgFacts, TargetFacts, HostFacts
<1>4. ASSUME vault' = req.cfg, rt' = [rt EXCEPT !.host = req.cfg.host],
             req' = [req EXCEPT !.at = "place", !.back = (rt.host # req.cfg.host)]
      PROVE  CfgFacts'
  <2>1. /\ rt'.host = req.cfg.host /\ rt'.cat = rt.cat
        /\ rt'.rows = rt.rows /\ rt'.pending = rt.pending
        /\ req'.at = "place" /\ req'.op = req.op /\ req'.m = req.m
        /\ req'.cfg = req.cfg /\ req'.old = req.old
    BY <1>1, <1>4 DEF IsTask, IsStore
  <2>2. ~ Edits' /\ ~ Halfway' /\ ~ Marks' /\ Setting'
    BY <1>1, <2>1 DEF Edits, Halfway, Marks, Setting
  <2>3. EditFacts' /\ HalfFacts' /\ MarkFacts'
    BY <2>2 DEF EditFacts, HalfFacts, MarkFacts
  <2>4. SettingFacts' /\ NamedFacts'
    BY <1>1, <2>1 DEF SettingFacts, Kept, NamedFacts
  <2>5. KnownFacts'
    BY <1>1, <2>1, <2>2 DEF KnownFacts
  <2>6. SameFacts'
    BY <1>1, <1>4, <2>1, <2>2 DEF SameFacts
  <2> QED BY <1>1, <1>2, <2>3, <2>4, <2>5, <2>6 DEF CfgFacts, TargetFacts, HostFacts
<1> QED BY <1>3, <1>4 DEF SettingsVault

LEMMA SettingsPlaceKeeps ==
  ASSUME CfgShape, CfgShape', ~ crossed, ~ crossed', CfgFacts, SettingsPlace
  PROVE  CfgFacts'
<1> /\ req = NoTask \/ rec = NoTask
    /\ RestFacts /\ EditFacts /\ HalfFacts /\ MarkFacts /\ SettingFacts /\ RecFacts /\ OpenFacts
    /\ ScanFacts /\ KnownFacts /\ NamedFacts /\ SameFacts
  BY DEF CfgFacts, TargetFacts, HostFacts
<1>1. (req = NoTask \/ rec = NoTask)'
  BY DEF SettingsPlace, NoTask
<1>2. RestFacts' /\ EditFacts' /\ HalfFacts' /\ MarkFacts' /\ SettingFacts'
      /\ RecFacts' /\ OpenFacts' /\ ScanFacts'
  BY DEF RestFacts, Halfway, Marks, Stored, NotEmptied, Owes, Kept, SettingsPlace, wishes,
       EditFacts, Edits, Settles, HalfFacts, MarkFacts, SettingFacts, Setting, RecFacts,
       OpenFacts, ScanFacts
<1>3. KnownFacts' /\ NamedFacts' /\ SameFacts'
  BY DEF KnownFacts, Edits, Setting, SettingsPlace, wishes, bounds, NamedFacts, SameFacts
<1> QED BY <1>1, <1>2, <1>3 DEF CfgFacts, TargetFacts, HostFacts

LEMMA SettingsEndpointKeeps ==
  ASSUME CfgShape, CfgShape', ~ crossed, ~ crossed', CfgFacts, SettingsEndpoint
  PROVE  CfgFacts'
<1> /\ req = NoTask \/ rec = NoTask
    /\ RestFacts /\ EditFacts /\ HalfFacts /\ MarkFacts /\ SettingFacts /\ RecFacts /\ OpenFacts
    /\ ScanFacts /\ KnownFacts /\ NamedFacts /\ SameFacts
  BY DEF CfgFacts, TargetFacts, HostFacts
<1>1. (req = NoTask \/ rec = NoTask)'
  BY DEF SettingsEndpoint, NoTask
<1>2. RestFacts' /\ EditFacts' /\ HalfFacts' /\ MarkFacts' /\ SettingFacts'
      /\ RecFacts' /\ OpenFacts'
  BY DEF RestFacts, Halfway, Marks, Stored, NotEmptied, Owes, Kept, SettingsEndpoint,
       NoTask, EditFacts, Edits, Settles, HalfFacts, MarkFacts, SettingFacts, Setting,
       RecFacts, OpenFacts
<1>3. ScanFacts'
  BY DEF ScanFacts, Kept, SettingFacts, CfgShape, Edits, Marks, SettingsEndpoint, ScanOf,
       NoTask
<1>4. KnownFacts'
  BY DEF KnownFacts, Edits, Setting, NamedFacts, CfgShape, Marks, SettingsEndpoint, NoTask
<1>5. NamedFacts'
  BY DEF NamedFacts, SettingsEndpoint, NoTask
<1>6. SameFacts'
  BY DEF SameFacts, Edits, Setting, NamedFacts, CfgShape, Marks, SettingsEndpoint, NoTask,
       bounds
<1> QED BY <1>1, <1>2, <1>3, <1>4, <1>5, <1>6 DEF CfgFacts, TargetFacts, HostFacts

LEMMA UnlockKeeps ==
  ASSUME CfgShape, CfgShape', ~ crossed, ~ crossed', CfgFacts, Unlock
  PROVE  CfgFacts'
<1> /\ req = NoTask \/ rec = NoTask
    /\ RestFacts /\ EditFacts /\ HalfFacts /\ MarkFacts /\ SettingFacts /\ RecFacts /\ OpenFacts
    /\ ScanFacts /\ KnownFacts /\ NamedFacts /\ SameFacts
  BY DEF CfgFacts, TargetFacts, HostFacts
<1>1. (req = NoTask \/ rec = NoTask)'
  BY DEF Unlock, NoTask
<1>2. RestFacts' /\ EditFacts' /\ HalfFacts' /\ SettingFacts' /\ RecFacts'
      /\ ScanFacts'
  BY DEF RestFacts, Halfway, Marks, Stored, NotEmptied, Owes, Kept, Unlock, wishes,
       EditFacts, Edits, Settles, HalfFacts, SettingFacts, Setting, RecFacts, ScanFacts
<1>3. MarkFacts'
  <2>1. req' = NoTask
    BY DEF Unlock
  <2> QED BY <2>1 DEF MarkFacts, Marks, NoTask
<1>4. OpenFacts'
  <2>1. rec' # NoTask
    <3>1. CASE rec.at = "idle"
      <4>1. rec'.at = "begin"
        BY <3>1 DEF Unlock, NoTask
      <4> QED BY <4>1 DEF NoTask
    <3>2. CASE rec.at # "idle"
      BY <3>2 DEF Unlock, NoTask
    <3> QED BY <3>1, <3>2
  <2> QED BY <2>1 DEF OpenFacts
<1>5. KnownFacts' /\ NamedFacts'
  BY DEF KnownFacts, Edits, Setting, Unlock, wishes, NamedFacts
<1>6. SameFacts'
  <2>1. req' = NoTask /\ req = NoTask
    BY DEF Unlock
  <2>2. ~ Setting /\ ~ Setting' /\ ~ Edits'
    BY <2>1 DEF Setting, Edits, NoTask
  <2>3. crashes = 0 => (rec' # NoTask => rec'.cfg.host = wantHost)
    <3>1. CASE rec.at = "idle"
      <4>1. rec'.cfg = vault
        BY <3>1 DEF Unlock, NoTask
      <4> QED BY <4>1, <2>2 DEF SameFacts
    <3>2. CASE rec.at # "idle"
      <4>1. rec' = rec
        BY <3>2 DEF Unlock
      <4> QED BY <4>1 DEF SameFacts
    <3> QED BY <3>1, <3>2
  <2> QED BY <2>2, <2>3 DEF SameFacts, Unlock, wishes
<1> QED BY <1>1, <1>2, <1>3, <1>4, <1>5, <1>6 DEF CfgFacts, TargetFacts, HostFacts

LEMMA ReadSettingsKeeps ==
  ASSUME CfgShape, CfgShape', ~ crossed, ~ crossed', CfgFacts, ReadSettings
  PROVE  CfgFacts'
<1> /\ req = NoTask \/ rec = NoTask
    /\ RestFacts /\ EditFacts /\ HalfFacts /\ MarkFacts /\ SettingFacts /\ RecFacts /\ OpenFacts
    /\ ScanFacts /\ KnownFacts /\ NamedFacts /\ SameFacts
  BY DEF CfgFacts, TargetFacts, HostFacts
<1>1. (req = NoTask \/ rec = NoTask)'
  BY DEF ReadSettings, NoTask
<1>2. RestFacts' /\ EditFacts' /\ HalfFacts' /\ MarkFacts' /\ SettingFacts'
      /\ ScanFacts'
  BY DEF RestFacts, Halfway, Marks, Stored, NotEmptied, Owes, Kept, ReadSettings, wishes,
       EditFacts, Edits, Settles, HalfFacts, MarkFacts, SettingFacts, Setting, ScanFacts
<1>3. RecFacts'
  <2>1. req = NoTask /\ rec'.at = "vault" /\ rec'.cfg = Recovered(vault, rt)
    BY DEF ReadSettings, NoTask
  <2>2. Stored(rt, excused) /\ NotEmptied(rt) /\ Owes(rt, excused)
    BY <2>1 DEF RestFacts, Halfway, Marks, NoTask
  <2>3. Kept(Recovered(vault, rt).mons, excused)
    BY <2>2, RecoveredKept
  <2>4. Kept(rec'.cfg.mons, excused)
    BY <2>1, <2>3
  <2> QED BY <2>1, <2>4 DEF RecFacts, Kept, ReadSettings, wishes
<1>4. OpenFacts'
  BY DEF OpenFacts, Settles, CfgShape, ReadSettings, wishes
<1>5. KnownFacts' /\ NamedFacts'
  BY DEF KnownFacts, Edits, Setting, ReadSettings, wishes, NamedFacts
<1>6. SameFacts'
  <2>1. req = NoTask /\ rec'.cfg = Recovered(vault, rt)
    BY DEF ReadSettings, NoTask
  <2>2. ~ Setting /\ ~ Setting' /\ ~ Edits'
    BY <2>1 DEF Setting, Edits, NoTask, ReadSettings
  <2>3. crashes = 0 => rec'.cfg.host = wantHost
    BY <2>1, <2>2 DEF SameFacts, Recovered
  <2> QED BY <2>2, <2>3 DEF SameFacts, ReadSettings, wishes
<1> QED BY <1>1, <1>2, <1>3, <1>4, <1>5, <1>6 DEF CfgFacts, TargetFacts, HostFacts

LEMMA LockKeeps ==
  ASSUME CfgShape, CfgShape', ~ crossed, ~ crossed', CfgFacts, Lock
  PROVE  CfgFacts'
<1> /\ req = NoTask \/ rec = NoTask
    /\ RestFacts /\ EditFacts /\ HalfFacts /\ MarkFacts /\ SettingFacts /\ RecFacts /\ OpenFacts
    /\ ScanFacts /\ KnownFacts /\ NamedFacts /\ SameFacts
  BY DEF CfgFacts, TargetFacts, HostFacts
<1>1. (req = NoTask \/ rec = NoTask)'
  BY DEF Lock, NoTask
<1>2. RestFacts' /\ EditFacts' /\ HalfFacts' /\ MarkFacts' /\ SettingFacts'
      /\ RecFacts' /\ OpenFacts' /\ ScanFacts'
  BY DEF RestFacts, Halfway, Marks, Stored, NotEmptied, Owes, Kept, Lock, wishes, EditFacts,
       Edits, Settles, HalfFacts, MarkFacts, SettingFacts, Setting, RecFacts, OpenFacts,
       ScanFacts
<1>3. KnownFacts' /\ NamedFacts' /\ SameFacts'
  BY DEF KnownFacts, Edits, Setting, Lock, wishes, bounds, NamedFacts, SameFacts
<1> QED BY <1>1, <1>2, <1>3 DEF CfgFacts, TargetFacts, HostFacts

LEMMA RecBeginKeeps ==
  ASSUME CfgShape, CfgShape', ~ crossed, ~ crossed', CfgFacts, RecBegin
  PROVE  CfgFacts'
<1> /\ req = NoTask \/ rec = NoTask
    /\ RestFacts /\ EditFacts /\ HalfFacts /\ MarkFacts /\ SettingFacts /\ RecFacts /\ OpenFacts
    /\ ScanFacts /\ KnownFacts /\ NamedFacts /\ SameFacts
  BY DEF CfgFacts, TargetFacts, HostFacts
<1>1. (req = NoTask \/ rec = NoTask)'
  BY DEF RecBegin, NoTask
<1>2. RestFacts'
  BY DEF RestFacts, Halfway, Marks, Stored, NotEmptied, Owes, Kept, RecFacts, RecBegin,
       Heals, Restore, Fresh, wishes
<1>3. EditFacts' /\ HalfFacts' /\ MarkFacts' /\ SettingFacts'
  BY DEF EditFacts, Edits, RecBegin, NoTask, HalfFacts, Halfway, MarkFacts, Marks,
       SettingFacts, Setting
<1>4. RecFacts'
  <2>1. CASE rec' = NoTask
    BY <2>1 DEF RecFacts, NoTask
  <2>2. CASE rec' # NoTask
    <3>1. rec'.at = "vault" /\ rec'.cfg = Recovered(rec.cfg, rt) /\ rec.cfg = vault
      BY <2>2 DEF RecBegin, RecFacts, CfgShape, IsTask
    <3>2. req = NoTask
      BY DEF RecBegin, NoTask
    <3>3. Stored(rt, excused) /\ NotEmptied(rt) /\ Owes(rt, excused)
      BY <3>2 DEF RestFacts, Halfway, Marks, NoTask
    <3>4. Kept(rec'.cfg.mons, excused)
      BY <3>1, <3>3, RecoveredKept
    <3> QED BY <3>1, <3>4 DEF RecFacts, Kept, RecBegin, wishes
  <2> QED BY <2>1, <2>2
<1>5. OpenFacts'
  <2>1. CASE rec' = NoTask
    <3>1. CASE rt' = rt /\ ~ Heals(rec.cfg, rt)
      <4>1. req = NoTask
        BY DEF RecBegin, NoTask
      <4>2. NotEmptied(rt)
        BY <4>1 DEF RestFacts, Halfway, Marks, NoTask
      <4>3. ~ (rt.pending /\ rt.cat # NoTargets)
        BY <3>1 DEF Heals
      <4> QED BY <3>1, <4>2, <4>3 DEF OpenFacts, NotEmptied, Settles, RecBegin, wishes
    <3>2. CASE rt' = Fresh(rec.cfg)
      BY <3>2 DEF OpenFacts, Settles, Fresh
    <3>3. (rt' = rt /\ ~ Heals(rec.cfg, rt)) \/ rt' = Fresh(rec.cfg)
      <4>1. ~ Heals(rec.cfg, rt)
        <5>1. Heals(rec.cfg, rt) => rec'.at = "vault"
          BY DEF RecBegin, CfgShape, IsTask
        <5> QED BY <5>1, <2>1 DEF NoTask
      <4> QED BY <4>1 DEF RecBegin, Restore
    <3> QED BY <3>1, <3>2, <3>3
  <2> QED BY <2>1 DEF OpenFacts
<1>6. ScanFacts'
  BY DEF ScanFacts, Kept, RestFacts, Halfway, Marks, NotEmptied, Owes, RecFacts, RecBegin,
       Heals, Restore, ScanOf, NoTask, NoScan, wishes
<1>7. KnownFacts' /\ NamedFacts'
  BY DEF KnownFacts, Edits, Setting, RecBegin, Restore, Fresh, HostOf, NoTask, wishes,
       NamedFacts
<1>8. SameFacts'
  <2>1. req = NoTask /\ req' = NoTask /\ rec # NoTask
    BY DEF RecBegin, NoTask
  <2>2. ~ Setting /\ ~ Setting' /\ ~ Edits'
    BY <2>1 DEF Setting, Edits, NoTask
  <2>3. crashes = 0 => /\ ep = wantHost /\ vault.host = wantHost /\ rt.host = wantHost
                      /\ rec.cfg.host = wantHost
    BY <2>1, <2>2 DEF SameFacts
  <2>4. UNCHANGED <<vault, wantHost, crashes>>
    BY DEF RecBegin, wishes, bounds
  <2>5. crashes = 0 => ep' = wantHost /\ rt'.host = wantHost
    BY <2>3 DEF RecBegin, Restore, Fresh, HostOf
  <2>6. (crashes = 0 /\ rec' # NoTask) => rec'.cfg.host = wantHost
    <3>1. rec' # NoTask => rec'.cfg = Recovered(rec.cfg, rt)
      BY DEF RecBegin, CfgShape, IsTask
    <3> QED BY <3>1, <2>3 DEF Recovered
  <2> QED BY <2>2, <2>3, <2>4, <2>5, <2>6 DEF SameFacts
<1> QED BY <1>1, <1>2, <1>3, <1>4, <1>5, <1>6, <1>7, <1>8 DEF CfgFacts, TargetFacts, HostFacts

LEMMA RecVaultKeeps ==
  ASSUME CfgShape, CfgShape', ~ crossed, ~ crossed', CfgFacts, RecVault
  PROVE  CfgFacts'
<1> /\ req = NoTask \/ rec = NoTask
    /\ RestFacts /\ EditFacts /\ HalfFacts /\ MarkFacts /\ SettingFacts /\ RecFacts /\ OpenFacts
    /\ ScanFacts /\ KnownFacts /\ NamedFacts /\ SameFacts
  BY DEF CfgFacts, TargetFacts, HostFacts
<1>1. (req = NoTask \/ rec = NoTask)'
  BY DEF RecVault, NoTask
<1>2. RestFacts'
  BY DEF RestFacts, Halfway, Marks, Stored, NotEmptied, Owes, Kept, RecFacts, CfgShape,
       IsStore, RecVault, Settled, wishes
<1>3. EditFacts' /\ HalfFacts' /\ MarkFacts' /\ SettingFacts' /\ OpenFacts'
      /\ ScanFacts'
  BY DEF EditFacts, Edits, Kept, RecVault, NoTask, wishes, HalfFacts, Halfway, MarkFacts,
       Marks, SettingFacts, Setting, OpenFacts, ScanFacts
<1>4. RecFacts'
  BY DEF RecFacts, Kept, Settles, RestFacts, Halfway, Marks, NotEmptied, CfgShape, IsStore,
       IsTask, RecVault, Settled, NoTask, wishes
<1>5. KnownFacts'
  BY DEF KnownFacts, Edits, Setting, CfgShape, IsStore, RecVault, Settled, wishes
<1>6. NamedFacts'
  BY DEF NamedFacts, RecVault, NoTask
<1>7. SameFacts'
  BY DEF SameFacts, Edits, Setting, CfgShape, IsStore, IsTask, RecVault, Settled, NoTask,
       wishes, bounds
<1> QED BY <1>1, <1>2, <1>3, <1>4, <1>5, <1>6, <1>7 DEF CfgFacts, TargetFacts, HostFacts

LEMMA RecSyncedKeeps ==
  ASSUME CfgShape, CfgShape', ~ crossed, ~ crossed', CfgFacts, RecSynced
  PROVE  CfgFacts'
<1> /\ req = NoTask \/ rec = NoTask
    /\ RestFacts /\ EditFacts /\ HalfFacts /\ MarkFacts /\ SettingFacts /\ RecFacts /\ OpenFacts
    /\ ScanFacts /\ KnownFacts /\ NamedFacts /\ SameFacts
  BY DEF CfgFacts, TargetFacts, HostFacts
<1>1. (req = NoTask \/ rec = NoTask)'
  BY DEF RecSynced, NoTask
<1>2. RestFacts'
  BY DEF RestFacts, Halfway, Marks, Stored, NotEmptied, Owes, Kept, RecFacts, RecSynced,
       Restore, Fresh, wishes
<1>3. EditFacts' /\ HalfFacts' /\ MarkFacts' /\ SettingFacts' /\ RecFacts'
  BY DEF EditFacts, Edits, RecSynced, NoTask, HalfFacts, Halfway, MarkFacts, Marks,
       SettingFacts, Setting, RecFacts
<1>4. OpenFacts'
  BY DEF OpenFacts, Settles, RecFacts, RecSynced, Restore, Fresh, wishes
<1>5. ScanFacts'
  BY DEF ScanFacts, Kept, RecFacts, RecSynced, Restore, ScanOf, NoScan, wishes
<1>6. KnownFacts' /\ NamedFacts' /\ SameFacts'
  BY DEF KnownFacts, Edits, Setting, RecSynced, Restore, Fresh, HostOf, NoTask, wishes,
       bounds, NamedFacts, SameFacts
<1> QED BY <1>1, <1>2, <1>3, <1>4, <1>5, <1>6 DEF CfgFacts, TargetFacts, HostFacts

LEMMA ScanStartKeeps ==
  ASSUME CfgShape, CfgShape', ~ crossed, ~ crossed', CfgFacts, ScanStart
  PROVE  CfgFacts'
<1> /\ req = NoTask \/ rec = NoTask
    /\ RestFacts /\ EditFacts /\ HalfFacts /\ MarkFacts /\ SettingFacts /\ RecFacts /\ OpenFacts
    /\ ScanFacts /\ KnownFacts /\ NamedFacts /\ SameFacts
  BY DEF CfgFacts, TargetFacts, HostFacts
<1>1. (req = NoTask \/ rec = NoTask)'
  BY DEF ScanStart, NoTask
<1>2. RestFacts' /\ EditFacts' /\ HalfFacts' /\ MarkFacts' /\ SettingFacts'
      /\ RecFacts' /\ OpenFacts'
  BY DEF RestFacts, Halfway, Marks, Stored, NotEmptied, Owes, Kept, ScanStart, wishes,
       EditFacts, Edits, Settles, HalfFacts, MarkFacts, SettingFacts, Setting, RecFacts,
       OpenFacts
<1>3. ScanFacts'
  <2>1. scan'.at = "probe" /\ scan'.mons = scan.mons /\ scan'.rows = rt.rows
    BY DEF ScanStart, CfgShape
  <2>2. UNCHANGED <<want, excused, revived>>
    BY DEF ScanStart, wishes
  <2>3. Kept(scan.mons, excused \cup revived)
    BY DEF ScanStart, ScanFacts
  <2>4. Kept(rt.rows, excused \cup revived)
    <3>1. CASE ~ Halfway /\ ~ Marks
      BY <3>1 DEF RestFacts, Stored
    <3>2. CASE Halfway
      <4>1. Edits
        BY <3>2 DEF CfgShape, Edits, Halfway, Marks, Setting, NoTask
      <4>2. req.m \in revived
        BY <4>1 DEF EditFacts, Edits, ScanStart
      <4>3. Kept(rt.rows, (excused \cup {req.m}) \cup revived)
        BY <3>2 DEF HalfFacts, Stored
      <4> QED BY <4>2, <4>3 DEF Kept
    <3>3. CASE Marks
      BY <3>3 DEF MarkFacts, ScanStart
    <3> QED BY <3>1, <3>2, <3>3
  <2> QED BY <2>1, <2>2, <2>3, <2>4 DEF ScanFacts, Kept
<1>4. KnownFacts' /\ NamedFacts' /\ SameFacts'
  BY DEF KnownFacts, Edits, Setting, ScanStart, wishes, bounds, NamedFacts, SameFacts
<1> QED BY <1>1, <1>2, <1>3, <1>4 DEF CfgFacts, TargetFacts, HostFacts

LEMMA ScanDoneKeeps ==
  ASSUME CfgShape, CfgShape', ~ crossed, ~ crossed', CfgFacts, ScanDone
  PROVE  CfgFacts'
<1> /\ req = NoTask \/ rec = NoTask
    /\ RestFacts /\ EditFacts /\ HalfFacts /\ MarkFacts /\ SettingFacts /\ RecFacts /\ OpenFacts
    /\ ScanFacts /\ KnownFacts /\ NamedFacts /\ SameFacts
  BY DEF CfgFacts, TargetFacts, HostFacts
<1>1. (req = NoTask \/ rec = NoTask)'
  BY DEF ScanDone, NoTask
<1>2. RestFacts'
  BY DEF RestFacts, Halfway, Marks, Stored, NotEmptied, Owes, Kept, ScanFacts, CfgShape,
       IsStore, ScanDone, wishes
<1>3. EditFacts' /\ MarkFacts' /\ SettingFacts' /\ RecFacts' /\ OpenFacts'
      /\ ScanFacts'
  BY DEF EditFacts, Edits, Stored, NotEmptied, Settles, Kept, ScanDone, NoScan, wishes,
       MarkFacts, Marks, SettingFacts, Setting, RecFacts, OpenFacts, ScanFacts
<1>4. HalfFacts'
  <2> SUFFICES ASSUME Halfway' PROVE HalfFacts'
    BY DEF HalfFacts
  <2>1. Halfway /\ Edits /\ req' = req
    BY DEF ScanDone, CfgShape, Edits, Halfway, Marks, Setting, NoTask
  <2>2. req.m \in revived /\ req.op = "remove"
    BY <2>1 DEF EditFacts, Edits, ScanDone
  <2>3. rtDisk' = rt' /\ rt'.cat = rt.cat /\ rt'.pending = rt.pending
    BY DEF ScanDone, CfgShape, IsStore
  <2>4. UNCHANGED <<vault, want, excused, revived>>
    BY DEF ScanDone, wishes
  <2>5. rt'.rows = [m \in (DOMAIN scan.rows \ scan.only) \cup (scan.only \cap DOMAIN scan.mons) |->
                      IF m \in scan.only THEN scan.mons[m] ELSE scan.rows[m]]
    BY DEF ScanDone, CfgShape, IsStore
  <2>6. Kept(scan.mons, excused \cup revived) /\ Kept(scan.rows, excused \cup revived)
    BY DEF ScanDone, ScanFacts
  <2>7. Kept(rt.rows, excused \cup revived)'
    BY <2>4, <2>5, <2>6 DEF Kept
  <2>8. Kept(rt.rows, (excused \cup {req.m}) \cup revived)'
    BY <2>7 DEF Kept
  <2>9. Kept(rt.cat, excused \cup {req.m})' /\ NotEmptied(rt)' /\ Kept(vault.mons, excused \cup {req.m})'
    BY <2>1, <2>3, <2>4 DEF HalfFacts, Stored, Kept, NotEmptied
  <2>10. req.at = "undo" => Kept(rt.cat, excused)' /\ Settles(rt)'
    BY <2>1, <2>3, <2>4 DEF HalfFacts, Stored, Kept, Settles
  <2>11. req.at = "disk" => ~ rt.pending /\ rt.cat = req.cfg.mons /\ vault.mons = req.cfg.mons
    BY <2>1 DEF HalfFacts
  <2> QED BY <2>1, <2>2, <2>3, <2>4, <2>7, <2>8, <2>9, <2>10, <2>11
       DEF HalfFacts, Stored, NotEmptied, Settles
<1>5. KnownFacts' /\ NamedFacts' /\ SameFacts'
  BY DEF KnownFacts, Edits, Setting, ScanDone, wishes, bounds, NamedFacts, SameFacts
<1> QED BY <1>1, <1>2, <1>3, <1>4, <1>5 DEF CfgFacts, TargetFacts, HostFacts

LEMMA RestartKeeps ==
  ASSUME CfgShape, CfgShape', ~ crossed, ~ crossed', CfgFacts, Restart
  PROVE  CfgFacts'
<1> /\ req = NoTask \/ rec = NoTask
    /\ RestFacts /\ EditFacts /\ HalfFacts /\ MarkFacts /\ SettingFacts /\ RecFacts /\ OpenFacts
    /\ ScanFacts /\ KnownFacts /\ NamedFacts /\ SameFacts
  BY DEF CfgFacts, TargetFacts, HostFacts
<1>1. (req = NoTask \/ rec = NoTask)'
  BY DEF Restart, NoTask
<1>2. RestFacts'
  BY DEF RestFacts, Halfway, Marks, Stored, NotEmptied, Owes, Kept, HalfFacts, CfgShape,
       IsStore, Restart
<1>3. EditFacts' /\ HalfFacts' /\ MarkFacts' /\ SettingFacts' /\ RecFacts'
      /\ OpenFacts' /\ ScanFacts'
  BY DEF EditFacts, Edits, Restart, NoTask, NoScan, HalfFacts, Halfway, MarkFacts, Marks,
       SettingFacts, Setting, RecFacts, OpenFacts, ScanFacts
<1>4. KnownFacts' /\ NamedFacts'
  BY DEF KnownFacts, Edits, Setting, Restart, NoTask, NamedFacts
<1>5. SameFacts'
  BY DEF SameFacts, CfgShape, Restart
<1> QED BY <1>1, <1>2, <1>3, <1>4, <1>5 DEF CfgFacts, TargetFacts, HostFacts

LEMMA CfgPreserved == CfgInv /\ [CfgNext]_cfgVars => CfgInv'
<1> SUFFICES ASSUME CfgInv, [CfgNext]_cfgVars PROVE CfgInv'
  OBVIOUS
<1> CfgShape /\ CfgShape'
  BY CfgShapeKept DEF CfgInv
<1> SUFFICES ASSUME ~ crossed' PROVE CfgFacts'
  BY DEF CfgInv
<1>1. CASE UNCHANGED cfgVars
  <2>1. CfgFacts
    BY <1>1 DEF cfgVars, CfgInv
  <2> QED BY <2>1, <1>1
       DEF cfgVars, CfgFacts, TargetFacts, HostFacts, RestFacts, EditFacts, HalfFacts,
           MarkFacts, SettingFacts, RecFacts, OpenFacts, ScanFacts, KnownFacts, NamedFacts, SameFacts,
           Edits, Halfway, Marks, Setting, Kept, Stored, NotEmptied, Owes, Settles
<1>2. ASSUME CfgNext PROVE ~ crossed
  BY <1>2 DEF CfgNext, SaveTarget, RemoveTarget, ReqVault, ReqDisk, Rollback, RollbackVault,
      LockedSave, LockedRemove, LockedMark, LockedDone, Settings, SettingsHeal,
      SettingsVault, SettingsPlace, SettingsEndpoint, Unlock, ReadSettings, Lock, RecBegin,
      RecVault, RecSynced, ScanStart, ScanDone, Restart, Ask, bounds
<1>3. ASSUME CfgNext PROVE CfgFacts
  BY <1>2, <1>3 DEF CfgInv
<1>4. ASSUME NEW m \in Targets, NEW k \in Keys, SaveTarget(m, k) PROVE CfgFacts'
  BY <1>4, <1>2, <1>3, SaveTargetKeeps DEF CfgNext
<1>5. ASSUME NEW m \in Targets, RemoveTarget(m) PROVE CfgFacts'
  BY <1>5, <1>2, <1>3, RemoveTargetKeeps DEF CfgNext
<1>6. CASE ReqVault
  BY <1>6, <1>2, <1>3, ReqVaultKeeps DEF CfgNext
<1>7. CASE ReqDisk
  BY <1>7, <1>2, <1>3, ReqDiskKeeps DEF CfgNext
<1>8. CASE Rollback
  BY <1>8, <1>2, <1>3, RollbackKeeps DEF CfgNext
<1>9. CASE RollbackVault
  BY <1>9, <1>2, <1>3, RollbackVaultKeeps DEF CfgNext
<1>10. ASSUME NEW m \in Targets, NEW k \in Keys, LockedSave(m, k) PROVE CfgFacts'
  BY <1>10, <1>2, <1>3, LockedSaveKeeps DEF CfgNext
<1>11. ASSUME NEW m \in Targets, LockedRemove(m) PROVE CfgFacts'
  BY <1>11, <1>2, <1>3, LockedRemoveKeeps DEF CfgNext
<1>12. CASE LockedMark
  BY <1>12, <1>2, <1>3, LockedMarkKeeps DEF CfgNext
<1>13. CASE LockedDone
  BY <1>13, <1>2, <1>3, LockedDoneKeeps DEF CfgNext
<1>14. ASSUME NEW h \in Hosts \cup {None}, Settings(h) PROVE CfgFacts'
  BY <1>14, <1>2, <1>3, SettingsKeeps DEF CfgNext
<1>15. CASE SettingsHeal
  BY <1>15, <1>2, <1>3, SettingsHealKeeps DEF CfgNext
<1>16. CASE SettingsVault
  BY <1>16, <1>2, <1>3, SettingsVaultKeeps DEF CfgNext
<1>17. CASE SettingsPlace
  BY <1>17, <1>2, <1>3, SettingsPlaceKeeps DEF CfgNext
<1>18. CASE SettingsEndpoint
  BY <1>18, <1>2, <1>3, SettingsEndpointKeeps DEF CfgNext
<1>19. CASE Unlock
  BY <1>19, <1>2, <1>3, UnlockKeeps DEF CfgNext
<1>20. CASE ReadSettings
  BY <1>20, <1>2, <1>3, ReadSettingsKeeps DEF CfgNext
<1>21. CASE Lock
  BY <1>21, <1>2, <1>3, LockKeeps DEF CfgNext
<1>22. CASE RecBegin
  BY <1>22, <1>2, <1>3, RecBeginKeeps DEF CfgNext
<1>23. CASE RecVault
  BY <1>23, <1>2, <1>3, RecVaultKeeps DEF CfgNext
<1>24. CASE RecSynced
  BY <1>24, <1>2, <1>3, RecSyncedKeeps DEF CfgNext
<1>25. CASE ScanStart
  BY <1>25, <1>2, <1>3, ScanStartKeeps DEF CfgNext
<1>26. CASE ScanDone
  BY <1>26, <1>2, <1>3, ScanDoneKeeps DEF CfgNext
<1>27. CASE Restart
  BY <1>27, <1>2, <1>3, RestartKeeps DEF CfgNext
<1> QED BY <1>1, <1>4, <1>5, <1>6, <1>7, <1>8, <1>9, <1>10, <1>11, <1>12, <1>13, <1>14,
    <1>15, <1>16, <1>17, <1>18, <1>19, <1>20, <1>21, <1>22, <1>23, <1>24, <1>25, <1>26,
    <1>27 DEF CfgNext

\* At rest every copy holds what was acknowledged, the debt or the vault first.
LEMMA CfgInvSays == CfgInv => EditsKept /\ SavedIsWatched
<1> SUFFICES ASSUME CfgInv PROVE EditsKept /\ SavedIsWatched
  OBVIOUS
<1>1. ASSUME Quiet PROVE Kept(Truth, excused) /\ Kept(rt.rows, excused \cup revived)
  <2>1. RestFacts /\ ~ Halfway /\ ~ Marks
    BY <1>1 DEF CfgInv, CfgFacts, TargetFacts, Quiet, Halfway, Marks, NoTask
  <2>2. Stored(rt, excused) /\ Owes(rt, excused)
    BY <2>1 DEF RestFacts
  <2> QED BY <2>2 DEF Stored, Owes, Truth
<1>2. EditsKept
  <2> SUFFICES ASSUME Quiet, NEW m \in Targets \ excused
               PROVE  want[m] = IF m \in DOMAIN Truth THEN Truth[m] ELSE None
    BY DEF EditsKept
  <2>1. /\ m \in DOMAIN Truth <=> want[m] # None
        /\ m \in DOMAIN Truth => Truth[m] = want[m]
    BY <1>1 DEF Kept
  <2> QED BY <2>1
<1>3. WatchesWhatIsSaved
  <2> SUFFICES ASSUME Quiet, NEW m \in Targets \ (excused \cup revived)
               PROVE  /\ m \in DOMAIN rt.rows <=> m \in DOMAIN Truth
                      /\ m \in DOMAIN rt.rows => rt.rows[m] = Truth[m]
    BY DEF WatchesWhatIsSaved
  <2> QED BY <1>1 DEF Kept
<1>4. EndpointKept
  <2> SUFFICES ASSUME Quiet, wantHost # None
               PROVE  IF crashes = 0 THEN rt.host = wantHost ELSE rt.host # None
    BY DEF EndpointKept
  <2>1. KnownFacts /\ SameFacts /\ ~ Setting
    BY DEF CfgInv, CfgFacts, HostFacts, Quiet, Setting, NoTask
  <2> QED BY <2>1 DEF KnownFacts, SameFacts
<1> QED BY <1>2, <1>3, <1>4 DEF SavedIsWatched


\* Acknowledged edits of the watch targets survive failed saves, locks, unlocks
\* and stops (wallet_watch_config, _runtime_management_config).
THEOREM AcknowledgedEditsStay == CfgSpec => []EditsKept
<1>1. CfgInit => CfgInv
  BY CfgStart
<1>2. CfgInv /\ [CfgNext]_cfgVars => CfgInv'
  BY CfgPreserved
<1>3. CfgInv => EditsKept
  BY CfgInvSays
<1> QED BY <1>1, <1>2, <1>3, PTL DEF CfgSpec

\* The addresses polled are those of the saved targets, at the saved node,
\* whatever a scan brings late (_refresh_targets, _overlay_endpoint_backup).
THEOREM PolledIsWhatIsSaved == CfgSpec => []SavedIsWatched
<1>1. CfgInit => CfgInv
  BY CfgStart
<1>2. CfgInv /\ [CfgNext]_cfgVars => CfgInv'
  BY CfgPreserved
<1>3. CfgInv => SavedIsWatched
  BY CfgInvSays
<1> QED BY <1>1, <1>2, <1>3, PTL DEF CfgSpec

-----------------------------------------------------------------------------
(* Overview.                                                               *)
(*                                                                         *)
(* A page is a slice of a ranking.  A part of the wallet's transactions    *)
(* that has its K newest has the same slices up to K, which is why the     *)
(* first answers of a mempool instance suffice for a page no longer than   *)
(* one answer.  That is all it takes: a second round ends in an error or a *)
(* warning, as NextPage models.                                            *)

\* What is newer than t, and the k newest.
Newest(S, t) == {u \in S : Newer(u, t)}
Foremost(S, k) == {u \in S : Rank(S, u) < k}

\* Newer is a strict total order of the transactions.
LEMMA NewerOrders ==
  /\ \A t \in Txs : ~ Newer(t, t)
  /\ \A t, u \in Txs : t = u \/ Newer(t, u) \/ Newer(u, t)
  /\ \A t, u \in Txs : Newer(t, u) => ~ Newer(u, t)
  /\ \A t, u, x \in Txs : Newer(t, u) /\ Newer(u, x) => Newer(t, x)
<1>1. Txs \subseteq Int
  BY DEF Txs
<1> QED
  BY <1>1 DEF Newer

\* There are finitely many transactions.
LEMMA TxsAreFinite ==
  ASSUME NEW S \in SUBSET Txs
  PROVE  IsFiniteSet(S) /\ Cardinality(S) \in Nat
<1>1. IsFiniteSet(Txs)
  BY PageAssumption, FS_Interval DEF Txs
<1> QED
  BY <1>1, FS_Subset, FS_CardinalityType

\* A rank is a number, below the size of a set the transaction is in.
LEMMA RankIsNat ==
  ASSUME NEW S \in SUBSET Txs, NEW t
  PROVE  /\ Rank(S, t) = Cardinality(Newest(S, t)) /\ Rank(S, t) \in Nat
         /\ IsFiniteSet(Newest(S, t)) /\ Newest(S, t) \in SUBSET Txs
         /\ t \in S => Rank(S, t) < Cardinality(S)
<1>1. Newest(S, t) \in SUBSET S /\ Newest(S, t) \in SUBSET Txs
  BY DEF Newest
<1>2. IsFiniteSet(Newest(S, t)) /\ Cardinality(Newest(S, t)) \in Nat
      /\ IsFiniteSet(S) /\ Cardinality(S) \in Nat
  BY <1>1, TxsAreFinite
<1>3. Rank(S, t) = Cardinality(Newest(S, t))
  BY DEF Rank, Newest
<1>4. ASSUME t \in S PROVE Rank(S, t) < Cardinality(S)
  <2>1. t \notin Newest(S, t)
    BY <1>4, NewerOrders DEF Newest
  <2>2. /\ Cardinality(Newest(S, t)) <= Cardinality(S)
        /\ Cardinality(S) = Cardinality(Newest(S, t)) => S = Newest(S, t)
    BY <1>1, <1>2, FS_Subset
  <2> QED
    BY <1>2, <1>3, <1>4, <2>1, <2>2
<1> QED
  BY <1>1, <1>2, <1>3, <1>4

\* Of two transactions the newer one has the smaller rank.
LEMMA RanksOrder ==
  ASSUME NEW S \in SUBSET Txs, NEW t \in S, NEW u \in S
  PROVE  Newer(t, u) <=> Rank(S, t) < Rank(S, u)
<1>1. ASSUME NEW x \in S, NEW y \in S, Newer(x, y)
      PROVE  Rank(S, x) < Rank(S, y)
  <2>1. Newest(S, x) \in SUBSET Newest(S, y)
    BY <1>1, NewerOrders DEF Newest
  <2>2. x \in Newest(S, y) /\ x \notin Newest(S, x)
    BY <1>1, NewerOrders DEF Newest
  <2>3. IsFiniteSet(Newest(S, y)) /\ Rank(S, x) \in Nat /\ Rank(S, y) \in Nat
        /\ Rank(S, x) = Cardinality(Newest(S, x)) /\ Rank(S, y) = Cardinality(Newest(S, y))
    BY RankIsNat
  <2>4. /\ Cardinality(Newest(S, x)) <= Cardinality(Newest(S, y))
        /\ Cardinality(Newest(S, y)) = Cardinality(Newest(S, x)) => Newest(S, y) = Newest(S, x)
    BY <2>1, <2>3, FS_Subset
  <2> QED
    BY <2>2, <2>3, <2>4
<1>2. Rank(S, t) \in Nat /\ Rank(S, u) \in Nat
  BY RankIsNat
<1>3. t = u \/ Newer(t, u) \/ Newer(u, t)
  BY NewerOrders
<1>4. ~ Newer(t, t)
  BY NewerOrders
<1> QED
  BY <1>1, <1>2, <1>3, <1>4

\* Every rank below their number is taken, so that there are k of rank below k.
LEMMA RanksAreTaken ==
  ASSUME NEW S \in SUBSET Txs
  PROVE  /\ \A k \in 0 .. Cardinality(S) - 1 : \E t \in S : Rank(S, t) = k
         /\ \A k \in 0 .. Cardinality(S) : Cardinality(Foremost(S, k)) = k
<1> DEFINE n == Cardinality(S)
           f == [t \in S |-> Rank(S, t)]
<1>1. IsFiniteSet(S) /\ n \in Nat
  BY TxsAreFinite
<1>2. ASSUME NEW t \in S PROVE f[t] = Rank(S, t) /\ f[t] \in 0 .. n - 1
  BY <1>1, RankIsNat
<1>3. \A t, u \in S : f[t] = f[u] => t = u
  <2> TAKE t \in S, u \in S
  <2> HAVE f[t] = f[u]
  <2>1. f[t] \in Nat /\ ~ (Rank(S, t) < Rank(S, u)) /\ ~ (Rank(S, u) < Rank(S, t))
    BY <1>2
  <2>2. ~ Newer(t, u) /\ ~ Newer(u, t)
    BY <2>1, RanksOrder
  <2> QED
    BY <2>2, NewerOrders
<1>4. IsFiniteSet(0 .. n - 1) /\ Cardinality(0 .. n - 1) = n
  BY <1>1, FS_Interval
<1>5. f \in Injection(S, 0 .. n - 1)
  BY <1>2, <1>3 DEF Injection, IsInjective
<1> HIDE DEF f, n
<1>6. f \in Surjection(S, 0 .. n - 1)
  BY <1>1, <1>4, <1>5, FS_Injection DEF n
<1>7. \A k \in 0 .. n - 1 : \E t \in S : f[t] = k
  BY <1>6 DEF Surjection
<1>8. ASSUME NEW k \in 0 .. n PROVE Cardinality(Foremost(S, k)) = k
  <2> DEFINE g == [t \in Foremost(S, k) |-> Rank(S, t)]
  <2>1. Foremost(S, k) \in SUBSET S /\ \A t \in S : t \in Foremost(S, k) <=> f[t] < k
    BY <1>2 DEF Foremost
  <2>2. \A t \in Foremost(S, k) : g[t] = f[t] /\ g[t] \in 0 .. k - 1
    BY <1>1, <1>2, <2>1
  <2>3. g \in Injection(Foremost(S, k), 0 .. k - 1)
    BY <1>3, <2>1, <2>2 DEF Injection, IsInjective
  <2>4. g \in Surjection(Foremost(S, k), 0 .. k - 1)
    <3>1. \A i \in 0 .. k - 1 : \E t \in Foremost(S, k) : f[t] = i
      BY <1>1, <1>7, <2>1
    <3>2. \A i \in 0 .. k - 1 : \E t \in Foremost(S, k) : g[t] = i
      BY <2>2, <3>1
    <3>3. g \in [Foremost(S, k) -> 0 .. k - 1]
      BY <2>3 DEF Injection
    <3> HIDE DEF g
    <3> QED
      BY <3>2, <3>3 DEF Surjection
  <2>5. IsFiniteSet(0 .. k - 1) /\ Cardinality(0 .. k - 1) = k
    BY <1>1, FS_Interval
  <2> HIDE DEF g
  <2> QED
    BY <2>3, <2>4, <2>5, FS_Injection
<1> QED
  BY <1>2, <1>7, <1>8 DEF n

\* A part that has the K newest has every slice within them.
LEMMA SliceOfPart ==
  ASSUME NEW M \in SUBSET Txs, NEW P \in SUBSET M, NEW K \in Nat, Foremost(M, K) \subseteq P,
         NEW a \in Int, NEW b \in Int, b <= K
  PROVE  Slice(P, a, b) = Slice(M, a, b)
<1>0. P \in SUBSET Txs
  OBVIOUS
<1>1. ASSUME NEW t \in M PROVE Rank(M, t) \in Nat /\ Rank(P, t) \in Nat
  BY <1>0, RankIsNat
<1>2. ASSUME NEW t \in M, Rank(M, t) < K PROVE t \in P /\ Rank(P, t) = Rank(M, t)
  <2>1. t \in P
    BY <1>2 DEF Foremost
  <2>2. ASSUME NEW u \in M, Newer(u, t) PROVE u \in P
    <3>1. Rank(M, u) < Rank(M, t)
      BY <2>2, RanksOrder
    <3>2. Rank(M, u) < K
      BY <1>1, <1>2, <3>1
    <3> QED
      BY <3>2 DEF Foremost
  <2>3. {u \in P : Newer(u, t)} = {u \in M : Newer(u, t)}
    BY <2>2
  <2> QED
    BY <2>1, <2>3 DEF Rank
<1>3. ASSUME NEW t \in P, K <= Rank(M, t) PROVE K <= Rank(P, t)
  <2>1. Rank(M, t) < Cardinality(M) /\ Rank(M, t) \in Nat /\ Cardinality(M) \in Nat
    BY RankIsNat, TxsAreFinite
  <2>2. Cardinality(Foremost(M, K)) = K
    <3>1. K \in 0 .. Cardinality(M)
      BY <1>3, <2>1
    <3> QED
      BY <3>1, RanksAreTaken
  <2>3. Foremost(M, K) \in SUBSET Newest(P, t)
    <3>1. ASSUME NEW u \in Foremost(M, K) PROVE u \in Newest(P, t)
      <4>1. u \in M /\ u \in P /\ Rank(M, u) < K /\ Rank(M, u) \in Nat
        BY <1>1 DEF Foremost
      <4>2. Rank(M, u) < Rank(M, t)
        BY <1>3, <2>1, <4>1
      <4>3. Newer(u, t)
        BY <4>1, <4>2, RanksOrder
      <4> QED
        BY <4>1, <4>3 DEF Newest
    <3> QED
      BY <3>1
  <2>4. IsFiniteSet(Newest(P, t)) /\ Rank(P, t) = Cardinality(Newest(P, t))
    BY <1>0, RankIsNat
  <2>5. Cardinality(Foremost(M, K)) <= Cardinality(Newest(P, t))
    BY <2>3, <2>4, FS_Subset
  <2> QED
    BY <2>2, <2>4, <2>5
<1>4. ASSUME NEW t \in P PROVE t \in Slice(P, a, b) <=> t \in Slice(M, a, b)
  <2>1. Rank(M, t) \in Nat /\ Rank(P, t) \in Nat
    BY <1>1
  <2>2. CASE Rank(M, t) < K
    BY <1>2, <2>2 DEF Slice
  <2>3. CASE K <= Rank(M, t)
    <3>1. K <= Rank(P, t)
      BY <1>3, <2>3
    <3>2. ~ (Rank(P, t) < b) /\ ~ (Rank(M, t) < b)
      BY <2>1, <2>3, <3>1
    <3> QED
      BY <3>2 DEF Slice
  <2> QED
    BY <2>1, <2>2, <2>3
<1>5. ASSUME NEW t \in Slice(M, a, b) PROVE t \in P
  <2>1. t \in M /\ Rank(M, t) < b /\ Rank(M, t) \in Nat
    BY <1>1 DEF Slice
  <2>2. Rank(M, t) < K
    BY <2>1
  <2> QED
    BY <1>2, <2>1, <2>2
<1> QED
  BY <1>4, <1>5 DEF Slice

-----------------------------------------------------------------------------
\* What the first answers of a mempool instance hold, when every row is heard.
FirstAnswers == UNION {(History(a) \cap pool) \cup Older(a, N + 1) : a \in Range(Addrs)}

OverviewTypes ==
    /\ touches \in [Txs -> SUBSET Range(Addrs)]
    /\ pool \in SUBSET Txs
    /\ kind \in [Txs -> TxKinds]
    /\ ask.source \in {"electrum", "mempool"} /\ ask.limit \in Limits
    /\ ask.page \in Nat \ {0}
    /\ at \in {"ask", "raw", "prevouts", "round", "finish", "done"}
    /\ warned \in BOOLEAN /\ pageIsList \in BOOLEAN

\* What is loaded at each await, unless a warning or an error is under way.
LoadedFacts ==
    /\ at \in {"raw", "prevouts"} => ask.source = "electrum" /\ (~ warned => loaded = Mine)
    /\ at = "prevouts" /\ ~ warned => raws = Wanted(Mine)
    /\ at = "ask" => ~ pageIsList
    /\ at \in {"round", "finish"} => ask.source = "mempool"
    /\ at = "finish" /\ ~ warned /\ ~ pageIsList => loaded = FirstAnswers

OverviewInv == OverviewTypes /\ LoadedFacts /\ (at = "done" => OverviewExact)

\* What is asked for is a slice that ends at Target or before.
LEMMA AskIsNat ==
  ASSUME OverviewTypes
  PROVE  /\ Target \in Nat /\ PageSize \in Nat \ {0} /\ PerPage \in Nat \ {0}
         /\ ask.page * PageSize \in Nat /\ (ask.page - 1) * PageSize \in Int
         /\ ask.limit \in Nat
         /\ \E a, b \in Int : b <= Target /\ \A S : Wanted(S) = Slice(S, a, b)
<1>1. ask.page \in Nat /\ PageSize \in Nat \ {0} /\ PerPage \in Nat \ {0} /\ ask.limit \in Nat
  BY PageAssumption DEF OverviewTypes
<1>2. ask.page * PageSize \in Nat /\ (ask.page - 1) * PageSize \in Int
  BY <1>1
<1>3. Target \in Nat
  BY <1>1, <1>2 DEF Target
<1>4. CASE Unlimited
  <2>1. Target = ask.page * PageSize
    BY <1>4 DEF Target
  <2>2. \A S : Wanted(S) = Slice(S, (ask.page - 1) * PageSize, ask.page * PageSize)
    BY <1>4 DEF Wanted
  <2> QED
    BY <1>1, <1>2, <1>3, <2>1, <2>2
<1>5. CASE ~ Unlimited
  <2>1. Target = ask.limit
    BY <1>5 DEF Target
  <2>2. \A S : Wanted(S) = Slice(S, 0, ask.limit)
    BY <1>5 DEF Wanted
  <2> QED
    BY <1>1, <1>2, <1>3, <2>1, <2>2
<1> QED
  BY <1>4, <1>5

\* The transactions of the rows are those of the wallet.
LEMMA HistoriesMakeMine ==
  ASSUME OverviewTypes
  PROVE  /\ Mine \in SUBSET Txs
         /\ UNION {History(a) : a \in Range(Addrs)} = Mine
  BY DEF OverviewTypes, Mine, History

\* As far as one answer reaches, the first answers have what is wanted.
LEMMA FirstAnswersSuffice ==
  ASSUME OverviewTypes, Target <= PerPage
  PROVE  Wanted(FirstAnswers) = Wanted(Mine)
<1>1. PICK a, b \in Int : b <= Target /\ \A S : Wanted(S) = Slice(S, a, b)
  BY AskIsNat
<1>2. Mine \in SUBSET Txs /\ Target \in Nat /\ PerPage \in Nat
  BY AskIsNat, HistoriesMakeMine
<1>3. FirstAnswers \in SUBSET Mine
  BY HistoriesMakeMine DEF FirstAnswers, Older, Slice, Mined
<1>4. ASSUME NEW t \in Foremost(Mine, Target) PROVE t \in FirstAnswers
  <2>1. t \in Mine /\ Rank(Mine, t) < Target /\ Rank(Mine, t) \in Nat
    BY <1>2, RankIsNat DEF Foremost
  <2>2. PICK r \in Range(Addrs) : t \in History(r)
    BY <2>1, HistoriesMakeMine
  <2> DEFINE mined == {u \in Mined(History(r)) : u < N + 1}
  <2>3. CASE t \in pool
    BY <2>2, <2>3 DEF FirstAnswers
  <2>4. CASE t \notin pool
    <3>1. t \in mined
      <4>1. t \in 1 .. N /\ N \in Nat
        BY <1>2, <2>1, PageAssumption DEF Txs
      <4>2. t < N + 1
        BY <4>1
      <4> QED
        BY <2>2, <2>4, <4>2 DEF Mined
    <3>2. mined \in SUBSET Mine
      BY HistoriesMakeMine DEF Mined
    <3> HIDE DEF mined
    <3>3. Newest(mined, t) \in SUBSET Newest(Mine, t)
      BY <3>2 DEF Newest
    <3>4. Rank(mined, t) = Cardinality(Newest(mined, t)) /\ Rank(mined, t) \in Nat
          /\ Rank(Mine, t) = Cardinality(Newest(Mine, t)) /\ IsFiniteSet(Newest(Mine, t))
      BY <1>2, <3>2, RankIsNat
    <3>5. Rank(mined, t) <= Rank(Mine, t)
      BY <3>3, <3>4, FS_Subset
    <3>6. Rank(mined, t) >= 0 /\ Rank(mined, t) < PerPage
      BY <1>2, <2>1, <3>4, <3>5
    <3>7. t \in Slice(mined, 0, PerPage)
      BY <3>1, <3>6 DEF Slice
    <3>8. t \in Older(r, N + 1)
      BY <3>7 DEF Older, mined
    <3> QED
      BY <2>2, <3>8 DEF FirstAnswers
  <2> QED
    BY <2>3, <2>4
<1>5. Slice(FirstAnswers, a, b) = Slice(Mine, a, b)
  BY <1>1, <1>2, <1>3, <1>4, SliceOfPart
<1> QED
  BY <1>1, <1>5

\* There is more exactly when there is a transaction beyond the page.
LEMMA MoreIsMore ==
  ASSUME OverviewTypes
  PROVE  MoreThanPages(Mine) <=> \E t \in Mine : Rank(Mine, t) >= ask.page * PageSize
<1> DEFINE k == ask.page * PageSize
           n == Cardinality(Mine)
<1>1. k \in Nat /\ n \in Nat /\ Mine \in SUBSET Txs
  BY AskIsNat, HistoriesMakeMine, TxsAreFinite
<1>2. ASSUME NEW t \in Mine PROVE Rank(Mine, t) \in Nat /\ Rank(Mine, t) < n
  BY <1>1, RankIsNat
<1>3. ASSUME k < n PROVE \E t \in Mine : Rank(Mine, t) >= k
  <2> HIDE DEF k, n
  <2>1. n - 1 \in 0 .. n - 1
    BY <1>1, <1>3
  <2>2. PICK t \in Mine : Rank(Mine, t) = n - 1
    BY <1>1, <2>1, RanksAreTaken DEF n
  <2> QED
    BY <1>1, <1>3, <2>2
<1>4. MoreThanPages(Mine) <=> k < n
  BY DEF MoreThanPages
<1> HIDE DEF k, n
<1>5. (\E t \in Mine : Rank(Mine, t) >= k) => k < n
  BY <1>1, <1>2
<1> QED
  BY <1>3, <1>4, <1>5 DEF k

\* A request that has not begun.
LEMMA OverviewAtFirst == OverviewInit => OverviewInv
<1> SUFFICES ASSUME OverviewInit PROVE OverviewInv
  OBVIOUS
<1>1. OverviewTypes
  <2>1. ask.source \in {"electrum", "mempool"} /\ ask.limit \in Limits /\ ask.page \in 1 .. MaxPage
    BY DEF OverviewInit
  <2>2. ask.page \in Nat \ {0}
    BY <2>1, PageAssumption
  <2> QED
    BY <2>1, <2>2 DEF OverviewInit, OverviewTypes
<1>2. LoadedFacts
  BY DEF OverviewInit, LoadedFacts
<1> QED
  BY <1>1, <1>2 DEF OverviewInit, OverviewInv

\* The transactions, the request and what they mean stay.
LEMMA WorldStays ==
  ASSUME UNCHANGED world
  PROVE  /\ Mine' = Mine /\ FirstAnswers' = FirstAnswers
         /\ (Target <= PerPage)' = (Target <= PerPage)
         /\ \A S : Wanted(S)' = Wanted(S)
         /\ \A t : Rank(Mine, t)' = Rank(Mine, t)
  BY DEF world, Mine, FirstAnswers, History, Older, Mined, Slice, Rank, Newer, Target,
         Unlimited, Wanted

\* Every step of a request keeps the types.
LEMMA OverviewTypesStay ==
  ASSUME OverviewTypes, OverviewNext
  PROVE  OverviewTypes'
  BY DEF OverviewTypes, OverviewNext, Histories, Raws, Prevouts, FirstPages, NextPage, Finish,
         Fails, Skip, world

\* Every step of a request keeps the invariant.
LEMMA OverviewStays ==
  ASSUME OverviewInv, [OverviewNext]_overviewVars
  PROVE  OverviewInv'
<1>1. OverviewTypes /\ LoadedFacts
  BY DEF OverviewInv
<1>2. CASE OverviewNext
  <2>0. OverviewTypes'
    BY <1>1, <1>2, OverviewTypesStay
  <2>1. CASE Histories
    <3>1. PICK silent \in SUBSET Range(Addrs) :
              /\ warned' = (warned \/ silent # {})
              /\ loaded' = UNION {History(a) : a \in Range(Addrs) \ silent}
      BY <2>1 DEF Histories, Fails
    <3>2. at' = "raw" /\ ask.source = "electrum" /\ UNCHANGED world
      BY <2>1 DEF Histories
    <3>3. ~ warned' => loaded' = Mine
      BY <1>1, <3>1, HistoriesMakeMine
    <3>4. LoadedFacts'
      BY <3>2, <3>3, WorldStays DEF LoadedFacts, world
    <3> QED
      BY <2>0, <3>2, <3>4 DEF OverviewInv
  <2>2. CASE Raws
    <3>1. PICK silent \in SUBSET Wanted(loaded) :
              warned' = (warned \/ silent # {}) /\ raws' = Wanted(loaded) \ silent
      BY <2>2 DEF Raws, Fails
    <3>2. /\ at = "raw" /\ at' = "prevouts" /\ UNCHANGED world /\ loaded' = loaded
      BY <2>2 DEF Raws
    <3>3. ask.source = "electrum" /\ (~ warned => loaded = Mine)
      BY <1>1, <3>2 DEF LoadedFacts
    <3>4. ~ warned' => loaded' = Mine /\ raws' = Wanted(Mine)
      BY <3>1, <3>2, <3>3
    <3>5. LoadedFacts'
      BY <3>2, <3>3, <3>4, WorldStays DEF LoadedFacts, world
    <3> QED
      BY <2>0, <3>2, <3>5 DEF OverviewInv
  <2>3. CASE Prevouts
    <3> DEFINE wide == {t \in raws : kind[t] = "wide"}
               spends == {t \in raws : kind[t] = "out"}
    <3>1. PICK silent \in SUBSET spends :
              /\ IF silent # {} THEN warned' = TRUE ELSE warned' = (warned \/ wide # {})
              /\ answer' = [shown |-> raws \ silent, outgoing |-> spends \ silent,
                            more |-> Unlimited /\ MoreThanPages(loaded), error |-> FALSE]
      BY <2>3 DEF Prevouts, Skip
    <3>2. at = "prevouts" /\ at' = "done" /\ UNCHANGED world
      BY <2>3 DEF Prevouts
    <3>3. /\ ask.source = "electrum"
          /\ ~ warned => loaded = Mine /\ raws = Wanted(Mine)
      BY <1>1, <3>2 DEF LoadedFacts
    <3>4. LoadedFacts'
      BY <3>2 DEF LoadedFacts
    <3>5. ASSUME ~ warned' PROVE /\ loaded = Mine /\ raws = Wanted(Mine)
                                 /\ silent = {} /\ wide = {}
      BY <1>1, <3>1, <3>3, <3>5 DEF OverviewTypes
    <3>6. ASSUME ~ warned' PROVE /\ answer'.shown = Wanted(Mine)
                                 /\ answer'.outgoing = {t \in Wanted(Mine) : kind[t] # "in"}
                                 /\ answer'.more = (Unlimited /\ MoreThanPages(Mine))
      <4>1. /\ answer'.shown = raws /\ answer'.outgoing = spends
            /\ answer'.more = (Unlimited /\ MoreThanPages(Mine))
        BY <3>1, <3>5, <3>6
      <4>2. Wanted(Mine) \subseteq Txs
        BY <1>1, HistoriesMakeMine DEF Wanted, Slice
      <4>3. \A t \in raws : kind[t] \in TxKinds /\ kind[t] # "wide"
        BY <1>1, <3>5, <3>6, <4>2 DEF OverviewTypes
      <4> QED
        BY <3>5, <3>6, <4>1, <4>3 DEF TxKinds
    <3>7. PageExact'
      BY <3>2, <3>6, WorldStays DEF PageExact, world
    <3>8. MoreIsHonest'
      <4>1. ASSUME ~ warned', Unlimited
            PROVE  answer'.more = (\E t \in Mine : Rank(Mine, t) >= ask.page * PageSize)
        BY <1>1, <3>6, <4>1, MoreIsMore
      <4>2. Unlimited' = Unlimited /\ ask' = ask
        BY <3>2 DEF Unlimited, world
      <4> QED
        BY <3>2, <4>1, <4>2, WorldStays DEF MoreIsHonest
    <3> QED
      BY <2>0, <3>4, <3>7, <3>8 DEF OverviewInv, OverviewExact
  <2>4. CASE FirstPages
    <3>1. /\ at = "ask" /\ ask.source = "mempool" /\ at' \in {"finish", "round"}
          /\ UNCHANGED world /\ pageIsList' = pageIsList
      BY <2>4 DEF FirstPages
    <3>2. PICK silent \in SUBSET Range(Addrs) :
              /\ warned' = (warned \/ silent # {})
              /\ loaded' = UNION {(History(a) \cap pool) \cup Older(a, N + 1) :
                                     a \in Range(Addrs) \ silent}
      BY <2>4 DEF FirstPages, Fails
    <3>3. ~ warned' => loaded' = FirstAnswers
      BY <1>1, <3>2 DEF FirstAnswers
    <3>4. LoadedFacts'
      BY <3>1, <3>3, WorldStays DEF LoadedFacts, world
    <3> QED
      BY <2>0, <3>1, <3>4 DEF OverviewInv
  <2>5. CASE NextPage
    <3>1. /\ at = "round" /\ at' \in {"finish", "round"} /\ UNCHANGED world
          /\ warned' \/ pageIsList'
      BY <2>5 DEF NextPage, Fails
    <3>2. ask.source = "mempool"
      BY <1>1, <3>1 DEF LoadedFacts
    <3>3. LoadedFacts'
      BY <3>1, <3>2 DEF LoadedFacts, world
    <3> QED
      BY <2>0, <3>1, <3>3 DEF OverviewInv
  <2>6. CASE Finish
    <3>1. /\ at = "finish" /\ at' = "done" /\ UNCHANGED world /\ warned' = warned
          /\ answer' = IF pageIsList THEN [NoAnswer EXCEPT !.error = TRUE]
                       ELSE [shown |-> Wanted(loaded), outgoing |-> {},
                             more |-> Unlimited /\ (DOMAIN cursors # {} \/ MoreThanPages(loaded)),
                             error |-> FALSE]
      BY <2>6 DEF Finish
    <3>2. /\ ask.source = "mempool"
          /\ ~ warned /\ ~ pageIsList => loaded = FirstAnswers
      BY <1>1, <3>1 DEF LoadedFacts
    <3>3. LoadedFacts'
      BY <3>1 DEF LoadedFacts
    <3>4. ASSUME ~ answer'.error PROVE ~ pageIsList /\ answer'.shown = Wanted(loaded)
      BY <3>1, <3>4 DEF NoAnswer
    <3>5. ASSUME ~ answer'.error, ~ warned', Target <= PerPage
          PROVE  answer'.shown = Wanted(Mine)
      BY <1>1, <3>1, <3>2, <3>4, <3>5, FirstAnswersSuffice
    <3>6. ask' = ask /\ ask.source # "electrum"
      BY <3>1, <3>2 DEF world
    <3>7. PageExact'
      BY <3>1, <3>5, <3>6, WorldStays DEF PageExact, Answered
    <3>8. MoreIsHonest'
      BY <3>6 DEF MoreIsHonest
    <3> QED
      BY <2>0, <3>3, <3>7, <3>8 DEF OverviewInv, OverviewExact
  <2> QED
    BY <1>2, <2>1, <2>2, <2>3, <2>4, <2>5, <2>6 DEF OverviewNext
<1>3. CASE UNCHANGED overviewVars
  <2>1. UNCHANGED world
    BY <1>3 DEF overviewVars, world
  <2>2. OverviewTypes' /\ LoadedFacts'
    BY <1>1, <1>3, <2>1, WorldStays DEF overviewVars, OverviewTypes, LoadedFacts
  <2>3. at = "done" => OverviewExact
    BY DEF OverviewInv
  <2>4. at' = "done" => OverviewExact'
    BY <1>3, <2>1, <2>3, WorldStays
       DEF overviewVars, OverviewExact, PageExact, MoreIsHonest, Answered, Unlimited
  <2> QED
    BY <2>2, <2>4 DEF OverviewInv
<1> QED
  BY <1>2, <1>3

\* An overview without a warning shows the page that was asked for, the newest
\* transactions of the whole wallet; from Electrum also their direction, and whether
\* there are more; whichever answers stay out (async_monitor_transactions).
THEOREM OverviewIsExact == OverviewSpec => []OverviewExact
<1>1. OverviewInv => OverviewExact
  BY DEF OverviewInv, OverviewExact, PageExact, MoreIsHonest, Answered
<1>2. OverviewInv /\ [OverviewNext]_overviewVars => OverviewInv'
  BY OverviewStays
<1> QED
  BY <1>1, <1>2, OverviewAtFirst, PTL DEF OverviewSpec

-----------------------------------------------------------------------------
(* Movements.                                                              *)
(*                                                                         *)
(* What a row sees is the flow of its own address, and flows of addresses  *)
(* that differ add up: the event of a poll is the flow of the rows that    *)
(* are part of it, and the rows that move something move all the wallet    *)
(* moves.  Every row brings the whole list of inputs and outputs along, so *)
(* the merged lists repeat the transaction's: everybody's sum is           *)
(* multiplied by the same number and nobody comes earlier, which leaves    *)
(* the ranking of the others, and so those that are kept, as it is.  The   *)
(* records are of rows that differ; one of all rows is the only one.       *)

\* A coin of a list an event may hold.
Bill == [addr : Own \cup Others \cup {""}, value : Nat]

\* What the coins at some addresses are worth.
ValuesAt(c, A) == [i \in At(c, A) |-> c[i].value]

\* List m ranks the others as list c does: the same ones, by what they move, by
\* where they come first.
Alike(m, c) ==
    /\ m \in Seq(Bill)
    /\ \A a \in Others : At(m, {a}) = {} <=> At(c, {a}) = {}
    /\ \A a, b \in Others : Flow(m, {b}) > Flow(m, {a}) <=> Flow(c, {b}) > Flow(c, {a})
    /\ \A a \in Theirs(c) : First(m, a) = First(c, a)

\* The transaction: lists of coins of the wallet and of others.
TxOK ==
    /\ tx.ins \in Seq(Coin) /\ tx.outs \in Seq(Coin)
    /\ Worth(tx.ins) >= Worth(tx.outs)

\* The events of polls, what is made of them, and what is sent of them.
Events == [spent : Nat, received : Nat, out : BOOLEAN, ins : Seq(Bill), outs : Seq(Bill)]
Records == [view : {View(e) : e \in Events}, rows : SUBSET Own]
Amounts == {View(e).amount : e \in Events}

\* Event m shows what the rows A moved in a transaction of inputs k and outputs o,
\* and the others in the order the transaction has them.
Shows(m, A, k, o) ==
    /\ m \in Events
    /\ m.spent = Flow(k, A) /\ m.received = Flow(o, A) /\ m.out = (m.spent > 0)
    /\ Alike(m.ins, k) /\ Alike(m.outs, o)
    /\ \A a : A = {a} => m.ins = k /\ m.outs = o

\* The rows the poll has, each of which moved something, have noticed it.
PollKept ==
    /\ unseen \in SUBSET Touched /\ seen \in SUBSET Touching /\ seen \cap unseen = {}
    /\ seen # {} => Shows(merged, seen, Known, tx.outs)

\* View v says of the transaction what the overview w says.
SaysWhole(v, w) ==
    /\ v.spent = w.spent /\ v.received = w.received /\ v.out = w.out
    /\ DOMAIN v.parties = DOMAIN w.parties

\* Record r is of some of the rows T, of none of the rows B that are still to be
\* told of, and, when it is of all T, says what the overview w says.
RecordOK(r, T, B, w) ==
    /\ r.rows # {} /\ r.rows \in SUBSET T /\ r.rows \cap B = {}
    /\ r.rows = T => SaysWhole(r.view, w)

\* No two records are of the same row.
JournalKept ==
    /\ journal \in Seq(Records)
    /\ \A j \in 1 .. Len(journal) : RecordOK(journal[j], Touching, seen \cup unseen, Whole)
    /\ \A i, j \in 1 .. Len(journal) : i # j => journal[i].rows \cap journal[j].rows = {}

\* What is sent of a transaction that touches one address is the overview's amount.
AlertsKept ==
    /\ alerted \in Seq(Amounts)
    /\ \A a : Touched = {a} => \A i \in 1 .. Len(alerted) : alerted[i] = Whole.amount

MovesInv == TxOK /\ PollKept /\ JournalKept /\ AlertsKept

-----------------------------------------------------------------------------
\* A list of coins moves a natural amount, that of each coin and of all.
LEMMA FlowIsNat ==
  ASSUME NEW c \in Seq(Bill), NEW A
  PROVE  /\ At(c, A) \in SUBSET (1 .. Len(c)) /\ IsFiniteSet(At(c, A)) /\ Len(c) \in Nat
         /\ ValuesAt(c, A) \in [At(c, A) -> Nat]
         /\ Flow(c, A) = Total(ValuesAt(c, A)) /\ Flow(c, A) \in Nat
         /\ \A i \in 1 .. Len(c) : c[i] \in Bill /\ c[i].value \in Nat
<1>1. Len(c) \in Nat /\ DOMAIN c = 1 .. Len(c) /\ \A i \in 1 .. Len(c) : c[i] \in Bill
  BY LenProperties, ElementOfSeq
<1>2. \A i \in 1 .. Len(c) : c[i].value \in Nat
  BY <1>1 DEF Bill
<1>3. At(c, A) \in SUBSET (1 .. Len(c))
  BY <1>1 DEF At
<1>4. IsFiniteSet(At(c, A))
  <2>1. 1 \in Int /\ Len(c) \in Int
    BY <1>1
  <2>2. IsFiniteSet(1 .. Len(c))
    BY <2>1, FS_Interval
  <2> QED
    BY <1>3, <2>2, FS_Subset
<1>5. ValuesAt(c, A) \in [At(c, A) -> Nat]
  BY <1>2, <1>3 DEF ValuesAt
<1>6. Flow(c, A) = Total(ValuesAt(c, A))
  BY DEF Flow, ValuesAt
<1> QED
  BY <1>1, <1>2, <1>3, <1>4, <1>5, <1>6, TotalIsNat

\* What is moved at two sets of addresses that share none.
LEMMA FlowOfBoth ==
  ASSUME NEW c \in Seq(Bill), NEW A, NEW B, A \cap B = {}
  PROVE  Flow(c, A \cup B) = Flow(c, A) + Flow(c, B)
<1> DEFINE S == At(c, A)
           T == At(c, B)
           f == ValuesAt(c, A \cup B)
<1>1. At(c, A \cup B) = S \cup T /\ S \cap T = {}
  BY DEF At
<1>2. IsFiniteSet(S) /\ IsFiniteSet(T) /\ f \in [S \cup T -> Nat] /\ Flow(c, A \cup B) = Total(f)
  BY <1>1, FlowIsNat
<1>3. Only(f, S) = ValuesAt(c, A) /\ Only(f, T) = ValuesAt(c, B)
  BY <1>1 DEF Only, ValuesAt
<1>4. Flow(c, A) = Total(ValuesAt(c, A)) /\ Flow(c, B) = Total(ValuesAt(c, B))
  BY FlowIsNat
<1> HIDE DEF S, T, f
<1>5. Total(f) = Total(Only(f, S)) + Total(Only(f, T))
  BY <1>1, <1>2, TotalOfUnion
<1> QED
  BY <1>2, <1>3, <1>4, <1>5

\* Nothing is moved exactly where every coin is worth nothing.
LEMMA FlowOfNothing ==
  ASSUME NEW c \in Seq(Bill), NEW A
  PROVE  Flow(c, A) = 0 <=> \A i \in At(c, A) : c[i].value = 0
<1> DEFINE S == At(c, A)
           f == ValuesAt(c, A)
<1>1. IsFiniteSet(S) /\ f \in [S -> Nat] /\ Flow(c, A) = Total(f)
  BY FlowIsNat
<1>2. \A i \in S : f[i] = c[i].value
  BY DEF ValuesAt
<1> HIDE DEF S, f
<1>3. ASSUME \A i \in S : f[i] = 0 PROVE Total(f) = 0
  BY <1>1, <1>3, TotalOfZeros
<1>4. ASSUME Total(f) = 0, NEW i \in S PROVE f[i] = 0
  <2>1. f[i] <= Total(f) /\ f[i] \in Nat
    BY <1>1, TotalChanged
  <2> QED
    BY <1>4, <2>1
<1> QED
  BY <1>1, <1>2, <1>3, <1>4 DEF S

\* Addresses no coin belongs to make no difference.
LEMMA FlowAtSame ==
  ASSUME NEW c, NEW A, NEW B, At(c, A) = At(c, B)
  PROVE  Flow(c, A) = Flow(c, B)
BY DEF Flow

\* One list behind the other moves what both do.
LEMMA FlowJoined ==
  ASSUME NEW c \in Seq(Bill), NEW e \in Seq(Bill), NEW A
  PROVE  /\ c \o e \in Seq(Bill)
         /\ Flow(c \o e, A) = Flow(c, A) + Flow(e, A)
         /\ At(c, A) \in SUBSET At(c \o e, A)
         /\ \A i \in At(c \o e, A) \ At(c, A) : i > Len(c)
         /\ At(c \o e, A) = {} <=> At(c, A) = {} /\ At(e, A) = {}
<1> DEFINE m == Len(c)
           n == Len(e)
           j == c \o e
           S == At(c, A)
           E == At(e, A)
           T == {m + i : i \in E}
           f == ValuesAt(j, A)
<1>1. /\ m \in Nat /\ n \in Nat /\ DOMAIN c = 1 .. m /\ DOMAIN e = 1 .. n
      /\ j \in Seq(Bill) /\ DOMAIN j = 1 .. m + n
      /\ \A i \in 1 .. m + n : j[i] = IF i <= m THEN c[i] ELSE e[i - m]
  BY ConcatProperties, LenProperties
<1>2. \A i \in 1 .. m : i \in 1 .. m + n /\ j[i] = c[i]
  BY <1>1
<1>3. \A i \in 1 .. n : m + i \in 1 .. m + n /\ j[m + i] = e[i]
  BY <1>1
<1>4. S \in SUBSET (1 .. m) /\ E \in SUBSET (1 .. n) /\ At(j, A) \in SUBSET (1 .. m + n)
  BY <1>1 DEF At
<1>5. At(j, A) = S \cup T
  <2>1. ASSUME NEW i \in At(j, A) PROVE i \in S \cup T
    <3>1. CASE i <= m
      BY <1>1, <1>4, <2>1, <3>1 DEF At
    <3>2. CASE ~ (i <= m)
      <4>1. i - m \in 1 .. n /\ i = m + (i - m)
        BY <1>1, <1>4, <2>1, <3>2
      <4>2. i - m \in E
        BY <1>1, <1>3, <2>1, <4>1 DEF At
      <4> QED
        BY <4>1, <4>2
    <3> QED
      BY <3>1, <3>2
  <2>2. ASSUME NEW i \in S PROVE i \in At(j, A)
    BY <1>1, <1>2, <1>4, <2>2 DEF At
  <2>3. ASSUME NEW i \in E PROVE m + i \in At(j, A)
    BY <1>1, <1>3, <1>4, <2>3 DEF At
  <2> QED
    BY <2>1, <2>2, <2>3
<1>6. \A i \in T : i > m
  BY <1>1, <1>4
<1>7. S \cap T = {} /\ IsFiniteSet(S) /\ IsFiniteSet(E) /\ IsFiniteSet(T)
  <2>1. S \cap T = {}
    BY <1>1, <1>4, <1>6
  <2>2. IsFiniteSet(S) /\ IsFiniteSet(E)
    BY FlowIsNat
  <2>3. T \in SUBSET (1 .. m + n)
    BY <1>1, <1>3, <1>4
  <2>4. 1 \in Int /\ m + n \in Int
    BY <1>1
  <2> HIDE DEF T, S, E, m, n
  <2>5. IsFiniteSet(1 .. m + n)
    BY <2>4, FS_Interval
  <2> QED
    BY <2>1, <2>2, <2>3, <2>5, FS_Subset
<1>8. f \in [S \cup T -> Nat] /\ Flow(j, A) = Total(f)
  BY <1>1, <1>5, FlowIsNat
<1>9. Only(f, S) = ValuesAt(c, A) /\ Flow(c, A) = Total(ValuesAt(c, A))
  <2>1. \A i \in S : f[i] = c[i].value
    BY <1>2, <1>4, <1>5 DEF ValuesAt
  <2> QED
    BY <2>1, FlowIsNat DEF Only, ValuesAt
<1>10. Total(Only(f, T)) = Flow(e, A)
  <2> DEFINE g == Only(f, T)
             r == [i \in E |-> m + i]
  <2>1. r \in [E -> T] /\ \A x, y \in E : r[x] = r[y] => x = y
    BY <1>1, <1>4
  <2>2. \A z \in T : \E x \in E : r[x] = z
    OBVIOUS
  <2>3. g \in [T -> Nat]
    BY <1>8 DEF Only
  <2>4. \A i \in E : g[r[i]] = e[i].value
    BY <1>3, <1>4, <1>5 DEF Only, ValuesAt
  <2>5. [x \in E |-> g[r[x]]] = ValuesAt(e, A)
    BY <2>4 DEF ValuesAt
  <2>6. /\ IsFiniteSet(E) /\ g \in [T -> Nat] /\ r \in [E -> T]
        /\ \A x, y \in E : r[x] = r[y] => x = y
        /\ \A z \in T : \E x \in E : r[x] = z
    BY <1>7, <2>1, <2>2, <2>3
  <2> HIDE DEF g, r, E, T
  <2>7. Total(g) = Total([x \in E |-> g[r[x]]])
    BY ONLY <2>6, TotalRenamed
  <2> QED
    BY <2>5, <2>7, FlowIsNat DEF g, E
<1> HIDE DEF S, T, f
<1>11. Total(f) = Total(Only(f, S)) + Total(Only(f, T))
  BY <1>7, <1>8, TotalOfUnion
<1>12. Flow(j, A) = Flow(c, A) + Flow(e, A)
  BY <1>8, <1>9, <1>10, <1>11
<1>13. S \cup T = {} <=> S = {} /\ E = {}
  BY DEF T
<1>14. \A i \in At(j, A) \ S : i > m
  BY <1>5, <1>6
<1> QED
  BY <1>1, <1>5, <1>12, <1>13, <1>14 DEF S

\* The first coin of an address, in a list that is continued.
LEMMA FirstJoined ==
  ASSUME NEW c \in Seq(Bill), NEW e \in Seq(Bill), NEW a, At(c, {a}) # {}
  PROVE  First(c \o e, a) = First(c, a)
<1> DEFINE S == At(c, {a})
           T == At(c \o e, {a})
<1>1. S \in SUBSET T /\ \A i \in T \ S : i > Len(c)
  BY FlowJoined
<1>2. S \in SUBSET (1 .. Len(c)) /\ Len(c) \in Nat
  BY FlowIsNat
<1>3. T \in SUBSET (1 .. Len(c \o e)) /\ Len(c \o e) \in Nat
  BY FlowJoined, FlowIsNat
<1> DEFINE x == Min(S)
           y == Min(T)
           n == Len(c)
           k == Len(c \o e)
<1>4. S # {} /\ S \in SUBSET T /\ S \in SUBSET (1 .. n) /\ n \in Nat /\ k \in Nat
      /\ T \in SUBSET (1 .. k) /\ \A i \in T \ S : i > n
  BY <1>1, <1>2, <1>3
<1> HIDE DEF S, T, n, k
<1>5. T # {} /\ (\A i \in S : i \in Nat /\ i <= n) /\ \A i \in T : i \in Nat
  <2>1. T # {}
    BY <1>4
  <2>2. ASSUME NEW i \in S PROVE i \in Nat /\ i <= n
    BY <1>4
  <2>3. ASSUME NEW i \in T PROVE i \in Nat
    BY <1>4
  <2> QED
    BY <2>1, <2>2, <2>3
<1>6. x \in S /\ \A i \in S : x <= i
  <2>1. S \in SUBSET Nat
    BY <1>5
  <2> QED
    BY <1>4, <2>1, LeastOf
<1>7. y \in T /\ \A i \in T : y <= i
  <2>1. T \in SUBSET Nat
    BY <1>5
  <2> QED
    BY <1>5, <2>1, LeastOf
<1>8. /\ n \in Nat /\ x \in Nat /\ y \in Nat /\ x <= n
      /\ S \in SUBSET T /\ \A i \in T \ S : i > n
  BY <1>4, <1>5, <1>6, <1>7
<1> HIDE DEF x, y, n
<1>9. y <= x
  BY <1>6, <1>7, <1>8
<1>10. y \in S
  BY <1>7, <1>8, <1>9
<1>11. x = y
  BY <1>6, <1>8, <1>9, <1>10
<1> QED
  BY <1>11 DEF First, S, T, x, y

\* A list and itself.
LEMMA AlikeItself ==
  ASSUME NEW c \in Seq(Bill)
  PROVE  Alike(c, c)
BY DEF Alike

\* A list that shows everything once more.
LEMMA AlikeOnceMore ==
  ASSUME NEW c \in Seq(Bill), NEW m, Alike(m, c)
  PROVE  Alike(m \o c, c)
<1>1. m \in Seq(Bill)
  BY DEF Alike
<1>2. m \o c \in Seq(Bill) /\ \A a : (At(m \o c, {a}) = {} <=> At(m, {a}) = {} /\ At(c, {a}) = {})
  BY <1>1, FlowJoined
<1>3. \A a \in Others : At(m \o c, {a}) = {} <=> At(c, {a}) = {}
  BY <1>2 DEF Alike
<1>4. ASSUME NEW a \in Others, NEW b \in Others
      PROVE  Flow(m \o c, {b}) > Flow(m \o c, {a}) <=> Flow(c, {b}) > Flow(c, {a})
  <2>1. /\ Flow(m \o c, {a}) = Flow(m, {a}) + Flow(c, {a})
        /\ Flow(m \o c, {b}) = Flow(m, {b}) + Flow(c, {b})
    BY <1>1, FlowJoined
  <2>2. /\ Flow(m, {a}) \in Nat /\ Flow(m, {b}) \in Nat
        /\ Flow(c, {a}) \in Nat /\ Flow(c, {b}) \in Nat
    BY <1>1, FlowIsNat
  <2>3. /\ Flow(m, {b}) > Flow(m, {a}) <=> Flow(c, {b}) > Flow(c, {a})
        /\ Flow(m, {a}) > Flow(m, {b}) <=> Flow(c, {a}) > Flow(c, {b})
    BY DEF Alike
  <2> QED
    BY <2>1, <2>2, <2>3
<1>5. ASSUME NEW a \in Theirs(c) PROVE First(m \o c, a) = First(c, a)
  <2>1. a \in Others /\ At(m, {a}) # {} /\ First(m, a) = First(c, a)
    BY DEF Alike, Theirs
  <2> QED
    BY <1>1, <2>1, FirstJoined
<1> QED
  BY <1>2, <1>3, <1>4, <1>5 DEF Alike

\* Lists that rank the others alike show the same counterparties.
LEMMA AlikeCounterparties ==
  ASSUME NEW c \in Seq(Bill), NEW m, Alike(m, c)
  PROVE  DOMAIN Counterparties(m) = DOMAIN Counterparties(c)
<1>1. m \in Seq(Bill) /\ Theirs(m) = Theirs(c)
  BY DEF Alike, Theirs
<1>2. ASSUME NEW a \in Theirs(c) PROVE Ahead(m, a) = Ahead(c, a)
  <2>1. ASSUME NEW b \in Theirs(c)
        PROVE  /\ Flow(m, {b}) > Flow(m, {a}) <=> Flow(c, {b}) > Flow(c, {a})
               /\ Flow(m, {b}) = Flow(m, {a}) <=> Flow(c, {b}) = Flow(c, {a})
               /\ First(m, b) = First(c, b) /\ First(m, a) = First(c, a)
    <3>1. a \in Others /\ b \in Others
      BY <1>2, <2>1 DEF Theirs
    <3>2. /\ Flow(m, {b}) > Flow(m, {a}) <=> Flow(c, {b}) > Flow(c, {a})
          /\ Flow(m, {a}) > Flow(m, {b}) <=> Flow(c, {a}) > Flow(c, {b})
          /\ First(m, b) = First(c, b) /\ First(m, a) = First(c, a)
      BY <1>2, <2>1, <3>1 DEF Alike
    <3>3. /\ Flow(m, {a}) \in Nat /\ Flow(m, {b}) \in Nat
          /\ Flow(c, {a}) \in Nat /\ Flow(c, {b}) \in Nat
      BY <1>1, FlowIsNat
    <3> QED
      BY <3>2, <3>3
  <2> QED
    BY <1>1, <2>1 DEF Ahead
<1>3. {b \in Theirs(m) : Cardinality(Ahead(m, b)) < Top}
      = {b \in Theirs(c) : Cardinality(Ahead(c, b)) < Top}
  BY <1>1, <1>2
<1> QED
  BY <1>3 DEF Counterparties

\* The addresses of a list are finitely many.
LEMMA TheirsAreFinite ==
  ASSUME NEW c \in Seq(Bill)
  PROVE  IsFiniteSet(Theirs(c)) /\ Theirs(c) \in SUBSET Others
<1> DEFINE S == 1 .. Len(c)
           f == [i \in S |-> c[i].addr]
           T == {f[i] : i \in S}
<1>1. Len(c) \in Nat /\ DOMAIN c = S
  BY LenProperties
<1>2. 1 \in Int /\ Len(c) \in Int
  BY <1>1
<1>3. IsFiniteSet(S)
  BY <1>2, FS_Interval
<1>4. \A i \in S : f[i] = c[i].addr
  OBVIOUS
<1>5. Theirs(c) \in SUBSET T
  BY <1>1, <1>4 DEF Theirs, At
<1>6. f \in [S -> T] /\ \A t \in T : \E s \in S : f[s] = t
  OBVIOUS
<1> HIDE DEF S, T, f
<1>7. IsFiniteSet(T)
  <2>1. f \in Surjection(S, T)
    BY <1>6 DEF Surjection
  <2> QED
    BY <1>3, <2>1, FS_Surjection
<1>8. IsFiniteSet(Theirs(c))
  BY <1>5, <1>7, FS_Subset
<1> QED
  BY <1>8 DEF Theirs

\* What is moved at some addresses, address by address.
LEMMA FlowByAddress ==
  ASSUME NEW c \in Seq(Bill), NEW A, IsFiniteSet(A)
  PROVE  LET f == [a \in A |-> Flow(c, {a})]
         IN f \in [A -> Nat] /\ Total(f) = Flow(c, A)
<1> DEFINE F(s) == [a \in s |-> Flow(c, {a})]
           G == {s \in SUBSET A : Total(F(s)) = Flow(c, s)}
<1>1. ASSUME NEW s \in SUBSET A PROVE IsFiniteSet(s) /\ F(s) \in [s -> Nat]
  <2>1. IsFiniteSet(s)
    BY FS_Subset
  <2>2. \A a \in s : Flow(c, {a}) \in Nat
    BY FlowIsNat
  <2> QED
    BY <2>1, <2>2
<1>2. ASSUME NEW s \in SUBSET A, \A t \in SUBSET s : t # s => t \in G
      PROVE  s \in G
  <2>1. CASE s = {}
    <3>1. At(c, s) = {}
      BY <2>1 DEF At
    <3>2. Flow(c, s) = 0
      BY <3>1, FlowOfNothing
    <3>3. Total(F(s)) = 0
      BY <1>1, <2>1, TotalIsNat
    <3> QED
      BY <3>2, <3>3
  <2>2. CASE s # {}
    <3>1. PICK a \in s : TRUE
      BY <2>2
    <3> DEFINE t == s \ {a}
    <3>2. t \in SUBSET A /\ t \in G
      BY <1>2, <3>1
    <3>3. IsFiniteSet(t) /\ F(t) \in [t -> Nat] /\ F(s) \in [s -> Nat]
      BY <1>1, <3>2
    <3>4. a \notin t /\ s = t \cup {a} /\ \A y \in t : F(t)[y] = F(s)[y]
      BY <3>1
    <3>5. F(s)[a] = Flow(c, {a})
      BY <3>1
    <3>6. t \cap {a} = {}
      BY <3>4
    <3>7. Flow(c, t \cup {a}) = Flow(c, t) + Flow(c, {a})
      BY <3>6, FlowOfBoth
    <3>8. Total(F(t)) = Flow(c, t)
      BY <3>2
    <3> HIDE DEF t, F, G
    <3> DEFINE f == F(s)
               g == F(t)
    <3>9. /\ IsFiniteSet(t) /\ a \notin t /\ s = t \cup {a}
          /\ f \in [s -> Nat] /\ g \in [t -> Nat] /\ \A y \in t : g[y] = f[y]
      BY <3>3, <3>4
    <3> HIDE DEF f, g
    <3>10. Total(f) = Total(g) + f[a]
      BY ONLY <3>9, TotalPlus
    <3>11. Total(F(s)) = Flow(c, s)
      BY <3>4, <3>5, <3>7, <3>8, <3>10 DEF f, g
    <3> QED
      BY <3>11 DEF G
  <2> QED
    BY <2>1, <2>2
<1> HIDE DEF F, G
<1>3. \A s \in SUBSET A : s \in G
  BY <1>2, EverySubset
<1>4. A \in SUBSET A
  OBVIOUS
<1>5. A \in G
  BY <1>3, <1>4
<1> QED
  BY <1>1, <1>4, <1>5 DEF F, G

\* What all coins are worth is what is moved at all addresses.
LEMMA WorthIsFlow ==
  ASSUME NEW c \in Seq(Bill), NEW A, \A i \in 1 .. Len(c) : c[i].addr \in A
  PROVE  Worth(c) = Flow(c, A)
<1>1. DOMAIN c = 1 .. Len(c)
  BY LenProperties
<1>2. At(c, A) = DOMAIN c
  BY <1>1 DEF At
<1> QED
  BY <1>2 DEF Worth, Flow

\* Coins are bills, and so is the coin of nobody.
LEMMA CoinsAreBills ==
  ASSUME TxOK
  PROVE  /\ tx.ins \in Seq(Bill) /\ tx.outs \in Seq(Bill) /\ Known \in Seq(Bill)
         /\ Len(Known) = Len(tx.ins) /\ DOMAIN tx.ins = 1 .. Len(tx.ins)
         /\ Len(tx.ins) \in Nat
         /\ \A i \in 1 .. Len(tx.ins) : tx.ins[i] \in Coin
         /\ \A i \in 1 .. Len(tx.outs) : tx.outs[i] \in Coin
<1>1. Coin \in SUBSET Bill /\ NoCoin \in Bill
  BY AddressAssumption DEF Coin, Bill, NoCoin
<1>2. /\ Len(tx.ins) \in Nat /\ DOMAIN tx.ins = 1 .. Len(tx.ins)
      /\ \A i \in 1 .. Len(tx.ins) : tx.ins[i] \in Coin
  BY LenProperties, ElementOfSeq DEF TxOK
<1>3. /\ Len(tx.outs) \in Nat /\ DOMAIN tx.outs = 1 .. Len(tx.outs)
      /\ \A i \in 1 .. Len(tx.outs) : tx.outs[i] \in Coin
  BY LenProperties, ElementOfSeq DEF TxOK
<1>4. tx.ins \in Seq(Bill) /\ tx.outs \in Seq(Bill)
  BY <1>1 DEF TxOK
<1>5. Known = [i \in 1 .. Len(tx.ins) |-> Known[i]]
      /\ \A i \in 1 .. Len(tx.ins) : Known[i] \in Bill
  BY <1>1, <1>2 DEF Known
<1>6. Known \in Seq(Bill) /\ Len(Known) = Len(tx.ins)
  <2> DEFINE n == Len(tx.ins)
             K == Known
  <2>1. n \in Nat /\ K = [i \in 1 .. n |-> K[i]] /\ \A i \in 1 .. n : K[i] \in Bill
    BY <1>2, <1>5
  <2> HIDE DEF n, K
  <2>2. K \in [1 .. n -> Bill]
    BY <2>1
  <2>3. K \in Seq(Bill) /\ Len(K) = n
    BY <2>1, <2>2
  <2> QED
    BY <2>3 DEF n, K
<1> QED
  BY <1>2, <1>3, <1>4, <1>6

\* When there is room for all others, the counterparties are worth what reached them.
LEMMA PartiesAddUp ==
  ASSUME NEW c \in Seq(Bill), Cardinality(Theirs(c)) <= Top
  PROVE  Total(Counterparties(c)) = Flow(c, Others)
<1> DEFINE T == Theirs(c)
<1>1. IsFiniteSet(T) /\ T \in SUBSET Others /\ Cardinality(T) \in Nat
  BY TheirsAreFinite, FS_CardinalityType
<1>2. ASSUME NEW b \in T PROVE Cardinality(Ahead(c, b)) < Top
  <2> DEFINE A == Ahead(c, b)
  <2>1. First(c, b) \in Nat
    <3>1. At(c, {b}) # {} /\ At(c, {b}) \in SUBSET (1 .. Len(c)) /\ Len(c) \in Nat
      BY FlowIsNat DEF Theirs
    <3> DEFINE S == At(c, {b})
               n == Len(c)
    <3> HIDE DEF n
    <3>2. S # {} /\ S \in SUBSET Nat
      <4>1. S # {} /\ S \in SUBSET (1 .. n) /\ n \in Nat
        BY <3>1 DEF n
      <4> HIDE DEF S
      <4>2. ASSUME NEW i \in S PROVE i \in Nat
        BY <4>1, <4>2
      <4> QED
        BY <4>1, <4>2
    <3> HIDE DEF S
    <3>3. Min(S) \in Nat
      BY <3>2, LeastOf
    <3> QED
      BY <3>3 DEF First, S
  <2>2. Flow(c, {b}) \in Nat
    BY FlowIsNat
  <2>3. b \notin A
    <3>1. ~ (Flow(c, {b}) > Flow(c, {b})) /\ ~ (First(c, b) < First(c, b))
      BY <2>1, <2>2
    <3> QED
      BY <3>1 DEF Ahead
  <2>4. A \in SUBSET (T \ {b})
    BY <2>3 DEF Ahead
  <2> HIDE DEF A, T
  <2>5. IsFiniteSet(T \ {b}) /\ Cardinality(T \ {b}) = Cardinality(T) - 1
    BY <1>1, <1>2, FS_RemoveElement
  <2>6. Cardinality(A) <= Cardinality(T \ {b}) /\ Cardinality(A) \in Nat
    BY <2>4, <2>5, FS_Subset, FS_CardinalityType
  <2>7. Cardinality(T) <= Top /\ Top \in Nat
    BY TopAssumption DEF T
  <2> QED
    BY <1>1, <2>5, <2>6, <2>7 DEF A
<1>3. {b \in T : Cardinality(Ahead(c, b)) < Top} = T
  BY <1>2
<1>4. Counterparties(c) = [a \in T |-> Flow(c, {a})]
  BY <1>3 DEF Counterparties
<1>5. Total([a \in T |-> Flow(c, {a})]) = Flow(c, T)
  BY <1>1, FlowByAddress
<1>6. At(c, T) = At(c, Others)
  <2>1. \A i \in At(c, Others) : c[i].addr \in T
    BY DEF At, Theirs
  <2> QED
    BY <1>1, <2>1 DEF At
<1>7. Flow(c, T) = Flow(c, Others)
  BY <1>6, FlowAtSame
<1> QED
  BY <1>4, <1>5, <1>7

\* Of what leaves the wallet, the others' part and the fee are all there is.
LEMMA MoneyAlwaysAddsUp ==
  ASSUME TxOK
  PROVE  MoneyAddsUp
<1> SUFFICES ASSUME missing = {}, \A c \in ToSet(tx.ins) : c.addr \in Own,
                    Cardinality(Theirs(tx.outs)) <= Top
             PROVE  IF Total(Whole.parties) = 0 THEN Whole.amount = Fee
                    ELSE Whole.spent - Whole.received = Whole.amount + Fee
  BY DEF MoneyAddsUp
<1> DEFINE s == Flow(Known, Own)
           r == Flow(tx.outs, Own)
           o == Flow(tx.outs, Others)
           p == Whole.parties
<1>1. /\ tx.ins \in Seq(Bill) /\ tx.outs \in Seq(Bill) /\ Known \in Seq(Bill)
      /\ DOMAIN tx.ins = 1 .. Len(tx.ins) /\ Len(Known) = Len(tx.ins)
  BY CoinsAreBills
<1>2. s \in Nat /\ r \in Nat /\ o \in Nat
  BY <1>1, FlowIsNat
<1>3. \A i \in 1 .. Len(tx.ins) : Known[i] = tx.ins[i] /\ tx.ins[i].addr \in Own
  BY <1>1 DEF Known, ToSet
<1>4. Worth(tx.ins) = s
  <2>1. Worth(Known) = s
    BY <1>1, <1>3, WorthIsFlow
  <2>2. [i \in DOMAIN Known |-> Known[i].value] = [i \in DOMAIN tx.ins |-> tx.ins[i].value]
    BY <1>1, <1>3 DEF Known
  <2> QED
    BY <2>1, <2>2 DEF Worth
<1>5. Worth(tx.outs) = r + o
  <2>1. \A i \in 1 .. Len(tx.outs) : tx.outs[i].addr \in Own \cup Others
    BY CoinsAreBills DEF Coin
  <2>2. Worth(tx.outs) = Flow(tx.outs, Own \cup Others)
    BY <1>1, <2>1, WorthIsFlow
  <2> QED
    <3>1. Own \cap Others = {} /\ tx.outs \in Seq(Bill)
      BY <1>1, AddressAssumption
    <3>2. Flow(tx.outs, Own \cup Others) = Flow(tx.outs, Own) + Flow(tx.outs, Others)
      BY <3>1, FlowOfBoth, ZenonT(60)
    <3> QED
      BY <2>2, <3>2
<1>6. Fee = s - (r + o) /\ Fee >= 0
  BY <1>2, <1>4, <1>5 DEF Fee, TxOK
<1>7. /\ Whole.spent = s /\ Whole.received = r
      /\ Whole.amount = Amount(WholeEvent, p)
      /\ p = Counterparties(IF s > 0 THEN tx.outs ELSE Known)
      /\ WholeEvent.out <=> s > 0
      /\ WholeEvent.spent = s /\ WholeEvent.received = r
  BY DEF Whole, View, WholeEvent, Outgoing
<1>8. CASE s > 0
  <2>1. Total(p) = o
    BY <1>1, <1>7, <1>8, PartiesAddUp
  <2>2. Whole.amount = IF o > 0 THEN o ELSE Max({0, s - r})
    BY <1>7, <1>8, <2>1 DEF Amount
  <2> HIDE DEF s, r, o, p
  <2>3. CASE o > 0
    BY <1>2, <1>6, <1>7, <2>1, <2>2, <2>3 DEF p
  <2>4. CASE ~ (o > 0)
    <3>1. o = 0 /\ s - r >= 0 /\ s - r \in Int
      BY <1>2, <1>6, <2>4
    <3> DEFINE x == s - r
               M == {0, x}
    <3>2. M \in SUBSET Int /\ x \in M /\ \A y \in M : y <= x
      BY <3>1
    <3> HIDE DEF x, M
    <3>3. Max(M) = x
      BY <3>2, MaxIs
    <3>4. Whole.amount = s - r
      BY <2>2, <2>4, <3>3 DEF x, M
    <3> QED
      BY <1>2, <1>6, <1>7, <2>1, <3>1, <3>4 DEF p
  <2> QED
    BY <2>3, <2>4
<1>9. CASE ~ (s > 0)
  <2>1. Theirs(Known) = {}
    BY <1>1, <1>3, AddressAssumption DEF Theirs, At, Known
  <2>2. Cardinality({}) = 0 /\ Top \in Nat
    BY FS_EmptySet, TopAssumption
  <2>3. Cardinality(Theirs(Known)) <= Top
    BY <2>1, <2>2
  <2>4. Total(p) = Flow(Known, Others)
    BY <1>1, <1>7, <1>9, <2>3, PartiesAddUp
  <2>5. \A i \in At(Known, Others) : Known[i].value = 0
    BY <1>1, <1>3, AddressAssumption DEF At, Known
  <2>6. Flow(Known, Others) = 0
    BY <1>1, <2>5, FlowOfNothing
  <2>7. Whole.amount = r
    BY <1>7, <1>9 DEF Amount
  <2> HIDE DEF s, r, o, p
  <2>8. r = 0 /\ Fee = 0
    BY <1>2, <1>6, <1>9
  <2> QED
    BY <2>4, <2>6, <2>7, <2>8 DEF p
<1> QED
  BY <1>8, <1>9

\* Nothing that is said of the transaction changes while it and the answers stay.
LEMMA TxStays ==
  ASSUME tx' = tx, missing' = missing
  PROVE  /\ Known' = Known /\ Touched' = Touched /\ Touching' = Touching /\ Whole' = Whole
         /\ \A a : RowEvent(a)' = RowEvent(a)
<1>1. Known' = Known
  BY DEF Known
<1>2. Touched' = Touched
  BY DEF Touched
<1>3. ASSUME NEW A PROVE Flow(Known, A)' = Flow(Known, A) /\ Flow(tx.outs, A)' = Flow(tx.outs, A)
  BY <1>1 DEF Flow, At
<1>4. ASSUME NEW a PROVE RowEvent(a)' = RowEvent(a)
  BY <1>1, <1>3 DEF RowEvent
<1>5. Touching' = Touching
  BY <1>2, <1>4 DEF Touching
<1>6. WholeEvent' = WholeEvent
  BY <1>1, <1>3 DEF WholeEvent
<1>7. Whole' = Whole
  BY <1>6 DEF Whole, View
<1> QED
  BY <1>1, <1>2, <1>4, <1>5, <1>7

\* A watched coin of the transaction belongs to an address it touches.
LEMMA OwnCoinsTouch ==
  ASSUME TxOK
  PROVE  /\ \A i \in 1 .. Len(Known) : Known[i].addr \in Own => Known[i].addr \in Touched
         /\ \A i \in 1 .. Len(tx.outs) : tx.outs[i].addr \in Own => tx.outs[i].addr \in Touched
<1>1. Len(Known) = Len(tx.ins) /\ DOMAIN tx.ins = 1 .. Len(tx.ins)
  BY CoinsAreBills
<1>2. DOMAIN tx.outs = 1 .. Len(tx.outs)
  BY LenProperties DEF TxOK
<1>3. ASSUME NEW i \in 1 .. Len(Known), Known[i].addr \in Own
      PROVE  Known[i].addr \in Touched
  <2>1. Known[i] = tx.ins[i] /\ i \in DOMAIN tx.ins
    BY <1>1, <1>3, AddressAssumption DEF Known, NoCoin
  <2>2. tx.ins[i] \in ToSet(tx.ins)
    BY <2>1 DEF ToSet
  <2> QED
    BY <1>3, <2>1, <2>2 DEF Touched
<1>4. ASSUME NEW i \in 1 .. Len(tx.outs), tx.outs[i].addr \in Own
      PROVE  tx.outs[i].addr \in Touched
  <2>1. tx.outs[i] \in ToSet(tx.outs)
    BY <1>2 DEF ToSet
  <2> QED
    BY <1>4, <2>1 DEF Touched
<1> QED
  BY <1>3, <1>4

\* The rows that move something move all the wallet moves.
LEMMA TouchingIsAll ==
  ASSUME TxOK
  PROVE  Flow(Known, Touching) = Flow(Known, Own) /\ Flow(tx.outs, Touching) = Flow(tx.outs, Own)
<1>1. Known \in Seq(Bill) /\ tx.outs \in Seq(Bill)
  BY CoinsAreBills
<1> DEFINE Rest == Own \ Touching
<1>2. Touching \cup Rest = Own /\ Touching \cap Rest = {}
  BY DEF Touching, Touched
<1>3. ASSUME NEW a \in Rest, a \in Touched PROVE Flow(Known, {a}) = 0 /\ Flow(tx.outs, {a}) = 0
  <2>1. ~ (RowEvent(a).spent + RowEvent(a).received > 0)
    BY <1>3 DEF Touching
  <2>2. RowEvent(a).spent = Flow(Known, {a}) /\ RowEvent(a).received = Flow(tx.outs, {a})
    BY DEF RowEvent
  <2>3. Flow(Known, {a}) \in Nat /\ Flow(tx.outs, {a}) \in Nat
    BY <1>1, FlowIsNat
  <2> QED
    BY <2>1, <2>2, <2>3
<1> HIDE DEF Rest
<1>4. ASSUME NEW c \in Seq(Bill),
             \A i \in 1 .. Len(c) : c[i].addr \in Own => c[i].addr \in Touched,
             \A a \in Rest : a \in Touched => Flow(c, {a}) = 0
      PROVE  Flow(c, Touching) = Flow(c, Own)
  <2>1. ASSUME NEW i \in At(c, Rest) PROVE c[i].value = 0
    <3>1. i \in 1 .. Len(c) /\ c[i].addr \in Rest /\ c[i].addr \in Own
      BY <1>2, FlowIsNat DEF At
    <3>2. Flow(c, {c[i].addr}) = 0
      BY <1>4, <3>1
    <3>3. i \in At(c, {c[i].addr})
      BY <2>1 DEF At
    <3> QED
      BY <3>2, <3>3, FlowOfNothing
  <2>2. Flow(c, Rest) = 0
    BY <2>1, FlowOfNothing
  <2>3. Flow(c, Touching \cup Rest) = Flow(c, Touching) + Flow(c, Rest)
    BY <1>2, FlowOfBoth
  <2>4. Flow(c, Touching) \in Nat
    BY FlowIsNat
  <2>5. Flow(c, Own) = Flow(c, Touching) + Flow(c, Rest)
    BY <1>2, <2>3
  <2> DEFINE x == Flow(c, Touching)
             y == Flow(c, Own)
  <2>6. x \in Nat /\ y = x + 0
    BY <2>2, <2>4, <2>5
  <2> HIDE DEF x, y
  <2>7. x = y
    BY <2>6
  <2> QED
    BY <2>7 DEF x, y
<1> QED
  BY <1>1, <1>3, <1>4, OwnCoinsTouch

\* The only address a transaction touches moves all the wallet moves.
LEMMA OneRowIsAll ==
  ASSUME TxOK, NEW a, Touched = {a}
  PROVE  RowEvent(a) = WholeEvent
<1>1. a \in Own
  BY DEF Touched
<1>2. Known \in Seq(Bill) /\ tx.outs \in Seq(Bill)
  BY CoinsAreBills
<1>3. ASSUME NEW c \in Seq(Bill),
             \A i \in 1 .. Len(c) : c[i].addr \in Own => c[i].addr \in Touched
      PROVE  Flow(c, {a}) = Flow(c, Own)
  <2>1. At(c, {a}) \in SUBSET At(c, Own)
    BY <1>1 DEF At
  <2>2. ASSUME NEW i \in At(c, Own) PROVE i \in At(c, {a})
    <3>1. i \in 1 .. Len(c) /\ c[i].addr \in Own
      BY FlowIsNat DEF At
    <3> QED
      BY <1>3, <2>2, <3>1 DEF At
  <2>3. At(c, {a}) = At(c, Own)
    BY <2>1, <2>2
  <2> QED
    BY <2>3, FlowAtSame
<1>4. Flow(Known, {a}) = Flow(Known, Own) /\ Flow(tx.outs, {a}) = Flow(tx.outs, Own)
  BY <1>2, <1>3, OwnCoinsTouch
<1> QED
  BY <1>4 DEF RowEvent, WholeEvent

\* The view of a row alone.
LEMMA RowAlone ==
  ASSUME TxOK, NEW a
  PROVE  /\ Shows(RowEvent(a), {a}, Known, tx.outs)
         /\ RowEvent(a).spent \in Nat /\ RowEvent(a).received \in Nat
<1>1. Known \in Seq(Bill) /\ tx.outs \in Seq(Bill)
  BY CoinsAreBills
<1>2. Flow(Known, {a}) \in Nat /\ Flow(tx.outs, {a}) \in Nat
  BY <1>1, FlowIsNat
<1>3. Alike(Known, Known) /\ Alike(tx.outs, tx.outs)
  BY <1>1, AlikeItself
<1>4. RowEvent(a) = [spent |-> Flow(Known, {a}), received |-> Flow(tx.outs, {a}),
                     out |-> Flow(Known, {a}) > 0, ins |-> Known, outs |-> tx.outs]
  BY DEF RowEvent, Outgoing
<1> DEFINE e == RowEvent(a)
<1>5. /\ e.spent = Flow(Known, {a}) /\ e.received = Flow(tx.outs, {a})
      /\ e.out = (e.spent > 0) /\ e.ins = Known /\ e.outs = tx.outs
  BY <1>4
<1>6. e \in Events
  BY <1>1, <1>2, <1>4 DEF Events
<1> HIDE DEF e
<1> QED
  BY <1>2, <1>3, <1>5, <1>6 DEF Shows, e

\* The view of a row, added to what the poll has.
LEMMA RowJoins ==
  ASSUME TxOK, NEW a, NEW m, NEW A, A # {}, a \notin A, Shows(m, A, Known, tx.outs)
  PROVE  Shows(Merge(m, RowEvent(a)), A \cup {a}, Known, tx.outs)
<1> DEFINE B == A \cup {a}
           e == Merge(m, RowEvent(a))
<1>1. Known \in Seq(Bill) /\ tx.outs \in Seq(Bill)
  BY CoinsAreBills
<1>2. Flow(Known, B) \in Nat /\ Flow(tx.outs, B) \in Nat
  BY <1>1, FlowIsNat
<1>3. /\ m.spent = Flow(Known, A) /\ m.received = Flow(tx.outs, A)
      /\ Alike(m.ins, Known) /\ Alike(m.outs, tx.outs)
  BY DEF Shows
<1>4. Alike(m.ins \o Known, Known) /\ Alike(m.outs \o tx.outs, tx.outs)
  BY <1>1, <1>3, AlikeOnceMore
<1>5. A \cap {a} = {}
  OBVIOUS
<1>6. /\ Flow(Known, B) = Flow(Known, A) + Flow(Known, {a})
      /\ Flow(tx.outs, B) = Flow(tx.outs, A) + Flow(tx.outs, {a})
  BY <1>1, <1>5, FlowOfBoth
<1>7. e = [spent |-> Flow(Known, B), received |-> Flow(tx.outs, B), out |-> Flow(Known, B) > 0,
           ins |-> m.ins \o Known, outs |-> m.outs \o tx.outs]
  BY <1>3, <1>6 DEF Merge, RowEvent, Outgoing
<1>8. m.ins \o Known \in Seq(Bill) /\ m.outs \o tx.outs \in Seq(Bill)
  BY <1>4 DEF Alike
<1>9. e \in Events
  BY <1>2, <1>7, <1>8 DEF Events
<1>10. \A b : B # {b}
  OBVIOUS
<1> DEFINE p == m.ins \o Known
           q == m.outs \o tx.outs
<1> HIDE DEF B, e, p, q
<1>11. /\ e.spent = Flow(Known, B) /\ e.received = Flow(tx.outs, B)
       /\ e.ins = p /\ e.outs = q /\ e.out = (e.spent > 0)
  BY <1>7 DEF p, q
<1>12. Shows(e, B, Known, tx.outs)
  BY <1>4, <1>9, <1>10, <1>11 DEF Shows, p, q
<1> QED
  BY <1>12 DEF B, e

\* A transaction nothing was noticed of.
LEMMA MovesInit ==
  MovementInit => MovesInv
<1> SUFFICES ASSUME MovementInit PROVE MovesInv
  OBVIOUS
<1>1. ASSUME NEW n \in Nat, NEW s \in SeqOf(Coin, n) PROVE s \in Seq(Coin)
  <2>1. PICK m \in 0 .. n : s \in [1 .. m -> Coin]
    BY <1>1 DEF SeqOf
  <2>2. m \in Nat
    BY <2>1
  <2> QED
    BY <2>1, <2>2
<1>2. TxOK
  <2>1. PICK i \in SeqOf(Coin, MaxIns), o \in SeqOf(Coin, MaxOuts) :
          /\ Worth(i) >= Worth(o)
          /\ tx = [ins |-> i, outs |-> o]
    BY DEF MovementInit
  <2>2. i \in Seq(Coin) /\ o \in Seq(Coin) /\ tx.ins = i /\ tx.outs = o
    BY <1>1, <2>1, BoundAssumption
  <2> QED
    BY <2>1, <2>2 DEF TxOK
<1>3. unseen = Touched /\ seen = {} /\ journal = <<>> /\ alerted = <<>>
  BY DEF MovementInit
<1>4. PollKept
  BY <1>3 DEF PollKept
<1>5. \A S : <<>> \in Seq(S) /\ Len(<<>>) = 0 /\ 1 .. 0 = {}
  OBVIOUS
<1>6. JournalKept
  BY <1>3, <1>5 DEF JournalKept
<1>7. AlertsKept
  BY <1>3, <1>5 DEF AlertsKept
<1> QED
  BY <1>2, <1>4, <1>6, <1>7 DEF MovesInv

\* Records and notifications stay as they are while no poll ends and no row is lost.
LEMMA RecordsStay ==
  ASSUME JournalKept, AlertsKept, journal' = journal, alerted' = alerted,
         tx' = tx, missing' = missing,
         seen' \cup unseen' \in SUBSET (seen \cup unseen)
  PROVE  JournalKept' /\ AlertsKept'
<1>1. Touched' = Touched /\ Touching' = Touching /\ Whole' = Whole
  BY TxStays
<1>2. ASSUME NEW r, NEW B, NEW C, RecordOK(r, Touching, B, Whole), C \in SUBSET B
      PROVE  RecordOK(r, Touching, C, Whole)
  BY <1>2 DEF RecordOK
<1>3. JournalKept'
  <2>1. \A j \in 1 .. Len(journal) : RecordOK(journal[j], Touching, seen' \cup unseen', Whole)
    BY <1>2 DEF JournalKept
  <2> QED
    BY <1>1, <2>1 DEF JournalKept
<1>4. AlertsKept'
  BY <1>1 DEF AlertsKept
<1> QED
  BY <1>3, <1>4

\* A row that notices the transaction.
LEMMA MovesNotice ==
  ASSUME MovesInv, NEW w \in Own, Notice(w)
  PROVE  MovesInv'
<1> DEFINE e == RowEvent(w)
<1>1. TxOK /\ PollKept /\ JournalKept /\ AlertsKept
  BY DEF MovesInv
<1>2. /\ w \in unseen /\ unseen' = unseen \ {w}
      /\ tx' = tx /\ missing' = missing /\ journal' = journal /\ alerted' = alerted
  BY DEF Notice
<1>3. \/ merged' = merged /\ seen' = seen
      \/ /\ ~ (e.spent = 0 /\ e.received = 0)
         /\ merged' = IF seen = {} THEN e ELSE Merge(merged, e)
         /\ seen' = seen \cup {w}
  BY DEF Notice
<1>4. /\ Known' = Known /\ Touched' = Touched /\ Touching' = Touching
      /\ \A a : RowEvent(a)' = RowEvent(a)
  BY <1>2, TxStays
<1>5. TxOK'
  BY <1>1, <1>2 DEF TxOK, Worth
<1>6. w \in Touched /\ w \notin seen /\ (seen # {} => Shows(merged, seen, Known, tx.outs))
      /\ unseen \in SUBSET Touched /\ seen \in SUBSET Touching /\ seen \cap unseen = {}
  BY <1>1, <1>2 DEF PollKept
<1>7. JournalKept' /\ AlertsKept'
  <2>1. seen' \cup unseen' \in SUBSET (seen \cup unseen)
    BY <1>2, <1>3
  <2> QED
    BY <1>1, <1>2, <2>1, RecordsStay
<1>8. PollKept'
  <2>1. CASE merged' = merged /\ seen' = seen
    <3>1. seen' # {} => Shows(merged', seen', Known, tx.outs)
      BY <1>6, <2>1
    <3> QED
      BY <1>2, <1>4, <1>6, <2>1, <3>1 DEF PollKept
  <2>2. CASE /\ ~ (e.spent = 0 /\ e.received = 0)
             /\ merged' = IF seen = {} THEN e ELSE Merge(merged, e)
             /\ seen' = seen \cup {w}
    <3>1. /\ Shows(e, {w}, Known, tx.outs)
          /\ e.spent \in Nat /\ e.received \in Nat
      BY <1>1, RowAlone
    <3>2. w \in Touching
      <4>1. e.spent + e.received > 0
        BY <2>2, <3>1
      <4> QED
        BY <1>6, <4>1 DEF Touching
    <3>3. Shows(merged', seen', Known, tx.outs)
      <4>1. CASE seen = {}
        <5>1. merged' = e /\ seen' = {w}
          BY <2>2, <4>1
        <5> QED
          BY <3>1, <5>1
      <4>2. CASE seen # {}
        <5>1. merged' = Merge(merged, e) /\ seen' = seen \cup {w}
          BY <2>2, <4>2
        <5>2. Shows(Merge(merged, e), seen \cup {w}, Known, tx.outs)
          BY <1>1, <1>6, <4>2, RowJoins
        <5> QED
          BY <5>1, <5>2
      <4> QED
        BY <4>1, <4>2
    <3>4. seen' \in SUBSET Touching /\ unseen' \in SUBSET Touched /\ seen' \cap unseen' = {}
      BY <1>2, <1>6, <2>2, <3>2
    <3> QED
      BY <1>2, <1>4, <3>3, <3>4 DEF PollKept
  <2> QED
    BY <1>3, <2>1, <2>2
<1> QED
  BY <1>5, <1>7, <1>8 DEF MovesInv

\* What the wallet's rows say together is what the overview says.
LEMMA TogetherIsWhole ==
  ASSUME TxOK, NEW m, Shows(m, Touching, Known, tx.outs)
  PROVE  SaysWhole(View(m), Whole)
<1>1. Known \in Seq(Bill) /\ tx.outs \in Seq(Bill)
  BY CoinsAreBills
<1>2. /\ m.spent = Flow(Known, Own) /\ m.received = Flow(tx.outs, Own)
      /\ m.out = (m.spent > 0)
      /\ Alike(m.ins, Known) /\ Alike(m.outs, tx.outs)
  BY TouchingIsAll DEF Shows
<1> DEFINE v == View(m)
           t == IF m.out THEN m.outs ELSE m.ins
           k == IF m.out THEN tx.outs ELSE Known
<1>3. /\ v.spent = m.spent /\ v.received = m.received /\ v.out = m.out
      /\ v.parties = Counterparties(t)
  BY DEF View
<1>4. /\ WholeEvent.spent = m.spent /\ WholeEvent.received = m.received
      /\ WholeEvent.out = m.out /\ WholeEvent.ins = Known /\ WholeEvent.outs = tx.outs
  BY <1>2 DEF WholeEvent, Outgoing
<1>5. /\ Whole.spent = m.spent /\ Whole.received = m.received /\ Whole.out = m.out
      /\ Whole.parties = Counterparties(k)
  BY <1>4 DEF Whole, View
<1>6. k \in Seq(Bill) /\ Alike(t, k)
  BY <1>1, <1>2
<1> HIDE DEF v, t, k
<1>7. DOMAIN Counterparties(t) = DOMAIN Counterparties(k)
  BY <1>6, AlikeCounterparties
<1> QED
  BY <1>3, <1>5, <1>7 DEF SaysWhole, v

\* The end of a poll.
LEMMA MovesClose ==
  ASSUME MovesInv, ClosePoll
  PROVE  MovesInv'
<1> DEFINE r == [view |-> View(merged), rows |-> seen]
           n == Len(journal)
           J == Append(journal, r)
<1>1. TxOK /\ PollKept /\ JournalKept /\ AlertsKept
  BY DEF MovesInv
<1>2. /\ seen # {} /\ seen' = {} /\ unseen' = unseen /\ tx' = tx /\ missing' = missing
      /\ journal' = J /\ alerted' = Notified(View(merged))
  BY DEF ClosePoll, Journaled
<1>3. Touched' = Touched /\ Touching' = Touching /\ Whole' = Whole
  BY <1>2, TxStays
<1>4. /\ Shows(merged, seen, Known, tx.outs)
      /\ unseen \in SUBSET Touched /\ seen \in SUBSET Touching /\ seen \cap unseen = {}
  BY <1>1, <1>2 DEF PollKept
<1>5. merged \in Events
  BY <1>4 DEF Shows
<1>6. TxOK'
  BY <1>1, <1>2 DEF TxOK, Worth
<1>7. PollKept'
  BY <1>2, <1>3, <1>4 DEF PollKept
<1>8. RecordOK(r, Touching, unseen, Whole)
  <2>1. r.rows # {} /\ r.rows \in SUBSET Touching /\ r.rows \cap unseen = {}
    BY <1>2, <1>4
  <2>2. r.rows = Touching => SaysWhole(r.view, Whole)
    BY <1>1, <1>4, TogetherIsWhole
  <2> HIDE DEF r
  <2> QED
    BY <2>1, <2>2 DEF RecordOK
<1>9. ASSUME NEW x, RecordOK(x, Touching, seen \cup unseen, Whole)
      PROVE  RecordOK(x, Touching, unseen, Whole) /\ x.rows \cap r.rows = {}
  BY <1>9 DEF RecordOK
<1>10. JournalKept'
  <2>1. /\ journal \in Seq(Records)
        /\ \A j \in 1 .. n : RecordOK(journal[j], Touching, seen \cup unseen, Whole)
        /\ \A i, j \in 1 .. n : i # j => journal[i].rows \cap journal[j].rows = {}
    BY <1>1 DEF JournalKept
  <2>2. r \in Records
    <3>1. Touching \in SUBSET Own
      BY DEF Touching, Touched
    <3> QED
      BY <1>4, <1>5, <3>1 DEF Records
  <2>3. /\ J \in Seq(Records) /\ Len(J) = n + 1 /\ n \in Nat
        /\ \A j \in 1 .. n : J[j] = journal[j]
        /\ J[n + 1] = r
    BY <2>1, <2>2, AppendProperties, LenProperties
  <2> HIDE DEF J, n, r
  <2>4. \A j \in 1 .. n + 1 : j \in 1 .. n \/ j = n + 1
    BY <2>3
  <2>5. \A j \in 1 .. n + 1 : RecordOK(J[j], Touching, unseen, Whole)
    BY <1>8, <1>9, <2>1, <2>3, <2>4
  <2>6. ASSUME NEW i \in 1 .. n + 1, NEW j \in 1 .. n + 1, i # j
        PROVE  J[i].rows \cap J[j].rows = {}
    <3>1. \A k \in 1 .. n : J[k].rows \cap r.rows = {}
      BY <1>9, <2>1, <2>3
    <3>2. CASE i \in 1 .. n /\ j \in 1 .. n
      BY <2>1, <2>3, <2>6, <3>2
    <3>3. CASE i = n + 1
      <4>1. j \in 1 .. n
        BY <2>4, <2>6, <3>3
      <4> QED
        BY <2>3, <3>1, <3>3, <4>1
    <3>4. CASE j = n + 1
      <4>1. i \in 1 .. n
        BY <2>4, <2>6, <3>4
      <4> QED
        BY <2>3, <3>1, <3>4, <4>1
    <3> QED
      BY <2>4, <3>2, <3>3, <3>4
  <2>7. seen' \cup unseen' = unseen
    BY <1>2
  <2> QED
    BY <1>2, <1>3, <2>3, <2>5, <2>6, <2>7 DEF JournalKept
<1>11. AlertsKept'
  <2> DEFINE x == View(merged).amount
             m == Len(alerted)
  <2>1. /\ alerted \in Seq(Amounts)
        /\ \A a : Touched = {a} => \A i \in 1 .. m : alerted[i] = Whole.amount
    BY <1>1 DEF AlertsKept
  <2>2. x \in Amounts
    BY <1>5 DEF Amounts
  <2>3. ASSUME NEW a, Touched = {a} PROVE x = Whole.amount
    <3>1. seen = {a}
      BY <1>2, <1>4, <2>3 DEF Touching
    <3>2. RowEvent(a) = WholeEvent
      BY <1>1, <2>3, OneRowIsAll
    <3>3. Shows(RowEvent(a), {a}, Known, tx.outs)
      BY <1>1, RowAlone
    <3>4. merged = RowEvent(a)
      <4> DEFINE e == RowEvent(a)
      <4>1. /\ merged.spent = e.spent /\ merged.received = e.received /\ merged.out = e.out
            /\ merged.ins = e.ins /\ merged.outs = e.outs
            /\ merged \in Events /\ e \in Events
        BY <1>4, <3>1, <3>3 DEF Shows
      <4> HIDE DEF e
      <4>2. merged = e
        BY <4>1 DEF Events
      <4> QED
        BY <4>2 DEF e
    <3> QED
      BY <3>2, <3>4 DEF Whole
  <2>4. alerted' = alerted \/ alerted' = Append(alerted, x)
    BY <1>2 DEF Notified
  <2>5. CASE alerted' = alerted
    BY <1>3, <2>1, <2>5 DEF AlertsKept
  <2>6. CASE alerted' = Append(alerted, x)
    <3> HIDE DEF x, m
    <3>1. /\ alerted' \in Seq(Amounts) /\ Len(alerted') = m + 1 /\ m \in Nat
          /\ \A i \in 1 .. m : alerted'[i] = alerted[i]
          /\ alerted'[m + 1] = x
      BY <2>1, <2>2, <2>6, AppendProperties, LenProperties DEF m
    <3>2. \A i \in 1 .. m + 1 : i \in 1 .. m \/ i = m + 1
      BY <3>1
    <3>3. ASSUME NEW a, Touched = {a}, NEW i \in 1 .. m + 1 PROVE alerted'[i] = Whole.amount
      <4>1. CASE i \in 1 .. m
        BY <2>1, <3>1, <3>3, <4>1
      <4>2. CASE i = m + 1
        BY <2>3, <3>1, <3>3, <4>2
      <4> QED
        BY <3>2, <4>1, <4>2
    <3> QED
      BY <1>3, <3>1, <3>3 DEF AlertsKept
  <2> QED
    BY <2>4, <2>5, <2>6
<1> QED
  BY <1>6, <1>7, <1>10, <1>11 DEF MovesInv

\* No step lets go of it.
LEMMA MovesStep ==
  MovesInv /\ [MovementNext]_movementVars => MovesInv'
<1> SUFFICES ASSUME MovesInv, [MovementNext]_movementVars PROVE MovesInv'
  OBVIOUS
<1>1. ASSUME NEW w \in Own, Notice(w) PROVE MovesInv'
  BY <1>1, MovesNotice
<1>2. ASSUME ClosePoll PROVE MovesInv'
  BY <1>2, MovesClose
<1>3. ASSUME UNCHANGED movementVars PROVE MovesInv'
  <2>1. /\ tx' = tx /\ missing' = missing /\ unseen' = unseen /\ seen' = seen
        /\ merged' = merged /\ journal' = journal /\ alerted' = alerted
    BY <1>3 DEF movementVars
  <2>2. TxOK /\ PollKept /\ JournalKept /\ AlertsKept
    BY DEF MovesInv
  <2>3. JournalKept' /\ AlertsKept'
    <3>1. seen' \cup unseen' \in SUBSET (seen \cup unseen)
      BY <2>1
    <3> QED
      BY <2>1, <2>2, <3>1, RecordsStay
  <2>4. Known' = Known /\ Touched' = Touched /\ Touching' = Touching
    BY <2>1, TxStays
  <2>5. TxOK'
    BY <2>1, <2>2 DEF TxOK, Worth
  <2>6. PollKept'
    BY <2>1, <2>2, <2>4 DEF PollKept
  <2> QED
    BY <2>3, <2>5, <2>6 DEF MovesInv
<1> QED
  BY <1>1, <1>2, <1>3 DEF MovementNext

\* A transaction touches finitely many addresses of the wallet.
LEMMA TouchedIsFinite ==
  ASSUME TxOK
  PROVE  IsFiniteSet(Touched)
<1>1. ASSUME NEW c \in Seq(Coin)
      PROVE  IsFiniteSet({x.addr : x \in ToSet(c)})
  <2> DEFINE S == 1 .. Len(c)
             f == [i \in S |-> c[i].addr]
             T == {c[i].addr : i \in S}
  <2>1. DOMAIN c = S /\ 1 \in Int /\ Len(c) \in Int
    BY LenProperties
  <2>2. IsFiniteSet(S)
    BY <2>1, FS_Interval
  <2>3. f \in [S -> T] /\ \A t \in T : \E s \in S : f[s] = t
    OBVIOUS
  <2>4. {x.addr : x \in ToSet(c)} = T
    BY <2>1 DEF ToSet
  <2> HIDE DEF S, f, T
  <2>5. f \in Surjection(S, T)
    BY <2>3 DEF Surjection
  <2> QED
    BY <2>2, <2>4, <2>5, FS_Surjection
<1> DEFINE A == {x.addr : x \in ToSet(tx.ins)}
           B == {x.addr : x \in ToSet(tx.outs)}
<1>2. IsFiniteSet(A) /\ IsFiniteSet(B)
  BY <1>1 DEF TxOK
<1>3. Touched \in SUBSET (A \cup B)
  BY DEF Touched
<1> HIDE DEF A, B
<1>4. IsFiniteSet(A \cup B)
  BY <1>2, FS_Union
<1> QED
  BY <1>3, <1>4, FS_Subset

\* The invariant holds the rows of a wallet together.
LEMMA MovesTold ==
  ASSUME MovesInv
  PROVE  ToldAsItIs
<1>1. TxOK /\ JournalKept /\ AlertsKept
  BY DEF MovesInv
<1>2. MergedIsWhole
  <2> SUFFICES ASSUME InOnePoll PROVE SaysWhole(Last(journal).view, Whole)
    BY DEF MergedIsWhole, SaysWhole
  <2> DEFINE n == Len(journal)
  <2>1. /\ n \in Nat /\ DOMAIN journal = 1 .. n
        /\ \A j \in 1 .. n : RecordOK(journal[j], Touching, seen \cup unseen, Whole)
        /\ \A i, j \in 1 .. n : i # j => journal[i].rows \cap journal[j].rows = {}
    BY <1>1, LenProperties DEF JournalKept
  <2>2. PICK j \in 1 .. n : journal[j].rows = Touching
    BY <2>1 DEF InOnePoll, ToSet
  <2>3. Last(journal) = journal[n]
    BY DEF Last
  <2> HIDE DEF n
  <2>4. n \in 1 .. n
    BY <2>1, <2>2
  <2>5. journal[n].rows # {} /\ journal[n].rows \in SUBSET Touching
    BY <2>1, <2>4 DEF RecordOK
  <2>6. j = n
    BY <2>1, <2>2, <2>4, <2>5
  <2>7. SaysWhole(journal[j].view, Whole)
    BY <2>1, <2>2 DEF RecordOK
  <2> QED
    BY <2>3, <2>6, <2>7
<1>3. OneRowExact
  <2> SUFFICES ASSUME Cardinality(Touched) = 1
               PROVE  \A i \in DOMAIN alerted : alerted[i] = Whole.amount
    BY DEF OneRowExact
  <2>1. IsFiniteSet(Touched)
    BY <1>1, TouchedIsFinite
  <2>2. PICK a : Touched = {a}
    BY <2>1, FS_Singleton
  <2>3. DOMAIN alerted = 1 .. Len(alerted)
    BY <1>1, LenProperties DEF AlertsKept
  <2> QED
    BY <1>1, <2>2, <2>3 DEF AlertsKept
<1>4. MoneyAddsUp
  BY <1>1, MoneyAlwaysAddsUp
<1> QED
  BY <1>2, <1>3, <1>4 DEF ToldAsItIs

\* What is journaled of a transaction its rows notice in the same poll is what the
\* overview says of it, what is notified of one that touches a single watched address
\* has the overview's amount, and what the wallet is told left it is what it lost
\* without the fee: for every list of inputs and outputs, whichever rows notice it in
\* whichever poll and whichever previous transactions stay unknown (async_poll,
\* _aggregate_counterparties, _append_activity_log, _notify_activity).
THEOREM ToldAsItHappened == MovementSpec => []ToldAsItIs
<1>1. MovementSpec => []MovesInv
  BY MovesInit, MovesStep, PTL DEF MovementSpec
<1>2. MovesInv => ToldAsItIs
  BY MovesTold
<1> QED
  BY <1>1, <1>2, PTL

=============================================================================
