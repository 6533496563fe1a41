------------------------------- MODULE Routing -------------------------------
(***************************************************************************)
(* Which node a request of Sats Sentinel goes to, and how: the source that *)
(* the configuration selects (wallet_watch.py, _select_watch_source) and   *)
(* the guard every HTTP session passes (network.py, async_routed_session). *)
(* Requests interleave at their awaits; each of them may fail or be        *)
(* cancelled, and names resolve to what the network says at that moment.   *)
(***************************************************************************)
EXTENDS Integers, FiniteSetsExt, SequencesExt

CONSTANTS
    Requests,       \* requests in flight
    Sources,        \* configured mempool sources, in the user's order
    Modes,          \* values of query_source
    Electrums,      \* kinds of host of the configured Electrum server, "none" for none
    MaxSteps        \* requests made, retries included

ASSUME RequestsAssumption == IsFiniteSet(Requests)

(* A source has a name, the kind of its host ("lan" for a local name or a  *)
(* private address, "onion", "public"), and says whether it is marked as   *)
(* the owner's, whether its stored route is the direct one, and whether it *)
(* is asked over verified HTTPS.                                           *)
VARIABLES
    config,     \* the options and the watch configuration of the entry
    session,        \* session[r]: where a request is
    active,     \* active[k]: the counter of open connections of a route and host
    tor,        \* tor_requests, tor_successes, tor_failures
    asked,      \* the hosts that were told of a watched address
    made

routingVars == <<config, session, active, tor, asked, made>>

Routes == {"local-direct", "tor"}
NoHost == [name |-> 0, kind |-> "none", secure |-> TRUE]
Closed == [at |-> "idle", host |-> NoHost, route |-> "none", retried |-> FALSE, peer |-> "none"]

-----------------------------------------------------------------------------
(* Selection by configuration, never by health.                            *)

IsOwn(s) == s.own \/ s.direct \/ s.kind = "lan"
OwnOnes == SelectSeq(config.sources, IsOwn)
PublicOnes == SelectSeq(config.sources, LAMBDA s : ~ IsOwn(s) /\ s.kind # "lan")
FirstOf(ss) == IF ss = <<>> THEN NoHost ELSE [name |-> Head(ss).name, kind |-> Head(ss).kind, secure |-> Head(ss).secure]
Electrum == IF config.electrum = "none" THEN NoHost
            ELSE [name |-> -1, kind |-> config.electrum, secure |-> TRUE]
IsElectrum(host) == host.name = -1
Allowed == IF config.allowPublic THEN FirstOf(PublicOnes) ELSE NoHost

\* _select_watch_source
Selected ==
    CASE config.mode = "electrum" -> Electrum
      [] config.mode = "mempool_own" -> FirstOf(OwnOnes)
      [] config.mode = "mempool_public" -> Allowed
      [] config.mode = "auto" ->
           IF Electrum # NoHost THEN Electrum
           ELSE IF OwnOnes # <<>> THEN FirstOf(OwnOnes) ELSE Allowed

\* automatic_mempool_route, and the route of _electrum_source_from_config: a
\* local host directly, every other through Tor. A public source is never local.
Direct(host) == host.kind = "lan"

RoutingInit ==
    /\ config \in [sources : Sources, mode : Modes, electrum : Electrums, allowPublic : BOOLEAN]
    /\ session = [r \in Requests |-> Closed]
    /\ active = [k \in {} |-> 0]
    /\ tor = [begun |-> 0, done |-> 0, failed |-> 0]
    /\ asked = {}
    /\ made = 0

-----------------------------------------------------------------------------
Key(x) == <<x.route, x.host.name>>
CountOf(k) == IF k \in DOMAIN active THEN active[k] ELSE 0
Count(k, n) == [j \in DOMAIN active \cup {k} |-> IF j = k THEN n ELSE active[j]]

Refused(host) == host.kind = "public" /\ ~ host.secure

\* A request to the selected mempool instance. A direct session is counted at
\* once; for Tor the gateway is looked up first, and a public host that is not
\* asked over verified HTTPS is refused before.
Begin(r) ==
    /\ made < MaxSteps /\ made' = made + 1
    /\ session[r].at = "idle" /\ Selected # NoHost /\ ~ IsElectrum(Selected)
    /\ ~ Refused(Selected)
    /\ LET x == [Closed EXCEPT !.host = Selected]
       IN IF Direct(Selected)
          THEN /\ session' = [session EXCEPT ![r] = [x EXCEPT !.at = "connect", !.route = "local-direct"]]
               /\ active' = LET k == <<"local-direct", Selected.name>> IN Count(k, CountOf(k) + 1)
          ELSE /\ session' = [session EXCEPT ![r] = [x EXCEPT !.at = "gateway", !.route = "tor"]]
               /\ UNCHANGED active
    /\ UNCHANGED <<config, tor, asked>>

\* A connection to the Electrum server is made without the guard: it is not
\* counted, and a local server is known by its name, whatever that resolves to.
BeginElectrum(r) ==
    /\ made < MaxSteps /\ made' = made + 1
    /\ session[r].at = "idle" /\ IsElectrum(Selected)
    /\ \/ /\ session' = [session EXCEPT ![r] = [Closed EXCEPT
                 !.at = "open", !.host = Selected,
                 !.route = IF Direct(Selected) THEN "direct" ELSE "socks",
                 !.peer = IF Direct(Selected) THEN "unknown" ELSE "private"]]
          /\ asked' = asked \cup {Selected.name}
       \/ UNCHANGED <<session, asked>>
    /\ UNCHANGED <<config, active, tor>>

EndElectrum(r) ==
    /\ session[r].at = "open" /\ IsElectrum(session[r].host)
    /\ session' = [session EXCEPT ![r] = Closed]
    /\ UNCHANGED <<config, active, tor, asked, made>>

\* async_tor_gateway_host: the aliases in turn; an alias counts when it resolves
\* to private addresses only. Without one there is no session to count.
Gateway(r) ==
    /\ session[r].at = "gateway"
    /\ \/ /\ session' = [session EXCEPT ![r].at = "connect"]
          /\ active' = Count(Key(session[r]), CountOf(Key(session[r])) + 1)
          /\ tor' = [tor EXCEPT !.begun = @ + 1]
       \/ /\ session' = [session EXCEPT ![r] = Closed]
          /\ UNCHANGED <<active, tor>>
    /\ UNCHANGED <<config, asked, made>>

\* Mutant: one private answer is enough.
AcceptsAny(answers) == "private" \in answers
\* _LocalOnlyResolver.resolve
AcceptsAll(answers) == answers # {} /\ answers \subseteq {"private"}

\* Mutant: an error leaves the connection counted.
CloseLeakingly(r, failed) ==
    /\ active' = IF failed THEN active ELSE Count(Key(session[r]), Max({0, CountOf(Key(session[r])) - 1}))
    /\ tor' = IF session[r].route # "tor" THEN tor
              ELSE IF failed THEN [tor EXCEPT !.failed = @ + 1] ELSE [tor EXCEPT !.done = @ + 1]

\* _record_connection_end, _record_tor_success, _record_tor_failure
CloseSession(r, failed) ==
    /\ active' = Count(Key(session[r]), Max({0, CountOf(Key(session[r])) - 1}))
    /\ tor' = IF session[r].route # "tor" THEN tor
              ELSE IF failed THEN [tor EXCEPT !.failed = @ + 1] ELSE [tor EXCEPT !.done = @ + 1]

\* The socket: through Tor to the gateway, else to an address of the name. Only
\* a node that was reached is told of an address.
Connect(r) ==
    /\ session[r].at = "connect"
    /\ \/ /\ session[r].route = "tor"
          /\ session' = [session EXCEPT ![r].at = "open", ![r].peer = "private"]
          /\ asked' = asked \cup {session[r].host.name}
          /\ UNCHANGED <<active, tor>>
       \/ /\ session[r].route = "local-direct"
          /\ \E answers \in SUBSET {"private", "public"}, peer \in {"private", "public"} :
                /\ peer \in answers /\ AcceptsAll(answers)
                /\ session' = [session EXCEPT ![r].at = "open", ![r].peer = peer]
                /\ asked' = asked \cup {session[r].host.name}
          /\ UNCHANGED <<active, tor>>
       \/ /\ CloseSession(r, TRUE)
          /\ session' = [session EXCEPT ![r] = Closed]
          /\ UNCHANGED asked
    /\ UNCHANGED <<config, made>>

\* The answer, an error or a cancellation ends the session.
Respond(r) ==
    /\ session[r].at = "open" /\ ~ IsElectrum(session[r].host)
    /\ \E failed \in BOOLEAN : CloseSession(r, failed)
    /\ session' = [session EXCEPT ![r] = Closed]
    /\ UNCHANGED <<config, asked, made>>

\* _address_api_json: a 404 is asked again under the other path of the same node.
NotFound(r) ==
    /\ made < MaxSteps /\ made' = made + 1
    /\ session[r].at = "open" /\ ~ session[r].retried /\ ~ IsElectrum(session[r].host)
    /\ CloseSession(r, TRUE)
    /\ session' = [session EXCEPT ![r].at = "again", ![r].retried = TRUE, ![r].peer = "none"]
    /\ UNCHANGED <<config, asked>>

Again(r) ==
    /\ session[r].at = "again"
    /\ IF session[r].route = "tor"
       THEN session' = [session EXCEPT ![r].at = "gateway"] /\ UNCHANGED active
       ELSE /\ session' = [session EXCEPT ![r].at = "connect"]
            /\ active' = Count(Key(session[r]), CountOf(Key(session[r])) + 1)
    /\ UNCHANGED <<config, tor, asked, made>>

RoutingNext == \E r \in Requests :
    \/ Begin(r) \/ BeginElectrum(r) \/ EndElectrum(r) \/ Gateway(r)
    \/ Connect(r) \/ Respond(r) \/ NotFound(r) \/ Again(r)
RoutingSpec == RoutingInit /\ [][RoutingNext]_routingVars

-----------------------------------------------------------------------------
Counted(r) == session[r].at \in {"connect", "open"} /\ session[r].route \in Routes

(* The panel's counters: a route to a host shows as many connections as    *)
(* are being made or open, whatever becomes of them, and every session     *)
(* through Tor ends as one success or one failure.                         *)
ActiveIsOpen ==
    /\ \A k \in DOMAIN active : active[k] = Cardinality({r \in Requests : Counted(r) /\ Key(session[r]) = k})
    /\ \A r \in Requests : Counted(r) => Key(session[r]) \in DOMAIN active
    /\ tor.begun = tor.done + tor.failed
                   + Cardinality({r \in Requests : Counted(r) /\ session[r].route = "tor"})

(* A guarded session that does not go through Tor has a private address at *)
(* its other end, and whatever fails and however often, the watched        *)
(* addresses are told to one node.                                         *)
OneNodePrivately ==
    /\ \A r \in Requests : Counted(r) /\ session[r].at = "open" => session[r].peer = "private"
    /\ Cardinality(asked) <= 1

(* What the guard promises of a request: the counters show the connections *)
(* there are, and the addresses go to one node, privately.                 *)
RoutesRight == ActiveIsOpen /\ OneNodePrivately

(* docs/testing/SATS-SENTINEL-TEST.md:102: "Public mempool over Tor is     *)
(* only possible when no own mempool instance is configured and the user   *)
(* explicitly opts in."                                                    *)
PublicOnlyWithoutOwn ==
    \A r \in Requests : session[r].at # "idle" /\ session[r].host.kind = "public" /\ session[r].host.name > 0
        => OwnOnes = <<>>
=============================================================================
