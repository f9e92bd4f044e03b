----------------------------- MODULE PortPoolUse -----------------------------
(***************************************************************************)
(* Goroutines that share the port pool: each asks for a port, uses it and  *)
(* gives it back (testViaXray in lib/proxy/mainproxy/probe.go).  A test    *)
(* that finds the pool exhausted reports "no free test port available".    *)
(***************************************************************************)
EXTENDS PortPool, FiniteSets

CONSTANT Testers      \* the goroutines that run latency tests

ASSUME TestersAssumption == IsFiniteSet(Testers)

VARIABLES
  pool,     \* the PortPool
  held,     \* the port each goroutine holds, NoPort when it has none
  refused,  \* the goroutines whose last GetPort failed
  last      \* the port handed out most recently, NoPort before the first

vars == <<pool, held, refused, last>>

TypeOK ==
  /\ pool \in Pool
  /\ held \in [Testers -> Ports \cup {NoPort}]
  /\ refused \subseteq Testers
  /\ last \in Ports \cup {NoPort}

Init ==
  /\ pool = CreatePortPool
  /\ held = [t \in Testers |-> NoPort]
  /\ refused = {}
  /\ last = NoPort

\* port, err := p.portPool.GetPort() at the head of testViaXray.
Acquire(t) ==
  /\ held[t] = NoPort
  /\ held' = [held EXCEPT ![t] = GrantedPort(pool)]
  /\ pool' = GetPort(pool)
  /\ refused' = IF Exhausted(pool) THEN refused \cup {t} ELSE refused \ {t}
  /\ last' = IF Exhausted(pool) THEN last ELSE GrantedPort(pool)

\* The deferred ReleasePort, run on every way out of testViaXray.
Finish(t) ==
  /\ held[t] # NoPort
  /\ pool' = ReleasePort(pool, held[t])
  /\ held' = [held EXCEPT ![t] = NoPort]
  /\ refused' = {}
  /\ UNCHANGED last

Next == \E t \in Testers : Acquire(t) \/ Finish(t)

Spec == Init /\ [][Next]_vars

-------------------------------------------------------------------------------
(* Properties *)

\* Two tests never bind the same local port: a second Xray on it would fail to
\* listen and the test would blame the server.
NoSharedPort ==
  \A t, u \in Testers : t # u /\ held[t] # NoPort => held[t] # held[u]

\* The in_use map records exactly the ports somebody holds: none leaks, none is
\* free while a test still listens on it.
PoolMatchesHolders == pool.in_use = {held[t] : t \in Testers} \ {NoPort}

\* "no port available" is reported only when every port of the range is held,
\* wherever the cursor stands: the scan wraps and misses no port.
RefusedOnlyWhenFull ==
  refused # {} => Cardinality({held[t] : t \in Testers} \ {NoPort}) = RangeSize

\* A port is not handed out twice in a row while another one is free, so a
\* listener that was just closed is not bound again at once.
NoImmediateReuse ==
  [][ last' # last \/ pool'.in_use \subseteq pool.in_use
      \/ pool'.in_use \cup {last} = Ports ]_vars
===============================================================================
