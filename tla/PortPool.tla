------------------------------- MODULE PortPool -------------------------------
(***************************************************************************)
(* The pool of local TCP ports of the daemon (lib/PortPool/port-pool.go).  *)
(* Latency tests take their SOCKS port from it and the connected Xray its  *)
(* StatsService port.  Every method runs under the pool's own mutex, so a  *)
(* method is an operator from one pool value to the next.                  *)
(***************************************************************************)
EXTENDS Integers

CONSTANTS StartPort, EndPort   \* the half-open range [StartPort, EndPort)

\* CreatePortPool aborts the daemon on any other range; zero is accepted.
ASSUME RangeAssumption ==
  /\ StartPort \in Nat
  /\ EndPort \in Nat
  /\ StartPort < EndPort

RangeSize == EndPort - StartPort
Ports == StartPort .. (EndPort - 1)

\* What GetPort returns next to its error.
NoPort == -1

Pool == [in_use : SUBSET Ports, next_hint : Ports]
CreatePortPool == [in_use |-> {}, next_hint |-> StartPort]

\* The port GetPort looks at in its i-th iteration.
Candidate(pool, i) ==
  StartPort + ((pool.next_hint + i - StartPort) % RangeSize)

\* Mutant: the scan stops at the end of the range instead of wrapping.
FreeAtNoWrap(pool) ==
  {i \in 0 .. (EndPort - 1 - pool.next_hint) : Candidate(pool, i) \notin pool.in_use}

FreeAt(pool) == {i \in 0 .. (RangeSize - 1) : Candidate(pool, i) \notin pool.in_use}

Exhausted(pool) == FreeAt(pool) = {}

\* The port GetPort hands out, NoPort when every candidate is taken.
GrantedPort(pool) ==
  IF Exhausted(pool) THEN NoPort
  ELSE Candidate(pool, CHOOSE i \in FreeAt(pool) : \A j \in FreeAt(pool) : i <= j)

\* The cursor after the allocation of a port: it wraps at the end of the range.
HintAfter(port) == IF port + 1 >= EndPort THEN StartPort ELSE port + 1

\* The pool after GetPort.
GetPort(pool) ==
  IF Exhausted(pool) THEN pool
  ELSE [in_use    |-> pool.in_use \cup {GrantedPort(pool)},
        next_hint |-> HintAfter(GrantedPort(pool))]

\* The pool after ReleasePort; ports that are not positive are ignored.
ReleasePort(pool, port) ==
  IF port <= 0 THEN pool ELSE [pool EXCEPT !.in_use = @ \ {port}]
===============================================================================
