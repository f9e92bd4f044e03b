------------------------------ MODULE MCDaemon ------------------------------
(***************************************************************************)
(* Three parts of the core that share no state: the pool of ports, the     *)
(* latency tests that run on them, and the session.  Each is explored      *)
(* while the others rest in one initial state.                             *)
(***************************************************************************)
EXTENDS PortPoolUse, LatencyTest, Session

VARIABLE part

Lists == <<<<1, 2>>, <<3>>>>

DaemonInit ==
  /\ part \in {"ports", "tests", "session"}
  /\ Init /\ TestInit /\ SessionInit
  /\ part = "tests" \/ epoch = 0
DaemonNext ==
  \/ part = "ports" /\ Next /\ UNCHANGED <<part, testVars, sessionVars>>
  \/ part = "tests" /\ TestNext /\ UNCHANGED <<part, vars, sessionVars>>
  \/ part = "session" /\ SessionNext /\ UNCHANGED <<part, vars, testVars>>
DaemonSpec == DaemonInit /\ [][DaemonNext]_<<part, vars, testVars, sessionVars>>
=============================================================================
