---------------------------- MODULE MCProxyManager ----------------------------
(* Instances of ProxyManager for TLC. *)
EXTENDS ProxyManager, TLC

\* Servers and groups are only compared for equality.
Symmetry == Permutations(Servers) \cup Permutations(Groups)
===============================================================================
