----------------------------- MODULE MCTunManager -----------------------------
EXTENDS TunManager, TLC

\* Names and servers are interchangeable.
Symmetry == Permutations(Names) \cup Permutations(Servers)
===============================================================================
