----------------------------- MODULE MCSettings -----------------------------
EXTENDS Settings
Bounds == [starts |-> 2, edits |-> 1, cmd |-> 1, faults |-> 1]
=============================================================================
