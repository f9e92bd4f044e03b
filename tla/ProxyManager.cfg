SPECIFICATION Spec
CONSTANTS
  Servers = {s1, s2}
  Groups = {g1, g2}
  NoProfile = none
  MaxCores = 2
  StartPort = 1
  EndPort = 3
INVARIANTS SingleCore ConnectedIsWatched OnlyCrashesReported StatsPortReserved
SYMMETRY Symmetry
