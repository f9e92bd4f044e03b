SPECIFICATION Spec
CONSTANTS
  Servers = {s1}
  Groups = {g1}
  NoProfile = none
  MaxCores = 2
  StartPort = 1
  EndPort = 2
PROPERTIES CrashNoticedOrStolen RetiredWatchersEnd
