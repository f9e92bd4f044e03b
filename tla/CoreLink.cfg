SPECIFICATION FairSpec
CONSTANTS
  N = 2
  Attempts = 1
  Probes = 1
  MaxChanges = 1
  MaxFaults = 1
  MaxCmds = 1
INVARIANTS CommandsFollowEvents StopReported
PROPERTIES AnnouncesLink RecoveryEnds MirrorUnraced
CHECK_DEADLOCK FALSE
