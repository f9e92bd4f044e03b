SPECIFICATION Spec
CONSTANTS
  a = a
  b = b
  Clients <- Procs
  MaxGid = 3
  MaxFaults = 1
  Mixes <- Together
  Envs = {FALSE}
  Limit <- Bounds
  MaxTotal = 3
  Interval = 2
  MaxTime = 4
  MaxRelease = 3
  MaxSlips = 1
  Profiles = {1, 2}
  MaxChanges = 5
  Loggers <- Beside
  MaxSize = 2
  MaxLines = 2
  MaxRecords <- Numbered
  MaxClears <- Mishaps
  MaxMeddling = 2
SYMMETRY Sym
INVARIANTS
  OutcomeIsOwn EditsKept   
   FollowExact TabShowsLog LinkReportTrue
PROPERTY NoCheckStorm
CHECK_DEADLOCK FALSE
