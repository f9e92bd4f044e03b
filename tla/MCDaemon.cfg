SPECIFICATION DaemonSpec
CONSTANTS
  StartPort = 5
  EndPort = 8
  Testers = {t1, t2, t3, t4}
  TestGroups <- Lists
  QueueCap = 2
  Slots = 2
  MaxKeys = 2
  Users = {u1}
  Boot = boot
  Hosts = {h1, h2}
  Home = h1
  NoHost = none
  Starts = 3
INVARIANTS
  RefusedOnlyWhenFull  
  TunAloneOnlyRaced 
CHECK_DEADLOCK FALSE
