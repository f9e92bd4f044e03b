CONSTANTS
  Clients = {c1}
  MaxGid = 3
  MaxFaults = 0
  Mixes = {{"sub"}}
SPECIFICATION CliSpec
PROPERTY AutoPreservesName
CHECK_DEADLOCK FALSE
