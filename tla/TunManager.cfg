SPECIFICATION Spec
CONSTANTS
  Names = {n1, n2}
  Servers = {s1}
  None = none
  Clients = {c1}
  Backend = "nft"
  MaxFaults = 1
  MaxDeaths = 1
INVARIANTS  BypassBeforeCapture  
SYMMETRY Symmetry
