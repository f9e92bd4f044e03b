SPECIFICATION Spec
CONSTANTS
  Servers = {s1, s2}
  NoServer = none
  Clients = {c1}
  Backend = "iptables"
  WritesFail = TRUE
INVARIANTS OffMeansOpen LiveServerAllowed
