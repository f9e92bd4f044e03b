SPECIFICATION Spec
CONSTANTS
  Servers = {s1}
  NoServer = none
  Clients = {c1}
  Backend = "iptables"
  WritesFail = FALSE
PROPERTY NoWindowDuringConnect
