SPECIFICATION Spec
CONSTANTS
  Servers = {s1}
  NoServer = none
  Clients = {c1}
  Backend = "nft"
  WritesFail = TRUE
PROPERTIES ConnectedOnlyWhenArmed ArmedReplyIsTrue OpensOnlyOnRequest 
