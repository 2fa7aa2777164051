\* A user with one tab, who may not override, and a peer.
CONSTANTS
  ada = ada
  bob = bob
  Tab = {t1}
  UserOf <- MCUserOf
  Peer = {bob}
  Admin = {bob}
  NoOne = NoOne
  Ttl = 2
SPECIFICATION PenClientSpec
INVARIANT PenClientTypeOK
PROPERTY AbandonedPenLapses
PROPERTY BeliefCorrected
