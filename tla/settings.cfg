SPECIFICATION FairSpec
CONSTANTS
  a = a b = b Tor = Tor I2P = I2P Bad = Bad None = None
  Peers = {a, b}
  Reachable = {a}
  Networks = {Tor, I2P}
  Lossy = {I2P}
  Flags = {None, b}
  MaxMoves = 3
  MaxQueue = 1
INVARIANTS TypeOK SyncFollowsSettings ClosedClientsGone
PROPERTY SettingsSettle
CHECK_DEADLOCK FALSE
