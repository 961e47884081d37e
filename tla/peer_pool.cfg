SPECIFICATION FairSpec
CONSTANTS
  p = p a = a b = b o = o tor = tor
  None = None
  Direct = Direct
  Addrs = {p, a, b, o}
  Overlays = {tor}
  NetworkOf <- MCNetworkOf
  Reliable = {b, o}
  TargetPeers = 2
  Workers = 2
  Pins = {None, p, a}
  MaxChanges = 2
INVARIANTS TypeOK UnwantedConnsClose PoolBounded
PROPERTY PrimaryFound
CHECK_DEADLOCK FALSE
