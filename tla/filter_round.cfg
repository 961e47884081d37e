SPECIFICATION FairSpec
CONSTANTS
  p = p q = q liar = liar Correct = Correct noInputs = noInputs noOutputs = noOutputs
  None = None
  Peers = {p, q, liar}
  Honest = {p, q}
  Pins = {None, p}
  Filters = {Correct, noInputs, noOutputs}
  Complete = {Correct, noInputs}
  Blocks = 3
  FilterHeaderBatch = 2
  FilterBatch = 1
  TargetPeers = 3
  MaxTrouble = 2
INVARIANTS TypeOK PinnedProtects OneHonestEnough HonestMajorityWins
PROPERTIES EventuallySynced
