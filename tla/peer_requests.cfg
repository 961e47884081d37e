SPECIFICATION FairSpec
CONSTANTS
  p = p q = q None = None
  Conns = {p, q}
  Pins = {None, p}
  Bloom = {}
  Batches = {1, 2}
  FilterBatch = 2
  Room <- SmallRoom
  MaxLine = 3
  MaxTrouble = 2
INVARIANTS TypeOK OneRequestEach AnswersWhatWasAsked
PROPERTIES CallsEnd BlockedPrimaryGoes
