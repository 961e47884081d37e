SPECIFICATION Spec
CONSTANTS
  Seeds <- MCSeeds
  Requests <- MCRequests
  MaxEntries <- MCMaxEntries
  IntMax = 131071
  MaxSats = 5000
  Received = {1700}
  MaxTxs = 2
  MaxTrouble = 1
INVARIANTS TypeOK PlanSound ChangeStaysOurs
PROPERTY FreshAddressShown
CHECK_DEADLOCK FALSE
