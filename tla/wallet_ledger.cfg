SPECIFICATION LedgerSpec
CONSTANTS
  A0 = A0 X = X Elsewhere = Elsewhere
  fund = fund tx0 = tx0 tx1 = tx1 dbl = dbl gift = gift give = give
  f0 = f0 x0 = x0 y0 = y0 d0 = d0 g0 = g0 e0 = e0
  Txs <- MCTxs
  Outputs <- MCOutputs
  Creator <- MCCreator
  Spends <- MCSpends
  Address <- MCAddress
  Value <- MCValue
  Branches <- MCBranches
  Addrs = {A0, X}
  FirstAddrs = {A0}
  MaxPending = 2
  MaxRestarts = 2
  MaxReorgs = 2
INVARIANTS LedgerTypes LateAddressFollowed FirstAddressesSettled AmountsAgree
PROPERTIES RescanArrives
CHECK_DEADLOCK FALSE
