SPECIFICATION Spec
CONSTANTS
  g = g a1 = a1 a2 = a2 a3 = a3 a4 = a4 b2 = b2 b3 = b3 b4 = b4 x2 = x2 t1 = t1 t2 = t2
  None = None
  Genesis = g
  Blocks <- MCBlocks
  Valid <- MCValid
  Parent <- MCParent
  WalletTxs <- MCWalletTxs
  Txs <- MCTxs
  Branches <- MCBranches
  Best <- MCBest
  Old <- MCOld
  MaxHeight = 4
  SafetyGap = 1
  HeaderBatch = 2
  FilterHeaderBatch = 3
  FilterBatch = 2
  RewindFaults = {}
  MaxTrouble = 4
INVARIANT AnchorIsForFilterStart
