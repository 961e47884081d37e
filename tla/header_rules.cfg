SPECIFICATION RulesSpec
CONSTANTS
  Base = 4
  Size = 2
  PowLimit = 255
  Window = 3
  Interval = 2
  Timespan = 4
  MinDiffGap = 3
  MaxTimeWarp = 1
  Latest = 27
  Networks = {"mainnet", "testnet3", "testnet4", "regtest"}
  Times = {0, 1, 2, 3, 7, 26, 27, 28}
  Offered <- MCOffered
  MaxLength = 5
INVARIANT AcceptedHeadersSound
CHECK_DEADLOCK FALSE
