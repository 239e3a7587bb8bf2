SPECIFICATION Spec
CONSTANTS
  Shares <- MCShares
  MaxShares = 1
  DirLimits <- MCDirLimits
  NsPerMs = 1000
  Clock <- MCClock
  MaxFailed = 0
INVARIANTS
  FlaggedSharesIgnored
