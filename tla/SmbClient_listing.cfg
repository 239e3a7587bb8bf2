SPECIFICATION FairSpec
CONSTANTS
  Shares <- MCShares
  MaxShares = 3
  DirLimits <- MCDirLimits
  NsPerMs = 1000
  Clock <- MCClock
  MaxFailed = 2
INVARIANTS
  TypeOK
  DirsInServerOrder
  NoShareForgotten
  ListingOrFailure
  AllReleased
  TimeoutIsOneSecond
PROPERTIES
  ImplementsUtility
