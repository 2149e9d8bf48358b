SPECIFICATION FairSpec
CONSTANTS
  Loads = {load1, load2}
  Serials = {s1, s2}
  Hours = {0, 1}
  Minutes = {30, 90}
  Default = 2
  None = None
INVARIANTS
  TypeOK
  NothingOutlivesTheEntry
  OptionsInForce
PROPERTIES
  RefreshIsPeriodic
  CycleTriesAll
  KeysKeepRefreshing
