SPECIFICATION Spec
CONSTANTS
  Entries = {e1, e2}
  Accounts = {alice, bob}
  Flows = {f1, f2}
  MaxToken = 3
  None = None
SYMMETRY TokenSymmetry
INVARIANTS
  TypeOK
  TokensNotShared
  LoadedAccount
  TokensDurable
  RemovedForGood
  AccountsDistinct
PROPERTIES
  TokensLiveOnce
