SPECIFICATION FairSpec
CONSTANTS
  Operates = {op}
  Calls = {call}
  Refreshers = {cycle}
  Unloader = unload
  MaxVersion = 3
INVARIANTS
  TypeOK
  KeyAgreement
  ExpiryShown
  RetryHasNewToken
  AtMostOneExecution
  CurrentSessionAttended
  QueuedAsAwaited
PROPERTIES
  KeyNeverGoesBack
  RefreshIsKeyService
  CallsEnd
