SPECIFICATION Spec
CONSTANTS
  None = None
  Modulus = 8
  Timeout = 1
  MaxAge = 1
  SettingNames = {auto_lock}
  SettingValues = {0, 30}
  Keys = {k1}
  Rssis = {1}
  Operator = operator
  Writer = writer
  Reader = reader
  MaxGen = 3
PROPERTY StaleFlagNeverZeroes
