SPECIFICATION Spec
CONSTANTS
  None = None
  Unavailable = Unavailable
  Modulus = 4
  Timeout = 10
  StaleEvery = 2
  MaxAge = 12
  SettingNames = {}
  SettingValues = {0}
  Keys = {k1}
  Rssis <- OneRssi
  Serials = {s1}
  Window = 0
  FirstGen = 0
  MaxLead = 1
  MaxGen = 0
INVARIANT StaleIsShown
