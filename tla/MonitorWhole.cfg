SPECIFICATION Spec
CONSTANTS
  None = None
  Unavailable = Unavailable
  Modulus = 4
  Timeout = 3
  StaleEvery = 2
  MaxAge = 5
  SettingNames = {auto_lock}
  SettingValues = {0}
  Keys = {k1, k2}
  Rssis <- TwoRssis
  Serials = {s1}
  Window = 0
  FirstGen = 0
  MaxLead = 1
  MaxGen = 1
INVARIANTS
  TypeOK
  ShownIsCurrent
  FreshIsHeard
  ReceivedIsReported
  AvailabilityLogged
  OverdueShownOnlyAfterPoll
SYMMETRY KeySymmetry
