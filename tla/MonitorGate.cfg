SPECIFICATION FairSpec
CONSTANTS
  None = None
  Unavailable = Unavailable
  Modulus = 6
  Timeout = 1
  StaleEvery = 1
  MaxAge = 2
  SettingNames = {}
  SettingValues = {0}
  Keys = {k1}
  Rssis <- OneRssi
  Serials = {s1}
  Window = 2
  FirstGen = 4
  MaxLead = 2
  MaxGen = 7
INVARIANTS
  ReceivedIsReported
PROPERTIES
  ReportIsLatest
  ReportConverges
