SPECIFICATION Spec
CONSTANTS
  Entries = {e1}
  Accounts = {alice, bob}
  Flows = {f1}
  MaxToken = 3
  None = None
PROPERTY SetupSeesLogin
