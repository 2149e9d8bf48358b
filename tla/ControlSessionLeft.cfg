SPECIFICATION Spec
CONSTANTS
  Operates = {op}
  Calls = {call1, call2}
  Refreshers = {cycle}
  Unloader = unload
  MaxVersion = 3
INVARIANT NoSessionLeft
SYMMETRY TaskSymmetry
