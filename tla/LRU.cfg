CONSTANTS
  Keys = {k1, k2, k3, k4}
  Values = {v1, v2}
  Size <- MCSize
  NoValue = NoValue
  MaxCalls = 5
SPECIFICATION Spec
INVARIANTS TypeOK Consistent CallbackOnlyForTheGone
PROPERTIES LeavesThroughCallback IsRecencyCache
