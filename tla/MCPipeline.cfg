CONSTANTS
  N = 2
  Last = 4
  Sub <- MCSub
  At <- MCAt
  Kind <- MCKind
  Configs <- MCConfigs
  AnyConfig <- MCAnyConfig
  MaxRetry = 2
  MaxCrashes = 2
SPECIFICATION ParseSpec
INVARIANTS TypeOK InOrder NoneLeftBehind SameContext
  ConfigTypeOK EveryParameterFound IdsAreFresh StepsGrow
PROPERTY Terminates
