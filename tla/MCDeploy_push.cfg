CONSTANTS
  o1 = o1
  o2 = o2
  u1 = u1
  u2 = u2
  b = b
  Existing <- MCExisting
  Units <- MCUnits
  Builds <- MCBuilds
  InitRoutes <- MCExisting
  FailPoints <- PushFailPoints
  CleanupMayFail = FALSE
SPECIFICATION Spec
INVARIANT RollbackLaw
