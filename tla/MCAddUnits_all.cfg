CONSTANTS
  e1 = e1
  u1 = u1
  u2 = u2
  Existing <- MCExisting
  Units <- MCUnits
  Builds = {}
  FailPoints <- PipelineFailPoints
  CleanupMayFail = FALSE
SPECIFICATION Spec
INVARIANT TypeOK
INVARIANT UnitsConsistent
INVARIANT AddedUnitsServe
INVARIANT RollbackLaw
