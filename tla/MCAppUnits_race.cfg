CONSTANTS
  c1 = c1
  c2 = c2
  c3 = c3
  r1 = r1
  r2 = r2
  Containers <- MCContainers
  Removers <- TwoRemovers
  MaxRemove = 2
  MaxReports = 2
  n1 = n1
  StartMayFail = FALSE
  NewUnits <- NoNewUnit
  StopMayFail = FALSE
SPECIFICATION Spec
INVARIANT NeverRemoveAllUnits
SYMMETRY ContainerSymmetry
