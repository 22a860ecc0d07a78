CONSTANTS
  c1 = c1
  c2 = c2
  c3 = c3
  r1 = r1
  r2 = r2
  Containers <- MCContainers
  Removers <- OneRemover
  MaxRemove = 3
  MaxReports = 1
  n1 = n1
  StartMayFail = TRUE
  NewUnits <- NewUnit
  StopMayFail = FALSE
SPECIFICATION Spec
INVARIANT TypeOK
INVARIANT NeverRemoveAllUnits
INVARIANT RemovedUnitsGone
SYMMETRY ContainerSymmetry
