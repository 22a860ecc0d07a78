CONSTANTS
  c1 = c1
  c2 = c2
  c3 = c3
  r1 = r1
  r2 = r2
  n1 = n1
  Containers <- TwoContainers
  Removers <- OneRemover
  NewUnits <- NewUnit
  MaxRemove = 1
  MaxReports = 0
  StopMayFail = FALSE
  StartMayFail = FALSE
SPECIFICATION Spec
INVARIANT VictimsGoneOnceSettled
SYMMETRY TwoSymmetry
