CONSTANTS
  c1 = c1
  c2 = c2
  p1 = p1
  p2 = p2
  Containers <- MCContainers
  Callers = {p1, p2}
  CallOps <- MixedOps
  MaxCalls = 1
  StartMayFail = FALSE
  StopMayFail = FALSE
SPECIFICATION Spec
INVARIANT RecordMatchesDocker
