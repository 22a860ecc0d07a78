CONSTANTS
  c1 = c1
  c2 = c2
  p1 = p1
  p2 = p2
  Containers <- MCContainers
  Callers = {p1}
  CallOps <- SequentialOps
  MaxCalls = 3
  StartMayFail = TRUE
  StopMayFail = FALSE
SPECIFICATION Spec
INVARIANT TypeOK
INVARIANT StartReturnsStarted
INVARIANT NoOrphanContainer
INVARIANT DestroyRemovesApp
