CONSTANTS
  q1 = q1
  q2 = q2
  q3 = q3
  mysql1 = mysql1
  mysql2 = mysql2
  redis1 = redis1
  Callers = {q1, q2, q3}
  InstanceOf <- MCInstanceOf
  FailPoints <- AllFailPoints
  CleanupMayFail = FALSE
SPECIFICATION Spec
INVARIANT TypeOK
INVARIANT InstanceRollback
