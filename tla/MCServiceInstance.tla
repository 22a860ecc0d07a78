-------------------------- MODULE MCServiceInstance --------------------------
EXTENDS ServiceInstance

CONSTANTS q1, q2, q3, mysql1, mysql2, redis1

\* Three requests, each for an instance of its own.
MCInstanceOf == [p \in {q1, q2, q3} |->
                   CASE p = q1 -> mysql1 [] p = q2 -> mysql2 [] p = q3 -> redis1]
AllFailPoints == {"getClient", "create", "conn", "insert"}
=============================================================================
