---------------------------- MODULE MCAddUnits ----------------------------
EXTENDS AddUnits

CONSTANTS e1, u1, u2

MCExisting == {e1}
MCUnits == {u1, u2}

\* Every forward call of the pipelines and of addNewRoutes may fail.
AllFailPoints == {"insert", "create", "start", "update", "netinfo",
                  "setImage", "setStatus", "addRoute"}
\* The calls made while the start pipeline runs, and addNewRoutes.
PipelineFailPoints == AllFailPoints \ {"setImage", "setStatus"}
=============================================================================
