----------------------------- MODULE MCDeploy -----------------------------
EXTENDS Deploy

CONSTANTS o1, o2, u1, u2, b

MCExisting == {o1, o2}
MCUnits == {u1, u2}
MCBuilds == {b}
\* The router has lost the route of o2 (ErrRouteNotFound on removal).
MCPartialRoutes == {o1}

\* Every forward call of the build pipeline and of the replace-units
\* pipeline may fail, setImage/setStatus and pushImage excepted.
PipelineFailPoints == {"insert", "create", "start", "update", "netinfo",
                       "build", "commit", "addRoute", "removeRoute"}
\* The calls whose failure leaves a side effect behind.
PushFailPoints == {"push"}
RouteFailPoints == {"removeRoute"}
\* p.deploy's listContainersByApp may fail; nothing else does.
ListFailPoints == {"list"}
=============================================================================
